----------------------------- MODULE Approvals -----------------------------
(***************************************************************************)
(* ApprovalStore (distribution/approvals.py): single-use confirmations of  *)
(* an exact plan.  A plan prints its effects and issues a token bound to   *)
(* its fingerprint; the operation computes the plan again and consumes the *)
(* token.  consume renames the record before it reads it, so a token is    *)
(* gone whether or not it turns out to be good for the plan.               *)
(***************************************************************************)
EXTENDS Naturals

CONSTANTS
    Token,           \* tokens, never reused (256 random bits)
    Unissued, Spent  \* states of a token without a plan

ASSUME TokenAssumption == Unissued # Spent

VARIABLE token       \* token[t]: the plan t is bound to, Unissued or Spent

ApprovalInit == token = [t \in Token |-> Unissued]

(* issue: O_EXCL creates the record of a token that is new.  Tokens differ *)
(* in nothing else, so that any new one stands for them all.               *)
Issue(t, plan) ==
    /\ token[t] = Unissued /\ t = CHOOSE u \in Token : token[u] = Unissued
    /\ token' = [token EXCEPT ![t] = plan]

(* consume, when the record is there, bound to this plan and in time.      *)
Consume(t, plan) ==
    /\ token[t] = plan
    /\ token' = [token EXCEPT ![t] = Spent]

(* consume of a token that expired or belongs to another plan.             *)
ConsumeInVain(t) ==
    /\ token[t] \notin {Unissued, Spent}
    /\ token' = [token EXCEPT ![t] = Spent]
=============================================================================
