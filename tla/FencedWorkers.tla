--------------------------- MODULE FencedWorkers ---------------------------
(***************************************************************************)
(* Incarnations of the managed runtime over one RunStore, seen from the    *)
(* requests they serve: one of them holds the newest fence token, and a    *)
(* transaction of any other raises (CoordinatorLease shows what this rests *)
(* on).  A request is served to its end before the next one is.            *)
(***************************************************************************)
EXTENDS Naturals

CONSTANTS
    Worker,          \* incarnations of the runtime
    MaxTakeovers     \* bound on how often the fence changes hands

ASSUME WorkerAssumption == Worker # {} /\ MaxTakeovers \in Nat

VARIABLES
    fence,           \* the worker whose token is the newest
    takeovers        \* how often it changed

fenceVars == <<fence, takeovers>>

FencedInit == fence \in Worker /\ takeovers = 0

(* A new incarnation, which has its token before it serves a request.      *)
TakeFence(w) ==
    /\ fence # w /\ takeovers < MaxTakeovers
    /\ fence' = w /\ takeovers' = takeovers + 1
=============================================================================
