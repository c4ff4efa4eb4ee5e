CONSTANTS
    c1 = c1
    c2 = c2
    m1 = m1
    m2 = m2
    q1 = q1
    q2 = q2
    m3 = m3
    q3 = q3
    Client = {c1, c2}
    Hosted = {}
    Content = {m1, m2}
    NoContent = NoContent
    Proposal = {q1, q2}
    NoProposal = NoProposal
    MaxRevision = 3
    MaxEdits = 0
SPECIFICATION Spec
SYMMETRY ModelSymmetry
PROPERTIES
    NoLastWriteWins
