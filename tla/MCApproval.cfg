SPECIFICATION Spec
CONSTANTS
    k1 = k1
    Sessions = {s1, s2}
    Approvers = {a1, a2, a3, a4}
    Eligible = {a1, a2, a3}
    Clients = {c1}
    IdemKeys = {k1, k2}
    Requests <- MCRequests
    MinimumApprovers = 2
    NoOne = NoOne
SYMMETRY Symmetry
INVARIANTS
    QuorumDecides
    GrantAndCaseAgree
PROPERTIES
    ConsumptionIsAuthorised
