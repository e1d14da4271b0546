SPECIFICATION Spec
CONSTANTS
    Callers = {c1, c2}
    Processes = {p1}
    Keys = {k1, k2, k3}
    Limit = 2
    MaxCost = 1
    NoKey = NoKey
INVARIANTS
    BudgetBalances
    ProviderCallIsPaidFor
PROPERTIES
    ExecutingIsSettled
CHECK_DEADLOCK FALSE
