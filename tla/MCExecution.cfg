SPECIFICATION Spec
CONSTANTS
    c3 = c3
    k1 = k1
    h1 = h1
    h2 = h2
    i1 = i1
    None = None
    Calls = {c1, c2, c3}
    Keys = {k1}
    Hashes = {h1, h2}
    ExecIds = {e1, e2}
    Backend = "postgres"
    MaxEvents = 4
    KeyOf <- MCKeyOf
    RequestOf <- MCRequestOf
    InstanceOf <- MCInstanceOf
    HashOf <- MCHashOf
SYMMETRY Symmetry
INVARIANTS
    OneToolRequestPerKey
    PreparedMeansUntouched
    SucceededIsReal
    ToolRequestCitesReservation
    TerminalOutcomesAgree
