SPECIFICATION Spec
CONSTANTS
    c3 = c3
    k1 = k1
    h1 = h1
    h2 = h2
    i1 = i1
    None = None
    Calls = {c1}
    Keys = {k1}
    Hashes = {h1, h2}
    ExecIds = {e1}
    Backend = "postgres"
    MaxEvents = 4
    KeyOf <- MCKeyOf
    RequestOf <- MCRequestOf
    InstanceOf <- MCInstanceOf
    HashOf <- MCHashOf
INVARIANT FailedMeansNoEffect
