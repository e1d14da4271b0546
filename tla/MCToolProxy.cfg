SPECIFICATION ProxySpec
CONSTANTS
    p1 = p1
    p2 = p2
    p3 = p3
    p4 = p4
    k1 = k1
    r1 = r1
    r2 = r2
    i1 = i1
    i2 = i2
    None = None
    Calls = {p1, p2, p3, p4}
    Keys = {k1}
    KeyOf <- MCKeyOf
    RequestOf <- MCRequestOf
    InstanceOf <- MCInstanceOf
INVARIANTS
    AtMostOneDispatch
    RejectedMeansNotDispatched
    SuccessMeansPerformed
PROPERTIES
    ExecutingSettles
    ImplementsEffectOnce
CHECK_DEADLOCK FALSE
