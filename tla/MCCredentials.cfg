SPECIFICATION Spec
CONSTANTS
    Sessions = {s1, s2}
    Handles = {h1, h2}
    UseKeys = {u1, u2}
    MaxEpoch = 1
    NoOne = NoOne
SYMMETRY Symmetry
INVARIANTS
    RevocationLeavesNoneLive
PROPERTIES
    ConsumedOnceUnrevoked
