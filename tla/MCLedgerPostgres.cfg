SPECIFICATION Spec
CONSTANTS
    Keys = {k1, k2}
    Hashes = {h1}
    ExecIds = {e1, e2, e3}
    None = None
    Backend = "postgres"
    MaxEvents = 4
    MaxFence = 4
SYMMETRY Symmetry
INVARIANTS
    StartedAtMostOnce
    EventsTellOutcome
PROPERTIES
    TerminalIsFinal
    UnknownNeverFails
