SPECIFICATION Spec
CONSTANTS
    Commands = {c1, c2, c3}
    b1 = b1
    b2 = b2
    policy = policy
    Bundles = {b1, b2}
    PolicyOf <- OnePolicy
    Stages = 2
    Executors = {x1, x2}
    Handlers = {h1, h2}
    MaxVersion = 3
    MaxFaults = 1
    NoOne = NoOne
INVARIANTS
    EnforcementFollowsAdministration
    StagesInOrder
PROPERTIES
    ActivationCompletes
CHECK_DEADLOCK FALSE
