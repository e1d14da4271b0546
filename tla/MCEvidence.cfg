SPECIFICATION Spec
CONSTANTS
    Executions = {x1}
    Decisions = {d1}
    Alerts = {alert}
    Workers = {w1, w2}
    Given <- GivenEvents
    MaxSigned = 1
    MaxFaults = 1
    NoOne = NoOne
INVARIANTS
    DeliveredOnce
CHECK_DEADLOCK FALSE
PROPERTIES
    SignedAboutCurrentChain
    DecisionsAreDelivered
