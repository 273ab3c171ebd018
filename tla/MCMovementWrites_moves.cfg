CONSTANTS
    Source = "s"
    Target = "t"
    Scenarios <- WriteScenarios
SPECIFICATION Spec
INVARIANTS TypeOK TargetIsCurrent QuorumReadSeesAck JoinsFresh
PROPERTIES MovementEnds
CHECK_DEADLOCK FALSE
