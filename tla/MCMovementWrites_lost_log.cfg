CONSTANTS
    Source = "s"
    Target = "t"
    Scenarios <- LostLogScenarios
SPECIFICATION Spec
INVARIANTS TargetIsCurrent
CHECK_DEADLOCK FALSE
