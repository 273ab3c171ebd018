CONSTANTS
    Source = "s"
    Target = "t"
    Scenarios <- DeleteScenarios
SPECIFICATION Spec
INVARIANTS TargetIsCurrent
CHECK_DEADLOCK FALSE
