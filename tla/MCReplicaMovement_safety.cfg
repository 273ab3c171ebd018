CONSTANTS
    n1 = n1
    n2 = n2
    n3 = n3
    Nodes = {n1, n2, n3}
    MaxErrors = 1
    MaxWorkers = 1
    Scenarios <- SafetyScenarios
SPECIFICATION Spec
INVARIANTS TypeOK ReplicaHoldsData EnoughReplicas JoinStands CaptureStops CancelLeavesNoResidue
PROPERTIES NeverGoesBack ImplementsLifecycle
CHECK_DEADLOCK FALSE
