CONSTANTS
    n1 = n1
    n2 = n2
    n3 = n3
    Nodes = {n1, n2, n3}
    MaxErrors = 1
    MaxWorkers = 2
    Scenarios <- DeleteScenarios
SPECIFICATION Spec
INVARIANTS ReplicaHoldsData
CHECK_DEADLOCK FALSE
