CONSTANTS
    n1 = n1
    n2 = n2
    n3 = n3
    Nodes = {n1, n2, n3}
    MaxErrors = 1
    MaxWorkers = 1
    Scenarios <- LivenessScenarios
SPECIFICATION Spec
PROPERTIES CancelSettles MovementSettles
CHECK_DEADLOCK FALSE
