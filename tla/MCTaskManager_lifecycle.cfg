\* One task id, two nodes, two units: everything that can happen to a task.
CONSTANTS
    Nodes = {n1, n2}
    NoNode = NoNode
    UnitIds = {u1, u2}
    Groups = {g1}
    Collections = {"A"}
    Scopes = {p}
    Payloads <- OnePayload
    Barriers = {TRUE, FALSE}
    MaxProgress = 2
    NoTask = NoTask
    Namespaces = {"reindex"}
    TaskIds = {t1}
    RetryBudgets = {0, 1}
    CompletedTaskTTL = 0
    MaxIndex = 2
    MaxTime = 2
SPECIFICATION Spec
SYMMETRY Symmetry
CHECK_DEADLOCK FALSE
INVARIANTS
    TypeOK
    WorkDoneBeforeBarrier
    BarrierHeld
    EndStamped
    RetryBudgetKept
PROPERTIES
    TerminalIsFinal
    ReportsStand
    ImplementsLifecycle
