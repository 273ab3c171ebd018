\* Two ids, one unit, both providers: how tasks meet each other, DELETE_CLASS,
\* the purge of drops and the TTL.
CONSTANTS
    Nodes = {n1}
    NoNode = NoNode
    UnitIds = {u1}
    Groups = {g1}
    Collections = {"A"}
    Scopes = {p, q}
    Payloads <- MeetingPayloads
    Barriers = {FALSE}
    MaxProgress = 1
    NoTask = NoTask
    Namespaces = {"reindex", "dropVector"}
    TaskIds = {t1, t2}
    RetryBudgets = {0}
    CompletedTaskTTL = 0
    MaxIndex = 2
    MaxTime = 2
SPECIFICATION Spec
SYMMETRY Symmetry
CHECK_DEADLOCK FALSE
INVARIANTS
    NoConflictingActive
    VersionsUnique
PROPERTIES
    ActiveReindexKept
    ActiveGoesWithItsClass
