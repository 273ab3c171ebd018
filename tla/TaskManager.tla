------------------------------ MODULE TaskManager ------------------------------
(***************************************************************************)
(* The distributed-task Manager: the Raft state machine that holds every   *)
(* task of the cluster.  One action per Raft command, plus the two         *)
(* deletions the schema state machine triggers.  Any caller may issue any  *)
(* command with any arguments; a command the Manager refuses or drops      *)
(* changes nothing and is a stuttering step.                               *)
(***************************************************************************)
EXTENDS DistributedTask

CONSTANTS
    NoTask,         \* the value of a key no task is stored under
    Namespaces,     \* the registered providers: "reindex", "dropVector"
    TaskIds,        \* the ids tasks are submitted under
    Payloads,       \* the payloads a request may carry
    Barriers,       \* the NeedsPreparationBarrier values it may carry
    RetryBudgets,   \* the MaxUnitRetries a request may carry
    CompletedTaskTTL,
    MaxIndex,       \* bound: Raft index of the last AddTask
    MaxTime         \* bound: the clock

ASSUME NoTaskAssumption == ~IsTask(NoTask)
ASSUME AbsentAssumption == NoTask \notin [version : Nat, barrier : BOOLEAN, status : TaskStatus]
ASSUME NamespacesAssumption == Namespaces \subseteq {"reindex", "dropVector"}
ASSUME RequestsAssumption == /\ Payloads \subseteq Payload
                             /\ Barriers \subseteq BOOLEAN
                             /\ RetryBudgets \subseteq Nat
ASSUME BoundsAssumption == /\ CompletedTaskTTL \in Nat
                           /\ MaxIndex \in Nat
                           /\ MaxTime \in Nat

\* A task is stored under <<namespace, id>>.
TaskKeys == Namespaces \X TaskIds

VARIABLES
    tasks,          \* key -> task, or NoTask
    index,          \* Raft index of the last AddTask that was applied
    now             \* the clock the commands are stamped from

vars == <<tasks, index, now>>

TypeOK == /\ tasks = [k \in TaskKeys |-> tasks[k]]
          /\ \A k \in TaskKeys : tasks[k] = NoTask \/ IsTask(tasks[k])
          /\ index \in Nat
          /\ now \in Nat \ {0}

Init == /\ tasks = [k \in TaskKeys |-> NoTask]
        /\ index = 0
        /\ now = 1

-----------------------------------------------------------------------------
Stored(k) == tasks[k] # NoTask

Versioned(k, v) == Stored(k) /\ tasks[k].version = v

\* Mutant: only a task that is still running its units is in the way.
CheckConflictStarted(ns, payload) ==
    \E k \in TaskKeys : /\ k[1] = ns
                        /\ Stored(k)
                        /\ tasks[k].status = "STARTED"
                        /\ PayloadsConflict(ns, payload, tasks[k].payload)

\* Both detectors refuse a payload that overlaps an active task's of the same
\* namespace.  A drop that claims shards cleaned by an earlier drop is also
\* checked against that drop's record; the payloads here make no such claim.
CheckConflict(ns, payload) ==
    \E k \in TaskKeys : /\ k[1] = ns
                        /\ Stored(k)
                        /\ IsActive(tasks[k].status)
                        /\ PayloadsConflict(ns, payload, tasks[k].payload)

Update(k, t) == /\ tasks' = [tasks EXCEPT ![k] = t]
                /\ UNCHANGED <<index, now>>

\* Mutant: the version is the previous command's index.
AddTaskStaleIndex(k, payload, barrier, retries, groupOf) ==
    /\ index < MaxIndex
    /\ DOMAIN groupOf # {}
    /\ Stored(k) => tasks[k].status # "STARTED"
    /\ ~CheckConflict(k[1], payload)
    /\ tasks' = [tasks EXCEPT ![k] = NewTask(index, payload, barrier, retries, groupOf)]
    /\ index' = index + 1
    /\ UNCHANGED now

\* Only a STARTED task of the same id refuses the new one; anything else is
\* replaced, under the index of this command as its version.
AddTask(k, payload, barrier, retries, groupOf) ==
    /\ index < MaxIndex
    /\ DOMAIN groupOf # {}
    /\ Stored(k) => /\ tasks[k].status # "STARTED"
                    /\ index + 1 > tasks[k].version
    /\ ~CheckConflict(k[1], payload)
    /\ tasks' = [tasks EXCEPT ![k] =
                    NewTask(index + 1, payload, barrier, retries, groupOf)]
    /\ index' = index + 1
    /\ UNCHANGED now

RecordUnitSuccess(k, v, n, u) ==
    /\ Versioned(k, v)
    /\ findStartedUnit(tasks[k], u, n)
    /\ ~UnitTerminal(tasks[k].units[u])
    /\ Update(k, UnitCompleted(tasks[k], u, n, now))

RecordUnitFailure(k, v, n, u, retryable) ==
    /\ Versioned(k, v)
    /\ findStartedUnit(tasks[k], u, n)
    /\ ~UnitTerminal(tasks[k].units[u])
    /\ Update(k, IF retryable /\ RetryableNow(tasks[k], u)
                 THEN UnitRetried(tasks[k], u, n)
                 ELSE UnitFailed(tasks[k], u, n, now))

UpdateUnitProgress(k, v, n, u, p) ==
    /\ Versioned(k, v)
    /\ findStartedUnit(tasks[k], u, n)
    /\ ~UnitTerminal(tasks[k].units[u])
    /\ Update(k, UnitProgressed(tasks[k], u, n, p))

RecordPreparationCompleteAck(k, v, n, success) ==
    /\ Versioned(k, v)
    /\ PrepAckApplies(tasks[k], n)
    /\ Update(k, PrepAcked(tasks[k], n, success, now))

RecordPostCompletionAck(k, v, n, success) ==
    /\ Versioned(k, v)
    /\ PostAckApplies(tasks[k], n)
    /\ Update(k, PostAcked(tasks[k], n, success, now))

\* Mutant: a task still preparing can be finalised.
MarkTaskFinalizedEarly(k, v) ==
    /\ Versioned(k, v)
    /\ tasks[k].status \in {"PREPARING", "SWAPPING"}
    /\ Update(k, markTerminal(tasks[k], "FINISHED", now))

MarkTaskFinalized(k, v) ==
    /\ Versioned(k, v)
    /\ tasks[k].status = "SWAPPING"
    /\ Update(k, markTerminal(tasks[k], "FINISHED", now))

MarkTaskFailed(k, v) ==
    /\ Versioned(k, v)
    /\ tasks[k].status = "SWAPPING"
    /\ Update(k, markTerminal(tasks[k], "FAILED", now))

CancelTask(k, v) ==
    /\ Versioned(k, v)
    /\ IsCancellable(tasks[k].status)
    /\ Update(k, markTerminal(tasks[k], "CANCELLED", now))

ForceTerminateTask(k, v, status) ==
    /\ Versioned(k, v)
    /\ ForceTerminateApplies(tasks[k])
    /\ Update(k, markTerminal(tasks[k], status, now))

CleanUpTask(k, v) ==
    /\ Versioned(k, v)
    /\ ~IsActive(tasks[k].status)
    /\ now - tasks[k].finishedAt > CompletedTaskTTL
    /\ Update(k, NoTask)

\* Mutant: a task past the point of cancellation is not in the way.
CheckClassMutationStarted(c) ==
    \E k \in TaskKeys : /\ k[1] = "reindex"
                        /\ Stored(k)
                        /\ IsCancellable(tasks[k].status)
                        /\ tasks[k].payload.collection = c

\* Of the two providers only reindex objects to the deletion of a class.
CheckClassMutation(c) ==
    \E k \in TaskKeys : /\ k[1] = "reindex"
                        /\ Stored(k)
                        /\ IsActive(tasks[k].status)
                        /\ tasks[k].payload.collection = c

\* DELETE_CLASS: unless an active reindex of the class refuses it, every task of
\* the class goes, whatever its status.
DeleteTasksForCollection(c) ==
    /\ ~CheckClassMutation(c)
    /\ tasks' = [k \in TaskKeys |->
                    IF Stored(k) /\ tasks[k].payload.collection = c
                    THEN NoTask ELSE tasks[k]]
    /\ UNCHANGED <<index, now>>

\* Only the vector-drop namespace has a target-vector extractor.
BoundToTargets(k, c, targets) == /\ k[1] = "dropVector"
                                 /\ Stored(k)
                                 /\ tasks[k].payload.collection = c
                                 /\ tasks[k].payload.scope \cap targets # {}

\* Mutant: the purge takes the active records too.
PurgeTasksActive(c, targets) ==
    /\ tasks' = [k \in TaskKeys |->
                    IF BoundToTargets(k, c, targets) THEN NoTask ELSE tasks[k]]
    /\ UNCHANGED <<index, now>>

\* A new drop-vector marker: all or nothing, refused next to an active task.
PurgeTasksForCollectionTargetVectors(c, targets) ==
    /\ ~\E k \in TaskKeys : /\ BoundToTargets(k, c, targets)
                            /\ IsActive(tasks[k].status)
    /\ tasks' = [k \in TaskKeys |->
                    IF BoundToTargets(k, c, targets) THEN NoTask ELSE tasks[k]]
    /\ UNCHANGED <<index, now>>

ClockTick == /\ now < MaxTime
             /\ now' = now + 1
             /\ UNCHANGED <<tasks, index>>

-----------------------------------------------------------------------------
\* The unit lists a request may carry, each unit with its group.
UnitSpecs == UNION {[S -> Groups] : S \in SUBSET UnitIds}

Submit == \E k \in TaskKeys, payload \in Payloads, barrier \in Barriers,
             retries \in RetryBudgets, groupOf \in UnitSpecs :
              AddTask(k, payload, barrier, retries, groupOf)

UnitReport(k, v) ==
    \E n \in Nodes, u \in UnitIds :
        \/ RecordUnitSuccess(k, v, n, u)
        \/ \E retryable \in BOOLEAN : RecordUnitFailure(k, v, n, u, retryable)
        \/ \E p \in 0..MaxProgress : UpdateUnitProgress(k, v, n, u, p)

NodeAck(k, v) ==
    \E n \in Nodes, success \in BOOLEAN :
        \/ RecordPreparationCompleteAck(k, v, n, success)
        \/ RecordPostCompletionAck(k, v, n, success)

TaskEnd(k, v) ==
    \/ MarkTaskFinalized(k, v)
    \/ MarkTaskFailed(k, v)
    \/ CancelTask(k, v)
    \/ \E status \in {"FAILED", "CANCELLED"} : ForceTerminateTask(k, v, status)
    \/ CleanUpTask(k, v)

SchemaChange ==
    \E c \in Collections :
        \/ DeleteTasksForCollection(c)
        \/ \E targets \in SUBSET Scopes : PurgeTasksForCollectionTargetVectors(c, targets)

Next == \/ Submit
        \/ \E k \in TaskKeys, v \in 1..MaxIndex :
               UnitReport(k, v) \/ NodeAck(k, v) \/ TaskEnd(k, v)
        \/ SchemaChange
        \/ ClockTick

Spec == Init /\ [][Next]_vars

-----------------------------------------------------------------------------
(* Safety *)

\* No two active tasks of a namespace work on the same on-disk state: AddTask
\* consults the conflict detector, and no later command re-activates a task.
NoConflictingActive ==
    \A j, k \in TaskKeys :
        ( /\ j # k /\ j[1] = k[1]
          /\ Stored(j) /\ Stored(k)
          /\ IsActive(tasks[j].status) /\ IsActive(tasks[k].status) )
        => ~PayloadsConflict(k[1], tasks[j].payload, tasks[k].payload)

\* A task past STARTED has had every unit completed by the node that claimed it:
\* the preparation, the swap and the finalisation never start on partial work.
WorkDoneBeforeBarrier ==
    \A k \in TaskKeys :
        Stored(k) /\ tasks[k].status \in {"PREPARING", "SWAPPING", "FINISHED"} =>
            \A u \in DOMAIN tasks[k].units :
                /\ tasks[k].units[u].status = "COMPLETED"
                /\ tasks[k].units[u].node # NoNode

\* The preparation barrier: a barrier task is SWAPPING or FINISHED only after
\* every node that owns a unit has acknowledged its preparation with success.
BarrierHeld ==
    \A k \in TaskKeys :
        ( /\ Stored(k)
          /\ tasks[k].barrier
          /\ tasks[k].status \in {"SWAPPING", "FINISHED"} )
        => \A u \in DOMAIN tasks[k].units :
               tasks[k].prepAcks[tasks[k].units[u].node] = "ok"

\* FinishedAt is set exactly for the terminal tasks, so the TTL of CleanUpTask
\* always counts from a real end; and a FAILED unit means the task has ended.
EndStamped ==
    \A k \in TaskKeys :
        Stored(k) => /\ (tasks[k].finishedAt # 0) <=> IsTerminal(tasks[k].status)
                     /\ AnyUnitFailed(tasks[k]) => tasks[k].status = "FAILED"

\* Retries are bounded by the budget, and a re-opened unit stays with its node.
RetryBudgetKept ==
    \A k \in TaskKeys :
        Stored(k) => \A u \in DOMAIN tasks[k].units :
            LET unit == tasks[k].units[u] IN
            /\ unit.attempts <= tasks[k].maxUnitRetries
            /\ unit.attempts > 0 => unit.node # NoNode

\* The key still holds the same submission after the step.
SameTask(k) == /\ Stored(k)
               /\ tasks'[k] # NoTask
               /\ tasks'[k].version = tasks[k].version

\* The outcome of a task is never revised: a late ack, unit report, finalise,
\* fail, cancel or force-terminate leaves a terminal task exactly as it is.
TerminalIsFinal ==
    [][\A k \in TaskKeys :
          SameTask(k) /\ IsTerminal(tasks[k].status) => tasks'[k] = tasks[k]]_vars

\* What a node or a unit has reported stands: an ack is recorded once, a claimed
\* unit keeps its node and a terminal unit its result, for the task's lifetime.
ReportsStand ==
    [][\A k \in TaskKeys : SameTask(k) =>
          /\ \A n \in Nodes :
                /\ tasks[k].prepAcks[n] # "none" => tasks'[k].prepAcks[n] = tasks[k].prepAcks[n]
                /\ tasks[k].postAcks[n] # "none" => tasks'[k].postAcks[n] = tasks[k].postAcks[n]
          /\ \A u \in DOMAIN tasks[k].units :
                /\ tasks[k].units[u].node # NoNode =>
                       tasks'[k].units[u].node = tasks[k].units[u].node
                /\ UnitTerminal(tasks[k].units[u]) =>
                       tasks'[k].units[u] = tasks[k].units[u]]_vars

\* A version is never handed out twice, so a command delayed past the removal
\* and re-submission of its task id cannot reach the newer task.
VersionsUnique ==
    /\ \A k \in TaskKeys : Stored(k) => tasks[k].version \in 1..index
    /\ \A j, k \in TaskKeys :
          j # k /\ Stored(j) /\ Stored(k) => tasks[j].version # tasks[k].version

\* An active reindex task is never dropped from under its nodes: DeleteClass,
\* the purge and the TTL clean-up all leave it, until it ends or is replaced.
ActiveReindexKept ==
    [][\A k \in TaskKeys :
          k[1] = "reindex" /\ Stored(k) /\ IsActive(tasks[k].status)
              => tasks'[k] # NoTask]_vars

\* An active task is removed only when its whole class is: a purge of drop
\* records is all or nothing and never takes a record still in use, and the TTL
\* clean-up takes ended tasks only.
ActiveGoesWithItsClass ==
    [][\A k \in TaskKeys :
          Stored(k) /\ IsActive(tasks[k].status) /\ tasks'[k] = NoTask =>
              \A j \in TaskKeys :
                  Stored(j) /\ tasks[j].payload.collection = tasks[k].payload.collection
                      => tasks'[j] = NoTask]_vars

-----------------------------------------------------------------------------
(* Refinement: the Manager implements TaskLifecycle. *)

Life == [k \in TaskKeys |->
            IF Stored(k) THEN [version |-> tasks[k].version, barrier |-> tasks[k].barrier,
                               status |-> tasks[k].status]
            ELSE NoTask]

Lifecycle == INSTANCE TaskLifecycle
    WITH Keys <- TaskKeys, Absent <- NoTask, life <- Life, top <- index

\* Every command of the Manager is a step of the task life cycle or leaves it.
ImplementsLifecycle == Lifecycle!Spec
=============================================================================
