-------------------------- MODULE TaskManagerProofs --------------------------
(* The Manager's properties, proved for any number of tasks, nodes and units. *)
EXTENDS TaskManager, TaskEvolutionProofs

\* A step of one command on the stored task k: it evolves, or, ended, is removed.
Evolution(k) ==
    /\ Stored(k)
    /\ UNCHANGED <<index, now>>
    /\ \/ /\ IsTerminal(tasks[k].status)
          /\ tasks' = [tasks EXCEPT ![k] = NoTask]
       \/ \E S \in SUBSET UnitIds : \E t \in TaskOn(S) :
             /\ tasks[k] \in TaskOn(S)
             /\ Evolves(tasks[k], t)
             /\ tasks' = [tasks EXCEPT ![k] = t]

\* A submission stores a new task under a version larger than all before.
Submission(k) ==
    /\ Stored(k) => tasks[k].status # "STARTED"
    /\ index' = index + 1
    /\ now' = now
    /\ \E S \in SUBSET UnitIds : \E t \in TaskOn(S) :
          /\ t.version = index + 1
          /\ t.status = "STARTED"
          /\ TaskInv(t)
          /\ ~CheckConflict(k[1], t.payload)
          /\ tasks' = [tasks EXCEPT ![k] = t]

\* A schema change removes tasks and touches no other; an active task only with
\* its class, and an active reindex not at all.
Removal ==
    /\ UNCHANGED <<index, now>>
    /\ tasks' = [k \in TaskKeys |-> tasks'[k]]
    /\ \A k \in TaskKeys : tasks'[k] \in {tasks[k], NoTask}
    /\ \A k \in TaskKeys :
          Stored(k) /\ IsActive(tasks[k].status) /\ tasks'[k] = NoTask =>
              /\ k[1] # "reindex"
              /\ \A j \in TaskKeys :
                    Stored(j) /\ tasks[j].payload.collection = tasks[k].payload.collection
                        => tasks'[j] = NoTask

\* What is stored under a key is a task on some set of units.
LEMMA StoredIsTask ==
    ASSUME TypeOK, NEW k \in TaskKeys, Stored(k)
    PROVE  \E S \in SUBSET UnitIds : tasks[k] \in TaskOn(S)
BY DEF TypeOK, Stored, IsTask

\* A task on any set of units is not the marker of an empty key.
LEMMA TaskIsNotNoTask ==
    ASSUME NEW S \in SUBSET UnitIds, NEW t \in TaskOn(S)
    PROVE  t # NoTask
BY NoTaskAssumption DEF IsTask

\* Every unit report, ack and end is an evolution of the task it names.
LEMMA CommandEvolves ==
    ASSUME TypeOK, NEW k \in TaskKeys, NEW v \in 1..MaxIndex,
           UnitReport(k, v) \/ NodeAck(k, v) \/ TaskEnd(k, v)
    PROVE  Evolution(k)
<1>1. Stored(k) /\ now \in Nat \ {0}
  BY DEF TypeOK, UnitReport, NodeAck, TaskEnd, Versioned, RecordUnitSuccess,
     RecordUnitFailure, UpdateUnitProgress, RecordPreparationCompleteAck,
     RecordPostCompletionAck, MarkTaskFinalized, MarkTaskFailed, CancelTask,
     ForceTerminateTask, CleanUpTask
<1>2. PICK S \in SUBSET UnitIds : tasks[k] \in TaskOn(S)
  BY <1>1, StoredIsTask
<1>3. ASSUME NEW t \in TaskOn(S), Evolves(tasks[k], t), Update(k, t)
      PROVE  Evolution(k)
  BY <1>1, <1>2, <1>3, Zenon DEF Evolution, Update
<1>4. CASE UnitReport(k, v)
  <2>1. PICK n \in Nodes, u \in UnitIds :
           \/ RecordUnitSuccess(k, v, n, u)
           \/ \E retryable \in BOOLEAN : RecordUnitFailure(k, v, n, u, retryable)
           \/ \E p \in 0..MaxProgress : UpdateUnitProgress(k, v, n, u, p)
    BY <1>4 DEF UnitReport
  <2>2. findStartedUnit(tasks[k], u, n) /\ ~UnitTerminal(tasks[k].units[u])
    BY <2>1 DEF RecordUnitSuccess, RecordUnitFailure, UpdateUnitProgress
  <2>3. u \in S
    BY <1>2, <2>2 DEF findStartedUnit, TaskOn
  <2>4. 0 \in 0..MaxProgress
    BY MaxProgressAssumption
  <2>5. CASE RecordUnitSuccess(k, v, n, u)
    BY <1>1, <1>2, <1>3, <2>2, <2>3, <2>4, <2>5, UnitReportType, UnitReportEvolves
    DEF RecordUnitSuccess
  <2>6. ASSUME NEW retryable \in BOOLEAN, RecordUnitFailure(k, v, n, u, retryable)
        PROVE  Evolution(k)
    <3> DEFINE t == IF retryable /\ RetryableNow(tasks[k], u)
                    THEN UnitRetried(tasks[k], u, n)
                    ELSE UnitFailed(tasks[k], u, n, now)
    <3>1. t \in TaskOn(S)
      BY <1>1, <1>2, <2>3, <2>4, UnitReportType
    <3>2. Evolves(tasks[k], t)
      BY <1>1, <1>2, <2>2, <2>3, <2>4, UnitReportEvolves
    <3> QED
      BY <1>3, <2>6, <3>1, <3>2 DEF RecordUnitFailure
  <2>7. ASSUME NEW p \in 0..MaxProgress, UpdateUnitProgress(k, v, n, u, p)
        PROVE  Evolution(k)
    BY <1>1, <1>2, <1>3, <2>2, <2>3, <2>7, UnitReportType, UnitReportEvolves
    DEF UpdateUnitProgress
  <2> QED
    BY <2>1, <2>5, <2>6, <2>7
<1>5. CASE NodeAck(k, v)
  <2>1. PICK n \in Nodes, success \in BOOLEAN :
           \/ RecordPreparationCompleteAck(k, v, n, success)
           \/ RecordPostCompletionAck(k, v, n, success)
    BY <1>5 DEF NodeAck
  <2> QED
    BY <1>1, <1>2, <1>3, <2>1, AckType, AckEvolves
    DEF RecordPreparationCompleteAck, RecordPostCompletionAck
<1>6. CASE TaskEnd(k, v)
  <2>1. CASE CleanUpTask(k, v)
    BY <1>1, <2>1 DEF CleanUpTask, Evolution, Update, IsActive
  <2>2. ASSUME NEW status \in TaskStatus, IsActive(tasks[k].status),
               \/ status \in {"FAILED", "CANCELLED"}
               \/ tasks[k].status = "SWAPPING" /\ status = "FINISHED",
               Update(k, markTerminal(tasks[k], status, now))
        PROVE  Evolution(k)
    BY <1>1, <1>2, <1>3, <2>2, markTerminalType, markTerminalEvolves
  <2>3. CASE MarkTaskFinalized(k, v) \/ MarkTaskFailed(k, v) \/ CancelTask(k, v)
    BY <2>2, <2>3 DEF MarkTaskFinalized, MarkTaskFailed, CancelTask, IsCancellable,
       IsActive, IsTerminal, TaskStatus
  <2>4. ASSUME NEW status \in {"FAILED", "CANCELLED"}, ForceTerminateTask(k, v, status)
        PROVE  Evolution(k)
    <3>1. IsActive(tasks[k].status)
      BY <2>4 DEF ForceTerminateTask, ForceTerminateApplies, IsForceTerminable, IsActive,
         IsTerminal
    <3> QED
      BY <2>2, <2>4, <3>1 DEF ForceTerminateTask, TaskStatus
  <2> QED
    BY <1>6, <2>1, <2>3, <2>4 DEF TaskEnd
<1> QED
  BY <1>4, <1>5, <1>6

\* AddTask is a submission.
LEMMA SubmitSubmits ==
    ASSUME TypeOK, Submit
    PROVE  \E k \in TaskKeys : Submission(k)
<1>1. PICK k \in TaskKeys, payload \in Payloads, barrier \in Barriers,
           retries \in RetryBudgets, groupOf \in UnitSpecs :
           AddTask(k, payload, barrier, retries, groupOf)
  BY DEF Submit
<1>2. PICK S \in SUBSET UnitIds : groupOf \in [S -> Groups]
  BY DEF UnitSpecs
<1>3. /\ index + 1 \in Nat /\ payload \in Payload /\ barrier \in BOOLEAN /\ retries \in Nat
  BY RequestsAssumption DEF TypeOK
<1> DEFINE t == NewTask(index + 1, payload, barrier, retries, groupOf)
<1>4. t \in TaskOn(S) /\ TaskInv(t)
  BY <1>2, <1>3, NewTaskType, NewTaskInv
<1>5. t.version = index + 1 /\ t.status = "STARTED" /\ t.payload = payload
  BY DEF NewTask
<1> QED
  BY <1>1, <1>4, <1>5, Zenon DEF AddTask, Submission

\* The deletions that follow a schema change.
LEMMA SchemaChangeRemoves == ASSUME TypeOK, SchemaChange PROVE Removal
<1>1. PICK c \in Collections :
         \/ DeleteTasksForCollection(c)
         \/ \E targets \in SUBSET Scopes : PurgeTasksForCollectionTargetVectors(c, targets)
  BY DEF SchemaChange
<1>2. CASE DeleteTasksForCollection(c)
  <2>1. ASSUME NEW k \in TaskKeys
        PROVE  tasks'[k] = IF Stored(k) /\ tasks[k].payload.collection = c
                           THEN NoTask ELSE tasks[k]
    BY <1>2 DEF DeleteTasksForCollection
  <2>2. /\ tasks' = [k \in TaskKeys |-> tasks'[k]] /\ UNCHANGED <<index, now>>
        /\ \A k \in TaskKeys : tasks'[k] \in {tasks[k], NoTask}
    BY <1>2 DEF DeleteTasksForCollection
  <2>3. ~CheckClassMutation(c)
    BY <1>2 DEF DeleteTasksForCollection
  <2> QED
    BY <2>1, <2>2, <2>3 DEF Removal, CheckClassMutation, Stored
<1>3. ASSUME NEW targets \in SUBSET Scopes, PurgeTasksForCollectionTargetVectors(c, targets)
      PROVE  Removal
  <2>1. /\ tasks' = [k \in TaskKeys |-> tasks'[k]] /\ UNCHANGED <<index, now>>
        /\ \A k \in TaskKeys : tasks'[k] \in {tasks[k], NoTask}
    BY <1>3 DEF PurgeTasksForCollectionTargetVectors
  <2>2. ASSUME NEW k \in TaskKeys, Stored(k), IsActive(tasks[k].status)
        PROVE  tasks'[k] # NoTask
    BY <1>3, <2>2 DEF PurgeTasksForCollectionTargetVectors, Stored
  <2> QED
    BY <2>1, <2>2 DEF Removal
<1> QED
  BY <1>1, <1>2, <1>3

\* The steps of the Manager, as the proofs below look at them.
LEMMA StepCases ==
    ASSUME TypeOK, [Next]_vars
    PROVE  \/ \E k \in TaskKeys : Submission(k)
           \/ \E k \in TaskKeys : Evolution(k)
           \/ Removal
           \/ tasks' = tasks /\ index' = index /\ now' \in Nat \ {0}
<1>1. CASE ClockTick
  BY <1>1 DEF ClockTick, TypeOK
<1>2. CASE UNCHANGED vars
  BY <1>2 DEF vars, TypeOK
<1> QED
  BY <1>1, <1>2, SubmitSubmits, CommandEvolves, SchemaChangeRemoves DEF Next

\* Every command leaves the store well typed.
THEOREM TypeCorrect == Spec => []TypeOK
<1>1. Init => TypeOK
  BY DEF Init, TypeOK
<1>2. TypeOK /\ [Next]_vars => TypeOK'
  <2> SUFFICES ASSUME TypeOK, [Next]_vars PROVE TypeOK'
    OBVIOUS
  <2>1. ASSUME NEW k \in TaskKeys, Submission(k) PROVE TypeOK'
    BY <2>1 DEF Submission, TypeOK, IsTask
  <2>2. ASSUME NEW k \in TaskKeys, Evolution(k) PROVE TypeOK'
    BY <2>2 DEF Evolution, TypeOK, IsTask
  <2>3. CASE Removal
    BY <2>3 DEF Removal, TypeOK
  <2>4. CASE tasks' = tasks /\ index' = index /\ now' \in Nat \ {0}
    BY <2>4 DEF TypeOK
  <2> QED
    BY <2>1, <2>2, <2>3, <2>4, StepCases
<1> QED
  BY <1>1, <1>2, PTL DEF Spec

-----------------------------------------------------------------------------
(* The state of a task *)

\* The inductive invariant: every stored task satisfies TaskInv.
TasksInv == \A k \in TaskKeys : Stored(k) => TaskInv(tasks[k])

\* Every command keeps the invariant of every task.
THEOREM TasksInvariant == Spec => []TasksInv
<1>1. Init => TasksInv
  BY DEF Init, TasksInv, Stored
<1>2. TypeOK /\ TasksInv /\ [Next]_vars => TasksInv'
  <2> SUFFICES ASSUME TypeOK, TasksInv, [Next]_vars PROVE TasksInv'
    OBVIOUS
  <2>1. ASSUME NEW k \in TaskKeys, Submission(k) PROVE TasksInv'
    BY <2>1 DEF Submission, TypeOK, TasksInv, Stored
  <2>2. ASSUME NEW k \in TaskKeys, Evolution(k) PROVE TasksInv'
    <3>1. ASSUME NEW j \in TaskKeys, j # k PROVE tasks'[j] = tasks[j]
      BY <2>2, <3>1 DEF Evolution, TypeOK
    <3>2. tasks'[k] # NoTask => TaskInv(tasks'[k])
      BY <2>2 DEF Evolution, TypeOK, TasksInv, Evolves
    <3> QED
      BY <3>1, <3>2 DEF TasksInv, Stored
  <2>3. CASE Removal
    BY <2>3 DEF Removal, TasksInv, Stored
  <2>4. CASE tasks' = tasks
    BY <2>4 DEF TasksInv, Stored
  <2> QED
    BY <2>1, <2>2, <2>3, <2>4, StepCases
<1> QED
  BY <1>1, <1>2, TypeCorrect, PTL DEF Spec

\* No task passes STARTED with a unit that is not completed and owned.
THEOREM WorkIsDone == Spec => []WorkDoneBeforeBarrier
<1>1. TypeOK /\ TasksInv => WorkDoneBeforeBarrier
  BY SMTT(30), Z3T(30) DEF TasksInv, TaskInv, WorkDoneBeforeBarrier
<1> QED
  BY <1>1, TypeCorrect, TasksInvariant, PTL

\* No barrier task swaps or finishes before every owner's preparation ack.
THEOREM BarrierIsHeld == Spec => []BarrierHeld
<1>1. TypeOK /\ TasksInv => BarrierHeld
  BY DEF TasksInv, TaskInv, BarrierHeld
<1> QED
  BY <1>1, TypeCorrect, TasksInvariant, PTL

\* A task carries its end exactly when it has ended.
THEOREM EndIsStamped == Spec => []EndStamped
<1>1. TypeOK /\ TasksInv => EndStamped
  BY DEF TasksInv, TaskInv, EndStamped
<1> QED
  BY <1>1, TypeCorrect, TasksInvariant, PTL

\* The retry budget is never exceeded.
THEOREM RetriesAreBounded == Spec => []RetryBudgetKept
<1>1. TypeOK /\ TasksInv => RetryBudgetKept
  BY DEF TasksInv, TaskInv, RetryBudgetKept
<1> QED
  BY <1>1, TypeCorrect, TasksInvariant, PTL

-----------------------------------------------------------------------------
(* Between tasks *)

\* A conflict does not depend on the order of the two payloads.
LEMMA ConflictSymmetric ==
    ASSUME NEW ns, NEW p, NEW q, PayloadsConflict(ns, p, q)
    PROVE  PayloadsConflict(ns, q, p)
BY DEF PayloadsConflict, PropsOverlap

\* Conflict detection at submission is enough to keep active tasks apart.
THEOREM ActiveTasksApart == Spec => []NoConflictingActive
<1>1. Init => NoConflictingActive
  BY DEF Init, NoConflictingActive, Stored
<1>2. TypeOK /\ NoConflictingActive /\ [Next]_vars => NoConflictingActive'
  <2> SUFFICES ASSUME TypeOK, NoConflictingActive, [Next]_vars PROVE NoConflictingActive'
    OBVIOUS
  <2>1. ASSUME NEW k \in TaskKeys, Submission(k) PROVE NoConflictingActive'
    <3>1. ASSUME NEW j \in TaskKeys, j # k PROVE tasks'[j] = tasks[j]
      BY <2>1, <3>1 DEF Submission, TypeOK
    <3>2. ASSUME NEW j \in TaskKeys, j # k, j[1] = k[1], tasks[j] # NoTask,
                 IsActive(tasks[j].status)
          PROVE  ~PayloadsConflict(k[1], tasks'[k].payload, tasks[j].payload)
      BY <2>1, <3>2 DEF Submission, CheckConflict, Stored, TypeOK
    <3> QED
      BY <3>1, <3>2, ConflictSymmetric DEF NoConflictingActive, Stored
  <2>2. ASSUME NEW k \in TaskKeys, Evolution(k) PROVE NoConflictingActive'
    <3>1. ASSUME NEW j \in TaskKeys, j # k PROVE tasks'[j] = tasks[j]
      BY <2>2, <3>1 DEF Evolution, TypeOK
    <3>2. tasks'[k] # NoTask => /\ Stored(k) /\ IsActive(tasks[k].status)
                                /\ tasks'[k].payload = tasks[k].payload
      BY <2>2 DEF Evolution, TypeOK, Evolves, SameSubmission
    <3> QED
      BY <3>1, <3>2 DEF NoConflictingActive, Stored
  <2>3. CASE Removal
    BY <2>3 DEF Removal, NoConflictingActive, Stored
  <2>4. CASE tasks' = tasks
    BY <2>4 DEF NoConflictingActive, Stored
  <2> QED
    BY <2>1, <2>2, <2>3, <2>4, StepCases
<1> QED
  BY <1>1, <1>2, TypeCorrect, PTL DEF Spec

\* No two submissions share a version.
THEOREM VersionsAreUnique == Spec => []VersionsUnique
<1>1. Init => VersionsUnique
  BY DEF Init, VersionsUnique, Stored
<1>2. TypeOK /\ VersionsUnique /\ [Next]_vars => VersionsUnique'
  <2> SUFFICES ASSUME TypeOK, VersionsUnique, [Next]_vars PROVE VersionsUnique'
    OBVIOUS
  <2>0. index \in Nat
    BY DEF TypeOK
  <2>1. ASSUME NEW k \in TaskKeys, Submission(k) PROVE VersionsUnique'
    <3>1. ASSUME NEW j \in TaskKeys, j # k PROVE tasks'[j] = tasks[j]
      BY <2>1, <3>1 DEF Submission, TypeOK
    <3>2. tasks'[k].version = index + 1 /\ index' = index + 1
      BY <2>1 DEF Submission, TypeOK
    <3> QED
      BY <2>0, <3>1, <3>2 DEF VersionsUnique, Stored
  <2>2. ASSUME NEW k \in TaskKeys, Evolution(k) PROVE VersionsUnique'
    <3>1. ASSUME NEW j \in TaskKeys, j # k PROVE tasks'[j] = tasks[j]
      BY <2>2, <3>1 DEF Evolution, TypeOK
    <3>2. /\ tasks'[k] # NoTask => Stored(k) /\ tasks'[k].version = tasks[k].version
          /\ index' = index
      BY <2>2 DEF Evolution, TypeOK, Evolves, SameSubmission
    <3> QED
      BY <3>1, <3>2 DEF VersionsUnique, Stored
  <2>3. CASE Removal
    BY <2>3 DEF Removal, VersionsUnique, Stored
  <2>4. CASE tasks' = tasks /\ index' = index
    BY <2>4 DEF VersionsUnique, Stored
  <2> QED
    BY <2>1, <2>2, <2>3, <2>4, StepCases
<1> QED
  BY <1>1, <1>2, TypeCorrect, PTL DEF Spec

-----------------------------------------------------------------------------
(* What a step may not do *)

\* The outcome of a task is never revised.
THEOREM TerminalStays == Spec => TerminalIsFinal
<1>1. TypeOK /\ VersionsUnique /\ [Next]_vars =>
         [\A k \in TaskKeys :
            SameTask(k) /\ IsTerminal(tasks[k].status) => tasks'[k] = tasks[k]]_vars
  <2> SUFFICES ASSUME TypeOK, VersionsUnique, [Next]_vars, NEW j \in TaskKeys,
                      SameTask(j), IsTerminal(tasks[j].status)
               PROVE  tasks'[j] = tasks[j]
    OBVIOUS
  <2>1. ASSUME NEW k \in TaskKeys, Submission(k) PROVE tasks'[j] = tasks[j]
    <3>1. j # k
      BY <2>1 DEF Submission, TypeOK, SameTask, VersionsUnique
    <3> QED
      BY <2>1, <3>1 DEF Submission, TypeOK
  <2>2. ASSUME NEW k \in TaskKeys, Evolution(k) PROVE tasks'[j] = tasks[j]
    BY <2>2 DEF Evolution, TypeOK, SameTask, Evolves, IsActive
  <2>3. CASE Removal
    BY <2>3 DEF Removal, SameTask
  <2> QED
    BY <2>1, <2>2, <2>3, StepCases
<1> QED
  BY <1>1, TypeCorrect, VersionsAreUnique, PTL DEF Spec, TerminalIsFinal

\* What a node or a unit has reported stands while the task is stored.
THEOREM ReportsAreKept == Spec => ReportsStand
<1> DEFINE Kept == \A k \in TaskKeys : SameTask(k) =>
                      /\ \A n \in Nodes :
                            /\ tasks[k].prepAcks[n] # "none" => tasks'[k].prepAcks[n] = tasks[k].prepAcks[n]
                            /\ tasks[k].postAcks[n] # "none" => tasks'[k].postAcks[n] = tasks[k].postAcks[n]
                      /\ \A u \in DOMAIN tasks[k].units :
                            /\ tasks[k].units[u].node # NoNode =>
                                   tasks'[k].units[u].node = tasks[k].units[u].node
                            /\ UnitTerminal(tasks[k].units[u]) =>
                                   tasks'[k].units[u] = tasks[k].units[u]
<1>1. TypeOK /\ VersionsUnique /\ [Next]_vars => [Kept]_vars
  <2> SUFFICES ASSUME TypeOK, VersionsUnique, [Next]_vars, NEW j \in TaskKeys, SameTask(j)
               PROVE  tasks'[j] = tasks[j] \/ Stands(tasks[j], tasks'[j])
    BY DEF Stands
  <2>1. ASSUME NEW k \in TaskKeys, Submission(k) PROVE tasks'[j] = tasks[j]
    <3>1. j # k
      BY <2>1 DEF Submission, TypeOK, SameTask, VersionsUnique
    <3> QED
      BY <2>1, <3>1 DEF Submission, TypeOK
  <2>2. ASSUME NEW k \in TaskKeys, Evolution(k)
        PROVE  tasks'[j] = tasks[j] \/ Stands(tasks[j], tasks'[j])
    BY <2>2 DEF Evolution, TypeOK, SameTask, Evolves
  <2>3. CASE Removal
    BY <2>3 DEF Removal, SameTask
  <2> QED
    BY <2>1, <2>2, <2>3, StepCases, SMTT(30), Z3T(30)
<1> QED
  BY <1>1, TypeCorrect, VersionsAreUnique, PTL DEF Spec, ReportsStand

\* No active reindex task is dropped from under its nodes.
THEOREM ReindexIsKept == Spec => ActiveReindexKept
<1>1. TypeOK /\ [Next]_vars =>
         [\A k \in TaskKeys : k[1] = "reindex" /\ Stored(k) /\ IsActive(tasks[k].status)
                                  => tasks'[k] # NoTask]_vars
  <2> SUFFICES ASSUME TypeOK, [Next]_vars, NEW j \in TaskKeys, j[1] = "reindex",
                      Stored(j), IsActive(tasks[j].status), tasks' # tasks
               PROVE  tasks'[j] # NoTask
    BY DEF vars, Stored
  <2>1. ASSUME NEW k \in TaskKeys, Submission(k) PROVE tasks'[j] # NoTask
    BY <2>1, TaskIsNotNoTask DEF Submission, TypeOK, Stored
  <2>2. ASSUME NEW k \in TaskKeys, Evolution(k) PROVE tasks'[j] # NoTask
    BY <2>2, TaskIsNotNoTask DEF Evolution, TypeOK, Stored, IsActive
  <2>3. CASE Removal
    BY <2>3 DEF Removal, Stored
  <2> QED
    BY <2>1, <2>2, <2>3, StepCases
<1> QED
  BY <1>1, TypeCorrect, PTL DEF Spec, ActiveReindexKept

\* An active task is removed only together with every task of its class.
THEOREM RemovedWithItsClass == Spec => ActiveGoesWithItsClass
<1>1. TypeOK /\ [Next]_vars =>
         [\A k \in TaskKeys :
            Stored(k) /\ IsActive(tasks[k].status) /\ tasks'[k] = NoTask =>
               \A j \in TaskKeys :
                  Stored(j) /\ tasks[j].payload.collection = tasks[k].payload.collection
                      => tasks'[j] = NoTask]_vars
  <2> SUFFICES ASSUME TypeOK, [Next]_vars, NEW i \in TaskKeys, Stored(i),
                      IsActive(tasks[i].status), tasks'[i] = NoTask,
                      NEW j \in TaskKeys, Stored(j),
                      tasks[j].payload.collection = tasks[i].payload.collection
               PROVE  tasks'[j] = NoTask
    OBVIOUS
  <2>1. ASSUME NEW k \in TaskKeys, Submission(k) PROVE FALSE
    BY <2>1, TaskIsNotNoTask DEF Submission, TypeOK, Stored
  <2>2. ASSUME NEW k \in TaskKeys, Evolution(k) PROVE FALSE
    BY <2>2, TaskIsNotNoTask DEF Evolution, TypeOK, Stored, IsActive
  <2>3. CASE Removal
    BY <2>3 DEF Removal
  <2> QED
    BY <2>1, <2>2, <2>3, StepCases DEF Stored
<1> QED
  BY <1>1, TypeCorrect, PTL DEF Spec, ActiveGoesWithItsClass

-----------------------------------------------------------------------------
(* Refinement *)

\* The Manager implements the life cycle TaskLifecycle promises of its tasks.
THEOREM ManagerImplementsLifecycle == Spec => ImplementsLifecycle
<1>1. Init => Lifecycle!Init
  BY DEF Init, Lifecycle!Init, Life, Stored
<1>2. TypeOK /\ [Next]_vars => [Lifecycle!Next]_<<Life, index>>
  <2> SUFFICES ASSUME TypeOK, [Next]_vars PROVE [Lifecycle!Next]_<<Life, index>>
    OBVIOUS
  <2>0. index \in Nat
    BY DEF TypeOK
  <2>1. ASSUME NEW k \in TaskKeys, Submission(k) PROVE Lifecycle!Begin(k)
    <3>0. PICK S \in SUBSET UnitIds :
             \E t \in TaskOn(S) : /\ t.version = index + 1
                                  /\ t.status = "STARTED"
                                  /\ tasks' = [tasks EXCEPT ![k] = t]
      BY <2>1, Zenon DEF Submission
    <3>1. PICK t \in TaskOn(S) :
             /\ t.version = index + 1
             /\ t.status = "STARTED"
             /\ tasks' = [tasks EXCEPT ![k] = t]
      BY <3>0, Zenon
    <3>2. t # NoTask /\ t.barrier \in BOOLEAN
      BY TaskIsNotNoTask DEF TaskOn
    <3>3. tasks'[k] = t /\ \A j \in TaskKeys : j # k => tasks'[j] = tasks[j]
      BY <3>1 DEF TypeOK
    <3>4. Life' = [Life EXCEPT ![k] = [version |-> index', barrier |-> t.barrier,
                                       status |-> "STARTED"]]
      BY <2>1, <3>1, <3>2, <3>3, ZenonT(30) DEF Life, Stored, Submission
    <3>5. Life[k] # NoTask => Life[k].status # "STARTED"
      BY <2>1 DEF Life, Stored, Submission
    <3>6. index' > index
      BY <2>0, <2>1 DEF Submission
    <3> QED
      BY <3>2, <3>4, <3>5, <3>6, Zenon DEF Lifecycle!Begin
  <2>2. ASSUME NEW k \in TaskKeys, Evolution(k) PROVE [Lifecycle!Next]_<<Life, index>>
    <3>1. CASE IsTerminal(tasks[k].status) /\ tasks' = [tasks EXCEPT ![k] = NoTask]
      <4>1. \A j \in TaskKeys : Life'[j] \in {NoTask, Life[j]}
        BY <3>1 DEF Life, Stored, TypeOK
      <4>2. Life' \in [TaskKeys -> {NoTask} \cup {Life[j] : j \in TaskKeys}]
        BY <4>1 DEF Life
      <4> QED
        BY <2>2, <4>1, <4>2 DEF Lifecycle!Next, Lifecycle!Forget, Evolution
    <3>2. ASSUME NEW S \in SUBSET UnitIds, NEW t \in TaskOn(S), tasks[k] \in TaskOn(S),
                 Evolves(tasks[k], t), tasks' = [tasks EXCEPT ![k] = t]
          PROVE  [Lifecycle!Next]_<<Life, index>>
      <4>1. /\ t # NoTask /\ tasks[k] # NoTask
            /\ tasks[k].barrier \in BOOLEAN /\ index' = index
        BY <2>2, <3>2, TaskIsNotNoTask DEF TaskOn, Evolution
      <4>2. tasks'[k] = t /\ \A j \in TaskKeys : j # k => tasks'[j] = tasks[j]
        BY <3>2 DEF TypeOK
      <4>3. t.version = tasks[k].version /\ t.barrier = tasks[k].barrier
        BY <3>2 DEF Evolves, SameSubmission
      <4>4. Life[k] # NoTask /\ Life[k].status = tasks[k].status
            /\ Life[k].barrier = tasks[k].barrier
        BY <3>2, <4>1, AbsentAssumption DEF Life, Stored, TaskOn
      <4>5. Life' = [Life EXCEPT ![k].status = t.status]
        BY <4>1, <4>2, <4>3, ZenonT(30) DEF Life, Stored
      <4>6. t.status = tasks[k].status => Life' = Life
        BY <4>1, <4>2, <4>3, SMTT(30), Z3T(30) DEF Life, Stored
      <4>7. tasks[k].status \in Lifecycle!Active
        BY <3>2 DEF Evolves, IsActive, IsTerminal, TaskOn, TaskStatus, Lifecycle!Active
      <4>8. Lifecycle!Move(k, tasks[k].status, t.status)
        BY <4>1, <4>4, <4>5, SMTT(30), Z3T(30) DEF Lifecycle!Move
      <4>9. \/ t.status = tasks[k].status
            \/ Lifecycle!WorkDone(k) \/ Lifecycle!BarrierLifts(k)
            \/ Lifecycle!Finish(k) \/ Lifecycle!Abort(k)
        BY <3>2, <4>4, <4>7, <4>8, SMTT(30), Z3T(30) DEF Evolves, Transition, Lifecycle!WorkDone,
           Lifecycle!BarrierLifts, Lifecycle!Finish, Lifecycle!Abort
      <4> QED
        BY <4>1, <4>6, <4>9 DEF Lifecycle!Next
    <3> QED
      BY <2>2, <3>1, <3>2 DEF Evolution
  <2>3. CASE Removal
    <3>1. \A j \in TaskKeys : Life'[j] \in {NoTask, Life[j]}
      BY <2>3, SMTT(30), Z3T(30) DEF Life, Stored, Removal
    <3>2. Life' \in [TaskKeys -> {NoTask} \cup {Life[j] : j \in TaskKeys}]
      BY <3>1, SMTT(30), Z3T(30) DEF Life
    <3> QED
      BY <2>3, <3>1, <3>2, SMTT(30), Z3T(30) DEF Lifecycle!Next, Lifecycle!Forget, Removal
  <2>4. CASE tasks' = tasks /\ index' = index
    BY <2>4 DEF Life, Stored
  <2> QED
    BY <2>1, <2>2, <2>3, <2>4, StepCases DEF Lifecycle!Next
<1> QED
  BY <1>1, <1>2, TypeCorrect, PTL DEF Spec, ImplementsLifecycle, Lifecycle!Spec
=============================================================================
