----------------------------- MODULE TaskScheduler -----------------------------
(***************************************************************************)
(* One distributed task of the reindex namespace, from its start to its    *)
(* end, as the cluster executes it: the replicated task record, and on     *)
(* every node a Scheduler whose tick drives the ReindexProvider callbacks  *)
(* and reports back through Raft.                                          *)
(*                                                                         *)
(* A tick lists the tasks once and works on that copy (mem[n].clone, with  *)
(* the per-tick status eff) while the record moves on underneath it.  Its  *)
(* phases run in order: PREP callbacks and ack, SWAP callbacks and ack,    *)
(* OnTaskCompleted, finalize; each callback on a unit and each Raft write  *)
(* is a step of its own, and a phase with nothing to do takes no step.     *)
(*                                                                         *)
(* A Raft write is applied, refused, or times out, in which case it may    *)
(* still be applied at any later moment (inflight).  A node may crash      *)
(* between any two steps; it loses its scheduler state and keeps its disk. *)
(* A callback cut short by a graceful shutdown is a crash.                 *)
(*                                                                         *)
(* Disk of a unit: "none" < "reindexed" (reindexed.mig) < "merged" (PREP   *)
(* done, merged.mig) < "swapped" (bucket pointer flipped, tidied.mig);     *)
(* "promoted" is a merged unit that a shard load made canonical.  The      *)
(* migration is a change of tokenization: its index is listed in the       *)
(* schema throughout, so a shard load finalizes every merged unit.         *)
(***************************************************************************)
EXTENDS DistributedTask

CONSTANTS
    NoClone,                       \* no tick in progress
    UnitToNode,                    \* payload.UnitToNode
    ThePayload,                    \* the collection and properties reindexed
    Setups,                        \* the migrations looked at, with their faults
    maxCompletedCallbackAttempts   \* 5 in the code

\* The nodes of the cluster, the groups of the units, NeedsPreparationBarrier;
\* which phases may fail, whether one already done on disk may fail when re-run,
\* whether CancelTask may arrive and a stale-detection leader force-terminate;
\* bounds on the crashes and on the Raft writes that time out.
SetupType ==
    [nodes : SUBSET Nodes, groupOf : [UnitIds -> Groups], barrier : BOOLEAN,
     fails : SUBSET {"work", "prep", "swap", "flip", "cleanup"},
     rerunFails : BOOLEAN, cancel : BOOLEAN, stale : BOOLEAN, maxCrashes : Nat, maxTimeouts : Nat]

ASSUME UnitsAssumption ==
    /\ UnitToNode \in [UnitIds -> Nodes]
    /\ ThePayload \in Payload
ASSUME SetupsAssumption == Setups \subseteq SetupType
ASSUME BudgetAssumption == maxCompletedCallbackAttempts \in Nat \ {0}

VARIABLES
    setup,     \* the setup of the behaviour, never changed
    task,      \* the replicated record
    flipped,   \* the cluster-wide schema carries the new tokenization
    disk,      \* the migration state of every unit on its node
    cleaned,   \* per node: what came of the clean-up of the ended task
    mem,       \* per node: the scheduler's memory
    inflight,  \* Raft writes that timed out and may still be applied
    crashes, timeouts

vars == <<setup, task, flipped, disk, cleaned, mem, inflight, crashes, timeouts>>

UnitDisk == {"none", "reindexed", "merged", "swapped", "promoted"}
CleanupState == {"no", "done", "given up"}
Steps == {"idle", "prep", "prepAck", "swap", "swapAck", "completed", "fail", "finalize"}

Command ==
    [type : {"prepAck", "postAck"}, node : Nodes, ok : BOOLEAN]
        \cup [type : {"finalize", "fail"}, node : Nodes]
        \cup [type : {"claim", "done", "failed"}, node : Nodes, unit : UnitIds]

\* taskSchedulerState of one node (known: the node has one for the task; an ack
\* is only remembered there), with the locals of its running tick.  A worker
\* that is terminated ends in its own time.
Memory == [up : BOOLEAN, booted : BOOLEAN, handle : {"none", "running", "ending"}, pc : Steps,
           clone : TaskOn(UnitIds) \cup {NoClone}, eff : TaskStatus,
           todo : SUBSET UnitIds, prepFired : SUBSET Groups, swapFired : SUBSET Groups,
           prepErr : BOOLEAN, swapErr : BOOLEAN, prepAcked : BOOLEAN, swapAcked : BOOLEAN,
           completed : BOOLEAN, attempts : 0..maxCompletedCallbackAttempts,
           known : BOOLEAN]

FreshMemory(up, booted) ==
    [up |-> up, booted |-> booted, handle |-> "none", pc |-> "idle", clone |-> NoClone,
     eff |-> "STARTED", todo |-> {}, prepFired |-> {}, swapFired |-> {},
     prepErr |-> FALSE, swapErr |-> FALSE, prepAcked |-> FALSE, swapAcked |-> FALSE,
     completed |-> FALSE, attempts |-> 0, known |-> FALSE]

LocalUnits(n) == {u \in UnitIds : UnitToNode[u] = n}

-----------------------------------------------------------------------------
(* The Raft writes of a node *)

\* (A claim of an ended unit is ignored rather than refused: the same to a worker.)
Refused(cmd, t) ==
    CASE cmd.type = "prepAck"  -> FALSE
      [] cmd.type = "postAck"  -> PostAckRefused(t)
      [] cmd.type = "finalize" -> t.status \notin {"SWAPPING", "FINISHED"}
      [] cmd.type = "fail"     -> t.status \notin {"SWAPPING", "FAILED"}
      [] OTHER -> ~findStartedUnit(t, cmd.unit, cmd.node) \/ UnitTerminal(t.units[cmd.unit])

\* The record after a write that is not refused; acks that come late or twice
\* and repeated ends change nothing.
Applied(cmd, t) ==
    CASE cmd.type = "prepAck" /\ PrepAckApplies(t, cmd.node) -> PrepAcked(t, cmd.node, cmd.ok, 1)
      [] cmd.type = "postAck" /\ PostAckApplies(t, cmd.node) -> PostAcked(t, cmd.node, cmd.ok, 1)
      [] cmd.type = "finalize" /\ t.status = "SWAPPING" -> markTerminal(t, "FINISHED", 1)
      [] cmd.type = "fail" /\ t.status = "SWAPPING" -> markTerminal(t, "FAILED", 1)
      [] cmd.type = "claim" -> UnitProgressed(t, cmd.unit, cmd.node, 0)
      [] cmd.type = "done" -> UnitCompleted(t, cmd.unit, cmd.node, 1)
      [] cmd.type = "failed" -> UnitFailed(t, cmd.unit, cmd.node, 1)
      [] OTHER -> t

\* Node n proposes cmd and continues with onOk or, on an error, with onErr.
Call(n, cmd, onOk, onErr) ==
    \/ /\ ~Refused(cmd, task)
       /\ task' = Applied(cmd, task)
       /\ mem' = [mem EXCEPT ![n] = onOk]
       /\ UNCHANGED <<inflight, timeouts>>
    \/ /\ Refused(cmd, task)
       /\ mem' = [mem EXCEPT ![n] = onErr]
       /\ UNCHANGED <<task, inflight, timeouts>>
    \/ /\ timeouts < setup.maxTimeouts
       /\ timeouts' = timeouts + 1
       /\ inflight' = inflight \cup {cmd}
       /\ mem' = [mem EXCEPT ![n] = onErr]
       /\ UNCHANGED task

-----------------------------------------------------------------------------
(* The phases of a tick, as functions of a node's memory m.  Each enters   *)
(* its phase, or falls through to the next one.                            *)

Idle(m) == [m EXCEPT !.pc = "idle", !.clone = NoClone, !.eff = "STARTED", !.todo = {}]

\* The groups of the task with units on n.
OwnGroups(t, n) == {g \in TaskGroups(t) : LocalGroupUnitIDs(t, g, n) # {}}
UnitsOf(t, gs, n) == UNION {LocalGroupUnitIDs(t, g, n) : g \in gs}

EnterFinalize(m) ==
    IF m.clone.status = "SWAPPING" /\ m.completed THEN [m EXCEPT !.pc = "finalize"] ELSE Idle(m)

\* Mutant: the schema flip does not wait for the other nodes' swap acks.
ReadyToCompleteEarly(m) == m.eff \in {"SWAPPING", "FAILED", "FINISHED", "CANCELLED"}

ReadyToComplete(m) ==
    /\ m.eff \in {"SWAPPING", "FAILED", "FINISHED", "CANCELLED"}
    /\ m.eff = "SWAPPING" => MissingPostCompletionAckNodes(m.clone) = {}

EnterCompleted(m) ==
    IF ReadyToComplete(m) /\ ~m.completed
    THEN [m EXCEPT !.pc = "completed", !.completed = TRUE, !.known = TRUE]
    ELSE EnterFinalize(m)

SwapSettled(m, n) ==
    IF ~m.swapAcked /\ m.eff # "STARTED" /\ OwnGroups(m.clone, n) \subseteq m.swapFired
    THEN [m EXCEPT !.pc = "swapAck"]
    ELSE EnterCompleted(m)

\* Mutant: the swap does not wait for the preparation barrier.
SwapDueAtOnce(m, g) == \/ m.eff \in {"PREPARING", "SWAPPING", "FAILED", "FINISHED"}
                       \/ ~m.clone.barrier /\ AllGroupUnitsTerminal(m.clone, g)

\* Barrier tasks swap once past STARTED and PREPARING; others group by group.
SwapDue(m, g) == \/ m.eff \in {"SWAPPING", "FAILED", "FINISHED"}
                 \/ ~m.clone.barrier /\ AllGroupUnitsTerminal(m.clone, g)

\* Callbacks on a terminal copy return at once; failed units are skipped.
SwapWork(m, gs, n) ==
    {u \in UnitsOf(m.clone, gs, n) : /\ ~IsTerminal(m.clone.status)
                                     /\ m.clone.units[u].status # "FAILED"}

EnterSwap(m, n) ==
    LET due  == {g \in OwnGroups(m.clone, n) \ m.swapFired : SwapDue(m, g)}
        work == SwapWork(m, due, n)
        next == [m EXCEPT !.swapFired = m.swapFired \cup due, !.todo = work, !.pc = "swap",
                          !.known = m.known \/ due # {}]
    IN  IF work = {} THEN SwapSettled(next, n) ELSE next

PrepSettled(m, n) ==
    IF m.prepAcked THEN EnterSwap(m, n) ELSE [m EXCEPT !.pc = "prepAck"]

EnterPrep(m, n) ==
    LET due  == OwnGroups(m.clone, n) \ m.prepFired
        next == [m EXCEPT !.prepFired = m.prepFired \cup due,
                          !.todo = UnitsOf(m.clone, due, n), !.pc = "prep",
                          !.known = m.known \/ due # {}]
    IN  IF ~(m.clone.barrier /\ m.clone.status = "PREPARING") THEN EnterSwap(m, n)
        ELSE IF next.todo = {} THEN PrepSettled(next, n)
        ELSE next

\* Mutant: a cancelled task is done with.
EnterTickIgnoringCancel(m, n) ==
    IF m.eff = "CANCELLED" THEN Idle(m) ELSE EnterPrep(m, n)

\* A cancelled task skips both ack phases.
EnterTick(m, n) ==
    IF m.eff = "CANCELLED" THEN EnterCompleted(m) ELSE EnterPrep(m, n)

\* LocalCallbacksDone: no tracker on this node is short of merged.mig.
LocalCallbacksDone(n) == \A u \in LocalUnits(n) : disk[u] # "reindexed"

\* Mutant: whatever is in the record when the node boots counts as done.
PreMarkDueAlways(t, n) == TRUE

PreMarkDue(t, n) == /\ IsTerminal(t.status)
                    /\ t.status = "FINISHED" => LocalCallbacksDone(n)

\* preMarkTerminalCallbacksLocked: an ended task's callbacks count as fired.
PreMark(m, t, n) ==
    IF ~PreMarkDue(t, n) THEN [m EXCEPT !.booted = TRUE]
    ELSE [m EXCEPT !.booted = TRUE, !.known = TRUE, !.completed = TRUE,
                   !.prepAcked = TRUE, !.swapAcked = TRUE,
                   !.prepFired = TaskGroups(t), !.swapFired = TaskGroups(t)]

MidUnit(t, n) == \E u \in LocalUnits(n) : t.units[u].status = "IN_PROGRESS"

\* reconcileRunningTasks: the worker runs while this node has units to do, and
\* is terminated after that.  In the middle of a unit it may not end at once.
Reconciled(m, t, n) ==
    [m EXCEPT !.handle =
        CASE t.status = "STARTED" /\ NodeHasNonTerminalUnits(t, n) -> "running"
          [] t.status # "STARTED" /\ m.handle # "none" /\ MidUnit(t, n) -> "ending"
          [] OTHER -> "none"]

\* tick, up to its first callback or Raft write.
Tick(n) ==
    /\ mem[n].up
    /\ mem[n].pc = "idle"
    /\ LET booted == IF mem[n].booted THEN mem[n] ELSE PreMark(mem[n], task, n)
           listed == [Reconciled(booted, task, n) EXCEPT !.clone = task, !.eff = task.status]
       IN  mem' = [mem EXCEPT ![n] = EnterTick(listed, n)]
    /\ UNCHANGED <<setup, task, flipped, disk, cleaned, inflight, crashes, timeouts>>

MayFail(phase, done) == phase \in setup.fails /\ (done => setup.rerunFails)

\* OnGroupCompleted on one unit of a barrier task: PREP, idempotent at merged.
PrepUnit(n, u) ==
    /\ mem[n].pc = "prep"
    /\ u \in mem[n].todo
    /\ \E ok \in BOOLEAN :
          /\ ok \/ MayFail("prep", disk[u] # "reindexed")
          /\ disk' = IF ok /\ disk[u] = "reindexed" THEN [disk EXCEPT ![u] = "merged"] ELSE disk
          /\ LET m == [mem[n] EXCEPT !.todo = mem[n].todo \ {u},
                                     !.prepErr = mem[n].prepErr \/ ~ok]
             IN  mem' = [mem EXCEPT ![n] = IF m.todo = {} THEN PrepSettled(m, n) ELSE m]
    /\ UNCHANGED <<setup, task, flipped, cleaned, inflight, crashes, timeouts>>

\* An accepted failure moves the tick, not the copy, to FAILED.
AfterPrepAck(m, n, ok) ==
    EnterSwap([m EXCEPT !.prepAcked = m.known, !.clone.prepAcks[n] = Ack(ok),
                        !.eff = IF ok THEN m.eff ELSE "FAILED"], n)

PrepAck(n) ==
    /\ mem[n].pc = "prepAck"
    /\ LET m  == mem[n]
           ok == ~m.prepErr
       IN  Call(n, [type |-> "prepAck", node |-> n, ok |-> ok],
                AfterPrepAck(m, n, ok), EnterSwap(m, n))
    /\ UNCHANGED <<setup, flipped, disk, cleaned, crashes>>

\* Where a failed swap may leave the unit: untouched, or prepared at most.  A
\* unit of which only some buckets are flipped is not swapped.
SwapFailureLeaves(d) == {d} \cup (IF d = "reindexed" THEN {"merged"} ELSE {})
SwapSuccessLeaves(d) == IF d = "promoted" THEN "promoted" ELSE "swapped"

\* OnSwapRequested (or OnGroupCompleted of a task without barrier) on one unit.
\* An unprepared unit is prepared first.
SwapUnit(n, u) ==
    /\ mem[n].pc = "swap"
    /\ u \in mem[n].todo
    /\ \E ok \in BOOLEAN :
          /\ ok \/ MayFail("swap", disk[u] \in {"swapped", "promoted"})
          /\ \E d \in (IF ok THEN {SwapSuccessLeaves(disk[u])} ELSE SwapFailureLeaves(disk[u])) :
                disk' = [disk EXCEPT ![u] = d]
          /\ LET m == [mem[n] EXCEPT !.todo = mem[n].todo \ {u},
                                     !.swapErr = mem[n].swapErr \/ ~ok]
             IN  mem' = [mem EXCEPT ![n] = IF m.todo = {} THEN SwapSettled(m, n) ELSE m]
    /\ UNCHANGED <<setup, task, flipped, cleaned, inflight, crashes, timeouts>>

AfterSwapAck(m, n, ok) ==
    EnterCompleted([m EXCEPT !.swapAcked = m.known, !.clone.postAcks[n] = Ack(ok),
                             !.eff = IF ~ok /\ m.eff = "SWAPPING" THEN "FAILED" ELSE m.eff])

\* Mutant: the errors of the group callbacks do not reach the ack.
SwapAckAlwaysOk(n) ==
    /\ mem[n].pc = "swapAck"
    /\ Call(n, [type |-> "postAck", node |-> n, ok |-> TRUE],
            AfterSwapAck(mem[n], n, TRUE), EnterCompleted(mem[n]))
    /\ UNCHANGED <<setup, flipped, disk, cleaned, crashes>>

SwapAck(n) ==
    /\ mem[n].pc = "swapAck"
    /\ LET m  == mem[n]
           ok == ~m.swapErr
       IN  Call(n, [type |-> "postAck", node |-> n, ok |-> ok],
                AfterSwapAck(m, n, ok), EnterCompleted(m))
    /\ UNCHANGED <<setup, flipped, disk, cleaned, crashes>>

\* Mutant: an error of OnTaskCompleted is swallowed.
AfterFlipErrorSwallowed(m, permanent) == EnterFinalize(m)

\* Mutant: it is retried for ever.
AfterFlipErrorUnbounded(m, permanent) ==
    Idle([m EXCEPT !.completed = FALSE, !.attempts = m.attempts + 1])

\* The reaction to an error of OnTaskCompleted: retry in a later tick, or fail
\* the task when the error is permanent or the attempts are used up.
AfterFlipError(m, permanent) ==
    LET attempts == IF m.attempts < maxCompletedCallbackAttempts THEN m.attempts + 1 ELSE m.attempts
        next     == [m EXCEPT !.completed = FALSE, !.attempts = attempts]
    IN  IF m.eff # "SWAPPING" THEN EnterFinalize(m)
        ELSE IF permanent \/ attempts = maxCompletedCallbackAttempts THEN [next EXCEPT !.pc = "fail"]
        ELSE Idle(next)

\* OnTaskCompleted: the schema flip, decided by the status of the copy.
FlipSchema(n) ==
    /\ mem[n].pc = "completed"
    /\ mem[n].clone.status = "SWAPPING"
    /\ \/ /\ flipped' = TRUE
          /\ mem' = [mem EXCEPT ![n] = EnterFinalize(mem[n])]
       \/ /\ "flip" \in setup.fails
          /\ flipped' \in {flipped, TRUE}
          /\ \E permanent \in BOOLEAN :
                mem' = [mem EXCEPT ![n] = AfterFlipError(mem[n], permanent)]
    /\ UNCHANGED <<setup, task, disk, cleaned, inflight, crashes, timeouts>>

\* Mutant: the sweep does not wait for the worker.
DrainedAtOnce(m) == TRUE

\* WaitForLocalTaskDrain has nothing to wait for.
Drained(m) == m.handle = "none"

Partial(n) == {u \in LocalUnits(n) : disk[u] = "reindexed"}
Wiped(us) == [u \in UnitIds |-> IF u \in us THEN "none" ELSE disk[u]]

\* OnTaskCompleted of an ended task: once the worker is gone, partial state is
\* wiped; merged and swapped generations survive.  The clean-up is given up when
\* the worker takes longer than the drain's 10 s, and a sweep that fails leaves
\* what it did not reach; the callback succeeds either way and is not repeated.
TerminalCleanup(n) ==
    /\ mem[n].pc = "completed"
    /\ mem[n].clone.status \in {"FAILED", "CANCELLED"}
    /\ \/ /\ Drained(mem[n])
          /\ disk' = Wiped(Partial(n))
          /\ cleaned' = [cleaned EXCEPT ![n] = "done"]
       \/ /\ Drained(mem[n]) /\ "cleanup" \in setup.fails
          /\ \E us \in SUBSET Partial(n) : disk' = Wiped(us)
          /\ cleaned' = [cleaned EXCEPT ![n] = "given up"]
       \/ /\ ~Drained(mem[n])
          /\ UNCHANGED disk
          /\ cleaned' = [cleaned EXCEPT ![n] = "given up"]
    /\ mem' = [mem EXCEPT ![n] = EnterFinalize(mem[n])]
    /\ UNCHANGED <<setup, task, flipped, inflight, crashes, timeouts>>

\* OnTaskCompleted on any other copy does nothing.
NothingToComplete(n) ==
    /\ mem[n].pc = "completed"
    /\ mem[n].clone.status \notin {"SWAPPING", "FAILED", "CANCELLED"}
    /\ mem' = [mem EXCEPT ![n] = EnterFinalize(mem[n])]
    /\ UNCHANGED <<setup, task, flipped, disk, cleaned, inflight, crashes, timeouts>>

MarkFailed(n) ==
    /\ mem[n].pc = "fail"
    /\ Call(n, [type |-> "fail", node |-> n], Idle(mem[n]), Idle(mem[n]))
    /\ UNCHANGED <<setup, flipped, disk, cleaned, crashes>>

\* An error re-opens OnTaskCompleted for the next tick.
Finalize(n) ==
    /\ mem[n].pc = "finalize"
    /\ Call(n, [type |-> "finalize", node |-> n],
            Idle(mem[n]), Idle([mem[n] EXCEPT !.completed = FALSE]))
    /\ UNCHANGED <<setup, flipped, disk, cleaned, crashes>>

-----------------------------------------------------------------------------
(* The workers of a node (processOneUnit) *)

Working(n, u) == mem[n].up /\ mem[n].handle = "running" /\ UnitToNode[u] = n

ClaimUnit(n, u) ==
    /\ Working(n, u)
    /\ task.units[u].node = NoNode
    /\ Call(n, [type |-> "claim", node |-> n, unit |-> u], mem[n], mem[n])
    /\ UNCHANGED <<setup, flipped, disk, cleaned, crashes>>

\* The reindex of the unit ends and is reported.
CompleteUnit(n, u) ==
    /\ Working(n, u)
    /\ task.units[u].status = "IN_PROGRESS"
    /\ disk' = [disk EXCEPT ![u] = "reindexed"]
    /\ Call(n, [type |-> "done", node |-> n, unit |-> u], mem[n], mem[n])
    /\ UNCHANGED <<setup, flipped, cleaned, crashes>>

FailUnit(n, u) ==
    /\ Working(n, u)
    /\ MayFail("work", disk[u] # "none")
    /\ task.units[u].status = "IN_PROGRESS"
    /\ Call(n, [type |-> "failed", node |-> n, unit |-> u], mem[n], mem[n])
    /\ UNCHANGED <<setup, flipped, disk, cleaned, crashes>>

\* A terminated worker may come to the end of its unit before it sees that it
\* was told to stop; its report goes nowhere.
LateUnit(n, u) ==
    /\ mem[n].handle = "ending" /\ UnitToNode[u] = n
    /\ task.units[u].status = "IN_PROGRESS"
    /\ disk' = [disk EXCEPT ![u] = "reindexed"]
    /\ UNCHANGED <<setup, task, flipped, cleaned, mem, inflight, crashes, timeouts>>

WorkerEnds(n) ==
    /\ mem[n].handle = "ending"
    /\ mem' = [mem EXCEPT ![n].handle = "none"]
    /\ UNCHANGED <<setup, task, flipped, disk, cleaned, inflight, crashes, timeouts>>

-----------------------------------------------------------------------------
(* The environment *)

\* A write that timed out is applied after all.
LateApply(cmd) ==
    /\ cmd \in inflight
    /\ inflight' = inflight \ {cmd}
    /\ task' = IF Refused(cmd, task) THEN task ELSE Applied(cmd, task)
    /\ UNCHANGED <<setup, flipped, disk, cleaned, mem, crashes, timeouts>>

CancelTask ==
    /\ setup.cancel
    /\ IsCancellable(task.status)
    /\ task' = markTerminal(task, "CANCELLED", 1)
    /\ UNCHANGED <<setup, flipped, disk, cleaned, mem, inflight, crashes, timeouts>>

\* runStaleDetectionPhase decided, on an earlier listing, that an owner is lost;
\* the command may find the record in any active status.
ForceTerminateTask ==
    /\ setup.stale
    /\ ForceTerminateApplies(task)
    /\ task' = markTerminal(task, "FAILED", 1)
    /\ UNCHANGED <<setup, flipped, disk, cleaned, mem, inflight, crashes, timeouts>>

Crash(n) ==
    /\ mem[n].up
    /\ crashes < setup.maxCrashes
    /\ crashes' = crashes + 1
    /\ mem' = [mem EXCEPT ![n] = FreshMemory(FALSE, FALSE)]
    /\ UNCHANGED <<setup, task, flipped, disk, cleaned, inflight, timeouts>>

\* FinalizeCompletedMigrations, at shard load: what is merged becomes canonical.
\* The migration modelled changes a tokenization, so its index stays enabled and
\* schemaAuthorizesFinalization lets every rename through; a migration that
\* enables an index waits there for its flag.
FinalizedOnLoad(n) ==
    [u \in UnitIds |-> IF u \in LocalUnits(n) /\ disk[u] = "merged" THEN "promoted" ELSE disk[u]]

\* Shards load, then the scheduler starts.  When the tasks cannot be listed the
\* pre-mark is deferred to the first tick.
Restart(n) ==
    /\ ~mem[n].up
    /\ disk' = FinalizedOnLoad(n)
    /\ \/ mem' = [mem EXCEPT ![n] =
                     Reconciled(PreMark(FreshMemory(TRUE, FALSE), task, n), task, n)]
       \/ mem' = [mem EXCEPT ![n] = FreshMemory(TRUE, FALSE)]
    /\ UNCHANGED <<setup, task, flipped, cleaned, inflight, crashes, timeouts>>

-----------------------------------------------------------------------------
Init ==
    /\ setup \in Setups
    /\ task = NewTask(0, ThePayload, setup.barrier, 0, setup.groupOf)
    /\ flipped = FALSE
    /\ disk = [u \in UnitIds |-> "none"]
    /\ cleaned = [n \in Nodes |-> "no"]
    /\ mem = [n \in Nodes |-> FreshMemory(TRUE, TRUE)]
    /\ inflight = {}
    /\ crashes = 0
    /\ timeouts = 0

\* The steps of a node's tick after it listed the tasks.
TickStep(n) ==
    \/ \E u \in UnitIds : PrepUnit(n, u) \/ SwapUnit(n, u)
    \/ PrepAck(n) \/ SwapAck(n)
    \/ FlipSchema(n) \/ TerminalCleanup(n) \/ NothingToComplete(n)
    \/ MarkFailed(n) \/ Finalize(n)

Work(n, u) == ClaimUnit(n, u) \/ CompleteUnit(n, u)

Environment ==
    \/ CancelTask
    \/ ForceTerminateTask
    \/ \E cmd \in inflight : LateApply(cmd)
    \/ \E n \in setup.nodes : Crash(n) \/ WorkerEnds(n)
    \/ \E n \in setup.nodes, u \in UnitIds : FailUnit(n, u) \/ LateUnit(n, u)

Next ==
    \/ \E n \in setup.nodes : Tick(n) \/ TickStep(n) \/ Restart(n)
    \/ \E n \in setup.nodes, u \in UnitIds : Work(n, u)
    \/ Environment

Spec == Init /\ [][Next]_vars

\* The scheduler loop ticks for as long as its process runs, a tick goes on, a
\* worker gets on with its unit, and a crashed node is started again.
Fairness == /\ \A n \in Nodes : /\ WF_vars(n \in setup.nodes /\ Tick(n))
                                /\ WF_vars(n \in setup.nodes /\ TickStep(n))
                                /\ WF_vars(n \in setup.nodes /\ Restart(n))
            /\ \A u \in UnitIds : WF_vars(Work(UnitToNode[u], u))

FairSpec == Spec /\ Fairness

-----------------------------------------------------------------------------
(* Properties *)

\* Every variable has its type: the record of types.go, the marker files of a
\* unit, the memory of a scheduler; attempts, crashes and timeouts keep to their
\* bounds.
TypeOK ==
    /\ task \in TaskOn(UnitIds)
    /\ flipped \in BOOLEAN
    /\ disk \in [UnitIds -> UnitDisk]
    /\ cleaned \in [Nodes -> CleanupState]
    /\ mem \in [Nodes -> Memory]
    /\ inflight \subseteq Command
    /\ crashes \in 0..setup.maxCrashes
    /\ timeouts \in 0..setup.maxTimeouts

OnNewData(u) == disk[u] \in {"swapped", "promoted"}

\* A FINISHED task is a finished migration: every replica serves the new data
\* and the schema says so, whatever failed the first time, crashed or timed out
\* on the way (MarkTaskFinalized is only proposed after OnTaskCompleted
\* succeeded).
FinishedIsComplete ==
    task.status = "FINISHED" => flipped /\ \A u \in UnitIds : OnNewData(u)

\* No phase of the cutover itself fails; units, preparations and nodes may.
CutoverSound == ~setup.stale /\ setup.fails \cap {"swap", "flip"} = {}

\* The cluster-wide schema flip of OnTaskCompleted commits only after every
\* owner's swap ack landed with success in the replicated record, although the
\* node that flips looks at a copy listed earlier (runCompletedCallbackPhase).
FlipNeedsEveryAck ==
    CutoverSound /\ flipped =>
        AllUnitsTerminal(task) /\ AllPostCompletionAcksSuccessful(task)

\* Once the flip has happened the task can only finish: a cancel or a failure of
\* another node does not overtake the flip of a tick in progress.
CutoverNotTorn ==
    CutoverSound /\ flipped => task.status \in {"SWAPPING", "FINISHED"}

\* Unless a preparation fails, a bucket pointer is flipped by a running node only
\* after every owner acknowledged its preparation (the PREPARING -> SWAPPING
\* barrier); without a barrier, only after every unit of the group is done.
SwapBehindBarrier ==
    \A u \in UnitIds : disk[u] = "swapped" /\ "prep" \notin setup.fails =>
        IF task.barrier THEN AllUnitsTerminal(task) /\ allExpectedPreparationAcksLanded(task)
        ELSE AllGroupUnitsTerminal(task, setup.groupOf[u])

\* A success in the record is true of the disk of the node that reported it,
\* also when the report was delayed past a crash of that node or a re-run of
\* its callbacks.
AcksAreHonest ==
    \A u \in UnitIds :
        /\ task.prepAcks[UnitToNode[u]] = "ok" => disk[u] \in {"merged", "swapped", "promoted"}
        /\ task.postAcks[UnitToNode[u]] = "ok" => OnNewData(u)

\* With failures, crashes and lost writes, but none of them for ever, the task
\* comes to an end: no combination of fired marks, acks and refusals wedges it.
\* When no phase fails and nobody ends it, that end is a finished migration.
EventuallyEnds ==
    <>(/\ IsTerminal(task.status)
       /\ setup.fails = {} /\ ~setup.cancel /\ ~setup.stale =>
              task.status = "FINISHED" /\ flipped)

\* What a node has cleaned up stays clean: the sweep comes after the worker's
\* last write, and no tick of the ended task starts another worker
\* (autoCleanupAfterTerminal drains before it sweeps).
CleanedStaysClean ==
    \A n \in Nodes : cleaned[n] = "done" => Partial(n) = {}

\* Without crashes every node comes to the clean-up of a cancelled task, also
\* one that was in the middle of a tick when the cancel was applied, and gives
\* it up only where sweeps fail or its worker was in the middle of a unit.
\* (After a crash the pre-mark of ended tasks suppresses the clean-up.)
CancelIsCleanedUp ==
    task.status = "CANCELLED" ~>
        \/ crashes > 0
        \/ \A n \in setup.nodes :
              \/ cleaned[n] = "done"
              \/ cleaned[n] = "given up" /\ ("cleanup" \in setup.fails \/ MidUnit(task, n))

-----------------------------------------------------------------------------
(* What the comments of the code say of it *)

\* manager.go, RecordPostCompletionAck: a failed swap "flips to FAILED, which
\* skips the cluster-wide schema flip in OnTaskCompleted".
NoFlipAfterFailedSwap ==
    (\E n \in Nodes : task.postAcks[n] = "failed") => ~flipped

\* manager.go, RecordPostCompletionAck: it "gates SWAPPING -> FINISHED on every
\* expected ack landing successfully".
FinishedHasEveryAck ==
    task.status = "FINISHED" => AllPostCompletionAcksSuccessful(task)
=============================================================================
