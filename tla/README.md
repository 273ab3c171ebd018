# Verification of Weaviate's distributed tasks and replica movements

TLA+ models of two protocols that a Weaviate cluster runs on top of Raft, checked
with TLC on small instances and, for all safety properties of the passing runs, proved
with TLAPS for any number of nodes, units, tasks, movements and writes:

- *distributed tasks* (`src/cluster/distributedtask`) and the runtime reindex
  built on them (`src/adapters/repos/db/reindex_*.go`);
- *replica movement* (`src/cluster/replication`), with the change log on the
  source (`shard_changelog.go`), the routing and the two-phase write
  (`src/cluster/router`, `src/usecases/replica`).

## 1. The system and its parts

A *distributed task* is long-running work that a cluster does together: change
the tokenization of a property, rebuild an index, drop a vector. It is submitted
once, split into *units* (a shard replica on a node), executed by every node on
its own units, and ended once for all of them.

| part | state | operations | in this project |
|---|---|---|---|
| `Manager` (Raft state machine) | task table: status, units, acks, retries, versions | AddTask, RecordUnitCompletion, UpdateUnitProgress, RecordPreparationCompleteAck, RecordPostCompletionAck, MarkTaskFinalized, MarkTaskFailed, CancelTask, ForceTerminateTask, CleanUpTask, deletions by the schema | `DistributedTask`, `TaskManager` |
| `Scheduler` (every node) | fired marks, ack marks, errors, attempts; memory only | one tick: reconcile, PREP, SWAP, completion, finalize; bootstrap | `TaskScheduler` |
| `ReindexProvider` (every node) | marker files of a unit, workers | StartTask, OnGroupCompleted, OnSwapRequested, OnTaskCompleted, clean-up, promotion at shard load | `TaskScheduler` |
| Raft endpoints | none | a write applies, is refused, or times out and may apply later | `TaskScheduler` (`Call`, `LateApply`) |
| conflict detectors | none | CheckConflict, CheckClassMutation | `DistributedTask`, `TaskManager` |
| schema state machine | classes, properties | the flip; DELETE_CLASS; removal of target vectors | one Boolean, two deletions |

How they interact: a scheduler lists the tasks *once* per tick and works on that
copy. Its callbacks run without a lock and its reports go through Raft, so the
record moves on while the tick runs. A barrier task goes STARTED → PREPARING →
SWAPPING → FINISHED. It leaves STARTED when every unit is completed, PREPARING
when every owner has acknowledged its preparation, and in SWAPPING any node that
sees every swap ack flips the cluster-wide schema and proposes FINISHED.

Behaviours that are hard to test here: a copy that is stale when it is acted on;
a write that reports an error and is applied later; an ack that is dropped
without an error because it is the second one or comes too late; marks that are
set before a callback and lost in a crash; a cancel, a failure or a class
deletion between any two of these steps.

A *replica movement* copies or moves one replica of a shard to another node. It is
requested once, recorded in a table that Raft replicates, and carried out by the
target node:

| part | state | operations | in this project |
|---|---|---|---|
| `ShardReplicationFSM`, `Manager` (Raft state machine) | operations: state, flags, errors | Replicate, CancelReplication, DeleteReplication, RegisterError, UpdateReplicationOpStatus, SetUnCancellable, CompleteCancellation, RemoveReplicaOp, clean-up of old ones | `ReplicaMovement` |
| producer, `CopyOpConsumer` (every target) | messages, workers, tokens, cancellation marks | Consume, the handler of each state, cancelOp | `ReplicaMovement` |
| sharding state | the replica set of the shard | AddReplicaToShard, DeleteReplicaFromShard | `ReplicaMovement`, `MovementWrites` |
| change log, copier, tailer | log, position of the tailer | open, append, snapshot, tail, finalize, stop | `MovementWrites`; open or not in `ReplicaMovement` |
| router, coordinator, writes in flight | view of the movement, legs of a write | route, prepare, commit, abort, drain | `MovementWrites` |

REGISTERED → HYDRATING (open the log on the source, then copy its files) →
FINALIZING (replay the log so far, add the target to the replica set) →
INTEGRATING (wait until every node routes to the target and its older writes are
over, seal the log, replay the rest) → for a MOVE DEHYDRATING (wait until no node
routes to the source, remove it) → READY. It can be cancelled until the target is
added.

Behaviours that are hard to test here: a worker acts on a copy of the status that
it was dispatched with; the target's tables lag behind the leader's; the nodes
learn of a state at different times and route writes accordingly; a cancellation
meets a worker anywhere, and the next movement to the same node may start before
the clean-up of the last is over; a command is applied although its sender got an
error; either end restarts.

Parts of the repository outside these two are listed in `PROJECT.json` with the
reason they are not modelled.

## 2. Modules

| module | content |
|---|---|
| `DistributedTask` | tasks, units and acks as values; for every command a guard and the resulting task. Pure operators shared by the two state machines |
| `TaskManager` | the task table. One action per Raft command, plus `DeleteTasksForCollection` and `PurgeTasksForCollectionTargetVectors`, which the schema triggers. Any caller may send any command at any time; a refused command stutters |
| `TaskLifecycle` | abstract specification: per task id a version, a kind and a status, and the moves between statuses. `TaskManager` implements it (`Life` is the mapping) |
| `TaskScheduler` | one reindex task executed by several nodes: record, schema flag, marker files, scheduler memory, lost writes, crashes |
| `ReplicaMovement` | movements of one shard's replicas: the leader's table and replica set, each node's lagging copy of them, consumer, workers step by step, faults |
| `MovementLifecycle` | abstract specification of a movement: admitted, joined, shed, finished, cancelled, forgotten. `ReplicaMovement` implements it (`Phase` is the mapping) |
| `MovementWrites` | the data of one movement: client writes, views of the nodes, change log, replay, the barriers of INTEGRATING and DEHYDRATING |
| `MCTaskManager`, `MCTaskScheduler`, `MCReplicaMovement`, `MCMovementWrites` | the values of the constants for TLC |
| `TaskEvolutionProofs`, `TaskManagerProofs`, `TaskSchedulerProofs`, `TaskCutoverProofs`, `ReplicaMovementProofs`, `ReplicaSetProofs`, `MovementWritesProofs`, `MovementQuorumProofs` | the theorems |

Names follow the code. Operators introduced as "Mutant" are plausible bugs, kept
to show that each property can fail; no specification uses them.

Correspondence of `TaskScheduler` with the code:

- `Tick(n)` takes the copy (`clone`) and the per-tick `eff` (`effectiveStatus`);
  `EnterTick`, `EnterPrep`, `EnterSwap`, `EnterCompleted` and `EnterFinalize` are
  the conditions between the phases. A phase with nothing to do takes no step.
- `PrepUnit`, `SwapUnit` are one unit of a provider callback; `PrepAck`,
  `SwapAck`, `MarkFailed`, `Finalize` are Raft writes; `FlipSchema`,
  `TerminalCleanup`, `NothingToComplete` are the three outcomes of
  `OnTaskCompleted`. Which one it is depends on the *copy's* status, as in the code.
- `ClaimUnit`, `CompleteUnit`, `FailUnit` are the worker goroutines. A worker that
  is terminated in the middle of a unit ends when it sees that (`WorkerEnds`), and may
  come to the end of its unit first (`LateUnit`). `TerminalCleanup` sweeps when the
  worker is gone, may fail half way, and is given up when the worker takes longer than
  the 10 s of the drain; `cleaned` says which, as the callback succeeds in each case.
- `Crash` loses the scheduler's memory and keeps the disk; `Restart` loads the
  shards (which promotes merged data) and bootstraps the scheduler, with the
  pre-mark done at once or deferred to the first tick.

Abstractions: a payload is a collection with a set of properties; progress is a
small counter; an ack's text is dropped; a unit's disk is the last marker file it
reached; the backfill of a unit is one step; the schema is one Boolean; stale
detection may fire at any time (clocks are not modelled). The migration of
`TaskScheduler` changes a tokenization, so its index is listed in the schema
throughout and the shard load does not defer the promotion; a migration that
enables an index is deferred there. Deadlines are choices: a wait that has one may
end early at any time.

Correspondence of `ReplicaMovement` with the code:

- `ops` and `replicas` are the leader's; a command is one step. `CatchUp(n)` brings
  a node's own copies (`seen`, `reps`) up to date, and loads or drops its shard.
- `Consume` and `Spawn` are the two halves of the consumer's loop, before and
  after the wait for a token. `worker[o].copy` is the status that the goroutine
  captured; `pc` is the place in `processStateAndTransition`, a handler or
  `cancelOp`. Handlers are split where another actor can come between.
- `StepFails`, `TimesOut`, `AnswerLost`, `NotifyFails` and `Crash` are the faults;
  the operation is then retried from its recorded state, as the code does.
- `StopChangeCapture` and `dropCancelledOpTargetShard` may fail as well. Neither holds
  up a cancellation (the errors are logged), so `kept` remembers what the last call
  left: an open log, files on the target. `processCancelledOp` alone fails on a failed
  drop, and runs again.
- The barriers are passed at any time, or never: `stalls` has the states that some node
  does not report, as its 30 s of attempts were used up.
- A shard directory is "none", "partial", "whole" or "hollow": an empty shard
  that was created because there was nothing to load. What the barriers wait for and
  the written objects are in `MovementWrites`.

Correspondence of `MovementWrites` with the code:

- `stage` counts the movement's commands in the log; `view[n]` is how far node n
  has applied them. `FilterOneShardReplicas` gives reads and writes their replicas
  by the node's own view.
- `Register`, `Push`, `Prepare`, `StartCommit`, `Commit`, `Return` and `Abort` are
  `Replicator.PutObject` and the coordinator. Legs go on after the answer. `Refuse` is a
  prepare that fails; `Lose` one that is made and whose answer, commit or abort is
  lost: nothing is sent again and nothing expires, so it stays pending.
- A write may be sent while older ones of its object are under way (`waits` is FALSE):
  nothing in the code orders them. Most scenarios have clients that wait, since what is
  promised differs (section 3).
- `store[n][k]` is the last write of an object, negative for a tombstone. `Commit`
  applies without comparing versions, `TailAndApply` with (last write wins), as
  `shard_write_put.go` and the replay do.
- `Apply` of INTEGRATING or DEHYDRATING takes the writes then in flight;
  `ReportReached` waits for them, or gives up its report (`silent`). `EnterFinalize` and
  `Seal` are the two halves of `FinalizeChangeLog`.

## 3. Runs

| run | instance | shows |
|---|---|---|
| `manager_lifecycle` | 1 id, 2 nodes, 2 units, 2 submissions, retry budget 0 or 1, with and without barrier | status machine, barrier, acks, retries, end stamps, refinement of `TaskLifecycle` |
| `manager_tables` | 2 reindex ids or 2 vector drops, payloads on 2 collections | active reindex tasks never overlap and are never removed from under their nodes; versions identify tasks; an active task goes only with its class |
| `scheduler_safety` | 2 owners, in one setup a third node that owns nothing; units, preparations, swaps, flips or sweeps fail, workers end late, a cancel, a force-termination, crashes, a lost write | the flip needs every ack and nothing overtakes it; no swap ahead of the barrier; acks are true of the disk; FINISHED is complete; what is cleaned up stays clean |
| `scheduler_liveness` | 2 nodes; preparations and flips, units and swaps, or swaps and sweeps fail, a cancel, a force-termination, or nothing but up to 2 crashes and a lost write; fair | the task ends, FINISHED with the schema flipped if nothing fails and nobody ends it; without crashes every node comes to the clean-up of a cancelled one, and gives it up only where sweeps fail or a worker was in the middle of a unit |
| `movement_safety` | 3 nodes; one movement with 2 faults, a target asked for twice, a chain, a return to a former source | a replica holds the data; as many routable replicas as the replication factor; a joined target is never cancelled; a cancelled movement leaves a log or files only where its last stop or drop failed; states never go back; refinement of `MovementLifecycle` |
| `movement_liveness` | one COPY or MOVE, cancelled and deleted at will, 2 faults, or 1 and a report given up; fair | an accepted cancellation ends; every movement ends, but for two cases after the target has joined |
| `movement_writes` | 1, 2 or 3 replicas, 1 or 2 writes at ONE or QUORUM, one after the other or overlapping, a refused prepare or a lost message, a re-run handler, a lost log, a report given up; fair | no write that the source acknowledged or the target took is missing at the target; QUORUM reads see QUORUM writes; the target joins no older than FINALIZING began; the movement ends unless something it waits for is lost |

Five more runs check one sentence of the code's comments each and find it
violated; section 5.

Why the bounds are enough for the cases of interest. Tasks: two owners are the
least that have a barrier between them, the third node shows a flip by a node that
owns nothing; two units give one group with two owners or two groups; two
submissions of one id give a delayed command an old and a new task to hit; one
lost write can be applied after its sender's retry, crash or restart; two crashes
can hit both owners, or one of them again during its recovery.
`maxCompletedCallbackAttempts` is 2 instead of 5: one retry and the last attempt.
The retry budget 1 has a unit that is retried and one that is exhausted.

Movements: two operations are the least that share a target, a source, or pass a
replica on; `MaxErrors` is 1 instead of 50, one error that is counted and one that
cancels, so two faults reach both. One token makes the consumer wait. Two writes to
one object give replay an order to get wrong; two to different objects, or to one,
overlap;
three replicas are the least where a quorum that counts the source can leave a
peer out.

What the properties except, and why it is so in the code:

- `CancelIsCleanedUp`: autoCleanupAfterTerminal skips the sweep when the drain takes
  too long and swallows the sweep's errors (reindex_provider.go:1715, 1741), and a
  restarted node takes the clean-up as done. What is left is swept before the next
  submission, which is not modelled.
- `CaptureStops`, `CancelLeavesNoResidue`: an operation becomes CANCELLED whatever
  became of its StopChangeCapture and its drop (consumer.go:508, 528). The properties
  say that nothing else leaves a log or files behind: not a retry, a lost answer, a
  crash, a worker that was still copying, or a clean-up by a stale copy.
- `MovementSettles`, `MovementEnds`: a report that was given up is not made again
  (replication/manager.go:126), and a prepare that is neither committed nor aborted stays in the
  source's map (shard_changelog.go:90); the barrier and the seal wait for them. A log
  lost after the add and before INTEGRATING makes FINALIZING fail for ever.
- `TargetIsCurrent`, `QuorumReadSeesAck`, `JoinsFresh` are about writes whose older ones
  were over when they were sent. Overlapping writes of one object may be committed in
  either order on each replica, movement or not, since a commit compares no versions; a
  newer one may overlap with the write in question.
- `TargetIsCurrent` leaves out a write that peers alone acknowledged: its prepare may
  come to the source after the seal looked for pending ones, and then the write is
  neither in the log nor routed to the target. It also leaves out one whose leg to the
  target failed. Both are what ONE promises; repair is not modelled.

Bounds that matter to the result: the scenario `Return` of `movement_safety` has
one fault. With two, a MOVE from n1 to n2 that removed n1 and lost its worker
before READY is retried on a node whose table has meanwhile seen n1 come back as
the target of another movement, and removes it again. The comment calls the
handler "Retry-safe via the "still in replica set" guard" (consumer.go:842), which
holds unless the source returns; it is recorded as a hazard, and it is one of the two
reasons for the hypothesis `TakenOnce` of the theorems (section 6).

`CHECK_DEADLOCK FALSE` is set where a behaviour really ends: in the manager runs
the bounded clock and submissions run out, in the movement runs every requested
movement and write is over.

## 4. Fairness

`scheduler_liveness` uses `FairSpec`:

- `WF(Tick(n))`, `WF(TickStep(n))`: the scheduler loop runs on a ticker as long
  as its process does, and a tick has no wait of its own;
- `WF(Work(n, u))`: a worker goroutine gets on with its unit;
- `WF(Restart(n))`: a crashed node is started again, which the design requires
  for PREPARING (nothing gives up on a lost node there).

`movement_liveness`: `WF(CatchUp(n))`, as Raft delivers; `WF(Spawn)` and
`WF(WorkerStep(o))`, as goroutines go on and every call they make has a deadline (a
barrier whose report was given up is not a step that is enabled);
`SF(Consume(o))`, as the producer offers every operation of its node at each tick,
so one that is eligible again and again cannot be passed over for ever.

`movement_writes`: weak fairness of the worker, of each node (applying and
reporting) and of each write that was sent: a prepare has 20 s and a commit is
answered or fails at the coordinator, and a message that does not arrive is `Refuse`
or `Lose`, after which there is nothing to be fair to. A report that is given up is
not enabled. Writes need not be sent.

No fairness is assumed of a request, a cancellation, a force-termination, a
failure, a crash, of a lost write being applied or of a terminated worker's end. These are bounded, so they are
not repeated for ever.

## 5. Findings

Distributed tasks. Both have one root: a failed ack moves the tick's
`effectiveStatus` to FAILED while the copy handed to the provider keeps its
status, and an ack that the Manager drops returns no error.

- `swap_failure`: a node whose swap failed flips the cluster-wide schema in the
  same tick (scheduler.go:1206), although FAILED "skips the cluster-wide schema
  flip" (manager.go:611). Likewise a node whose preparation failed swaps its
  buckets in the same tick (scheduler.go:1042).
- `swap_rerun`: a node that restarts after its successful swap ack and fails when
  the callback is repeated takes the dropped second ack for an accepted failure,
  skips the missing-ack gate and finishes the task before the other owner has
  acknowledged. The same happens in PREPARING, and when a force-termination beats
  the last swap ack; these have no runs of their own.

For this reason `FlipNeedsEveryAck` and `CutoverNotTorn` are stated of setups in
which neither swaps nor flips fail and nobody force-terminates, `SwapBehindBarrier`
of those in which preparations do not fail, and in no passing run does a callback
fail that is already done on disk (`rerunFails`).

Replica movement:

- `movement_delete`: deleting a cancelled movement drops the target's directory
  unless the node is a replica (consumer.go:581). A newer movement to the same
  node that is still copying is not in the replica set, so its staged files go
  too; the node loads an empty shard and joins with it. The comment calls the
  guard "fail-closed on every branch" and gives a newer operation as its reason.
  In `movement_safety` the first of two movements to a node is cancelled and not
  deleted.
- `writes_lost_log`: a log lost after the drain of FINALIZING is taken as sealed
  by a former attempt (consumer.go:806), although losing it should let the tailer
  abort the movement (shard_changelog.go:174). In `movement_writes` an append
  fails only before that drain.
- `writes_delete`: a delete executed on the target before the put it deletes is
  replayed leaves no tombstone (shard_write_delete.go:72), and its own entry may
  be cut off by the seal, which the comment calls harmless
  (shard_changelog.go:80): the object is back on the target. `movement_writes`
  has puts only.

Two comments are contradicted by the models without a run of their own. A failed
StopChangeCapture of HYDRATING is left to "the orphan-sweep in
Shard.ActivateChangeLog" (consumer.go:670), but that sweep keeps the log of the
operation that is being started, whose exclusive open then fails until the errors
cancel it. And STARTED or PREPARING "never reach OnTaskCompleted"
(reindex_provider.go:1627), but after a failed preparation ack a copy in PREPARING
does (`NothingToComplete`): the node marks the completion as done, and its clean-up
of the FAILED task does not run.

## 6. Proofs

### Distributed tasks

Proved in `TaskManagerProofs` for every value of the constants, from the named
assumptions of `DistributedTask` and `TaskManager` (the empty node is no node,
`NoTask` is no task and no abstract life, namespaces are the two registered ones,
budgets and bounds are natural numbers):

| theorem | property |
|---|---|
| `TypeCorrect` | `TypeOK` |
| `TasksInvariant` | the inductive invariant `TasksInv` |
| `WorkIsDone` | `WorkDoneBeforeBarrier` |
| `BarrierIsHeld` | `BarrierHeld` |
| `EndIsStamped` | `EndStamped` |
| `RetriesAreBounded` | `RetryBudgetKept` |
| `ActiveTasksApart` | `NoConflictingActive` |
| `VersionsAreUnique` | `VersionsUnique` |
| `TerminalStays` | `TerminalIsFinal` |
| `ReportsAreKept` | `ReportsStand` |
| `ReindexIsKept` | `ActiveReindexKept` |
| `RemovedWithItsClass` | `ActiveGoesWithItsClass` |
| `ManagerImplementsLifecycle` | `ImplementsLifecycle` |

The argument has three layers. `TaskEvolutionProofs`: every command turns a
well-typed task into a well-typed task; and every command that applies to a task is
an *evolution* of it, which keeps what the submission fixed, keeps reports, moves the
status forward and preserves `TaskInv`.
`TaskManagerProofs`: every step of the Manager is a submission, the evolution of
one task, a removal of tasks, or leaves the table alone (`StepCases`); each
theorem then has those four cases instead of one per command.

`TaskInv` says of one task: past STARTED every unit is completed; a barrier task
past PREPARING has the preparation ack of every unit's node; the end is stamped
exactly when the status is terminal; a failed unit means a failed task; attempts
stay within the budget; a completed or retried unit has a node. The barrier is
not inductive without the completed units, as the owners that must acknowledge
are read off the units, and those not without "a failed unit means a failed
task", as the Manager advances on "all terminal and none failed". `TerminalStays`
and `ReportsAreKept` also need `VersionsUnique`, since they speak of the same
task before and after a step.

### The schedulers

Proved in `TaskSchedulerProofs`, from the assumptions of `DistributedTask` and
`TaskScheduler` (units are placed on nodes, setups are well-formed, the attempts of
OnTaskCompleted are bounded by a positive number), so for any number of nodes,
units and groups, any placement and any crashes, timeouts and failing phases:

| theorem | property |
|---|---|
| `SchedulerInvariant` | the inductive invariant `SchedulerInv` |
| `SchedulerTypeCorrect` | `TypeOK` |
| `SchedulerAcksAreHonest` | `AcksAreHonest` |
| `SchedulerSwapBehindBarrier` | `SwapBehindBarrier` |

The two safety properties relate record and disks, and a tick changes both by what
it remembers and by an old copy of the record. `SchedulerInv` has one part for each:
`World` (record and disks: a unit is prepared only once it is done, done only with
its work on disk, acks are true, swaps are behind the barrier), `Sound` (a write on
its way says something that is still true when it is applied, or the task is over),
and `Good` (the copy was the record once; the groups a node has fired are done on its
disk but for the units of the running phase, or an error is noted; what is left to
swap may be swapped). The parts are stated of explicit values, so one lemma, that they
survive when record and disk grow, serves every step of the other nodes. `TaskInv` and
the evolution lemmas of the Manager say that the record does grow.

### The cutover

Proved in `TaskCutoverProofs`, on top of `SchedulerInv`:

| theorem | hypothesis | property |
|---|---|---|
| `CutoverInvariant` | `RerunsSucceed` | the inductive invariant `CutoverInv` |
| `CutoverFinishedIsComplete` | `RerunsSucceed` | `FinishedIsComplete` |
| `CutoverFlipNeedsEveryAck` | `RerunsSucceed` | `FlipNeedsEveryAck` |
| `CutoverIsNotTorn` | none | `CutoverNotTorn` |
| `SchedulerCleanedStaysClean` | none | `CleanedStaysClean` |

`RerunsSucceed` says that a preparation or a swap that is done on disk does not fail
when a restarted node runs it again. Units, first attempts of any phase, flips and nodes
may fail, writes may be lost and applied late, and the task may be cancelled or
force-terminated at any time. The hypothesis is needed: `swap_rerun` finishes a task
early without it, and where preparations may fail in a re-run both `FinishedIsComplete`
and `FlipNeedsEveryAck` are violated.

A node proposes FINISHED, and flips the schema, by a copy of the record that others
have changed since and by marks it set in earlier ticks. `CutoverInv` says what these
are worth. `Outcome`: a failed ack in the record means a lost (failed or cancelled)
task, and where the cutover is sound (`CutoverSound`) a flipped schema means
every swap ack is in the record. `Behind`: what the copy says of the status still holds of
the record, and an ack that it has is in the record or the task is over. `Aware`: a tick takes the task
for failed only if it is lost. `PrepErrSeen`, `SwapErrSeen`: an error that a node
remembers is one its disk still shows, or the task is lost; this is what fails when a
re-run fails, and it is why the missing-ack gate can be skipped on an error. `Careful`:
a node that has marked the completion as done finds the task lost, or flipped with every
unit swapped. `Timely`: the same of a finalize on its way, however late it is
applied. There is one lemma per action of a tick and one for the steps of everybody else.

`CutoverIsNotTorn` has a smaller invariant of its own, `FlipInv`: where the cutover is
sound, a copy in SWAPPING or FINISHED is one of a record that is, no node has noted an
error of a swap, and no write on its way fails the task. It holds whatever a re-run does.

`SchedulerCleanedStaysClean` rests on `CleanInv`: a node whose clean-up is done has no
worker left, and the task is over. Both are needed, as a worker that is still ending
writes late and one of a running task would be started again; that the task stays over
is a fact about the record, whatever is applied late.

### Replica movement

Proved in `ReplicaMovementProofs` from `MovementConstants` alone (there are finitely
many nodes, scenarios are well-formed, `MaxErrors` is a natural number, `MaxWorkers` a
positive one), so for
any number of nodes, movements, cancellations and faults:

| theorem | property |
|---|---|
| `MovementInvariant` | the inductive invariant `MovementInv` |
| `MovementTypeCorrect` | `TypeOK` |
| `MovementJoinStands` | `JoinStands` |
| `MovementCaptureStops` | `CaptureStops` |
| `MovementNeverGoesBack` | `NeverGoesBack` |

The properties speak of the leader's table, but a worker changes it by a copy that
may be old, so none of them is inductive. `MovementInv` adds what the copies can
say. `CancelHeld`, required of the node's table, the message and the worker: a copy
that says "cancelled, not deleted" belongs to an operation that has stayed out of
the replica set since and is still marked, CANCELLED or gone. `Place`: a worker
that is not on its way out acts on a copy whose state is the leader's, is in the
handler of that state, and has stopped the capture before it tells the leader.
`Fresh`: an id that was not given out has no copy anywhere. `JoinStands` needs the
first, as the worker's `NotifyCancelled` trusts its copy; `NeverGoesBack` needs the
second, as `UpdateReplicationOpStatus` takes any state from anyone; `CaptureStops`
needs both: a worker that is past its stop has no log, or `kept` says that the stop
failed, and nobody opens the log again before the leader is told.

Every step is shown to be `Sound`: it keeps the invariant and changes a status only
to a `Later` one (never back, never into the replica set once cancelled, no
cancellation taken back). There is one lemma per action or group of actions that
touch the same variables.

### The replica set

Proved in `ReplicaSetProofs`, on top of `MovementInv` and under the hypothesis
`TakenOnce`: no two requests have the same target, and none has the source of an earlier
MOVE as its target. Nodes, requests, sources, cancellations, deletions and faults are
arbitrary otherwise: chains, in which a target is the source of the next movement, and
several movements off one source are included.

| theorem | property |
|---|---|
| `ReplicaInvariant` | the inductive invariant `ReplicaInv` |
| `MovementReplicaHoldsData` | `ReplicaHoldsData` |
| `MovementEnoughReplicas` | `EnoughReplicas` |
| `MovementCancelLeavesNoResidue` | `CancelLeavesNoResidue` |
| `MovementImplementsLifecycle` | `ImplementsLifecycle` |

Both halves of the hypothesis are needed. With the same target twice the deletion of the
first movement takes the files of the second (`movement_delete`). When a source comes
back, a retried DEHYDRATING removes it again (section 3). Whether the scenarios `Again`
and `Return` of `movement_safety`, which violate `TakenOnce`, go well is a matter of
their bounds, and stays with TLC.

The properties are about directories and the replica set; what decides on them are
copies. A worker drops a directory because its copy says "cancelled" and its own table
of replicas does not have the target; it moves on to INTEGRATING because the target is
"already" a replica; it removes the source by a table that lags. `ReplicaInv` therefore
says of every operation (`SetInv`): the target was no replica before the movement joined,
and joins with SetUnCancellable (`Member`); which flags, membership and directory go with
a state (`StatusInv`); a copy that is cancelled, anywhere, belongs to a target that is no
replica, and the target's own table is at least as recent as a copy that has ended
(`CopyInv`, for the node's table, the message and the worker); what a worker has done when
it reports a state (`Reached`). About several operations it says that two under way do
not share the source of a MOVE and that no MOVE takes away what another one is adding
(`Apart`), and that what has left the replica set was the source of a MOVE (`Left`).
Replicas are counted without numbers: `Counted` is an injection of the first holders into
the replicas which leaves the targets of the busy movements over. A removal sends the
holder that the source stood for to the target; what is not routed to is replaced in the
same way, and `EnoughReplicas` follows from one fact on finite sets.

For the refinement `PhaseOf` says what each phase is in terms of the record and the
replica set, and there is one lemma per group of actions: a local step, a failure, a
command, the end of a cancellation, a state transition, the add, the removal, the request.

### The data of a movement

Proved in `MovementWritesProofs` and `MovementQuorumProofs` from `WritesConstants`
(source and target differ and are no peers, of which there are finitely many, scenarios
are well-formed), so for any number of replicas and writes, any
consistency levels, refused prepares, lost messages, reports given up and re-run handlers:

| theorem | hypothesis | property |
|---|---|---|
| `WritesTypeCorrect` | none | `TypeOK` |
| `TargetJoinsFresh` | `PutsOnly` | `JoinsFresh` |
| `TargetMissesNothing` | `PutsOnly`, `NoLateLoss` | `TargetIsCurrent` |
| `QuorumReadsSeeAcks` | `PutsOnly`, `NoLateLoss` | `QuorumReadSeesAck` |

`PutsOnly` says that the writes are puts, `NoLateLoss` that no append fails for good
after the drain of FINALIZING. `TargetMissesNothing` needs both: `writes_delete` and
`writes_lost_log` violate it without one or the other.

Neither property is inductive, as a write reaches the target on one of two ways, through
the log or directly, and which one depends on the view of the node that sent it. There
are two invariants. `WritesInv` is about the course of things, whatever is written: where the
worker can be at which stage, what is in the log, that the older writes of an object are
over where a write waited for them (`Ordered`), that a node which reported INTEGRATING has no write on its
way that leaves out the target (`Reached`), and that the worker is past the barrier only with every
report (`Passed`). `DataInv` is about the objects: `Carried`, a write that is done at the
source is on the target, or in the log, or was sent to the target as well, or the client's
answer did not count the source, which happens only once the log is sealed; `Tailed`, what
the tailer has passed is on the target; `Drains`, what the source held when FINALIZING
began is on the target, or in the part of the log that is drained before the add; `LogKept`,
from the add to the barrier the log is open. `TargetMissesNothing` then follows: when the log
is gone, an acknowledged write that is answerable was carried by one of the other ways.

`QuorumReadsSeeAcks` is about all replicas and about two routings, the one of the write
and the one of the read. Each is the set before the movement, all nodes, or all but the
source (`Routes`). `QuorumInv` adds to the two invariants: a write was sent on one of these
three, without the source only in DEHYDRATING (`Sent`); as many nodes as the level asks
for have acknowledged it (`Acknowledged`); a replica has what it committed until its shard
is removed (`Kept`), and the source is removed only when every node has stopped routing
to it (`Fenced`). A read then finds every acknowledging node that it asks (`AckerHolds`),
and where it leaves out a source that acknowledged a write the target did not get, the
target has it from the log (`TargetHolds`, from `TargetIsCurrent`). So at most one holder
is lost, and only where the write went to one node more than the read asks (`Holders`); the
rest is arithmetic on majorities.

### Only model-checked

- The safety properties outside the hypotheses: movements that share a target or return
  to a former source (`Again`, `Return`), and `JoinsFresh` when there are deletes
  (`DataInv` takes a newer version for a write that is held, which a delete that leaves no
  tombstone breaks; no run has it either).
- Liveness, which is out of the prover's reach.

## 7. Not modelled

Distributed tasks: snapshots and the replicas' own copies of the table (one copy
stands for all; the TTL clean-up reads the local clock on each of them), the
watermarks of stale detection, the property-update, tenant and vector-config
guards, the epoch coverage of vector drops, several tasks in one tick, the
concurrency limiter and the throttled recorder.

Replica movement: force-deletions and deletions by collection or tenant (a
maintenance interface that bypasses the protocol), refusals that are deferred
without counting an error, the back-off between attempts (a delay), activation of
tenants, the transfer file by file, frames of the log on disk. In `MovementWrites`:
batches, references, reads with repair, asynchronous replication, a coordinator that
crashes.

Outside the two protocols: see `components` in `PROJECT.json`. The consensus is a
library whose order of commands the models assume; the storage engine and the
vector indexes are data structures too large for a small instance; the APIs and
modules are input and output. Backup, export, the disk queue, the cycle manager
and query admission are protocols of their own that this project does not reach.
The hazards listed with a note are known and not covered.
