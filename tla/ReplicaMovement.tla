-------------------------- MODULE ReplicaMovement --------------------------
(***************************************************************************)
(* Moving or copying the replica of one shard between nodes: the table of  *)
(* operations that Raft replicates (cluster/replication/shard_replication_ *)
(* apply.go), the replica set of the shard (usecases/sharding/state.go)    *)
(* and, on every target node, the producer and the consumer that carry an  *)
(* operation through its states (producer.go, consumer.go).                *)
(*                                                                         *)
(* The table and the replica set are the leader's: a command takes effect  *)
(* in one step.  A node reads its own copy, which lags: seen and reps hold *)
(* what the target of an operation and each node have applied.  A worker   *)
(* carries the copy of the status it was dispatched with, as the code does *)
(* (operation := op), and never reads the table again.                     *)
(*                                                                         *)
(* Written objects are left to MovementWrites: a shard directory is        *)
(* "none", "partial" (files being staged), "whole", or "hollow" (an empty  *)
(* shard created because there was nothing to load).  The reports of the   *)
(* nodes that INTEGRATING and DEHYDRATING wait for are there too; here the *)
(* wait is over at any time, or never (stalls).                            *)
(***************************************************************************)
EXTENDS Naturals, FiniteSets, Sequences

CONSTANTS
    Nodes,         \* the nodes of the cluster
    Scenarios,     \* what the users ask for: see ScenarioType
    MaxErrors,     \* errors an operation may register before it is cancelled
    MaxWorkers     \* tokens of a node's consumer

States == {"REGISTERED", "HYDRATING", "FINALIZING", "INTEGRATING",
           "DEHYDRATING", "READY", "CANCELLED"}

\* The nodes that hold the shard at first (as many as its replication factor),
\* the requests in the order of their log index, the operations that users
\* cancel and delete, how many faults there may be, and the states that some
\* node never reports to have reached (broadcastNodeReachedState gave up).
ScenarioType ==
    [holders : (SUBSET Nodes) \ {{}},
     reqs : Seq([src : Nodes, tgt : Nodes, type : {"COPY", "MOVE"}]),
     cancels : SUBSET Nat, deletes : SUBSET Nat, faults : Nat,
     stalls : SUBSET {"INTEGRATING", "DEHYDRATING"}]

ASSUME MovementConstants ==
    /\ IsFiniteSet(Nodes) /\ Scenarios \subseteq ScenarioType
    /\ MaxErrors \in Nat /\ MaxWorkers \in Nat \ {0}

VARIABLES
    plan,      \* the scenario of the behaviour, never changed
    ops,       \* the leader's table: id -> status, or Gone
    replicas,  \* BelongsToNodes of the shard, the leader's copy
    used,      \* the ids given out: 1 .. used
    seen,      \* id -> what the target's own table says of it
    reps,      \* node -> its own copy of replicas
    shard,     \* node -> what its shard directory holds
    log,       \* the operations whose change log is active on their source
    kept,      \* id -> what the last call to clean it up failed to remove
    consumer,  \* node -> the message its consumer holds, waiting for a token
    worker,    \* id -> its worker on the target
    marked,    \* OpsCache.hasBeenCancelled
    faults     \* crashes, failed steps, timeouts and lost answers so far

vars == <<plan, ops, replicas, used, seen, reps, shard, log, kept, consumer,
          worker, marked, faults>>

OpIds == DOMAIN plan.reqs
AllOps == UNION {DOMAIN s.reqs : s \in Scenarios}
Src(o) == plan.reqs[o].src
Tgt(o) == plan.reqs[o].tgt
Type(o) == plan.reqs[o].type

\* The nodes that take part, and those that look at what they have applied: the
\* targets, and the sources that may have to drop their shard.
Participants == {Src(o) : o \in OpIds} \cup {Tgt(o) : o \in OpIds}
Appliers == {Tgt(o) : o \in OpIds} \cup {Src(o) : o \in {p \in OpIds : Type(p) = "MOVE"}}

Gone == [st |-> "GONE"]
NoMsg == [op |-> 0]

NewShardReplicationStatus ==
    [st |-> "REGISTERED", cancel |-> FALSE, del |-> FALSE, uncan |-> FALSE,
     errs |-> 0]

\* What a copy of the status is read for.
Copy(s) == IF s = Gone THEN Gone
           ELSE [st |-> s.st, cancel |-> s.cancel, del |-> s.del]

Idle == [pc |-> "idle", copy |-> Gone, next |-> "", stop |-> FALSE]

Init ==
    /\ plan \in Scenarios
    /\ ops = [o \in OpIds |-> Gone]
    /\ replicas = plan.holders
    /\ used = 0
    /\ seen = [o \in OpIds |-> Gone]
    /\ reps = [n \in Nodes |-> plan.holders]
    /\ shard = [n \in Nodes |-> IF n \in plan.holders THEN "whole" ELSE "none"]
    /\ log = {}
    /\ kept = [o \in OpIds |-> {}]
    /\ consumer = [n \in Nodes |-> NoMsg]
    /\ worker = [o \in OpIds |-> Idle]
    /\ marked = {}
    /\ faults = 0

-----------------------------------------------------------------------------
(* The replicated table.                                                   *)

\* checkNoConflictingOp: may o be admitted beside the operation e?
Compatible(o, e) ==
    \/ ops[e].st = "CANCELLED"
    \/ ops[e].st = "READY" /\ Type(e) = "COPY"
    \/ Type(e) # "MOVE" /\ Type(o) # "MOVE"

validateReplicationAdmission(o) ==
    \A e \in {i \in OpIds : ops[i] # Gone} :
        /\ Tgt(e) = Tgt(o) => Compatible(o, e)
        /\ Src(e) = Src(o) => Compatible(o, e)
        /\ Tgt(e) = Src(o) => ops[e].st \in {"READY", "CANCELLED"}

ValidateReplicationReplicateShard(o) ==
    Src(o) # Tgt(o) /\ Src(o) \in replicas /\ Tgt(o) \notin replicas

\* A refused request leaves no trace and may be sent again.
Replicate(o) ==
    /\ o = used + 1
    /\ ValidateReplicationReplicateShard(o)
    /\ validateReplicationAdmission(o)
    /\ used' = o
    /\ ops' = [ops EXCEPT ![o] = NewShardReplicationStatus]
    /\ UNCHANGED <<plan, replicas, seen, reps, shard, log, kept, consumer,
                   worker, marked, faults>>

TriggerCancellation(s) == [s EXCEPT !.cancel = TRUE, !.del = FALSE]
CompleteCancellation(s) ==
    [s EXCEPT !.cancel = FALSE, !.del = FALSE, !.st = "CANCELLED", !.errs = 0]
TriggerDeletion(s) == [s EXCEPT !.cancel = TRUE, !.del = TRUE]
ChangeState(s, st) == [s EXCEPT !.st = st, !.errs = 0]

CancelReplication(o) ==
    /\ o \in plan.cancels /\ ops[o] # Gone /\ ~ops[o].uncan
    /\ ops' = [ops EXCEPT ![o] = TriggerCancellation(@)]
    /\ UNCHANGED <<plan, replicas, used, seen, reps, shard, log, kept,
                   consumer, worker, marked, faults>>

DeleteReplication(o) ==
    /\ o \in plan.deletes /\ ops[o] # Gone
    /\ ~(ops[o].uncan /\ ops[o].st # "READY")
    /\ ops' = [ops EXCEPT ![o] = TriggerDeletion(@)]
    /\ UNCHANGED <<plan, replicas, used, seen, reps, shard, log, kept,
                   consumer, worker, marked, faults>>

\* OpCleaner.Tick: a terminal operation without flags, once it is old.
Sweep(o) ==
    /\ ops[o] # Gone /\ ops[o].st \in {"READY", "CANCELLED"}
    /\ ~ops[o].cancel /\ ~ops[o].del
    /\ ops' = [ops EXCEPT ![o] = Gone]
    /\ UNCHANGED <<plan, replicas, used, seen, reps, shard, log, kept,
                   consumer, worker, marked, faults>>

\* Mutants of RegisterError: the errors are never counted against MaxErrors,
\* they are and nothing happens, or the cancellation asks no leave.
RegisterErrorUncounted(s) == IF s = Gone THEN s ELSE [s EXCEPT !.errs = @ + 1]
RegisterErrorIgnored(s) ==
    IF s = Gone \/ s.errs = MaxErrors THEN s ELSE [s EXCEPT !.errs = @ + 1]
RegisterErrorForces(s) ==
    IF s = Gone THEN s
    ELSE IF s.errs < MaxErrors THEN [s EXCEPT !.errs = @ + 1]
    ELSE TriggerCancellation(s)

\* Manager.RegisterError on an operation that still exists.
RegisterError(s) ==
    IF s = Gone THEN s
    ELSE IF s.errs < MaxErrors THEN [s EXCEPT !.errs = @ + 1]
    ELSE IF s.uncan THEN s ELSE TriggerCancellation(s)

\* Mutant: a cancelled operation hides the replica that it aimed at.
FilterWithCancelled(n) ==
    LET there == {o \in OpIds : ops[o] # Gone}
        asTarget == {ops[o].st : o \in {p \in there : Tgt(p) = n}}
    IN  /\ asTarget # {} =>
               asTarget \cap {"READY", "DEHYDRATING", "INTEGRATING"} # {}
        /\ \A o \in there : Src(o) = n => ops[o].st # "DEHYDRATING"

\* filterOneReplicaReadWrite: is a replica read from and written to?  One of
\* its movements has made it a target that counts, or none is staging it, and
\* no movement is about to remove it.
filterOneReplicaReadWrite(n) ==
    LET live == {o \in OpIds : ops[o] # Gone /\ ops[o].st # "CANCELLED"}
        asTarget == {ops[o].st : o \in {p \in live : Tgt(p) = n}}
    IN  /\ asTarget # {} =>
               asTarget \cap {"READY", "DEHYDRATING", "INTEGRATING"} # {}
        /\ \A o \in live : Src(o) = n => ops[o].st # "DEHYDRATING"

\* A node applies the commands it lags behind with.  Being added loads the
\* shard, being removed drops it.
CatchUp(n) ==
    LET mine == {o \in OpIds : Tgt(o) = n}
    IN  /\ \/ reps[n] # replicas
           \/ \E o \in mine : seen[o] # Copy(ops[o])
        /\ seen' = [o \in OpIds |-> IF o \in mine THEN Copy(ops[o]) ELSE seen[o]]
        /\ reps' = [reps EXCEPT ![n] = replicas]
        /\ shard' = [shard EXCEPT ![n] =
               IF n \in reps[n] /\ n \notin replicas THEN "none"
               ELSE IF n \in replicas /\ @ = "none" THEN "hollow" ELSE @]
        /\ UNCHANGED <<plan, ops, replicas, used, log, kept, consumer, worker,
                       marked, faults>>

-----------------------------------------------------------------------------
(* Producer and consumer of a target node.                                 *)

\* Mutant: what is terminal is left alone, deleted or not.
ShouldConsumeLive(s) == s.st \notin {"CANCELLED", "READY"}

ShouldConsumeOps(s) == s.st \notin {"CANCELLED", "READY"} \/ s.del

InFlight(o) == worker[o].pc # "idle"

\* Produce hands the consumer an operation of the node; Consume marks a
\* cancelled one, and stops its worker when there is one.
Consume(o) ==
    /\ consumer[Tgt(o)] = NoMsg
    /\ seen[o] # Gone /\ ShouldConsumeOps(seen[o])
    /\ LET first == seen[o].cancel /\ o \notin marked
       IN  /\ marked' = IF first THEN marked \cup {o} ELSE marked
           /\ IF first /\ InFlight(o)
              THEN /\ worker' = [worker EXCEPT ![o].stop = TRUE]
                   /\ UNCHANGED consumer
              ELSE /\ consumer' = [consumer EXCEPT
                          ![Tgt(o)] = [op |-> o, copy |-> seen[o]]]
                   /\ UNCHANGED worker
    /\ UNCHANGED <<plan, ops, replicas, used, seen, reps, shard, log, kept,
                   faults>>

\* Mutant: the leader is only asked whether the operation is still there.
MissingAtLeader(o, copy) == ops[o] = Gone

\* The leader's state differs from the one of the message, or there is none.
ChangedAtLeader(o, copy) == ops[o].st # copy.st

\* The token is there: start a worker, unless one runs or the leader's state
\* has moved on.
Spawn(n) ==
    /\ consumer[n] # NoMsg
    /\ Cardinality({o \in OpIds : Tgt(o) = n /\ InFlight(o)}) < MaxWorkers
    /\ LET o == consumer[n].op
           skip == InFlight(o) \/ ChangedAtLeader(o, consumer[n].copy)
       IN  worker' = IF skip THEN worker
                     ELSE [worker EXCEPT ![o] = [Idle EXCEPT !.pc = "begin",
                                                 !.copy = consumer[n].copy]]
    /\ consumer' = [consumer EXCEPT ![n] = NoMsg]
    /\ UNCHANGED <<plan, ops, replicas, used, seen, reps, shard, log, kept,
                   marked, faults>>

-----------------------------------------------------------------------------
(* A worker.  pc is the place in the code: begin (the goroutine starts),   *)
(* try (the head of the retry loop), copying, drain, add, purge and remove *)
(* (inside a handler), done (the handler returned next), cleanup, drop and *)
(* notify (cancelOp), leave (the deferred release).                        *)

Fault == faults < plan.faults /\ faults' = faults + 1

GoTo(o, pc) == worker' = [worker EXCEPT ![o].pc = pc]
Done(o, next) == worker' = [worker EXCEPT ![o].pc = "done", ![o].next = next]

\* The handler runs: not stopped and not marked at the head of the loop.
Handles(o, st) ==
    /\ worker[o].pc = "try" /\ worker[o].copy.st = st
    /\ ~worker[o].stop /\ o \notin marked

Stopped(o) == log' = log \ {o} /\ kept' = [kept EXCEPT ![o] = @ \ {"log"}]
StillOpen(o) == log' = log /\ kept' = [kept EXCEPT ![o] = @ \cup {"log"}]

\* An error of StopChangeCapture is logged and never stops its caller.
StopChangeCapture(o) ==
    \/ Stopped(o) /\ UNCHANGED faults
    \/ Fault /\ StillOpen(o)

\* An error of a handler: a mark diverts to cancelOp, anything else is
\* registered.  The service runs with StopBackOff, so the worker ends and the
\* operation is tried again after a later poll.
HandlerFails(o) ==
    IF o \in marked THEN GoTo(o, "cleanup") /\ UNCHANGED ops
    ELSE GoTo(o, "leave") /\ ops' = [ops EXCEPT ![o] = RegisterError(@)]

Begin(o) ==
    /\ worker[o].pc = "begin"
    /\ GoTo(o, CASE o \in marked -> "cleanup"
                 [] o \notin marked /\ worker[o].copy.st = "READY" -> "leave"
                 [] OTHER -> "try")
    /\ UNCHANGED <<plan, ops, replicas, used, seen, reps, shard, log, kept,
                   consumer, marked, faults>>

\* ctx.Err and checkCancelled at the head of the loop, and a context cancelled
\* inside a handler; a HYDRATING that fails stops its change log.
Interrupted(o) ==
    /\ \/ worker[o].pc = "try" /\ (worker[o].stop \/ o \in marked)
       \/ worker[o].pc \in {"copying", "drain", "add"} /\ worker[o].stop
    /\ GoTo(o, IF o \in marked THEN "cleanup" ELSE "leave")
    /\ IF worker[o].pc = "copying" THEN StopChangeCapture(o)
       ELSE UNCHANGED <<log, kept, faults>>
    /\ UNCHANGED <<plan, ops, replicas, used, seen, reps, shard, consumer,
                   marked>>

processRegisteredOp(o) ==
    /\ Handles(o, "REGISTERED")
    /\ Done(o, "HYDRATING")
    /\ UNCHANGED <<plan, ops, replicas, used, seen, reps, shard, log, kept,
                   consumer, marked, faults>>

\* StartChangeCapture opens the log with O_EXCL and fails if the operation
\* still has one; the copy then stages files into the shard directory.
StartHydrating(o) ==
    /\ Handles(o, "HYDRATING")
    /\ IF o \in log
       THEN HandlerFails(o) /\ UNCHANGED <<log, kept, shard>>
       ELSE /\ log' = log \cup {o}
            /\ kept' = [kept EXCEPT ![o] = @ \ {"log"}]
            /\ shard' = [shard EXCEPT ![Tgt(o)] = "partial"]
            /\ GoTo(o, "copying")
            /\ UNCHANGED ops
    /\ UNCHANGED <<plan, replicas, used, seen, reps, consumer, marked, faults>>

\* validateLocalFolder fails when the staged files are gone.
EndHydrating(o) ==
    /\ worker[o].pc = "copying"
    /\ IF shard[Tgt(o)] = "none"
       THEN HandlerFails(o) /\ StopChangeCapture(o) /\ UNCHANGED shard
       ELSE /\ shard' = [shard EXCEPT ![Tgt(o)] = shard[Src(o)]]
            /\ Done(o, "FINALIZING")
            /\ UNCHANGED <<ops, log, kept, faults>>
    /\ UNCHANGED <<plan, replicas, used, seen, reps, consumer, marked>>

\* What loading the shard, or writing to it, makes of the directory.
Loaded(s) == IF s = "none" THEN "hollow" ELSE s

\* LoadLocalShard and the look at the local replica set.
StartFinalizing(o) ==
    /\ Handles(o, "FINALIZING")
    /\ shard' = [shard EXCEPT ![Tgt(o)] = Loaded(@)]
    /\ worker' = [worker EXCEPT ![o].pc = "drain",
           ![o].next = IF Tgt(o) \in reps[Tgt(o)] THEN "exists" ELSE ""]
    /\ UNCHANGED <<plan, ops, replicas, used, seen, reps, log, kept, consumer,
                   marked, faults>>

\* The capped drain; a missing log is an error in this state.
DrainFinalizing(o) ==
    /\ worker[o].pc = "drain"
    /\ IF o \notin log
       THEN HandlerFails(o) /\ UNCHANGED shard
       ELSE /\ shard' = [shard EXCEPT ![Tgt(o)] = Loaded(@)]
            /\ IF worker[o].next = "exists" THEN Done(o, "INTEGRATING")
               ELSE GoTo(o, "add")
            /\ UNCHANGED ops
    /\ UNCHANGED <<plan, replicas, used, seen, reps, log, kept, consumer,
                   marked, faults>>

\* SchemaManager.ReplicationAddReplicaToShard: SetUnCancellable, then the
\* replica set; a replica that is there already is no error.
CanJoin(o) == ops[o] # Gone /\ ~ops[o].cancel /\ ops[o].st # "CANCELLED"

AddReplica(o) ==
    /\ CanJoin(o)
    /\ ops' = [ops EXCEPT ![o].uncan = TRUE]
    /\ replicas' = replicas \cup {Tgt(o)}

ReplicationAddReplicaToShard(o) ==
    /\ worker[o].pc = "add"
    /\ \/ AddReplica(o) /\ Done(o, "INTEGRATING")
       \/ /\ ~CanJoin(o)
          /\ IF ops[o] = Gone THEN HandlerFails(o)
             ELSE GoTo(o, "cleanup") /\ UNCHANGED ops
          /\ UNCHANGED replicas
    /\ UNCHANGED <<plan, used, seen, reps, shard, log, kept, consumer, marked,
                   faults>>

\* Mutant: a MOVE leaves its source where it is.
IntegratingEndsAll(o) ==
    /\ Handles(o, "INTEGRATING")
    /\ shard' = IF o \in log THEN [shard EXCEPT ![Tgt(o)] = Loaded(@)] ELSE shard
    /\ StopChangeCapture(o)
    /\ Done(o, "READY")
    /\ UNCHANGED <<plan, ops, replicas, used, seen, reps, consumer, marked>>

\* waitForAllNodesAtLeast: the state is one that every node reports in the end.
Converges(st) == st \notin plan.stalls

\* Wait, then drain, seal and stop the change log; one that is gone has been
\* drained.
processIntegratingOp(o) ==
    /\ Handles(o, "INTEGRATING") /\ Converges("INTEGRATING")
    /\ shard' = IF o \in log THEN [shard EXCEPT ![Tgt(o)] = Loaded(@)] ELSE shard
    /\ StopChangeCapture(o)
    /\ Done(o, IF Type(o) = "MOVE" THEN "DEHYDRATING" ELSE "READY")
    /\ UNCHANGED <<plan, ops, replicas, used, seen, reps, consumer, marked>>

\* DeleteReplicaFromShard is refused at the replication factor.
processDehydratingOp(o) ==
    /\ Handles(o, "DEHYDRATING")
    /\ \/ Src(o) \notin reps[Tgt(o)] /\ Done(o, "READY") /\ UNCHANGED <<ops, replicas>>
       \/ /\ Src(o) \in reps[Tgt(o)] /\ Converges("DEHYDRATING")
          /\ IF Cardinality(replicas) <= Cardinality(plan.holders)
             THEN HandlerFails(o) /\ UNCHANGED replicas
             ELSE /\ replicas' = replicas \ {Src(o)}
                  /\ Done(o, "READY")
                  /\ UNCHANGED ops
    /\ UNCHANGED <<plan, used, seen, reps, shard, log, kept, consumer, marked,
                   faults>>

\* The copy asks for a clean-up.
Asked(o) ==
    worker[o].copy.cancel \/ worker[o].copy.del \/ worker[o].copy.st = "CANCELLED"

\* Mutants: only a deleted operation drops its target; a replica is no matter.
MayDropDeleted(o) == worker[o].copy.del /\ Tgt(o) \notin reps[Tgt(o)]
MayDropReplica(o) == Asked(o)

\* dropCancelledOpTargetShard: only for a cancelled or deleted operation, and
\* never on a node that its own schema calls a replica.
MayDrop(o) == Asked(o) /\ Tgt(o) \notin reps[Tgt(o)]

Dropped(o) ==
    /\ shard' = IF MayDrop(o) THEN [shard EXCEPT ![Tgt(o)] = "none"] ELSE shard
    /\ kept' = [kept EXCEPT ![o] = @ \ {"files"}]

\* The replica set cannot be read, or DropLocalShard fails half way.
NotDropped(o) ==
    /\ Asked(o)
    /\ \/ UNCHANGED shard
       \/ MayDrop(o) /\ shard' = [shard EXCEPT ![Tgt(o)] =
                                       IF @ = "none" THEN @ ELSE "partial"]
    /\ kept' = [kept EXCEPT ![o] = @ \cup {"files"}]

\* The drop of cancelOp goes on to notify the leader, failed or not; that of
\* processCancelledOp fails the handler.
dropCancelledOpTargetShard(o) ==
    /\ worker[o].pc \in {"drop", "purge"}
    /\ \/ /\ Dropped(o)
          /\ GoTo(o, IF worker[o].pc = "drop" THEN "notify" ELSE "remove")
          /\ UNCHANGED <<ops, faults>>
       \/ /\ Fault /\ NotDropped(o)
          /\ IF worker[o].pc = "drop" THEN GoTo(o, "notify") /\ UNCHANGED ops
             ELSE HandlerFails(o)
    /\ UNCHANGED <<plan, replicas, used, seen, reps, log, consumer, marked>>

\* The dispatched clean-up of a deleted, cancelled operation.
processCancelledOp(o) ==
    /\ Handles(o, "CANCELLED") /\ worker[o].copy.del
    /\ StopChangeCapture(o)
    /\ GoTo(o, "purge")
    /\ UNCHANGED <<plan, ops, replicas, used, seen, reps, shard, consumer,
                   marked>>

RemoveReplicaOp(o) ==
    /\ worker[o].pc = "remove"
    /\ ops' = [ops EXCEPT ![o] = Gone]
    /\ Done(o, "DELETED")
    /\ UNCHANGED <<plan, replicas, used, seen, reps, shard, log, kept,
                   consumer, marked, faults>>

\* The handler is done: report the next state to the leader and go on with it.
\* The update also follows DELETED, and then finds no operation.
UpdateOpStatus(o) ==
    /\ ops[o] # Gone /\ ops[o].st # "CANCELLED"
    /\ ops' = [ops EXCEPT ![o] = ChangeState(@, worker[o].next)]

Transition(o) ==
    /\ worker[o].pc = "done"
    /\ \/ o \in marked /\ GoTo(o, "cleanup") /\ UNCHANGED ops
       \/ /\ o \notin marked /\ UpdateOpStatus(o)
          /\ worker' = [worker EXCEPT
                 ![o].pc = IF worker[o].next = "READY" THEN "leave" ELSE "try",
                 ![o].copy.st = worker[o].next, ![o].next = ""]
       \/ /\ o \notin marked /\ (ops[o] = Gone \/ ops[o].st = "CANCELLED")
          /\ GoTo(o, "leave")
          /\ UNCHANGED ops
    /\ UNCHANGED <<plan, replicas, used, seen, reps, shard, log, kept,
                   consumer, marked, faults>>

\* Mutant: the capture is left to the copy that started it.
StopCaptureLater(o) ==
    /\ worker[o].pc = "cleanup"
    /\ GoTo(o, "drop")
    /\ UNCHANGED <<plan, ops, replicas, used, seen, reps, shard, log, kept,
                   consumer, marked, faults>>

\* cancelOp: stop the capture, drop the staged files, tell the leader what the
\* copy of the status says, and lift the mark.
StopCapture(o) ==
    /\ worker[o].pc = "cleanup"
    /\ StopChangeCapture(o)
    /\ GoTo(o, "drop")
    /\ UNCHANGED <<plan, ops, replicas, used, seen, reps, shard, consumer,
                   marked>>

CancellationResult(o) ==
    LET c == worker[o].copy
    IN  CASE ops[o] = Gone -> Gone
          [] ops[o] # Gone /\ c.cancel /\ ~c.del -> CompleteCancellation(ops[o])
          [] ops[o] # Gone /\ c.del -> Gone
          [] OTHER -> ops[o]

NotifyCancelled(o) ==
    /\ worker[o].pc = "notify"
    /\ ops' = [ops EXCEPT ![o] = CancellationResult(o)]
    /\ marked' = marked \ {o}
    /\ GoTo(o, "leave")
    /\ UNCHANGED <<plan, replicas, used, seen, reps, shard, log, kept,
                   consumer, faults>>

Leave(o) ==
    /\ worker[o].pc = "leave"
    /\ worker' = [worker EXCEPT ![o] = Idle]
    /\ UNCHANGED <<plan, ops, replicas, used, seen, reps, shard, log, kept,
                   consumer, marked, faults>>

WorkerStep(o) ==
    \/ Begin(o) \/ Interrupted(o) \/ processRegisteredOp(o)
    \/ StartHydrating(o) \/ EndHydrating(o)
    \/ StartFinalizing(o) \/ DrainFinalizing(o) \/ ReplicationAddReplicaToShard(o)
    \/ processIntegratingOp(o) \/ processDehydratingOp(o)
    \/ processCancelledOp(o) \/ dropCancelledOpTargetShard(o) \/ RemoveReplicaOp(o)
    \/ Transition(o)
    \/ StopCapture(o) \/ NotifyCancelled(o) \/ Leave(o)

-----------------------------------------------------------------------------
(* Faults.                                                                 *)

\* A node restarts.  Its workers, marks and messages are gone, and so are the
\* change logs it kept as a source (NewShard sweeps them); tables and files
\* survive.
Crash(n) ==
    LET mine == {o \in OpIds : Tgt(o) = n}
    IN  /\ Fault
        /\ worker' = [o \in OpIds |-> IF o \in mine THEN Idle ELSE worker[o]]
        /\ marked' = marked \ mine
        /\ consumer' = [consumer EXCEPT ![n] = NoMsg]
        /\ log' = {o \in log : Src(o) # n}
        /\ UNCHANGED <<plan, ops, replicas, used, seen, reps, shard, kept>>

\* A step of a handler fails; HYDRATING stops the log it started, and the stop
\* may fail with it.
StepFails(o) ==
    /\ Fault
    /\ \/ worker[o].pc \in {"copying", "drain"}
       \/ \E st \in States \ {"REGISTERED", "READY"} : Handles(o, st)
    /\ HandlerFails(o)
    /\ IF worker[o].pc = "copying" THEN Stopped(o) \/ StillOpen(o)
       ELSE UNCHANGED <<log, kept>>
    /\ UNCHANGED <<plan, replicas, used, seen, reps, shard, consumer, marked>>

\* opTimeout: the worker goes, without a clean-up even when it is marked.
TimesOut(o) ==
    /\ Fault
    /\ worker[o].pc \in {"try", "copying", "drain", "add", "purge", "remove", "done"}
    /\ GoTo(o, "leave")
    /\ IF worker[o].pc = "copying" THEN Stopped(o) \/ StillOpen(o)
       ELSE UNCHANGED <<log, kept>>
    /\ UNCHANGED <<plan, ops, replicas, used, seen, reps, shard, consumer,
                   marked>>

\* A command is applied and its answer is lost: the worker takes it as an error.
AnswerLost(o) ==
    /\ Fault /\ o \notin marked
    /\ \/ /\ worker[o].pc = "add" /\ CanJoin(o)
          /\ ops' = [ops EXCEPT ![o] = RegisterError([ops[o] EXCEPT !.uncan = TRUE])]
          /\ replicas' = replicas \cup {Tgt(o)}
       \/ /\ worker[o].pc = "done" /\ UpdateOpStatus(o) /\ UNCHANGED replicas
    /\ GoTo(o, "leave")
    /\ UNCHANGED <<plan, used, seen, reps, shard, log, kept, consumer, marked>>

\* The leader is not told of the clean-up; the mark is lifted all the same.
NotifyFails(o) ==
    /\ Fault
    /\ worker[o].pc = "notify"
    /\ marked' = marked \ {o}
    /\ GoTo(o, "leave")
    /\ UNCHANGED <<plan, ops, replicas, used, seen, reps, shard, log, kept,
                   consumer>>

-----------------------------------------------------------------------------

Next ==
    \/ \E o \in OpIds :
          \/ Replicate(o) \/ CancelReplication(o) \/ DeleteReplication(o)
          \/ Sweep(o) \/ Consume(o) \/ WorkerStep(o)
          \/ StepFails(o) \/ TimesOut(o) \/ AnswerLost(o) \/ NotifyFails(o)
    \/ \E n \in Appliers : CatchUp(n) \/ Spawn(n)
    \/ \E n \in Participants : Crash(n)

\* Raft delivers, tokens are granted and a worker goes on.  The producer offers
\* every operation of its node at each tick, so an operation that can be
\* consumed again and again is consumed.
Fairness ==
    /\ \A n \in Nodes : WF_vars(n \in Appliers /\ CatchUp(n))
    /\ \A o \in AllOps : /\ WF_vars(o \in OpIds /\ Spawn(Tgt(o)))
                        /\ WF_vars(o \in OpIds /\ WorkerStep(o))
                        /\ SF_vars(o \in OpIds /\ Consume(o))

Spec == Init /\ [][Next]_vars /\ Fairness

-----------------------------------------------------------------------------
(* Properties.                                                             *)

\* Every variable has its type: the status fields of
\* ShardReplicationOpStatus, the places of a worker, the four contents of a
\* shard directory.
TypeOK ==
    LET Copies == [st : States, cancel : BOOLEAN, del : BOOLEAN]
    IN  /\ \A o \in OpIds : \/ ops[o] = Gone
                            \/ ops[o] \in [st : States, cancel : BOOLEAN,
                                   del : BOOLEAN, uncan : BOOLEAN,
                                   errs : 0 .. MaxErrors]
        /\ \A o \in OpIds : seen[o] = Gone \/ seen[o] \in Copies
        /\ replicas \subseteq Nodes /\ used \in 0 .. Len(plan.reqs)
        /\ reps \in [Nodes -> SUBSET Nodes]
        /\ shard \in [Nodes -> {"none", "partial", "whole", "hollow"}]
        /\ log \subseteq OpIds /\ marked \subseteq OpIds
        /\ kept \in [OpIds -> SUBSET {"log", "files"}]
        /\ \A n \in Nodes : consumer[n] = NoMsg \/ consumer[n].copy \in Copies
        /\ \A o \in OpIds : InFlight(o) => worker[o].copy \in Copies
        /\ faults \in 0 .. plan.faults

\* Whatever is cancelled, deleted, retried or restarted meanwhile, a node that
\* the sharding state calls a replica holds the whole shard: the add of
\* FINALIZING comes after the copy, and no clean-up drops what was added.
ReplicaHoldsData == \A n \in replicas : shard[n] = "whole"

\* Reads and writes always find as many replicas as the replication factor: a
\* target that is being staged, a source that is about to go and the records of
\* earlier movements, cancelled, finished or swept, never take one too many out
\* of the routing.
EnoughReplicas ==
    Cardinality({n \in replicas : filterOneReplicaReadWrite(n)})
        >= Cardinality(plan.holders)

\* A movement whose target has joined the replica set stands: SetUnCancellable
\* and the cancellations, the user's and that of RegisterError, are commands of
\* their own and a worker acts on a copy, and yet the operation is never
\* CANCELLED or about to be; once READY it may be deleted.
JoinStands ==
    \A o \in OpIds : ops[o] # Gone /\ ops[o].uncan =>
        /\ ops[o].st # "CANCELLED"
        /\ ops[o].cancel => ops[o].st = "READY" /\ ops[o].del

\* cancelOp stops the capture on the source before the leader is told: whatever
\* was retried, lost or left open before, a CANCELLED operation has a change log,
\* which writes go on feeding, only when its last StopChangeCapture failed; that
\* error is logged and the cancellation completes all the same.
CaptureStops ==
    \A o \in OpIds :
        ops[o] # Gone /\ ops[o].st = "CANCELLED" /\ o \in log => "log" \in kept[o]

\* Once the FSM says CANCELLED and no worker is left, the target's directory is
\* gone, unless the node is a replica, another operation is staging into it, or
\* the last dropCancelledOpTargetShard of an operation with this target failed:
\* cancelOp logs that and completes the cancellation.
CancelLeavesNoResidue ==
    \A o \in OpIds :
        ops[o] # Gone /\ ops[o].st = "CANCELLED" /\ ~InFlight(o) =>
            \/ shard[Tgt(o)] = "none"
            \/ Tgt(o) \in replicas
            \/ \E p \in OpIds \ {o} : Tgt(p) = Tgt(o) /\ ops[p] # Gone
            \/ \E p \in OpIds : Tgt(p) = Tgt(o) /\ "files" \in kept[p]

\* StateRank of the API, with CANCELLED last.
StateRank(st) ==
    CASE st = "REGISTERED" -> 1 [] st = "HYDRATING" -> 2
      [] st = "FINALIZING" -> 3 [] st = "INTEGRATING" -> 4
      [] st = "DEHYDRATING" -> 5 [] st = "READY" -> 6
      [] OTHER -> 7

\* UpdateReplicationOpStatus takes any state from any worker, yet a retry or a
\* stale dispatch never takes an operation back to a state it has left.
NeverGoesBack ==
    [][\A o \in OpIds : ops[o] # Gone /\ ops'[o] # Gone =>
           StateRank(ops[o].st) <= StateRank(ops'[o].st)]_vars

\* The phase that a status stands for.
Phase(o) ==
    CASE o > used -> "new"
      [] o <= used /\ ops[o] = Gone -> "gone"
      [] o <= used /\ ops[o].st = "CANCELLED" -> "cancelled"
      [] o <= used /\ ops[o].st = "READY" -> "done"
      [] OTHER -> IF ops[o].uncan THEN "joined" ELSE "pending"

Lifecycle == INSTANCE MovementLifecycle WITH
    reqs <- plan.reqs, phase <- [o \in OpIds |-> Phase(o)]

\* With all its nodes, copies and faults the movement is the one promised: the
\* target joins in one step, only then a MOVE sheds its source, and a movement
\* whose target has joined is never cancelled.
ImplementsLifecycle == Lifecycle!Spec

\* The operation is removed or in one of the given states.
Ends(o, states) == o \in OpIds => ops[o] = Gone \/ ops[o].st \in states

\* A cancellation or deletion that CancelReplication or DeleteReplication has
\* accepted ends: the operation is CANCELLED or gone.
CancelSettles ==
    \A o \in AllOps :
        (o \in OpIds /\ ops[o] # Gone /\ ops[o].cancel) ~> Ends(o, {"CANCELLED"})

\* The change log is lost after the target has joined and before the state
\* says so: FINALIZING fails for ever and cannot be cancelled.
Stuck(o) ==
    o \in OpIds /\ ops[o].st = "FINALIZING" /\ ops[o].uncan /\ o \notin log

\* The movement is in a state that some node never reports: the barrier waits,
\* and the operation cannot be cancelled any more.
Stalled(o) == o \in OpIds /\ ops[o].st \in plan.stalls

\* After finitely many faults an admitted movement ends, READY, CANCELLED or
\* removed (a step that keeps failing exhausts MaxErrors and is cancelled), with
\* two exceptions, both after the target has joined: its change log is lost
\* before INTEGRATING is recorded, or a node's report of INTEGRATING or
\* DEHYDRATING was given up and waitForAllNodesAtLeast waits for it.
MovementSettles ==
    \A o \in AllOps :
        (o \in OpIds /\ ops[o] # Gone) ~>
            (Ends(o, {"READY", "CANCELLED"}) \/ Stuck(o) \/ Stalled(o))

=============================================================================
