--------------------------- MODULE MovementWrites ---------------------------
(***************************************************************************)
(* Writes to a shard while one of its replicas is moved or copied: the     *)
(* two-phase write of usecases/replica/coordinator.go, the routing by the  *)
(* node's own view of the movement (cluster/router, FilterOneShardReplicas *)
(* in shard_replication_fsm.go), the change-capture log on the source      *)
(* (adapters/repos/db/shard_changelog.go), its replay on the target        *)
(* (OverwriteObjectsFromChangeLog) and the barrier that lets the target    *)
(* seal the log (manager.go, usecases/replica/inflight.go).                *)
(*                                                                         *)
(* Raft commits, in this order, the add of the target, INTEGRATING and,    *)
(* for a MOVE, DEHYDRATING and the removal of the source, then READY.      *)
(* stage counts them and view[n] says how far node n has applied them.     *)
(* Cancellations and the rest of the operation's life are in               *)
(* ReplicaMovement.                                                        *)
(***************************************************************************)
EXTENDS Integers, FiniteSets, Sequences

CONSTANTS
    Source, Target,  \* the nodes of the movement
    Scenarios        \* see ScenarioType

\* The commands that Raft commits, in their order.
Added == 1
Integrating == 2
Dehydrating == 3
Removed == 4
Ready == 5

\* The other replicas, the nodes that clients write through, the writes in the
\* order of their timestamps (one that waits is sent when the older writes of
\* its object are over), and which faults may happen: failed prepares and lost
\* messages, re-runs of a handler of the target, an append to the log that
\* fails for good, before or after the drain of FINALIZING, and the reports
\* that a node gives up (node, stage).
ScenarioType ==
    [peers : SUBSET STRING, via : SUBSET STRING, type : {"COPY", "MOVE"},
     writes : Seq([key : STRING, kind : {"PUT", "DELETE"},
                   level : {"ONE", "QUORUM", "ALL"}, waits : BOOLEAN]),
     refusals : Nat, reruns : Nat,
     appendFails : SUBSET {"before", "after"},
     silent : SUBSET (STRING \X {Integrating, Dehydrating})]

ASSUME WritesConstants ==
    /\ Source # Target /\ Scenarios \subseteq ScenarioType
    /\ \A s \in Scenarios : IsFiniteSet(s.peers) /\ s.peers \cap {Source, Target} = {}

VARIABLES
    sc,        \* the scenario of the behaviour, never changed
    phase,     \* write -> "new", "registered", "asked", "commit", "acked", "error"
    coord,     \* write -> its coordinator
    leg,       \* write -> node -> "off", "asked", "prepared", "stuck", "done", "failed"
    ackers,    \* write -> the nodes whose commit the coordinator waited for
    store,     \* node -> key -> 0, w (version w) or -w (tombstone of w)
    stage,     \* the last of the movement's commands that Raft committed
    view,      \* node -> the last one it applied
    owed,      \* node -> the writes its report of a state waits for
    reach,     \* node -> the last stage it reported
    log,       \* the change log on the source
    pc,        \* where the target's worker is
    pos, cap,  \* the tailer: entries replayed, and the LSN it stops at
    boundary,  \* the writes the source held when FINALIZING began
    spent      \* faults so far

vars == <<sc, phase, coord, leg, ackers, store, stage, view, owed, reach, log,
          pc, pos, cap, boundary, spent>>

movementVars == <<stage, view, owed, reach, pc, pos, cap, boundary>>
writeVars == <<phase, coord, leg, ackers>>

Writes == DOMAIN sc.writes
Waiting == {w \in Writes : sc.writes[w].waits}
Keys == {sc.writes[w].key : w \in Writes}
Key(w) == sc.writes[w].key
Kind(w) == sc.writes[w].kind
Base == sc.peers \cup {Source}
Nodes == Base \cup {Target}

NoLog == [reg |-> "none", entries |-> <<>>, wait |-> {}]

Init ==
    /\ sc \in Scenarios
    /\ phase = [w \in Writes |-> "new"]
    /\ coord = [w \in Writes |-> Source]
    /\ leg = [w \in Writes |-> [n \in Nodes |-> "off"]]
    /\ ackers = [w \in Writes |-> {}]
    /\ store = [n \in Nodes |-> [k \in Keys |-> 0]]
    /\ stage = 0
    /\ view = [n \in Nodes |-> 0]
    /\ owed = [n \in Nodes |-> {}]
    /\ reach = [n \in Nodes |-> 0]
    /\ log = NoLog
    /\ pc = "capture" /\ pos = 0 /\ cap = 0
    /\ boundary = {}
    /\ spent = [refusals |-> 0, reruns |-> 0]

-----------------------------------------------------------------------------
(* The movement as a node sees it.                                         *)

StateAt(v) == CASE v <= Added -> "FINALIZING" [] v = Integrating -> "INTEGRATING"
                [] v \in {Dehydrating, Removed} -> "DEHYDRATING"
                [] v = Ready -> "READY"

\* ShardReplicas of the node's schema.
ShardReplicas(v) ==
    (Base \cup IF v >= Added THEN {Target} ELSE {})
        \ IF sc.type = "MOVE" /\ v >= Removed THEN {Source} ELSE {}

\* FilterOneShardReplicasRead and Write, which agree.
FilterOneShardReplicas(v) ==
    {n \in ShardReplicas(v) :
        /\ n = Target => StateAt(v) \in {"READY", "DEHYDRATING", "INTEGRATING"}
        /\ n = Source => StateAt(v) # "DEHYDRATING"}

\* Mutant: half of the replicas, rounded up, is a quorum.
HalfToInt(level, n) ==
    CASE level = "ALL" -> n [] level = "QUORUM" -> (n + 1) \div 2 [] level = "ONE" -> 1

ToInt(level, n) == CASE level = "ALL" -> n [] level = "QUORUM" -> n \div 2 + 1
                     [] level = "ONE" -> 1

\* The command after stage v: a COPY is READY after INTEGRATING.
After(v) == IF sc.type = "COPY" /\ v = Integrating THEN Ready ELSE v + 1

InFlight(n) ==
    {w \in Writes : coord[w] = n /\ phase[w] \in {"registered", "asked", "commit"}}

\* A node applies the next command.  INTEGRATING and DEHYDRATING start
\* WaitForDrain, which takes the writes in flight now; the removal drops the
\* shard of the source with what was prepared there.
Apply(n) ==
    /\ view[n] < stage
    /\ view' = [view EXCEPT ![n] = After(@)]
    /\ owed' = [owed EXCEPT ![n] =
           IF After(view[n]) \in {Integrating, Dehydrating} THEN InFlight(n) ELSE {}]
    /\ IF n = Source /\ After(view[n]) = Removed
       THEN /\ store' = [store EXCEPT ![n] = [k \in Keys |-> 0]]
            /\ leg' = [w \in Writes |-> [leg[w] EXCEPT ![n] =
                   IF @ \in {"asked", "prepared", "stuck"} THEN "failed" ELSE @]]
       ELSE UNCHANGED <<store, leg>>
    /\ UNCHANGED <<sc, phase, coord, ackers, stage, reach, log, pc, pos, cap,
                   boundary, spent>>

\* Mutants: the report waits for no write; only INTEGRATING is reported; so is
\* whatever the node applied.
NotDrained(n) == view[n] >= Integrating
ReportsOnce(n) == view[n] = Integrating
ReportsAll(n) == view[n] >= Added

\* broadcastNodeReachedState, once the drain is over, unless it gives up after
\* its 30 s; no barrier waits for the reports of other states.
Reports(n) ==
    view[n] \in {Integrating, Dehydrating} /\ <<n, view[n]>> \notin sc.silent
Drained(n) == owed[n] \cap InFlight(n) = {}

ReportReached(n) ==
    /\ Reports(n) /\ reach[n] < view[n]
    /\ Drained(n)
    /\ reach' = [reach EXCEPT ![n] = view[n]]
    /\ UNCHANGED <<sc, writeVars, store, stage, view, owed, log, pc, pos, cap,
                   boundary, spent>>

AllPeersAtLeast(v) == \A n \in Nodes : reach[n] >= v

-----------------------------------------------------------------------------
(* A write: Replicator.PutObject registers it, coordinator.Push routes it  *)
(* and asks, broadcast and commitAll carry it through.                     *)

Settled(w) ==
    /\ phase[w] \in {"acked", "error"}
    /\ \A n \in Nodes : leg[w][n] \in {"off", "stuck", "done", "failed"}

\* The code holds no write back for another: only the client of one that waits
\* does.
Register(w, n) ==
    /\ phase[w] = "new" /\ n \in sc.via
    /\ w \in Waiting => \A u \in 1 .. w - 1 : Key(u) = Key(w) => Settled(u)
    /\ phase' = [phase EXCEPT ![w] = "registered"]
    /\ coord' = [coord EXCEPT ![w] = n]
    /\ UNCHANGED <<sc, leg, ackers, store, movementVars, log, spent>>

Push(w) ==
    /\ phase[w] = "registered"
    /\ phase' = [phase EXCEPT ![w] = "asked"]
    /\ leg' = [leg EXCEPT ![w] = [n \in Nodes |->
           IF n \in FilterOneShardReplicas(view[coord[w]]) THEN "asked" ELSE "off"]]
    /\ UNCHANGED <<sc, coord, ackers, store, movementVars, log, spent>>

Route(w) == {n \in Nodes : leg[w][n] # "off"}
Level(w) == ToInt(sc.writes[w].level, Cardinality(Route(w)))
Legs(w, state) == {n \in Nodes : leg[w][n] = state}

HasShard(n) == n \in ShardReplicas(view[n]) \/ n = Target

Prepare(w, n) ==
    /\ leg[w][n] = "asked"
    /\ leg' = [leg EXCEPT ![w][n] = IF HasShard(n) THEN "prepared" ELSE "failed"]
    /\ UNCHANGED <<sc, phase, coord, ackers, store, movementVars, log, spent>>

\* The prepare fails, or its answer is lost and an abort undoes it.
Refuse(w, n) ==
    /\ spent.refusals < sc.refusals
    /\ leg[w][n] = "asked"
    /\ leg' = [leg EXCEPT ![w][n] = "failed"]
    /\ spent' = [spent EXCEPT !.refusals = @ + 1]
    /\ UNCHANGED <<sc, phase, coord, ackers, store, movementVars, log>>

\* The node prepares, and hears no more of the write: the answer, the commit or
\* the abort is lost.  Nothing is sent twice and replicationMap forgets nothing.
Lose(w, n) ==
    /\ spent.refusals < sc.refusals
    /\ leg[w][n] = "prepared" \/ (leg[w][n] = "asked" /\ HasShard(n))
    /\ leg' = [leg EXCEPT ![w][n] = "stuck"]
    /\ spent' = [spent EXCEPT !.refusals = @ + 1]
    /\ UNCHANGED <<sc, phase, coord, ackers, store, movementVars, log>>

\* The level is reached: what is prepared, now or later, is committed.
StartCommit(w) ==
    /\ phase[w] = "asked"
    /\ Cardinality(Legs(w, "prepared")) >= Level(w)
    /\ phase' = [phase EXCEPT ![w] = "commit"]
    /\ UNCHANGED <<sc, coord, leg, ackers, store, movementVars, log, spent>>

Abort(w) ==
    /\ phase[w] = "asked" /\ Legs(w, "asked") = {}
    /\ Cardinality(Legs(w, "prepared")) < Level(w)
    /\ phase' = [phase EXCEPT ![w] = "error"]
    /\ leg' = [leg EXCEPT ![w] = [n \in Nodes |->
           IF @[n] = "prepared" THEN "failed" ELSE @[n]]]
    /\ UNCHANGED <<sc, coord, ackers, store, movementVars, log, spent>>

\* Deleting what is not there leaves nothing behind, a tombstone neither.
deleteObject(old, w) == IF old > 0 THEN -w ELSE old

\* What a write that is no replay makes of an object.
Written(old, w) == IF Kind(w) = "PUT" THEN w ELSE deleteObject(old, w)

Tees(n, w) ==
    n = Source /\ log.reg = "open" /\ (Kind(w) = "PUT" \/ store[n][Key(w)] > 0)

Abs(x) == IF x < 0 THEN -x ELSE x

DrainWindow == IF pc \in {"copy", "copied", "finalize", "drain"}
               THEN "before" ELSE "after"

\* The commit applies the write and tees it into the open log.  An append that
\* fails takes the log away and not the write.
Commit(w, n) ==
    /\ phase[w] \in {"commit", "acked"} /\ leg[w][n] = "prepared"
    /\ leg' = [leg EXCEPT ![w][n] = "done"]
    /\ store' = [store EXCEPT ![n][Key(w)] = Written(@, w)]
    /\ \/ log' = IF Tees(n, w) THEN [log EXCEPT !.entries = Append(@, w)] ELSE log
       \/ Tees(n, w) /\ DrainWindow \in sc.appendFails /\ log' = NoLog
    /\ UNCHANGED <<sc, phase, coord, ackers, movementVars, spent>>

\* coordinator.read returns at the level, or when no reply is left to come;
\* the registration ends with it and the other legs go on.
Return(w) ==
    /\ phase[w] = "commit"
    /\ LET done == Legs(w, "done")
           enough == Cardinality(done) >= Level(w)
       IN  /\ enough \/ Legs(w, "asked") \cup Legs(w, "prepared") = {}
           /\ phase' = [phase EXCEPT ![w] = IF enough THEN "acked" ELSE "error"]
           /\ ackers' = [ackers EXCEPT ![w] = IF enough THEN done ELSE {}]
    /\ UNCHANGED <<sc, coord, leg, store, movementVars, log, spent>>

-----------------------------------------------------------------------------
(* The worker on the target: processHydratingOp, processFinalizingOp,      *)
(* processIntegratingOp and processDehydratingOp.                          *)

targetUnchanged == <<sc, writeVars, view, owed, reach, spent>>

StartChangeCapture ==
    /\ pc = "capture" /\ pc' = "copy"
    /\ log' = [NoLog EXCEPT !.reg = "open"]
    /\ UNCHANGED <<targetUnchanged, store, stage, pos, cap, boundary>>

\* The copy is the snapshot that the source takes of its files.
CopyReplicaFiles ==
    /\ pc = "copy" /\ pc' = "copied"
    /\ store' = [store EXCEPT ![Target] = store[Source]]
    /\ UNCHANGED <<targetUnchanged, stage, log, pos, cap, boundary>>

UpdateToFinalizing ==
    /\ pc = "copied" /\ pc' = "finalize"
    /\ boundary' = {w \in Writes : leg[w][Source] = "done"}
    /\ UNCHANGED <<targetUnchanged, store, stage, log, pos, cap>>

\* Mutant: there is nothing to drain before the add.
NoLSN == 0

\* The LSN of the last entry.
LSN == Len(log.entries)

\* SnapshotChangeLogLSN, and the tailer that will stop there: it starts at the
\* first entry.  FINALIZING cannot do without the log, INTEGRATING takes one
\* that is gone as drained.
Snapshot ==
    /\ \/ /\ pc = "finalize"
          /\ pc' = IF log.reg = "none" THEN "aborted" ELSE "drain"
       \/ /\ pc = "snapshot"
          /\ pc' = IF log.reg = "none" THEN "moved" ELSE "predrain"
    /\ cap' = LSN /\ pos' = 0
    /\ UNCHANGED <<targetUnchanged, store, stage, log, boundary>>

localIsNewer(old, w) == Abs(old) > w

\* A replayed write loses against a newer object or a newer tombstone.
Replayed(old, w) ==
    IF localIsNewer(old, w) THEN old
    ELSE IF Kind(w) = "PUT" THEN w ELSE deleteObject(old, w)

TailLimit == IF pc \in {"drain", "predrain"} THEN cap ELSE Len(log.entries)

TailAndApply ==
    /\ pc \in {"drain", "predrain", "seal", "sealing", "tail"}
    /\ log.reg # "none" /\ pos < TailLimit
    /\ LET w == log.entries[pos + 1]
       IN  store' = [store EXCEPT ![Target][Key(w)] = Replayed(@, w)]
    /\ pos' = pos + 1
    /\ UNCHANGED <<targetUnchanged, stage, log, pc, cap, boundary>>

\* The log was taken away.  A tailer that was reading it finds it deactivated
\* and the handler fails; FINALIZING then fails for good, INTEGRATING runs
\* again.  A tailer or a seal that finds no log takes it as drained.
TailFails ==
    /\ log.reg = "none"
    /\ pc \in {"drain", "predrain", "seal", "sealing"}
    /\ pc' \in IF pc = "drain" THEN {"aborted"} ELSE {"barrier", "moved"}
    /\ UNCHANGED <<targetUnchanged, store, stage, log, pos, cap, boundary>>

EndDrain ==
    /\ log.reg # "none" /\ pos = cap
    /\ \/ pc = "drain" /\ pc' = "add" /\ UNCHANGED pos
       \/ pc = "predrain" /\ pc' = "seal" /\ pos' = 0
    /\ UNCHANGED <<targetUnchanged, store, stage, log, cap, boundary>>

\* The add, unless the target's own schema has it already.
AddReplicaToShard ==
    /\ pc = "add" /\ pc' = "joined"
    /\ stage' = IF stage < Added THEN Added ELSE stage
    /\ UNCHANGED <<targetUnchanged, store, log, pos, cap, boundary>>

UpdateToIntegrating ==
    /\ pc = "joined" /\ pc' = "barrier"
    /\ stage' = Integrating
    /\ UNCHANGED <<targetUnchanged, store, log, pos, cap, boundary>>

waitForIntegrating ==
    /\ pc = "barrier" /\ pc' = "snapshot"
    /\ AllPeersAtLeast(Integrating)
    /\ UNCHANGED <<targetUnchanged, store, stage, log, pos, cap, boundary>>

Pending(w) == leg[w][Source] \in {"prepared", "stuck"}

\* FinalizeChangeLog: the prepares pending at entry, then the seal.
EnterFinalize ==
    /\ pc = "seal" /\ log.reg # "none" /\ pc' = "sealing"
    /\ log' = [log EXCEPT !.wait = {w \in Writes : Pending(w)}]
    /\ UNCHANGED <<targetUnchanged, store, stage, pos, cap, boundary>>

Seal ==
    /\ pc = "sealing" /\ log.reg # "none" /\ pc' = "tail"
    /\ \A w \in log.wait : ~Pending(w)
    /\ log' = [log EXCEPT !.reg = "sealed", !.wait = {}]
    /\ UNCHANGED <<targetUnchanged, store, stage, pos, cap, boundary>>

\* The tailer has read the sealed log to its end; the log is removed.
StopChangeCapture ==
    /\ pc = "tail" /\ pc' = "moved"
    /\ pos = Len(log.entries)
    /\ log' = NoLog
    /\ UNCHANGED <<targetUnchanged, store, stage, pos, cap, boundary>>

nextStateAfterIntegrating ==
    /\ pc = "moved"
    /\ stage' = After(Integrating)
    /\ pc' = IF sc.type = "MOVE" THEN "fence" ELSE "finished"
    /\ UNCHANGED <<targetUnchanged, store, log, pos, cap, boundary>>

\* The barrier of DEHYDRATING and the removal of the source, unless the
\* target's own schema says it is gone.
DeleteReplicaFromShard ==
    /\ pc = "fence" /\ pc' = "removed"
    /\ \/ Source \notin ShardReplicas(view[Target]) /\ UNCHANGED stage
       \/ stage < Removed /\ AllPeersAtLeast(Dehydrating) /\ stage' = Removed
    /\ UNCHANGED <<targetUnchanged, store, log, pos, cap, boundary>>

UpdateToReady ==
    /\ pc = "removed" /\ pc' = "finished"
    /\ stage' = Ready
    /\ UNCHANGED <<targetUnchanged, store, log, pos, cap, boundary>>

\* The target restarts, or an answer is lost: the handler of the state that
\* Raft has runs again from its start.
Rerun ==
    /\ spent.reruns < sc.reruns
    /\ pc \notin {"capture", "copy", "copied", "aborted", "finished"}
    /\ pc' = CASE stage <= Added -> "finalize"
               [] stage = Integrating -> "barrier"
               [] stage > Integrating -> "fence"
    /\ pc' # pc
    /\ spent' = [spent EXCEPT !.reruns = @ + 1]
    /\ UNCHANGED <<sc, writeVars, store, stage, view, owed, reach, log, pos,
                   cap, boundary>>

TargetStep ==
    \/ StartChangeCapture \/ CopyReplicaFiles \/ UpdateToFinalizing
    \/ Snapshot \/ TailAndApply
    \/ TailFails \/ EndDrain \/ AddReplicaToShard \/ UpdateToIntegrating
    \/ waitForIntegrating \/ EnterFinalize \/ Seal \/ StopChangeCapture
    \/ nextStateAfterIntegrating \/ DeleteReplicaFromShard \/ UpdateToReady

WriteStep(w) ==
    \/ Push(w) \/ StartCommit(w) \/ Abort(w) \/ Return(w)
    \/ \E n \in Nodes : Prepare(w, n) \/ Commit(w, n)

NodeStep(n) == Apply(n) \/ ReportReached(n)

Next ==
    \/ TargetStep \/ Rerun
    \/ \E n \in Nodes : NodeStep(n)
    \/ \E w \in Writes : WriteStep(w)
    \/ \E w \in Writes, n \in Nodes : Register(w, n) \/ Refuse(w, n) \/ Lose(w, n)

\* Raft delivers and the worker goes on.  A message to or from a replica arrives
\* or is lost (Refuse, Lose): the coordinator gives a prepare 20 s and a commit
\* has its deadline too.  A report that is not given up is made.
AllWrites == UNION {DOMAIN s.writes : s \in Scenarios}
AllNodes == UNION {s.peers : s \in Scenarios} \cup {Source, Target}

Fairness ==
    /\ WF_vars(TargetStep)
    /\ \A n \in AllNodes : WF_vars(n \in Nodes /\ NodeStep(n))
    /\ \A w \in AllWrites : WF_vars(w \in Writes /\ WriteStep(w))

Spec == Init /\ [][Next]_vars /\ Fairness

-----------------------------------------------------------------------------
(* Properties.                                                             *)

\* Every variable has its type: stages and views of the movement, the states
\* of a write's legs, versions no larger than the number of writes.
TypeOK ==
    /\ phase \in [Writes -> {"new", "registered", "asked", "commit", "acked", "error"}]
    /\ coord \in [Writes -> Nodes]
    /\ leg \in [Writes -> [Nodes -> {"off", "asked", "prepared", "stuck", "done", "failed"}]]
    /\ ackers \in [Writes -> SUBSET Nodes]
    /\ store \in [Nodes -> [Keys -> -Len(sc.writes) .. Len(sc.writes)]]
    /\ stage \in 0 .. Ready /\ view \in [Nodes -> 0 .. stage]
    /\ owed \in [Nodes -> SUBSET Writes]
    /\ reach \in [Nodes -> {0, Integrating, Dehydrating}]
    /\ log.reg \in {"none", "open", "sealed"} /\ log.entries \in Seq(Writes)
    /\ log.wait \subseteq Writes
    /\ pos \in 0 .. Len(sc.writes) /\ cap \in 0 .. Len(sc.writes)
    /\ boundary \subseteq Writes

\* The node has the write or something newer.
Holds(n, w) ==
    LET v == store[n][Key(w)]
    IN  IF Kind(w) = "PUT" THEN Abs(v) >= w ELSE v <= 0 \/ v >= w

\* Once the log is drained, the target has every acknowledged write that the
\* source acknowledged or that the target took itself, unless its own leg is
\* still on the way, lost or failed: the barrier, the seal and last-write-wins
\* replay leave none of them between the log and the routing.  Two things are
\* not promised.  Writes of one object that overlap may end in either order on
\* any replica, movement or not, as a commit compares no versions; the claim is
\* about a write whose older ones were over.  And a write that peers alone
\* acknowledged, whose commit comes to the source after the seal, is on neither
\* way to the target.
TargetIsCurrent ==
    pc \in {"moved", "fence", "removed", "finished"} =>
        \A w \in Waiting :
            phase[w] = "acked" /\ leg[w][Target] \in {"off", "done"}
            /\ (Source \in ackers[w] \/ leg[w][Target] = "done")
                => Holds(Target, w)

\* A QUORUM read through any node meets every write acknowledged at QUORUM or
\* ALL whose older ones were over when it was sent, whatever later writes of the
\* object overlap with it and whatever mixture of views the two were routed by.
QuorumReadSeesAck ==
    \A w \in Waiting, n \in Nodes :
        phase[w] = "acked" /\ sc.writes[w].level # "ONE" =>
            LET r == FilterOneShardReplicas(view[n])
            IN  Cardinality({m \in r : ~Holds(m, w)}) < ToInt("QUORUM", Cardinality(r))

\* A read of the target alone, by the first node that routes to it, is no older
\* than the boundary at which FINALIZING began, overlapping writes aside.
JoinsFresh ==
    (\E n \in Nodes : Target \in FilterOneShardReplicas(view[n])) =>
        \A w \in boundary \cap Waiting : Holds(Target, w)

\* Nothing in the code ends these waits: the seal's for a prepare that is neither
\* committed nor aborted, and a barrier's for a report that was given up.
WaitsForEver ==
    \/ pc = "sealing" /\ \E w \in log.wait : leg[w][Source] = "stuck"
    \/ pc = "barrier" /\ \E n \in Nodes : <<n, Integrating>> \in sc.silent
    \/ pc = "fence" /\ \E n \in Nodes : <<n, Dehydrating>> \in sc.silent

\* The movement comes to its end or is given up, or waits for a lost message for
\* ever: drains wait for writes, the seal for prepares and the worker for every
\* node, and where nothing is lost none of them waits for another for ever.
MovementEnds == <>(pc \in {"finished", "aborted"} \/ WaitsForEver)

=============================================================================
