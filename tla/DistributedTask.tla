---------------------------- MODULE DistributedTask ----------------------------
(***************************************************************************)
(* The values of cluster/distributedtask: tasks, units and acks, and what  *)
(* each Raft command of the Manager makes of a task.  A command has a      *)
(* guard (when the apply changes the task, or when it is refused with an   *)
(* error) and a value (the task after the apply).  The state machines      *)
(* TaskManager and TaskScheduler are built from these operators.           *)
(*                                                                         *)
(* Abstractions: a payload is a collection and the set of properties (or   *)
(* target vectors) it touches; progress in [0,1] is a step in              *)
(* 0..MaxProgress; an ack is "none", "ok" or "failed" (its error text is   *)
(* dropped); time is a counter and 0 is the zero time; a status this build *)
(* does not recognise is left out.                                         *)
(***************************************************************************)
EXTENDS Integers, FiniteSets

CONSTANTS
    Nodes,          \* the cluster members that run a scheduler
    NoNode,         \* the empty NodeID of a unit nobody claimed
    UnitIds,        \* the identifiers units are drawn from
    Groups,         \* the group identifiers ("" is one of them)
    Collections,    \* the classes a payload can bind to
    Scopes,         \* the properties or target vectors of a collection
    MaxProgress     \* progress 1.0, in steps

ASSUME NoNodeAssumption == NoNode \notin Nodes
ASSUME MaxProgressAssumption == MaxProgress \in Nat \ {0}

TaskStatus == {"STARTED", "PREPARING", "SWAPPING", "FINISHED", "CANCELLED", "FAILED"}
IsTerminal(s) == s \in {"FINISHED", "FAILED", "CANCELLED"}
IsActive(s) == ~IsTerminal(s)
\* Mutant: whatever has not ended can be cancelled.
IsCancellableWhileActive(s) == IsActive(s)

IsCancellable(s) == s = "STARTED"
IsForceTerminable(s) == s \in {"STARTED", "PREPARING", "SWAPPING"}

UnitStatus == {"PENDING", "IN_PROGRESS", "COMPLETED", "FAILED"}
AckStatus == {"none", "ok", "failed"}
Ack(success) == IF success THEN "ok" ELSE "failed"

Unit == [group : Groups, node : Nodes \cup {NoNode}, status : UnitStatus,
         progress : 0..MaxProgress, attempts : Nat]

Payload == [collection : Collections, scope : SUBSET Scopes]

\* A task whose units are the set S.
TaskOn(S) == [version : Nat, payload : Payload, barrier : BOOLEAN, status : TaskStatus,
              finishedAt : Nat, maxUnitRetries : Nat, units : [S -> Unit],
              prepAcks : [Nodes -> AckStatus], postAcks : [Nodes -> AckStatus]]

IsTask(t) == \E S \in SUBSET UnitIds : t \in TaskOn(S)

-----------------------------------------------------------------------------
(* Predicates over one task *)

UnitTerminal(unit) == unit.status \in {"COMPLETED", "FAILED"}
\* Mutant: the first finished unit counts for all.
AllUnitsTerminalAny(t) == \E u \in DOMAIN t.units : UnitTerminal(t.units[u])

AllUnitsTerminal(t) == \A u \in DOMAIN t.units : UnitTerminal(t.units[u])
AnyUnitFailed(t) == \E u \in DOMAIN t.units : t.units[u].status = "FAILED"
TaskGroups(t) == {t.units[u].group : u \in DOMAIN t.units}

AllGroupUnitsTerminal(t, g) ==
    \A u \in DOMAIN t.units : t.units[u].group = g => UnitTerminal(t.units[u])

LocalGroupUnitIDs(t, g, n) ==
    {u \in DOMAIN t.units : t.units[u].group = g /\ t.units[u].node = n}

NodeHasNonTerminalUnits(t, n) ==
    \E u \in DOMAIN t.units : /\ ~UnitTerminal(t.units[u])
                              /\ t.units[u].node \in {NoNode, n}

NodesWithLocalUnits(t) == {t.units[u].node : u \in DOMAIN t.units} \ {NoNode}

MissingPostCompletionAckNodes(t) ==
    {n \in NodesWithLocalUnits(t) : t.postAcks[n] = "none"}

AllPostCompletionAcksSuccessful(t) ==
    \A n \in NodesWithLocalUnits(t) : t.postAcks[n] = "ok"

allExpectedPreparationAcksLanded(t) ==
    \A n \in NodesWithLocalUnits(t) : t.prepAcks[n] = "ok"

\* Two payloads contend for the same on-disk state.  An empty property list of
\* a reindex means every property; a vector drop names its targets.
PropsOverlap(ns, p, q) == \/ p \cap q # {}
                          \/ ns = "reindex" /\ (p = {} \/ q = {})

PayloadsConflict(ns, p, q) == /\ p.collection = q.collection
                              /\ PropsOverlap(ns, p.scope, q.scope)

-----------------------------------------------------------------------------
(* The apply functions of the Manager, on one task *)

markTerminal(t, status, at) == [t EXCEPT !.status = status, !.finishedAt = at]

\* groupOf gives the group of every unit of the request (UnitSpecs).
NewTask(seqNum, payload, barrier, retries, groupOf) ==
    [version |-> seqNum, payload |-> payload, barrier |-> barrier,
     status |-> "STARTED", finishedAt |-> 0, maxUnitRetries |-> retries,
     units |-> [u \in DOMAIN groupOf |->
                   [group |-> groupOf[u], node |-> NoNode, status |-> "PENDING",
                    progress |-> 0, attempts |-> 0]],
     prepAcks |-> [n \in Nodes |-> "none"], postAcks |-> [n \in Nodes |-> "none"]]

findStartedUnit(t, u, n) == /\ t.status = "STARTED"
                            /\ u \in DOMAIN t.units
                            /\ t.units[u].node \in {NoNode, n}

\* Mutant: the budget is off by one.
RetryableOnceMore(t, u) == t.units[u].attempts <= t.maxUnitRetries

RetryableNow(t, u) == t.units[u].attempts < t.maxUnitRetries

\* A retryable failure with budget left re-opens the unit on the same node.
UnitRetried(t, u, n) ==
    LET unit == t.units[u] IN
    [t EXCEPT !.units[u] = [unit EXCEPT !.node = n, !.status = "PENDING", !.progress = 0,
                                        !.attempts = unit.attempts + 1]]

\* Mutant: the task fails without its end being stamped.
UnitFailedUnstamped(t, u, n, at) ==
    LET unit == t.units[u] IN
    [t EXCEPT !.units[u] = [unit EXCEPT !.node = n, !.status = "FAILED"],
              !.status = "FAILED"]

\* Any other failure fails the unit and, at once, the task.
UnitFailed(t, u, n, at) ==
    LET unit == t.units[u] IN
    markTerminal([t EXCEPT !.units[u] = [unit EXCEPT !.node = n, !.status = "FAILED"]],
                 "FAILED", at)

WithUnitDone(t, u, n) ==
    LET unit == t.units[u] IN
    [t EXCEPT !.units[u] = [unit EXCEPT !.node = n, !.status = "COMPLETED",
                                        !.progress = MaxProgress]]

\* The last unit to complete moves the task on: to the preparation barrier or
\* straight to the swap, or to FAILED when some unit failed.
UnitCompleted(t, u, n, at) ==
    LET done == WithUnitDone(t, u, n)
    IN  IF ~AllUnitsTerminal(done) THEN done
        ELSE IF AnyUnitFailed(done) THEN markTerminal(done, "FAILED", at)
        ELSE [done EXCEPT !.status = IF t.barrier THEN "PREPARING" ELSE "SWAPPING"]

\* Mutant: reports are added up instead of compared.
UnitProgressedByDelta(t, u, n, p) ==
    LET unit == t.units[u] IN
    [t EXCEPT !.units[u] = [unit EXCEPT !.node = n, !.status = "IN_PROGRESS",
                                        !.progress = unit.progress + p]]

\* Claims an unassigned unit; stored progress never goes back.
UnitProgressed(t, u, n, p) ==
    LET unit == t.units[u] IN
    [t EXCEPT !.units[u] = [unit EXCEPT !.node = n, !.status = "IN_PROGRESS",
                                        !.progress = IF p > unit.progress THEN p
                                                     ELSE unit.progress]]

PostAckRefused(t) == t.status = "PREPARING"

\* Mutant: an ack for an ended task is recorded.
PostAckAppliesLate(t, n) == ~PostAckRefused(t) /\ t.postAcks[n] = "none"

PostAckApplies(t, n) == t.status \in {"STARTED", "SWAPPING"} /\ t.postAcks[n] = "none"

PostAcked(t, n, success, at) ==
    LET acked == [t EXCEPT !.postAcks[n] = Ack(success)]
    IN  IF ~success /\ t.status = "SWAPPING" THEN markTerminal(acked, "FAILED", at)
        ELSE acked

\* Mutant: the last ack wins.
PrepAckAppliesAgain(t, n) == t.status \in {"STARTED", "PREPARING"}

PrepAckApplies(t, n) == t.status \in {"STARTED", "PREPARING"} /\ t.prepAcks[n] = "none"

\* Mutant: the first success lifts the barrier.
PrepAckedByOne(t, n, success, at) ==
    LET acked == [t EXCEPT !.prepAcks[n] = Ack(success)]
    IN  IF t.status # "PREPARING" THEN acked
        ELSE IF ~success THEN markTerminal(acked, "FAILED", at)
        ELSE [acked EXCEPT !.status = "SWAPPING"]

PrepAcked(t, n, success, at) ==
    LET acked == [t EXCEPT !.prepAcks[n] = Ack(success)]
    IN  IF t.status # "PREPARING" THEN acked
        ELSE IF ~success THEN markTerminal(acked, "FAILED", at)
        ELSE IF allExpectedPreparationAcksLanded(acked)
             THEN [acked EXCEPT !.status = "SWAPPING"]
        ELSE acked

ForceTerminateApplies(t) ==
    /\ IsForceTerminable(t.status)
    /\ ~(t.status = "SWAPPING" /\ AllPostCompletionAcksSuccessful(t))
=============================================================================
