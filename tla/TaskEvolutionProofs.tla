------------------------- MODULE TaskEvolutionProofs -------------------------
(* What the commands of the Manager may do to one task: every apply yields *)
(* a task, how a task may evolve, and the invariant of a single task that  *)
(* they all keep.                                                          *)
EXTENDS DistributedTask, TLAPS

\* Ending a task keeps it a task.
LEMMA markTerminalType ==
    ASSUME NEW S, NEW t \in TaskOn(S), NEW status \in TaskStatus, NEW at \in Nat
    PROVE  markTerminal(t, status, at) \in TaskOn(S)
BY Zenon DEF markTerminal, TaskOn

\* AddTask stores a task whose units are the ones requested.
LEMMA NewTaskType ==
    ASSUME NEW S \in SUBSET UnitIds, NEW groupOf \in [S -> Groups],
           NEW v \in Nat, NEW p \in Payload, NEW b \in BOOLEAN, NEW r \in Nat
    PROVE  NewTask(v, p, b, r, groupOf) \in TaskOn(S)
<1>1. [u \in DOMAIN groupOf |->
          [group |-> groupOf[u], node |-> NoNode, status |-> "PENDING",
           progress |-> 0, attempts |-> 0]] \in [S -> Unit]
  BY MaxProgressAssumption DEF Unit, UnitStatus
<1>2. [n \in Nodes |-> "none"] \in [Nodes -> AckStatus]
  BY DEF AckStatus
<1> QED
  BY <1>1, <1>2 DEF NewTask, TaskOn, TaskStatus

\* Replacing one unit by a unit keeps a task a task.
LEMMA UnitSetType ==
    ASSUME NEW S, NEW t \in TaskOn(S), NEW u \in S, NEW unit \in Unit
    PROVE  [t EXCEPT !.units[u] = unit] \in TaskOn(S)
BY DEF TaskOn

\* The four ways a command rewrites a unit yield a unit.
LEMMA UnitRewriteType ==
    ASSUME NEW unit \in Unit, NEW n \in Nodes, NEW p \in 0..MaxProgress
    PROVE  /\ [unit EXCEPT !.node = n, !.status = "PENDING", !.progress = 0,
                           !.attempts = unit.attempts + 1] \in Unit
           /\ [unit EXCEPT !.node = n, !.status = "FAILED"] \in Unit
           /\ [unit EXCEPT !.node = n, !.status = "COMPLETED",
                           !.progress = MaxProgress] \in Unit
           /\ [unit EXCEPT !.node = n, !.status = "IN_PROGRESS",
                           !.progress = IF p > unit.progress THEN p
                                        ELSE unit.progress] \in Unit
<1>0. /\ 0 \in 0..MaxProgress /\ MaxProgress \in 0..MaxProgress
      /\ unit.attempts + 1 \in Nat
      /\ (IF p > unit.progress THEN p ELSE unit.progress) \in 0..MaxProgress
  BY MaxProgressAssumption DEF Unit
<1>1. [unit EXCEPT !.node = n, !.status = "PENDING", !.progress = 0,
                   !.attempts = unit.attempts + 1] \in Unit
  BY <1>0, Zenon DEF Unit, UnitStatus
<1>2. [unit EXCEPT !.node = n, !.status = "FAILED"] \in Unit
  BY <1>0, Zenon DEF Unit, UnitStatus
<1>3. [unit EXCEPT !.node = n, !.status = "COMPLETED", !.progress = MaxProgress] \in Unit
  BY <1>0, Zenon DEF Unit, UnitStatus
<1>4. [unit EXCEPT !.node = n, !.status = "IN_PROGRESS",
                   !.progress = IF p > unit.progress THEN p ELSE unit.progress] \in Unit
  BY <1>0, Zenon DEF Unit, UnitStatus
<1> QED
  BY <1>1, <1>2, <1>3, <1>4

\* Every report on a unit keeps a task a task.
LEMMA UnitReportType ==
    ASSUME NEW S, NEW t \in TaskOn(S), NEW u \in S, NEW n \in Nodes,
           NEW p \in 0..MaxProgress, NEW at \in Nat
    PROVE  /\ UnitRetried(t, u, n) \in TaskOn(S)
           /\ UnitFailed(t, u, n, at) \in TaskOn(S)
           /\ WithUnitDone(t, u, n) \in TaskOn(S)
           /\ UnitCompleted(t, u, n, at) \in TaskOn(S)
           /\ UnitProgressed(t, u, n, p) \in TaskOn(S)
<1>1. t.units[u] \in Unit
  BY DEF TaskOn
<1>2. UnitRetried(t, u, n) \in TaskOn(S)
  BY <1>1, UnitRewriteType, UnitSetType, Zenon DEF UnitRetried
<1>3. UnitFailed(t, u, n, at) \in TaskOn(S)
  BY <1>1, UnitRewriteType, UnitSetType, markTerminalType, Zenon DEF UnitFailed, TaskStatus
<1>4. WithUnitDone(t, u, n) \in TaskOn(S)
  BY <1>1, UnitRewriteType, UnitSetType, Zenon DEF WithUnitDone
<1>5. UnitCompleted(t, u, n, at) \in TaskOn(S)
  <2>1. ASSUME NEW status \in TaskStatus
        PROVE  [WithUnitDone(t, u, n) EXCEPT !.status = status] \in TaskOn(S)
    BY <1>4 DEF TaskOn
  <2> QED
    BY <1>4, <2>1, markTerminalType, Zenon DEF UnitCompleted, TaskStatus
<1>6. UnitProgressed(t, u, n, p) \in TaskOn(S)
  BY <1>1, UnitRewriteType, UnitSetType, Zenon DEF UnitProgressed
<1> QED
  BY <1>2, <1>3, <1>4, <1>5, <1>6

\* Recording an ack keeps a task a task.
LEMMA AckType ==
    ASSUME NEW S, NEW t \in TaskOn(S), NEW n \in Nodes, NEW success \in BOOLEAN,
           NEW at \in Nat
    PROVE  /\ PostAcked(t, n, success, at) \in TaskOn(S)
           /\ PrepAcked(t, n, success, at) \in TaskOn(S)
<1>1. Ack(success) \in AckStatus
  BY DEF Ack, AckStatus
<1>2. [t EXCEPT !.postAcks[n] = Ack(success)] \in TaskOn(S)
  BY <1>1 DEF TaskOn
<1>3. PICK acked : acked = [t EXCEPT !.prepAcks[n] = Ack(success)]
  BY Zenon
<1>4. acked \in TaskOn(S)
  BY <1>1, <1>3 DEF TaskOn
<1>5. [acked EXCEPT !.status = "SWAPPING"] \in TaskOn(S)
  BY <1>4 DEF TaskOn, TaskStatus
<1>6. PostAcked(t, n, success, at) \in TaskOn(S)
  BY <1>2, markTerminalType DEF PostAcked, TaskStatus
<1>7. PrepAcked(t, n, success, at) \in TaskOn(S)
  BY <1>3, <1>4, <1>5, markTerminalType DEF PrepAcked, TaskStatus
<1> QED
  BY <1>6, <1>7

------------------------------------------------------------------------------

\* What the Manager keeps true of every task it stores.
TaskInv(t) ==
    /\ t.status \in {"PREPARING", "SWAPPING", "FINISHED"} =>
           \A u \in DOMAIN t.units : t.units[u].status = "COMPLETED"
    /\ t.barrier /\ t.status \in {"SWAPPING", "FINISHED"} =>
           \A u \in DOMAIN t.units : t.prepAcks[t.units[u].node] = "ok"
    /\ (t.finishedAt # 0) <=> IsTerminal(t.status)
    /\ AnyUnitFailed(t) => t.status = "FAILED"
    /\ \A u \in DOMAIN t.units :
           /\ t.units[u].attempts <= t.maxUnitRetries
           /\ t.units[u].status = "COMPLETED" \/ t.units[u].attempts > 0
                  => t.units[u].node # NoNode

\* The part of a task that its submission fixes.
SameSubmission(t, s) == /\ s.version = t.version
                        /\ s.payload = t.payload
                        /\ s.barrier = t.barrier
                        /\ s.maxUnitRetries = t.maxUnitRetries
                        /\ DOMAIN s.units = DOMAIN t.units

\* What was reported of t still stands in s.
Stands(t, s) ==
    /\ \A n \in Nodes : /\ t.prepAcks[n] # "none" => s.prepAcks[n] = t.prepAcks[n]
                        /\ t.postAcks[n] # "none" => s.postAcks[n] = t.postAcks[n]
    /\ \A u \in DOMAIN t.units :
          /\ t.units[u].node # NoNode => s.units[u].node = t.units[u].node
          /\ UnitTerminal(t.units[u]) => s.units[u] = t.units[u]

\* The status moves one step of the life cycle, or stays.
Transition(t, s) ==
    \/ s.status = t.status
    \/ t.status = "STARTED" /\ s.status = "PREPARING" /\ t.barrier
    \/ t.status = "STARTED" /\ s.status = "SWAPPING" /\ ~t.barrier
    \/ t.status = "PREPARING" /\ s.status = "SWAPPING"
    \/ t.status = "SWAPPING" /\ s.status = "FINISHED"
    \/ s.status \in {"FAILED", "CANCELLED"}

\* An active task may become s.
Evolves(t, s) == /\ IsActive(t.status)
                 /\ SameSubmission(t, s)
                 /\ Stands(t, s)
                 /\ Transition(t, s)
                 /\ TaskInv(t) => TaskInv(s)

\* A task that is just submitted satisfies the invariant.
LEMMA NewTaskInv ==
    ASSUME NEW S \in SUBSET UnitIds, NEW groupOf \in [S -> Groups],
           NEW v \in Nat, NEW p \in Payload, NEW b \in BOOLEAN, NEW r \in Nat
    PROVE  TaskInv(NewTask(v, p, b, r, groupOf))
<1> DEFINE t == NewTask(v, p, b, r, groupOf)
<1>1. t.status = "STARTED" /\ t.finishedAt = 0 /\ t.maxUnitRetries = r /\ DOMAIN t.units = S
  BY DEF NewTask
<1>2. \A u \in S : t.units[u].status = "PENDING" /\ t.units[u].attempts = 0
  BY DEF NewTask
<1> QED
  BY <1>1, <1>2 DEF TaskInv, IsTerminal, AnyUnitFailed

\* Ending an active task: a success only out of SWAPPING.
LEMMA markTerminalEvolves ==
    ASSUME NEW S, NEW t \in TaskOn(S), NEW at \in Nat \ {0}, NEW status \in TaskStatus,
           IsActive(t.status),
           status \in {"FAILED", "CANCELLED"} \/ (t.status = "SWAPPING" /\ status = "FINISHED")
    PROVE  Evolves(t, markTerminal(t, status, at))
<1> DEFINE s == markTerminal(t, status, at)
<1>1. /\ s.status = status /\ s.finishedAt = at /\ s.units = t.units
      /\ s.prepAcks = t.prepAcks /\ s.postAcks = t.postAcks
      /\ SameSubmission(t, s)
  BY DEF markTerminal, TaskOn, SameSubmission
<1>2. TaskInv(t) => TaskInv(s)
  BY <1>1 DEF TaskInv, IsTerminal, IsActive, AnyUnitFailed, SameSubmission
<1> QED
  BY <1>1, <1>2 DEF Evolves, Stands, Transition

\* The unit reports, on a STARTED task and a unit that is not terminal.
LEMMA UnitReportEvolves ==
    ASSUME NEW S, NEW t \in TaskOn(S), NEW u \in S, NEW n \in Nodes,
           NEW p \in 0..MaxProgress, NEW at \in Nat \ {0},
           findStartedUnit(t, u, n), ~UnitTerminal(t.units[u])
    PROVE  /\ RetryableNow(t, u) => Evolves(t, UnitRetried(t, u, n))
           /\ Evolves(t, UnitFailed(t, u, n, at))
           /\ Evolves(t, UnitCompleted(t, u, n, at))
           /\ Evolves(t, UnitProgressed(t, u, n, p))
<1>0. /\ t.units[u] \in Unit /\ t.status = "STARTED" /\ t.units[u].node \in {NoNode, n}
      /\ t.units \in [S -> Unit] /\ n # NoNode /\ DOMAIN t.units = S
  BY NoNodeAssumption DEF TaskOn, findStartedUnit
<1>1. RetryableNow(t, u) => Evolves(t, UnitRetried(t, u, n))
  <2> SUFFICES ASSUME RetryableNow(t, u) PROVE Evolves(t, UnitRetried(t, u, n))
    OBVIOUS
  <2> DEFINE s == UnitRetried(t, u, n)
  <2>1. /\ SameSubmission(t, s) /\ s.status = t.status /\ s.finishedAt = t.finishedAt
        /\ s.prepAcks = t.prepAcks /\ s.postAcks = t.postAcks
        /\ \A w \in S : w # u => s.units[w] = t.units[w]
    BY <1>0 DEF UnitRetried, TaskOn, SameSubmission
  <2>2. /\ s.units[u].node = n /\ s.units[u].status = "PENDING"
        /\ s.units[u].attempts = t.units[u].attempts + 1
    BY <1>0 DEF UnitRetried, TaskOn, Unit
  <2>3. Stands(t, s)
    BY <1>0, <2>1, <2>2 DEF Stands
  <2>4. TaskInv(t) => TaskInv(s)
    BY <1>0, <2>1, <2>2 DEF TaskInv, SameSubmission, AnyUnitFailed, IsTerminal, RetryableNow,
       Unit, TaskOn
  <2> QED
    BY <1>0, <2>1, <2>3, <2>4 DEF Evolves, Transition, IsActive, IsTerminal
<1>2. Evolves(t, UnitFailed(t, u, n, at))
  <2> DEFINE s == UnitFailed(t, u, n, at)
  <2>1. /\ SameSubmission(t, s) /\ s.status = "FAILED" /\ s.finishedAt = at
        /\ s.prepAcks = t.prepAcks /\ s.postAcks = t.postAcks
        /\ \A w \in S : w # u => s.units[w] = t.units[w]
    BY <1>0 DEF UnitFailed, markTerminal, TaskOn, SameSubmission
  <2>2. /\ s.units[u].node = n /\ s.units[u].status = "FAILED"
        /\ s.units[u].attempts = t.units[u].attempts
    BY <1>0 DEF UnitFailed, markTerminal, TaskOn, Unit
  <2>3. Stands(t, s)
    BY <1>0, <2>1, <2>2 DEF Stands
  <2>4. TaskInv(t) => TaskInv(s)
    BY <1>0, <2>1, <2>2 DEF TaskInv, SameSubmission, AnyUnitFailed, IsTerminal
  <2> QED
    BY <1>0, <2>1, <2>3, <2>4 DEF Evolves, Transition, IsActive, IsTerminal
<1>3. Evolves(t, UnitCompleted(t, u, n, at))
  <2> DEFINE d == WithUnitDone(t, u, n)
             s == UnitCompleted(t, u, n, at)
  <2>1. /\ SameSubmission(t, d) /\ d.status = t.status /\ d.finishedAt = t.finishedAt
        /\ d.prepAcks = t.prepAcks /\ d.postAcks = t.postAcks
        /\ \A w \in S : w # u => d.units[w] = t.units[w]
        /\ d \in TaskOn(S)
    BY <1>0, UnitReportType, ZenonT(30) DEF WithUnitDone, TaskOn, SameSubmission
  <2>2. /\ d.units[u].node = n /\ d.units[u].status = "COMPLETED"
        /\ d.units[u].attempts = t.units[u].attempts
    BY <1>0 DEF WithUnitDone, TaskOn, Unit
  <2>3. Stands(t, d)
    BY <1>0, <2>1, <2>2 DEF Stands
  <2>4. TaskInv(t) => TaskInv(d)
    BY <1>0, <2>1, <2>2 DEF TaskInv, SameSubmission, AnyUnitFailed, IsTerminal
  <2>5. Evolves(t, d)
    BY <1>0, <2>1, <2>3, <2>4 DEF Evolves, Transition, IsActive, IsTerminal
  <2>6. CASE ~AllUnitsTerminal(d)
    BY <2>5, <2>6 DEF UnitCompleted
  <2>7. CASE AllUnitsTerminal(d) /\ AnyUnitFailed(d)
    <3>1. s = markTerminal(d, "FAILED", at) /\ IsActive(d.status)
      BY <1>0, <2>1, <2>7 DEF UnitCompleted, IsActive, IsTerminal
    <3>2. Evolves(d, s)
      BY <2>1, <3>1, markTerminalEvolves DEF TaskStatus
    <3> QED
      BY <1>0, <2>1, <2>5, <3>1, <3>2
      DEF Evolves, Stands, Transition, SameSubmission, markTerminal, TaskOn
  <2>8. CASE AllUnitsTerminal(d) /\ ~AnyUnitFailed(d)
    <3> DEFINE next == IF t.barrier THEN "PREPARING" ELSE "SWAPPING"
    <3>1. s = [d EXCEPT !.status = next]
      BY <2>8 DEF UnitCompleted
    <3>2. /\ s.status = next /\ s.units = d.units /\ s.finishedAt = d.finishedAt
          /\ s.prepAcks = d.prepAcks /\ s.postAcks = d.postAcks /\ SameSubmission(d, s)
      BY <2>1, <3>1 DEF TaskOn, SameSubmission
    <3>3. \A w \in DOMAIN s.units : s.units[w].status = "COMPLETED"
      BY <2>1, <2>8, <3>2 DEF AllUnitsTerminal, AnyUnitFailed, UnitTerminal
    <3>4. TaskInv(d) => TaskInv(s)
      BY <1>0, <2>1, <3>2, <3>3 DEF TaskInv, SameSubmission, AnyUnitFailed, IsTerminal
    <3>5. t.barrier \in BOOLEAN
      BY DEF TaskOn
    <3> QED
      BY <1>0, <2>1, <2>5, <3>2, <3>4, <3>5
      DEF Evolves, Stands, Transition, SameSubmission
  <2> QED
    BY <2>6, <2>7, <2>8, SMTT(30), Z3T(30)
<1>4. Evolves(t, UnitProgressed(t, u, n, p))
  <2> DEFINE s == UnitProgressed(t, u, n, p)
  <2>1. /\ SameSubmission(t, s) /\ s.status = t.status /\ s.finishedAt = t.finishedAt
        /\ s.prepAcks = t.prepAcks /\ s.postAcks = t.postAcks
        /\ \A w \in S : w # u => s.units[w] = t.units[w]
    BY <1>0 DEF UnitProgressed, TaskOn, SameSubmission
  <2>2. /\ s.units[u].node = n /\ s.units[u].status = "IN_PROGRESS"
        /\ s.units[u].attempts = t.units[u].attempts
    BY <1>0 DEF UnitProgressed, TaskOn, Unit
  <2>3. Stands(t, s)
    BY <1>0, <2>1, <2>2 DEF Stands
  <2>4. TaskInv(t) => TaskInv(s)
    BY <1>0, <2>1, <2>2 DEF TaskInv, SameSubmission, AnyUnitFailed, IsTerminal
  <2> QED
    BY <1>0, <2>1, <2>3, <2>4 DEF Evolves, Transition, IsActive, IsTerminal
<1> QED
  BY <1>1, <1>2, <1>3, <1>4
\* The two acks, where they apply.
LEMMA AckEvolves ==
    ASSUME NEW S, NEW t \in TaskOn(S), NEW n \in Nodes, NEW ok \in BOOLEAN,
           NEW at \in Nat \ {0}
    PROVE  /\ PrepAckApplies(t, n) => Evolves(t, PrepAcked(t, n, ok, at))
           /\ PostAckApplies(t, n) => Evolves(t, PostAcked(t, n, ok, at))
<1>0. Ack(ok) \in AckStatus
  BY DEF Ack, AckStatus
<1>1. ASSUME PrepAckApplies(t, n) PROVE Evolves(t, PrepAcked(t, n, ok, at))
  <2> DEFINE d == [t EXCEPT !.prepAcks[n] = Ack(ok)]
             s == PrepAcked(t, n, ok, at)
  <2>1. /\ SameSubmission(t, d) /\ d.status = t.status /\ d.finishedAt = t.finishedAt
        /\ d.units = t.units /\ d.postAcks = t.postAcks /\ d \in TaskOn(S)
        /\ \A m \in Nodes : m # n => d.prepAcks[m] = t.prepAcks[m]
    BY <1>0 DEF TaskOn, SameSubmission
  <2>2. IsActive(t.status) /\ t.status \in {"STARTED", "PREPARING"} /\ t.prepAcks[n] = "none"
    BY <1>1 DEF PrepAckApplies, IsActive, IsTerminal
  <2>3. Stands(t, d)
    BY <2>1, <2>2 DEF Stands
  <2>4. TaskInv(t) => TaskInv(d)
    BY <2>1, <2>2 DEF TaskInv, SameSubmission, AnyUnitFailed
  <2>5. Evolves(t, d)
    BY <2>1, <2>2, <2>3, <2>4 DEF Evolves, Transition
  <2>6. CASE s = d
    BY <2>5, <2>6
  <2>7. CASE s = markTerminal(d, "FAILED", at)
    <3>1. Evolves(d, s)
      BY <2>1, <2>2, <2>7, markTerminalEvolves, Zenon DEF TaskStatus
    <3>2. s.status = "FAILED"
      BY <2>1, <2>7 DEF markTerminal, TaskOn
    <3> QED
      BY <2>2, <2>5, <3>1, <3>2, <2>1, <2>7
      DEF Evolves, Stands, Transition, SameSubmission, markTerminal, TaskOn
  <2>8. CASE /\ s = [d EXCEPT !.status = "SWAPPING"] /\ t.status = "PREPARING"
             /\ allExpectedPreparationAcksLanded(d)
    <3>1. /\ s.status = "SWAPPING" /\ s.units = d.units /\ s.finishedAt = d.finishedAt
          /\ s.prepAcks = d.prepAcks /\ s.postAcks = d.postAcks /\ SameSubmission(d, s)
      BY <2>1, <2>8 DEF TaskOn, SameSubmission
    <3>2. TaskInv(d) => TaskInv(s)
      <4> SUFFICES ASSUME TaskInv(d) PROVE TaskInv(s)
        OBVIOUS
      <4>1. \A u \in DOMAIN d.units : d.units[u].status = "COMPLETED" /\ d.units[u].node # NoNode
        BY <2>1, <2>8 DEF TaskInv
      <4>2. \A u \in DOMAIN d.units : d.prepAcks[d.units[u].node] = "ok"
        BY <2>8, <4>1 DEF allExpectedPreparationAcksLanded, NodesWithLocalUnits
      <4> QED
        BY <2>1, <2>8, <3>1, <4>1, <4>2 DEF TaskInv, SameSubmission, AnyUnitFailed, IsTerminal
    <3> QED
      BY <2>1, <2>2, <2>5, <2>8, <3>1, <3>2 DEF Evolves, Stands, Transition, SameSubmission
  <2> QED
    BY <2>6, <2>7, <2>8 DEF PrepAcked
<1>2. ASSUME PostAckApplies(t, n) PROVE Evolves(t, PostAcked(t, n, ok, at))
  <2> DEFINE d == [t EXCEPT !.postAcks[n] = Ack(ok)]
             s == PostAcked(t, n, ok, at)
  <2>1. /\ SameSubmission(t, d) /\ d.status = t.status /\ d.finishedAt = t.finishedAt
        /\ d.units = t.units /\ d.prepAcks = t.prepAcks /\ d \in TaskOn(S)
        /\ \A m \in Nodes : m # n => d.postAcks[m] = t.postAcks[m]
    BY <1>0 DEF TaskOn, SameSubmission
  <2>2. IsActive(t.status) /\ t.postAcks[n] = "none"
    BY <1>2 DEF PostAckApplies, IsActive, IsTerminal
  <2>3. Stands(t, d)
    BY <2>1, <2>2 DEF Stands
  <2>4. TaskInv(t) => TaskInv(d)
    BY <2>1, <2>2 DEF TaskInv, SameSubmission, AnyUnitFailed
  <2>5. Evolves(t, d)
    BY <2>1, <2>2, <2>3, <2>4 DEF Evolves, Transition
  <2>6. CASE s = d
    BY <2>5, <2>6
  <2>7. CASE s = markTerminal(d, "FAILED", at)
    <3>1. Evolves(d, s)
      BY <2>1, <2>2, <2>7, markTerminalEvolves, Zenon DEF TaskStatus
    <3>2. s.status = "FAILED"
      BY <2>1, <2>7 DEF markTerminal, TaskOn
    <3> QED
      BY <2>2, <2>5, <3>1, <3>2, <2>1, <2>7
      DEF Evolves, Stands, Transition, SameSubmission, markTerminal, TaskOn
  <2> QED
    BY <2>6, <2>7 DEF PostAcked
<1> QED
  BY <1>1, <1>2
=============================================================================
