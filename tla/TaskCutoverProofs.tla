------------------------- MODULE TaskCutoverProofs -------------------------
(* Theorems about the cutover of TaskScheduler: a task that is FINISHED is *)
(* a finished migration, and the schema flip waits for every swap ack and  *)
(* cannot be overtaken, for any number of nodes, units, crashes and writes *)
(* that are applied late.                                                  *)
EXTENDS TaskSchedulerProofs

\* A preparation or a swap that is done on disk does not fail when it is run
\* again.  (If it can, the error of the re-run counts as one of the first run.)
RerunsSucceed == \A s \in Setups : s.rerunFails => s.fails \cap {"prep", "swap"} = {}

-----------------------------------------------------------------------------
(* The inductive invariant, again of explicit values: a setup s, a record  *)
(* t, a disk d, the schema flag f and a memory m.                          *)

Lost(t) == t.status \in {"FAILED", "CANCELLED"}
Swapped(d) == \A u \in UnitIds : d[u] \in NewData

\* Nothing is left to do before the task may be finalized.
Settled(t, d, f) == Lost(t) \/ (f /\ Swapped(d))

\* CutoverSound of a setup.
Smooth(s) == ~s.stale /\ s.fails \cap {"swap", "flip"} = {}

\* The record, beside the disk and the schema.
Outcome(s, t, d, f) ==
    /\ t.status = "FINISHED" => f /\ Swapped(d)
    /\ f /\ Smooth(s) => /\ t.status \in {"SWAPPING", "FINISHED"}
                         /\ \A u \in UnitIds : t.postAcks[UnitToNode[u]] = "ok"
    /\ \A k \in Nodes : t.prepAcks[k] = "failed" \/ t.postAcks[k] = "failed" => Lost(t)

\* A command on its way.
Timely(cmd, s, t, d, f) ==
    /\ cmd.type \in {"prepAck", "postAck"} => t.status # "STARTED"
    /\ cmd.type = "finalize" => Settled(t, d, f)
    /\ Smooth(s) => cmd.type # "fail" /\ (cmd.type = "postAck" => cmd.ok)

\* The record has gone on from the copy c.
Behind(c, s, t) ==
    /\ Lost(c) => Lost(t)
    /\ c.status = "FINISHED" => t.status = "FINISHED"
    /\ c.status # "STARTED" => t.status # "STARTED"
    /\ Smooth(s) /\ c.status = "SWAPPING" => t.status \in {"SWAPPING", "FINISHED"}
    /\ \A k \in Nodes : c.postAcks[k] # "none" => t.postAcks[k] # "none" \/ Over(t)

\* The tick takes the task for failed only when it is lost.
Aware(m, t) == m.eff = m.clone.status \/ (m.eff = "FAILED" /\ Lost(t))

\* An error that node n remembers is still there to see on its disk.
PrepErrSeen(n, m, busy, t, d) ==
    m.prepErr =>
        /\ t.barrier
        /\ Lost(t) \/ \E u \in LocalUnits(n) \ busy :
                         t.units[u].group \in m.prepFired /\ d[u] \notin Merged
SwapErrSeen(n, m, busy, s, t, d) ==
    m.swapErr =>
        /\ "swap" \in s.fails
        /\ Lost(t) \/ \E u \in LocalUnits(n) \ busy :
                         t.units[u].group \in m.swapFired /\ d[u] \notin NewData

\* Between two phases of a tick of node n.
Midway(n, m, s, t, d, f) ==
    /\ PrepErrSeen(n, m, {}, t, d) /\ SwapErrSeen(n, m, {}, s, t, d)
    /\ m.completed => Settled(t, d, f)
    /\ Behind(m.clone, s, t) /\ Aware(m, t)

\* The memory of node n.
Careful(n, m, s, t, d, f) ==
    /\ PrepErrSeen(n, m, IF m.pc = "prep" THEN m.todo ELSE {}, t, d)
    /\ SwapErrSeen(n, m, IF m.pc = "swap" THEN m.todo ELSE {}, s, t, d)
    /\ m.completed /\ m.pc # "completed" => Settled(t, d, f)
    /\ m.pc # "idle" => Behind(m.clone, s, t) /\ Aware(m, t)
    /\ m.pc = "prep" => m.clone.barrier /\ m.todo \subseteq LocalUnits(n)
    /\ m.pc = "swap" => /\ Lost(t) \/ ~m.prepErr
                        /\ \A u \in m.todo : u \in LocalUnits(n) /\ t.units[u].group \in m.swapFired
    /\ m.pc = "swapAck" => m.eff # "STARTED"
    /\ m.pc = "completed" => ReadyToComplete(m)
    /\ m.pc = "finalize" => m.completed
    /\ m.pc = "fail" => ~Smooth(s)

CutoverInv ==
    /\ Outcome(setup, task, disk, flipped)
    /\ \A cmd \in inflight : Timely(cmd, setup, task, disk, flipped)
    /\ \A n \in Nodes : Careful(n, mem[n], setup, task, disk, flipped)

-----------------------------------------------------------------------------
(* How record, disk and schema move.                                       *)

Moves(s, t, r) ==
    /\ Grows(t, r)
    /\ Lost(t) => Lost(r)
    /\ t.status = "FINISHED" => r.status = "FINISHED"
    /\ t.status # "STARTED" => r.status # "STARTED"
    /\ Smooth(s) /\ t.status \in {"SWAPPING", "FINISHED"} => r.status \in {"SWAPPING", "FINISHED"}

\* What is short of a phase on the units of node n stays short of it.
StaysShort(n, d, e) ==
    \A u \in LocalUnits(n) : /\ d[u] \notin Merged => e[u] \notin Merged
                             /\ d[u] \notin NewData => e[u] \notin NewData

\* Nothing moves.
LEMMA MovesRefl ==
    ASSUME NEW s, NEW t \in TaskOn(UnitIds)
    PROVE  Moves(s, t, t)
BY GrowsRefl DEF Moves

\* A copy stays behind.
LEMMA BehindMoves ==
    ASSUME NEW c, NEW s, NEW t, NEW r, Moves(s, t, r), Behind(c, s, t)
    PROVE  Behind(c, s, r)
<1>1. \A k \in Nodes : t.postAcks[k] # "none" => r.postAcks[k] # "none"
  BY Zenon DEF Moves, Grows, Stands
<1>2. Over(t) => Over(r)
  BY Zenon DEF Moves, Grows
<1> QED
  BY <1>1, <1>2, Zenon DEF Behind, Moves

\* A command stays timely.
LEMMA TimelyMoves ==
    ASSUME NEW cmd, NEW s, NEW t, NEW r, NEW d, NEW e, NEW f, NEW g, Moves(s, t, r),
           Swapped(d) => Swapped(e), f => g, Timely(cmd, s, t, d, f)
    PROVE  Timely(cmd, s, r, e, g)
<1>1. Settled(t, d, f) => Settled(r, e, g)
  BY Zenon DEF Settled, Moves
<1>2. t.status # "STARTED" => r.status # "STARTED"
  BY Zenon DEF Moves
<1> QED
  BY <1>1, <1>2, Zenon DEF Timely

\* The memory of a node stays careful.
LEMMA CarefulMoves ==
    ASSUME NEW n, NEW m \in Memory, NEW s, NEW t, NEW r, NEW d, NEW e, NEW f, NEW g,
           Moves(s, t, r), Swapped(d) => Swapped(e), f => g, StaysShort(n, d, e),
           Careful(n, m, s, t, d, f)
    PROVE  Careful(n, m, s, r, e, g)
<1>1. /\ \A u \in UnitIds : r.units[u].group = t.units[u].group
      /\ r.barrier = t.barrier /\ (Lost(t) => Lost(r))
  BY Zenon DEF Moves, Grows
<1>2. LocalUnits(n) \subseteq UnitIds
  BY Zenon DEF LocalUnits
<1>3. Settled(t, d, f) => Settled(r, e, g)
  BY Zenon DEF Settled, Moves
<1>4. Behind(m.clone, s, t) => Behind(m.clone, s, r)
  BY BehindMoves, Zenon
<1>5. Aware(m, t) => Aware(m, r)
  BY <1>1, Zenon DEF Aware
<1>6. \A busy : PrepErrSeen(n, m, busy, t, d) => PrepErrSeen(n, m, busy, r, e)
  <2> SUFFICES ASSUME NEW busy, PrepErrSeen(n, m, busy, t, d), m.prepErr, ~Lost(r)
               PROVE  \E u \in LocalUnits(n) \ busy :
                            r.units[u].group \in m.prepFired /\ e[u] \notin Merged
    BY <1>1, Zenon DEF PrepErrSeen
  <2>1. PICK u \in LocalUnits(n) \ busy : t.units[u].group \in m.prepFired /\ d[u] \notin Merged
    BY <1>1, Zenon DEF PrepErrSeen
  <2>2. r.units[u].group \in m.prepFired /\ e[u] \notin Merged
    BY <1>1, <1>2, <2>1, Zenon DEF StaysShort
  <2> QED
    BY <2>2, Zenon
<1>7. \A busy : SwapErrSeen(n, m, busy, s, t, d) => SwapErrSeen(n, m, busy, s, r, e)
  <2> SUFFICES ASSUME NEW busy, SwapErrSeen(n, m, busy, s, t, d), m.swapErr, ~Lost(r)
               PROVE  \E u \in LocalUnits(n) \ busy :
                            r.units[u].group \in m.swapFired /\ e[u] \notin NewData
    BY Zenon DEF SwapErrSeen
  <2>1. PICK u \in LocalUnits(n) \ busy : t.units[u].group \in m.swapFired /\ d[u] \notin NewData
    BY <1>1, Zenon DEF SwapErrSeen
  <2>2. r.units[u].group \in m.swapFired /\ e[u] \notin NewData
    BY <1>1, <1>2, <2>1, Zenon DEF StaysShort
  <2> QED
    BY <2>2, Zenon
<1>8. (\A u \in m.todo : u \in LocalUnits(n) /\ t.units[u].group \in m.swapFired) =>
          \A u \in m.todo : u \in LocalUnits(n) /\ r.units[u].group \in m.swapFired
  BY <1>1, <1>2, Zenon
<1> QED
  BY <1>1, <1>3, <1>4, <1>5, <1>6, <1>7, <1>8, Zenon DEF Careful

-----------------------------------------------------------------------------
(* The phases of a tick.                                                   *)

\* The memory that decides what a node has seen of its errors.
SameErrors(w, m) ==
    /\ w.prepErr = m.prepErr /\ w.prepFired = m.prepFired
    /\ w.swapErr = m.swapErr /\ w.swapFired = m.swapFired

\* What is seen of the errors depends on nothing else.
LEMMA ErrorsSeen ==
    ASSUME NEW n, NEW m, NEW w, NEW s, NEW t, NEW d, SameErrors(w, m)
    PROVE  /\ \A busy : PrepErrSeen(n, m, busy, t, d) => PrepErrSeen(n, w, busy, t, d)
           /\ \A busy : SwapErrSeen(n, m, busy, s, t, d) => SwapErrSeen(n, w, busy, s, t, d)
BY Zenon DEF SameErrors, PrepErrSeen, SwapErrSeen

\* The end of a tick.
LEMMA IdleCareful ==
    ASSUME NEW n, NEW m \in Memory, NEW s, NEW t, NEW d, NEW f,
           PrepErrSeen(n, m, {}, t, d), SwapErrSeen(n, m, {}, s, t, d),
           m.completed => Settled(t, d, f)
    PROVE  Careful(n, Idle(m), s, t, d, f)
<1> DEFINE w == Idle(m)
<1>1. w.pc = "idle" /\ SameErrors(w, m) /\ w.completed = m.completed
  BY Zenon DEF Idle, Memory, SameErrors
<1> HIDE DEF w
<1>2. PrepErrSeen(n, w, {}, t, d) /\ SwapErrSeen(n, w, {}, s, t, d)
  BY <1>1, ErrorsSeen
<1> QED
  BY <1>1, <1>2, Zenon DEF Careful, w

\* Finalizing, or the end.
LEMMA EnterFinalizeCareful ==
    ASSUME NEW n, NEW m \in Memory, NEW s, NEW t, NEW d, NEW f, Midway(n, m, s, t, d, f)
    PROVE  Careful(n, EnterFinalize(m), s, t, d, f)
<1> DEFINE w == [m EXCEPT !.pc = "finalize"]
<1>1. Careful(n, Idle(m), s, t, d, f)
  BY IdleCareful DEF Midway
<1>2. /\ w.pc = "finalize" /\ SameErrors(w, m) /\ w.completed = m.completed
      /\ w.clone = m.clone /\ w.eff = m.eff
  BY Zenon DEF Memory, SameErrors
<1>3. EnterFinalize(m) = (IF m.clone.status = "SWAPPING" /\ m.completed THEN w ELSE Idle(m))
  BY Zenon DEF EnterFinalize
<1> HIDE DEF w
<1>4. PrepErrSeen(n, w, {}, t, d) /\ SwapErrSeen(n, w, {}, s, t, d)
  BY <1>2, ErrorsSeen DEF Midway
<1>5. m.completed => Careful(n, w, s, t, d, f)
  BY <1>2, <1>4, Zenon DEF Careful, Midway, Aware
<1> QED
  BY <1>1, <1>3, <1>5, Zenon

\* OnTaskCompleted, or what comes after it.
LEMMA EnterCompletedCareful ==
    ASSUME NEW n, NEW m \in Memory, NEW s, NEW t, NEW d, NEW f, Midway(n, m, s, t, d, f)
    PROVE  Careful(n, EnterCompleted(m), s, t, d, f)
<1> DEFINE w == [m EXCEPT !.pc = "completed", !.completed = TRUE, !.known = TRUE]
<1>1. /\ w.pc = "completed" /\ SameErrors(w, m) /\ w.clone = m.clone /\ w.eff = m.eff
  BY Zenon DEF Memory, SameErrors
<1>2. EnterCompleted(m) = (IF ReadyToComplete(m) /\ ~m.completed THEN w ELSE EnterFinalize(m))
  BY Zenon DEF EnterCompleted
<1> HIDE DEF w
<1>3. PrepErrSeen(n, w, {}, t, d) /\ SwapErrSeen(n, w, {}, s, t, d)
  BY <1>1, ErrorsSeen DEF Midway
<1>4. ReadyToComplete(m) => ReadyToComplete(w)
  BY <1>1, Zenon DEF ReadyToComplete
<1>5. ReadyToComplete(m) => Careful(n, w, s, t, d, f)
  BY <1>1, <1>3, <1>4, Zenon DEF Careful, Midway, Aware
<1> QED
  BY <1>2, <1>5, EnterFinalizeCareful, Zenon

\* The swap ack, of a task past STARTED.
LEMMA SwapSettledCareful ==
    ASSUME NEW n, NEW m \in Memory, NEW s, NEW t, NEW d, NEW f, Midway(n, m, s, t, d, f)
    PROVE  Careful(n, SwapSettled(m, n), s, t, d, f)
<1> DEFINE w == [m EXCEPT !.pc = "swapAck"]
           sends == ~m.swapAcked /\ m.eff # "STARTED" /\ OwnGroups(m.clone, n) \subseteq m.swapFired
<1>1. /\ w.pc = "swapAck" /\ SameErrors(w, m) /\ w.completed = m.completed
      /\ w.clone = m.clone /\ w.eff = m.eff
  BY Zenon DEF Memory, SameErrors
<1>2. SwapSettled(m, n) = (IF sends THEN w ELSE EnterCompleted(m))
  BY Zenon DEF SwapSettled
<1>3. sends => m.eff # "STARTED"
  OBVIOUS
<1> HIDE DEF w, sends
<1>4. PrepErrSeen(n, w, {}, t, d) /\ SwapErrSeen(n, w, {}, s, t, d)
  BY <1>1, ErrorsSeen DEF Midway
<1>5. sends => Careful(n, w, s, t, d, f)
  BY <1>1, <1>3, <1>4, Zenon DEF Careful, Midway, Aware
<1> QED
  BY <1>2, <1>5, EnterCompletedCareful, Zenon

\* The units a node finds in its groups are placed on it.
LEMMA UnitsOfLocal ==
    ASSUME NEW c, NEW t, Listed(c, t), NEW n \in Nodes, NEW gs, NEW u \in UnitsOf(c, gs, n)
    PROVE  u \in LocalUnits(n) /\ t.units[u].group \in gs
<1>1. PICK g \in gs : u \in LocalGroupUnitIDs(c, g, n)
  BY Zenon DEF UnitsOf
<1>2. u \in UnitIds /\ c.units[u].group = g /\ c.units[u].node = n
  BY <1>1 DEF LocalGroupUnitIDs, Listed, TaskOn
<1>3. n # NoNode
  BY NoNodeAssumption
<1>4. UnitToNode[u] = n /\ t.units[u].group = g
  BY <1>2, <1>3, Zenon DEF Listed
<1> QED
  BY <1>1, <1>2, <1>4, Zenon DEF LocalUnits

\* The owner of a unit that is not prepared has not acknowledged the barrier, so
\* the task is not past it.
LEMMA BarrierHeld ==
    ASSUME NEW s, NEW t, NEW d, NEW f, World(s, t, d), Outcome(s, t, d, f), ~Lost(t),
           t.barrier, NEW u \in UnitIds, d[u] \notin Merged
    PROVE  /\ t.status \notin {"SWAPPING", "FINISHED"}
           /\ t.prepAcks[UnitToNode[u]] = "none"
           /\ UnitTerminal(t.units[u]) => ~allExpectedPreparationAcksLanded(t)
<1>1. /\ Record(s, t) /\ t \in TaskOn(UnitIds) /\ TaskInv(t) /\ UnitToNode[u] \in Nodes
      /\ t.prepAcks[UnitToNode[u]] # "ok" /\ DOMAIN t.units = UnitIds
  BY UnitsAssumption, Zenon DEF World, Record, TaskOn
<1>2. t.prepAcks[UnitToNode[u]] \in AckStatus
  BY <1>1, Zenon DEF TaskOn
<1>3. t.prepAcks[UnitToNode[u]] = "none"
  BY <1>1, <1>2, Zenon DEF AckStatus, Outcome
<1>4. t.units[u].status # "FAILED"
  BY <1>1, Zenon DEF TaskInv, AnyUnitFailed, Lost
<1>5. UnitTerminal(t.units[u]) => t.units[u].node = UnitToNode[u] /\ UnitToNode[u] # NoNode
  BY <1>1, <1>4, NoNodeAssumption, Zenon DEF UnitTerminal, TaskInv, Record
<1>6. UnitTerminal(t.units[u]) => UnitToNode[u] \in NodesWithLocalUnits(t)
  BY <1>1, <1>5 DEF NodesWithLocalUnits
<1>7. UnitTerminal(t.units[u]) => ~allExpectedPreparationAcksLanded(t)
  BY <1>1, <1>6, Zenon DEF allExpectedPreparationAcksLanded
<1>8. ASSUME t.status \in {"SWAPPING", "FINISHED"} PROVE FALSE
  <2>1. t.units[u].status = "COMPLETED"
    BY <1>1, <1>8, Zenon DEF TaskInv
  <2>2. t.prepAcks[t.units[u].node] = "ok" /\ t.units[u].node = UnitToNode[u]
    BY <1>1, <1>5, <1>8, <2>1, Zenon DEF TaskInv, UnitTerminal
  <2> QED
    BY <1>1, <2>2, Zenon
<1> QED
  BY <1>3, <1>7, <1>8, Zenon

\* After a failed preparation of a task that goes on, no swap is due.
LEMMA PrepErrStops ==
    ASSUME NEW n, NEW m, NEW s, NEW t, NEW d, NEW f, World(s, t, d), Outcome(s, t, d, f),
           Listed(m.clone, t), Midway(n, m, s, t, d, f), m.prepErr, ~Lost(t)
    PROVE  m.eff \notin {"SWAPPING", "FAILED", "FINISHED"} /\ m.clone.barrier
<1>1. /\ t.barrier /\ m.clone.barrier
      /\ \E u \in LocalUnits(n) : d[u] \notin Merged
  BY Zenon DEF Midway, PrepErrSeen, Listed
<1>2. PICK u \in LocalUnits(n) : d[u] \notin Merged
  BY <1>1, Zenon
<1>3. u \in UnitIds
  BY Zenon DEF LocalUnits
<1>4. m.eff = m.clone.status
  BY Zenon DEF Midway, Aware
<1>5. m.eff # "FAILED"
  BY <1>4, Zenon DEF Midway, Behind, Lost
<1>6. t.status \notin {"SWAPPING", "FINISHED"}
  BY <1>1, <1>2, <1>3, BarrierHeld
<1>7. m.eff # "FINISHED"
  BY <1>4, <1>6, Zenon DEF Midway, Behind
<1>8. ASSUME m.eff = "SWAPPING" PROVE FALSE
  <2>1. allExpectedPreparationAcksLanded(t)
    BY <1>1, <1>4, <1>8, Zenon DEF Listed
  <2>2. UnitTerminal(t.units[u])
    BY <1>3, <1>4, <1>8, Zenon DEF Listed, UnitTerminal
  <2> QED
    BY <1>1, <1>2, <1>3, <2>1, <2>2, BarrierHeld
<1> QED
  BY <1>1, <1>5, <1>7, <1>8, Zenon

\* The swap phase.
LEMMA EnterSwapCareful ==
    ASSUME NEW n \in Nodes, NEW m \in Memory, NEW s, NEW t, NEW d, NEW f,
           World(s, t, d), Outcome(s, t, d, f), Listed(m.clone, t), Midway(n, m, s, t, d, f)
    PROVE  Careful(n, EnterSwap(m, n), s, t, d, f)
<1> DEFINE due  == {g \in OwnGroups(m.clone, n) \ m.swapFired : SwapDue(m, g)}
           work == SwapWork(m, due, n)
           w == [m EXCEPT !.swapFired = m.swapFired \cup due, !.todo = work, !.pc = "swap",
                          !.known = m.known \/ due # {}]
<1>1. due \subseteq Groups /\ work \subseteq UnitIds
  <2>1. DOMAIN m.clone.units = UnitIds /\ \A u \in UnitIds : m.clone.units[u].group \in Groups
    BY DEF Listed, TaskOn, Unit
  <2> QED
    BY <2>1, Zenon DEF OwnGroups, TaskGroups, SwapWork, UnitsOf, LocalGroupUnitIDs
<1>2. \A u \in work : u \in LocalUnits(n) /\ t.units[u].group \in due
  BY UnitsOfLocal, Zenon DEF SwapWork
<1>3. \A g \in due : g \notin m.swapFired /\ SwapDue(m, g)
  BY Zenon
<1>4. EnterSwap(m, n) = IF work = {} THEN SwapSettled(w, n) ELSE w
  BY ZenonT(30) DEF EnterSwap
<1>5. work # {} => due # {}
  BY <1>2, Zenon
<1> HIDE DEF due, work
<1>6. /\ w \in Memory /\ w.pc = "swap" /\ w.todo = work /\ w.swapFired = m.swapFired \cup due
      /\ w.prepErr = m.prepErr /\ w.prepFired = m.prepFired /\ w.swapErr = m.swapErr
      /\ w.clone = m.clone /\ w.eff = m.eff /\ w.completed = m.completed
  BY <1>1, ZenonT(30) DEF Memory, Steps
<1> HIDE DEF w
<1>7. PrepErrSeen(n, w, {}, t, d)
  BY <1>6, Zenon DEF Midway, PrepErrSeen
<1>8. SwapErrSeen(n, w, work, s, t, d) /\ SwapErrSeen(n, w, {}, s, t, d)
  <2> SUFFICES ASSUME m.swapErr, ~Lost(t)
               PROVE  \E u \in LocalUnits(n) \ work :
                         t.units[u].group \in w.swapFired /\ d[u] \notin NewData
    BY <1>6, Zenon DEF Midway, SwapErrSeen
  <2>1. PICK u \in LocalUnits(n) : t.units[u].group \in m.swapFired /\ d[u] \notin NewData
    BY Zenon DEF Midway, SwapErrSeen
  <2>2. u \notin work
    BY <1>2, <1>3, <2>1, Zenon
  <2> QED
    BY <1>6, <2>1, <2>2, Zenon
<1>9. work # {} => Lost(t) \/ ~m.prepErr
  <2> SUFFICES ASSUME work # {}, ~Lost(t), m.prepErr PROVE FALSE
    BY Zenon
  <2>1. PICK g \in due : SwapDue(m, g)
    BY <1>3, <1>5, Zenon
  <2>2. m.eff \notin {"SWAPPING", "FAILED", "FINISHED"} /\ m.clone.barrier
    BY PrepErrStops, Zenon
  <2> QED
    BY <2>1, <2>2, Zenon DEF SwapDue
<1>10. ASSUME work = {} PROVE Careful(n, SwapSettled(w, n), s, t, d, f)
  <2>1. Midway(n, w, s, t, d, f)
    BY <1>6, <1>7, <1>8, Zenon DEF Midway, Aware
  <2> QED
    BY <1>6, <2>1, SwapSettledCareful, Zenon
<1>11. ASSUME work # {} PROVE Careful(n, w, s, t, d, f)
  <2>1. \A u \in w.todo : u \in LocalUnits(n) /\ t.units[u].group \in w.swapFired
    BY <1>2, <1>6, Zenon
  <2> QED
    BY <1>6, <1>7, <1>8, <1>9, <1>11, <2>1, Zenon DEF Careful, Midway, Aware
<1> QED
  BY <1>4, <1>10, <1>11, Zenon

\* The preparation ack.
LEMMA PrepSettledCareful ==
    ASSUME NEW n \in Nodes, NEW m \in Memory, NEW s, NEW t, NEW d, NEW f,
           World(s, t, d), Outcome(s, t, d, f), Listed(m.clone, t), Midway(n, m, s, t, d, f)
    PROVE  Careful(n, PrepSettled(m, n), s, t, d, f)
<1> DEFINE w == [m EXCEPT !.pc = "prepAck"]
<1>1. /\ w.pc = "prepAck" /\ SameErrors(w, m) /\ w.completed = m.completed
      /\ w.clone = m.clone /\ w.eff = m.eff
  BY Zenon DEF Memory, SameErrors
<1>2. PrepSettled(m, n) = (IF m.prepAcked THEN EnterSwap(m, n) ELSE w)
  BY Zenon DEF PrepSettled
<1> HIDE DEF w
<1>3. PrepErrSeen(n, w, {}, t, d) /\ SwapErrSeen(n, w, {}, s, t, d)
  BY <1>1, ErrorsSeen DEF Midway
<1>4. Careful(n, w, s, t, d, f)
  BY <1>1, <1>3, Zenon DEF Careful, Midway, Aware
<1> QED
  BY <1>2, <1>4, EnterSwapCareful, Zenon

\* The preparation phase.
LEMMA EnterPrepCareful ==
    ASSUME NEW n \in Nodes, NEW m \in Memory, NEW s, NEW t, NEW d, NEW f,
           World(s, t, d), Outcome(s, t, d, f), Listed(m.clone, t), Midway(n, m, s, t, d, f)
    PROVE  Careful(n, EnterPrep(m, n), s, t, d, f)
<1> DEFINE due == OwnGroups(m.clone, n) \ m.prepFired
           work == UnitsOf(m.clone, due, n)
           w == [m EXCEPT !.prepFired = m.prepFired \cup due, !.todo = work, !.pc = "prep",
                          !.known = m.known \/ due # {}]
           skips == ~(m.clone.barrier /\ m.clone.status = "PREPARING")
<1>1. due \subseteq Groups /\ work \subseteq UnitIds
  <2>1. DOMAIN m.clone.units = UnitIds /\ \A u \in UnitIds : m.clone.units[u].group \in Groups
    BY DEF Listed, TaskOn, Unit
  <2> QED
    BY <2>1, Zenon DEF OwnGroups, TaskGroups, UnitsOf, LocalGroupUnitIDs
<1>2. \A u \in work : u \in LocalUnits(n) /\ t.units[u].group \in due
  BY UnitsOfLocal, Zenon
<1>3. \A g \in due : g \notin m.prepFired
  BY Zenon
<1>4. EnterPrep(m, n) = IF skips THEN EnterSwap(m, n)
                        ELSE IF w.todo = {} THEN PrepSettled(w, n) ELSE w
  BY Zenon DEF EnterPrep
<1> HIDE DEF due, work, skips
<1>5. /\ w \in Memory /\ w.pc = "prep" /\ w.todo = work /\ w.prepFired = m.prepFired \cup due
      /\ w.prepErr = m.prepErr /\ w.swapFired = m.swapFired /\ w.swapErr = m.swapErr
      /\ w.clone = m.clone /\ w.eff = m.eff /\ w.completed = m.completed
  BY <1>1, ZenonT(30) DEF Memory, Steps
<1> HIDE DEF w
<1>6. SwapErrSeen(n, w, {}, s, t, d)
  BY <1>5, Zenon DEF Midway, SwapErrSeen
<1>7. PrepErrSeen(n, w, work, t, d) /\ PrepErrSeen(n, w, {}, t, d)
  <2> SUFFICES ASSUME m.prepErr, ~Lost(t)
               PROVE  \E u \in LocalUnits(n) \ work :
                         t.units[u].group \in w.prepFired /\ d[u] \notin Merged
    BY <1>5, Zenon DEF Midway, PrepErrSeen
  <2>1. PICK u \in LocalUnits(n) : t.units[u].group \in m.prepFired /\ d[u] \notin Merged
    BY Zenon DEF Midway, PrepErrSeen
  <2>2. u \notin work
    BY <1>2, <1>3, <2>1, Zenon
  <2> QED
    BY <1>5, <2>1, <2>2, Zenon
<1>8. ASSUME w.todo = {} PROVE Careful(n, PrepSettled(w, n), s, t, d, f)
  <2>1. Midway(n, w, s, t, d, f)
    BY <1>5, <1>6, <1>7, Zenon DEF Midway, Aware
  <2> QED
    BY <1>5, <2>1, PrepSettledCareful, Zenon
<1>9. ~skips => Careful(n, w, s, t, d, f)
  <2>1. w.todo \subseteq LocalUnits(n) /\ (~skips => w.clone.barrier)
    BY <1>2, <1>5, Zenon DEF skips
  <2> QED
    BY <1>5, <1>6, <1>7, <2>1, Zenon DEF Careful, Midway, Aware
<1> QED
  BY <1>4, <1>8, <1>9, EnterSwapCareful, Zenon

\* A tick up to its first step.
LEMMA EnterTickCareful ==
    ASSUME NEW n \in Nodes, NEW m \in Memory, NEW s, NEW t, NEW d, NEW f,
           World(s, t, d), Outcome(s, t, d, f), Listed(m.clone, t), Midway(n, m, s, t, d, f)
    PROVE  Careful(n, EnterTick(m, n), s, t, d, f)
<1>1. Careful(n, EnterPrep(m, n), s, t, d, f) /\ Careful(n, EnterCompleted(m), s, t, d, f)
  BY EnterPrepCareful, EnterCompletedCareful, Zenon
<1> QED
  BY <1>1, Zenon DEF EnterTick

\* A node that starts.
LEMMA FreshCareful ==
    ASSUME NEW n, NEW up, NEW booted, NEW s, NEW t, NEW d, NEW f
    PROVE  Careful(n, FreshMemory(up, booted), s, t, d, f)
<1> DEFINE w == FreshMemory(up, booted)
<1>1. w.pc = "idle" /\ w.prepErr = FALSE /\ w.swapErr = FALSE /\ w.completed = FALSE
  BY Zenon DEF FreshMemory
<1> HIDE DEF w
<1> QED
  BY <1>1, Zenon DEF Careful, PrepErrSeen, SwapErrSeen, w

\* The pre-mark of an ended task: there is nothing left to complete.
LEMMA BootCareful ==
    ASSUME NEW n, NEW m \in Memory, NEW s, NEW t \in TaskOn(UnitIds), NEW d, NEW f,
           Outcome(s, t, d, f), Careful(n, m, s, t, d, f), m.pc = "idle"
    PROVE  /\ Careful(n, PreMark(m, t, n), s, t, d, f)
           /\ Careful(n, Reconciled(m, t, n), s, t, d, f)
<1>0. /\ PrepErrSeen(n, m, {}, t, d) /\ SwapErrSeen(n, m, {}, s, t, d)
      /\ m.completed => Settled(t, d, f)
  BY Zenon DEF Careful
<1>1. ASSUME NEW w, w.pc = "idle", SameErrors(w, m), w.completed = m.completed
      PROVE  Careful(n, w, s, t, d, f)
  <2>1. PrepErrSeen(n, w, {}, t, d) /\ SwapErrSeen(n, w, {}, s, t, d)
    BY <1>0, <1>1, ErrorsSeen
  <2> QED
    BY <1>0, <1>1, <2>1, Zenon DEF Careful
<1>2. Careful(n, Reconciled(m, t, n), s, t, d, f)
  <2> DEFINE w == Reconciled(m, t, n)
  <2>1. w.pc = "idle" /\ SameErrors(w, m) /\ w.completed = m.completed
    BY Zenon DEF Reconciled, Memory, SameErrors
  <2> QED
    BY <1>1, <2>1, Zenon
<1>3. CASE ~PreMarkDue(t, n)
  <2> DEFINE w == [m EXCEPT !.booted = TRUE]
  <2>1. w.pc = "idle" /\ SameErrors(w, m) /\ w.completed = m.completed
    BY Zenon DEF Memory, SameErrors
  <2>2. PreMark(m, t, n) = w
    BY <1>3, Zenon DEF PreMark
  <2> QED
    BY <1>1, <1>2, <2>1, <2>2, Zenon
<1>4. CASE PreMarkDue(t, n)
  <2> DEFINE w == [m EXCEPT !.booted = TRUE, !.known = TRUE, !.completed = TRUE,
                            !.prepAcked = TRUE, !.swapAcked = TRUE,
                            !.prepFired = TaskGroups(t), !.swapFired = TaskGroups(t)]
  <2>1. /\ w.pc = "idle" /\ w.prepErr = m.prepErr /\ w.swapErr = m.swapErr
        /\ w.prepFired = TaskGroups(t) /\ w.swapFired = TaskGroups(t)
    BY Zenon DEF Memory
  <2>2. PreMark(m, t, n) = w
    BY <1>4, Zenon DEF PreMark
  <2> HIDE DEF w
  <2>3. Settled(t, d, f)
    BY <1>4, Zenon DEF PreMarkDue, IsTerminal, Outcome, Settled, Lost
  <2>4. \A u \in LocalUnits(n) : t.units[u].group \in TaskGroups(t)
    BY DEF LocalUnits, TaskGroups, TaskOn
  <2>5. PrepErrSeen(n, w, {}, t, d) /\ SwapErrSeen(n, w, {}, s, t, d)
    BY <1>0, <2>1, <2>4, Zenon DEF PrepErrSeen, SwapErrSeen
  <2>6. Careful(n, w, s, t, d, f)
    BY <2>1, <2>3, <2>5, Zenon DEF Careful
  <2> QED
    BY <1>2, <2>2, <2>6, Zenon
<1> QED
  BY <1>3, <1>4, Zenon

-----------------------------------------------------------------------------
(* The commands.                                                           *)

\* A preparation ack that applies to a task behind the barrier.
LEMMA PrepAckOutcome ==
    ASSUME NEW s, NEW t \in TaskOn(UnitIds), NEW d, NEW f, Outcome(s, t, d, f), NEW n \in Nodes,
           NEW ok \in BOOLEAN, t.status = "PREPARING", NEW r, r = PrepAcked(t, n, ok, 1)
    PROVE  /\ r.status \in {"PREPARING", "SWAPPING", "FAILED"} /\ (~ok => r.status = "FAILED")
           /\ Outcome(s, r, d, f)
<1> DEFINE p == [t EXCEPT !.prepAcks[n] = Ack(ok)]
<1>1. /\ p \in TaskOn(UnitIds) /\ p.status = "PREPARING" /\ p.postAcks = t.postAcks
      /\ p.prepAcks = [t.prepAcks EXCEPT ![n] = Ack(ok)]
  BY DEF TaskOn, Ack, AckStatus
<1>2. \/ ~ok /\ r = markTerminal(p, "FAILED", 1)
      \/ ok /\ (r = p \/ r = [p EXCEPT !.status = "SWAPPING"])
  BY Zenon DEF PrepAcked
<1> HIDE DEF p
<1>3. /\ r.prepAcks = p.prepAcks /\ r.postAcks = p.postAcks
      /\ r.status \in {"PREPARING", "SWAPPING", "FAILED"} /\ (~ok => r.status = "FAILED")
  BY <1>1, <1>2, Zenon DEF markTerminal, TaskOn
<1>4. /\ t.prepAcks \in [Nodes -> AckStatus] /\ ~Lost(t)
      /\ \A k \in Nodes : t.prepAcks[k] # "failed" /\ t.postAcks[k] # "failed"
  BY Zenon DEF TaskOn, Lost, Outcome
<1>5. \A k \in Nodes : r.prepAcks[k] = "failed" => ~ok
  BY <1>1, <1>3, <1>4 DEF Ack
<1>6. ~(f /\ Smooth(s)) /\ r.status # "FINISHED"
  BY <1>3, Zenon DEF Outcome
<1>7. \A k \in Nodes : r.prepAcks[k] = "failed" \/ r.postAcks[k] = "failed" => Lost(r)
  BY <1>1, <1>3, <1>4, <1>5, ZenonT(30) DEF Lost
<1> QED
  BY <1>3, <1>6, <1>7, Zenon DEF Outcome

\* A swap ack that applies to a task that is swapping.
LEMMA PostAckOutcome ==
    ASSUME NEW s, NEW t \in TaskOn(UnitIds), NEW d, NEW f, Outcome(s, t, d, f), NEW n \in Nodes,
           NEW ok \in BOOLEAN, Smooth(s) => ok, t.status = "SWAPPING", t.postAcks[n] = "none",
           NEW r, r = PostAcked(t, n, ok, 1)
    PROVE  /\ (ok => r.status = "SWAPPING") /\ (~ok => r.status = "FAILED")
           /\ r.postAcks[n] # "none" /\ Outcome(s, r, d, f)
<1> DEFINE p == [t EXCEPT !.postAcks[n] = Ack(ok)]
<1>1. /\ p \in TaskOn(UnitIds) /\ p.status = "SWAPPING" /\ p.prepAcks = t.prepAcks
      /\ p.postAcks = [t.postAcks EXCEPT ![n] = Ack(ok)]
  BY DEF TaskOn, Ack, AckStatus
<1>2. (ok /\ r = p) \/ (~ok /\ r = markTerminal(p, "FAILED", 1))
  BY Zenon DEF PostAcked
<1> HIDE DEF p
<1>3. /\ r.prepAcks = p.prepAcks /\ r.postAcks = p.postAcks
      /\ (ok => r.status = "SWAPPING") /\ (~ok => r.status = "FAILED")
  BY <1>1, <1>2, Zenon DEF markTerminal, TaskOn
<1>4. /\ t.postAcks \in [Nodes -> AckStatus] /\ ~Lost(t)
      /\ \A k \in Nodes : t.prepAcks[k] # "failed" /\ t.postAcks[k] # "failed"
  BY Zenon DEF TaskOn, Lost, Outcome
<1>5. /\ \A k \in Nodes : r.postAcks[k] = "failed" => ~ok
      /\ \A k \in Nodes : t.postAcks[k] = "ok" => r.postAcks[k] = "ok"
      /\ r.postAcks[n] # "none"
  BY <1>1, <1>3, <1>4 DEF Ack
<1>6. f /\ Smooth(s) => /\ r.status \in {"SWAPPING", "FINISHED"}
                        /\ \A u \in UnitIds : r.postAcks[UnitToNode[u]] = "ok"
  BY <1>3, <1>5, UnitsAssumption, Zenon DEF Outcome
<1>7. \A k \in Nodes : r.prepAcks[k] = "failed" \/ r.postAcks[k] = "failed" => Lost(r)
  <2>1. ~ok => Lost(r)
    BY <1>3, Zenon DEF Lost
  <2>2. \A k \in Nodes : r.prepAcks[k] # "failed"
    BY <1>1, <1>3, <1>4, ZenonT(30)
  <2> QED
    BY <1>5, <2>1, <2>2, Zenon
<1>8. r.status # "FINISHED"
  BY <1>3, Zenon
<1> QED
  BY <1>3, <1>5, <1>6, <1>7, <1>8, Zenon DEF Outcome

\* The end of an active task: a success only of what is settled.
LEMMA EndOutcome ==
    ASSUME NEW s, NEW t, NEW d, NEW f, World(s, t, d), Outcome(s, t, d, f),
           IsActive(t.status), NEW st \in TaskStatus,
           \/ st = "FINISHED" /\ t.status = "SWAPPING" /\ Settled(t, d, f)
           \/ st \in {"FAILED", "CANCELLED"} /\ (Smooth(s) => t.status # "SWAPPING")
    PROVE  Moves(s, t, markTerminal(t, st, 1)) /\ Outcome(s, markTerminal(t, st, 1), d, f)
<1> DEFINE r == markTerminal(t, st, 1)
<1>1. t \in TaskOn(UnitIds) /\ ~Lost(t) /\ t.status # "FINISHED"
  BY Zenon DEF World, Record, IsActive, IsTerminal, Lost
<1>2. r.status = st /\ r.prepAcks = t.prepAcks /\ r.postAcks = t.postAcks
  BY <1>1, Zenon DEF markTerminal, TaskOn
<1>3. Grows(t, r)
  BY EndGrows, Zenon
<1> HIDE DEF r
<1>4. Moves(s, t, r)
  BY <1>1, <1>2, <1>3, Zenon DEF Moves
<1>5. Outcome(s, r, d, f)
  BY <1>1, <1>2, ZenonT(30) DEF Outcome, Settled, Lost
<1> QED
  BY <1>4, <1>5, Zenon DEF r

\* A timely command that is not refused.
LEMMA AppliedTimely ==
    ASSUME NEW s, NEW t, NEW d, NEW f, World(s, t, d), Outcome(s, t, d, f),
           NEW cmd, Sound(cmd, t, d), Timely(cmd, s, t, d, f), ~Refused(cmd, t)
    PROVE  Moves(s, t, Applied(cmd, t)) /\ Outcome(s, Applied(cmd, t), d, f)
<1> DEFINE r == Applied(cmd, t)
<1>0. Grows(t, r)
  BY AppliedGood
<1>1. t \in TaskOn(UnitIds) /\ Record(s, t) /\ cmd \in Command /\ Grows(t, r)
  BY <1>0, Zenon DEF World, Record, Sound
<1>2. CASE cmd.type = "prepAck" /\ PrepAckApplies(t, cmd.node)
  <2>1. /\ cmd.node \in Nodes /\ cmd.ok \in BOOLEAN
        /\ r = PrepAcked(t, cmd.node, cmd.ok, 1)
    BY <1>1, <1>2, ZenonT(30) DEF Command, Applied
  <2>2. t.status = "PREPARING"
    BY <1>2, Zenon DEF PrepAckApplies, Timely
  <2> HIDE DEF r
  <2>3. r.status \in {"PREPARING", "SWAPPING", "FAILED"} /\ Outcome(s, r, d, f)
    BY <1>1, <2>1, <2>2, PrepAckOutcome, ZenonT(30)
  <2>4. Moves(s, t, r)
    BY <1>1, <2>2, <2>3, Zenon DEF Moves, Lost
  <2> QED
    BY <2>3, <2>4, Zenon DEF r
<1>3. CASE cmd.type = "postAck" /\ PostAckApplies(t, cmd.node)
  <2>1. /\ cmd.node \in Nodes /\ cmd.ok \in BOOLEAN
        /\ r = PostAcked(t, cmd.node, cmd.ok, 1)
    BY <1>1, <1>3, ZenonT(30) DEF Command, Applied
  <2>2. t.status = "SWAPPING" /\ t.postAcks[cmd.node] = "none" /\ (Smooth(s) => cmd.ok)
    BY <1>3, Zenon DEF PostAckApplies, Timely
  <2> HIDE DEF r
  <2>3. /\ (cmd.ok => r.status = "SWAPPING") /\ (~cmd.ok => r.status = "FAILED")
        /\ Outcome(s, r, d, f)
    BY <1>1, <2>1, <2>2, PostAckOutcome
  <2>4. Moves(s, t, r)
    BY <1>1, <2>2, <2>3, Zenon DEF Moves, Lost
  <2> QED
    BY <2>3, <2>4, Zenon DEF r
<1>4. CASE cmd.type \in {"finalize", "fail"} /\ t.status = "SWAPPING"
  <2>1. /\ cmd.type = "finalize" => r = markTerminal(t, "FINISHED", 1)
        /\ cmd.type = "fail" => r = markTerminal(t, "FAILED", 1)
    BY <1>4, Zenon DEF Applied
  <2>2. IsActive(t.status)
    BY <1>4, Zenon DEF IsActive, IsTerminal
  <2> HIDE DEF r
  <2>3. CASE cmd.type = "finalize"
    <3>1. Settled(t, d, f)
      BY <2>3, Zenon DEF Timely
    <3> QED
      BY <1>4, <2>1, <2>2, <2>3, <3>1, EndOutcome, Zenon DEF TaskStatus, r
  <2>4. CASE cmd.type = "fail"
    <3>1. ~Smooth(s)
      BY <2>4, Zenon DEF Timely
    <3> QED
      BY <1>4, <2>1, <2>2, <2>4, <3>1, EndOutcome, Zenon DEF TaskStatus, r
  <2> QED
    BY <1>4, <2>3, <2>4, Zenon
<1>5. CASE cmd.type \in {"claim", "done", "failed"}
  <2> DEFINE u == cmd.unit
             n == cmd.node
  <2>1. u \in UnitIds /\ n \in Nodes /\ UnitToNode[u] = n
    BY <1>1, <1>5 DEF Command, Sound
  <2>2. findStartedUnit(t, u, n) /\ ~UnitTerminal(t.units[u])
    BY <1>5 DEF Refused
  <2>3. r \in {UnitProgressed(t, u, n, 0), UnitCompleted(t, u, n, 1), UnitFailed(t, u, n, 1)}
    BY <1>5, ZenonT(30) DEF Applied
  <2>4. 0 \in 0..MaxProgress /\ 1 \in Nat \ {0}
    BY MaxProgressAssumption, SMTT(30), Z3T(30)
  <2> HIDE DEF r, u, n
  <2>5. r.prepAcks = t.prepAcks /\ r.postAcks = t.postAcks
    BY <1>1, <2>1, <2>2, <2>3, UnitCommandGrows, SMTT(30), Z3T(30)
  <2>6. Transition(t, r)
    BY <1>1, <2>1, <2>2, <2>3, <2>4, UnitReportEvolves, SMTT(30), Z3T(30) DEF Evolves
  <2>7. t.status = "STARTED"
    BY <2>2, Zenon DEF findStartedUnit
  <2>8. ~Lost(t) /\ r.status # "FINISHED"
    BY <2>6, <2>7, Zenon DEF Transition, Lost
  <2>9. Moves(s, t, r)
    BY <1>1, <2>7, <2>8, Zenon DEF Moves
  <2>10. Outcome(s, r, d, f)
    BY <2>5, <2>7, <2>8, Zenon DEF Outcome
  <2> QED
    BY <2>9, <2>10, Zenon DEF r
<1>6. CASE r = t
  BY <1>1, <1>6, MovesRefl, Zenon
<1>7. cmd.type \in {"prepAck", "postAck", "finalize", "fail", "claim", "done", "failed"}
  BY <1>1 DEF Command
<1> QED
  BY <1>2, <1>3, <1>4, <1>5, <1>6, <1>7, SMTT(30), Z3T(30) DEF Applied

-----------------------------------------------------------------------------
(* The kinds of steps.                                                     *)

\* Units on new data stay there.
LEMMA SwappedGrows ==
    ASSUME NEW d, NEW e, NEW t, DiskGrows(d, e, t), Swapped(d)
    PROVE  Swapped(e)
BY Zenon DEF DiskGrows, Swapped

\* The outcome stays as it is when only a disk grows.
LEMMA OutcomeGrows ==
    ASSUME NEW s, NEW t, NEW d, NEW e, NEW f, DiskGrows(d, e, t), Outcome(s, t, d, f)
    PROVE  Outcome(s, t, e, f)
BY SwappedGrows, Zenon DEF Outcome

\* A step that changes the record only.
LEMMA RecordCutover ==
    ASSUME SchedulerInv, CutoverInv, Moves(setup, task, task'),
           Outcome(setup, task', disk, flipped), inflight' \subseteq inflight,
           UNCHANGED <<setup, flipped, disk, mem>>
    PROVE  CutoverInv'
<1>1. \A cmd \in inflight' : Timely(cmd, setup, task', disk, flipped)
  BY TimelyMoves DEF CutoverInv
<1>2. ASSUME NEW n \in Nodes PROVE Careful(n, mem[n], setup, task', disk, flipped)
  <2>1. Careful(n, mem[n], setup, task, disk, flipped) /\ mem[n] \in Memory
    BY Zenon DEF CutoverInv, SchedulerInv, Good
  <2>2. StaysShort(n, disk, disk)
    BY Zenon DEF StaysShort
  <2> QED
    BY <2>1, <2>2, CarefulMoves
<1> QED
  BY <1>1, <1>2 DEF CutoverInv

\* A step of one node.
LEMMA NodeCutover ==
    ASSUME SchedulerInv, CutoverInv, NEW n \in Nodes, NEW w, mem' = [mem EXCEPT ![n] = w],
           setup' = setup, Moves(setup, task, task'), DiskGrows(disk, disk', task),
           \A u \in UnitIds : UnitToNode[u] # n => disk'[u] = disk[u],
           flipped => flipped', Outcome(setup, task', disk', flipped'),
           \A cmd \in inflight' : cmd \in inflight \/ Timely(cmd, setup, task', disk', flipped'),
           Careful(n, w, setup, task', disk', flipped')
    PROVE  CutoverInv'
<1>1. Swapped(disk) => Swapped(disk')
  BY SwappedGrows, Zenon
<1>2. \A cmd \in inflight' : Timely(cmd, setup, task', disk', flipped')
  BY <1>1, TimelyMoves DEF CutoverInv
<1>3. ASSUME NEW k \in Nodes PROVE Careful(k, mem'[k], setup, task', disk', flipped')
  <2>1. mem \in [Nodes -> Memory] /\ Careful(k, mem[k], setup, task, disk, flipped)
    BY Zenon DEF CutoverInv, SchedulerInv, TypeOK
  <2>2. CASE k = n
    BY <2>1, <2>2, Zenon
  <2>3. CASE k # n
    <3>1. mem'[k] = mem[k] /\ mem[k] \in Memory
      BY <2>1, <2>3, Zenon
    <3>2. StaysShort(k, disk, disk')
      BY <2>3, Zenon DEF StaysShort, LocalUnits
    <3>3. Careful(k, mem[k], setup, task', disk', flipped')
      BY <1>1, <2>1, <3>1, <3>2, CarefulMoves, SMTT(30), Z3T(30)
    <3> QED
      BY <3>1, <3>3, Zenon
  <2> QED
    BY <2>2, <2>3, Zenon
<1> QED
  BY <1>2, <1>3 DEF CutoverInv

\* A step of one node that writes through Raft.
LEMMA CallCutover ==
    ASSUME SchedulerInv, CutoverInv, NEW n \in Nodes, NEW cmd, NEW onOk, NEW onErr,
           Call(n, cmd, onOk, onErr), UNCHANGED <<setup, flipped>>,
           DiskGrows(disk, disk', task), StaysShort(n, disk, disk'),
           \A u \in UnitIds : UnitToNode[u] # n => disk'[u] = disk[u],
           World(setup, task, disk'), Sound(cmd, task, disk'),
           Timely(cmd, setup, task, disk', flipped),
           Careful(n, onErr, setup, task, disk', flipped),
           \A r : /\ ~Refused(cmd, task) /\ r = Applied(cmd, task) /\ Moves(setup, task, r)
                  /\ World(setup, r, disk') /\ Outcome(setup, r, disk', flipped)
                  /\ Careful(n, mem[n], setup, r, disk', flipped)
                  => Careful(n, onOk, setup, r, disk', flipped)
    PROVE  CutoverInv'
<1>1. /\ task \in TaskOn(UnitIds) /\ mem[n] \in Memory
      /\ Careful(n, mem[n], setup, task, disk, flipped)
      /\ Outcome(setup, task, disk, flipped)
  BY ZenonT(30) DEF SchedulerInv, TypeOK, Good, CutoverInv
<1>2. Outcome(setup, task, disk', flipped) /\ Moves(setup, task, task)
  BY <1>1, OutcomeGrows, MovesRefl, SMTT(30), Z3T(30)
<1>3. CASE /\ ~Refused(cmd, task) /\ task' = Applied(cmd, task)
           /\ mem' = [mem EXCEPT ![n] = onOk] /\ inflight' = inflight
  <2>1. World(setup, task', disk')
    BY <1>3, AppliedGood
  <2>2. Moves(setup, task, task') /\ Outcome(setup, task', disk', flipped)
    BY <1>2, <1>3, AppliedTimely
  <2>3. Swapped(disk) => Swapped(disk')
    BY SwappedGrows, ZenonT(30)
  <2>4. Careful(n, mem[n], setup, task', disk', flipped)
    BY <1>1, <2>2, <2>3, CarefulMoves, SMTT(30), Z3T(30)
  <2>5. Careful(n, onOk, setup, task', disk', flipped)
    BY <1>3, <2>1, <2>2, <2>4, ZenonT(30)
  <2> QED
    BY <1>3, <2>2, <2>5, NodeCutover, Zenon
<1>4. CASE /\ task' = task /\ mem' = [mem EXCEPT ![n] = onErr]
           /\ inflight' \in {inflight, inflight \cup {cmd}}
  BY <1>2, <1>4, NodeCutover, Zenon
<1> QED
  BY <1>3, <1>4, Zenon DEF Call

-----------------------------------------------------------------------------
(* One lemma per action.                                                   *)

\* After the last callback of a phase.
LEMMA CarefulMidway ==
    ASSUME NEW n, NEW m, NEW s, NEW t, NEW d, NEW f, Careful(n, m, s, t, d, f),
           m.pc \notin {"idle", "prep", "swap", "completed"}
    PROVE  Midway(n, m, s, t, d, f)
BY Zenon DEF Careful, Midway

\* What both invariants say of node n.
LEMMA NodeFacts ==
    ASSUME SchedulerInv, CutoverInv, NEW n \in Nodes
    PROVE  /\ task \in TaskOn(UnitIds) /\ World(setup, task, disk) /\ Record(setup, task)
           /\ mem[n] \in Memory /\ Good(n, mem[n], setup, task, disk)
           /\ Careful(n, mem[n], setup, task, disk, flipped)
           /\ Outcome(setup, task, disk, flipped) /\ DiskGrows(disk, disk, task)
           /\ StaysShort(n, disk, disk) /\ Moves(setup, task, task)
<1>1. task \in TaskOn(UnitIds)
  BY Zenon DEF SchedulerInv, TypeOK
<1>2. DiskGrows(disk, disk, task) /\ Moves(setup, task, task)
  BY <1>1, GrowsRefl, MovesRefl
<1> QED
  BY <1>1, <1>2, Zenon DEF SchedulerInv, Good, World, CutoverInv, StaysShort

\* A failed preparation that is acknowledged loses the task.
LEMMA PrepErrLoses ==
    ASSUME NEW s, NEW t, NEW d, NEW f, World(s, t, d), Outcome(s, t, d, f), NEW n \in Nodes,
           NEW m, PrepErrSeen(n, m, {}, t, d), m.prepErr, t.status # "STARTED",
           NEW cmd, cmd = [type |-> "prepAck", node |-> n, ok |-> FALSE],
           Moves(s, t, Applied(cmd, t))
    PROVE  Lost(Applied(cmd, t))
<1>1. CASE Lost(t)
  BY <1>1, Zenon DEF Moves
<1>2. CASE ~Lost(t)
  <2>1. PICK u \in LocalUnits(n) : d[u] \notin Merged
    BY <1>2, Zenon DEF PrepErrSeen
  <2>2. u \in UnitIds /\ UnitToNode[u] = n /\ t.barrier
    BY Zenon DEF LocalUnits, PrepErrSeen
  <2>3. t.status \notin {"SWAPPING", "FINISHED"} /\ t.prepAcks[n] = "none"
    BY <1>2, <2>1, <2>2, BarrierHeld, SMTT(30), Z3T(30)
  <2>4. t \in TaskOn(UnitIds) /\ t.status \in TaskStatus
    BY Zenon DEF World, Record, TaskOn
  <2>5. t.status = "PREPARING"
    BY <1>2, <2>3, <2>4, Zenon DEF TaskStatus, Lost
  <2>6. Applied(cmd, t) = PrepAcked(t, n, FALSE, 1)
    BY <2>3, <2>5, Zenon DEF Applied, PrepAckApplies
  <2>7. Applied(cmd, t).status = "FAILED"
    BY <2>4, <2>5, <2>6, PrepAckOutcome, Zenon
  <2> QED
    BY <2>7, Zenon DEF Lost
<1> QED
  BY <1>1, <1>2, Zenon

\* So does a failed swap.
LEMMA SwapErrLoses ==
    ASSUME NEW s, NEW t, NEW d, NEW f, World(s, t, d), Outcome(s, t, d, f), NEW n \in Nodes,
           NEW m, SwapErrSeen(n, m, {}, s, t, d), m.swapErr, t.status # "STARTED",
           NEW ok \in BOOLEAN, ~ok, NEW cmd, cmd = [type |-> "postAck", node |-> n, ok |-> ok],
           ~Refused(cmd, t), Moves(s, t, Applied(cmd, t))
    PROVE  Lost(Applied(cmd, t))
<1>1. CASE Lost(t)
  BY <1>1, Zenon DEF Moves
<1>2. CASE ~Lost(t)
  <2>1. PICK u \in LocalUnits(n) : d[u] \notin NewData
    BY <1>2, Zenon DEF SwapErrSeen
  <2>2. u \in UnitIds /\ UnitToNode[u] = n /\ ~Smooth(s)
    BY Zenon DEF LocalUnits, SwapErrSeen, Smooth
  <2>3. t.status # "FINISHED" /\ t.postAcks[n] \notin {"ok", "failed"}
    BY <1>2, <2>1, <2>2, Zenon DEF Outcome, Swapped, World
  <2>4. t \in TaskOn(UnitIds) /\ t.status \in TaskStatus /\ t.postAcks[n] \in AckStatus
    BY Zenon DEF World, Record, TaskOn
  <2>5. t.status # "PREPARING"
    <3>1. cmd.type = "postAck"
      OBVIOUS
    <3>2. Refused(cmd, t) = PostAckRefused(t)
      BY <3>1 DEF Refused
    <3> QED
      BY <3>2, Zenon DEF PostAckRefused
  <2>6. t.status = "SWAPPING" /\ t.postAcks[n] = "none"
    BY <1>2, <2>3, <2>4, <2>5, Zenon DEF TaskStatus, AckStatus, Lost
  <2>7. Applied(cmd, t) = PostAcked(t, n, ok, 1)
    BY <2>6, SMTT(30), Z3T(30) DEF Applied, PostAckApplies
  <2>8. Applied(cmd, t).status = "FAILED"
    <3>1. Smooth(s) => ok
      BY <2>2, Zenon
    <3> QED
      BY <2>4, <2>6, <2>7, <3>1, PostAckOutcome, SMTT(30), Z3T(30)
  <2> QED
    BY <2>8, Zenon DEF Lost
<1> QED
  BY <1>1, <1>2, Zenon

\* A swap ack that is accepted is in the record, unless the task has ended.
LEMMA PostAckLands ==
    ASSUME NEW s, NEW t, NEW d, NEW f, World(s, t, d), Outcome(s, t, d, f), NEW n \in Nodes,
           t.status # "STARTED", NEW ok \in BOOLEAN, Smooth(s) => ok,
           NEW cmd, cmd = [type |-> "postAck", node |-> n, ok |-> ok],
           ~Refused(cmd, t), Moves(s, t, Applied(cmd, t))
    PROVE  Applied(cmd, t).postAcks[n] # "none" \/ Over(Applied(cmd, t))
<1>1. t \in TaskOn(UnitIds) /\ t.status \in TaskStatus /\ t.status # "PREPARING"
  <2>1. t \in TaskOn(UnitIds) /\ t.status \in TaskStatus
    BY Zenon DEF World, Record, TaskOn
  <2>2. t.status # "PREPARING"
    <3>1. cmd.type = "postAck"
      OBVIOUS
    <3>2. Refused(cmd, t) = PostAckRefused(t)
      BY <3>1 DEF Refused
    <3> QED
      BY <3>2, Zenon DEF PostAckRefused
  <2> QED
    BY <2>1, <2>2
<1>2. CASE Over(t)
  BY <1>2, Zenon DEF Moves, Grows
<1>3. CASE t.postAcks[n] # "none"
  BY <1>3, Zenon DEF Moves, Grows, Stands
<1>4. CASE ~Over(t) /\ t.postAcks[n] = "none"
  <2>1. t.status = "SWAPPING"
    BY <1>1, <1>4, Zenon DEF Over, IsTerminal, TaskStatus
  <2>2. Applied(cmd, t) = PostAcked(t, n, ok, 1)
    BY <1>4, <2>1, SMTT(30), Z3T(30) DEF Applied, PostAckApplies
  <2> QED
    BY <1>1, <1>4, <2>1, <2>2, PostAckOutcome, SMTT(30), Z3T(30)
<1> QED
  BY <1>2, <1>3, <1>4, Zenon

\* A preparation ack.
LEMMA PrepAckCutover ==
    ASSUME SchedulerInv, CutoverInv, NEW n \in Nodes, PrepAck(n)
    PROVE  CutoverInv'
<1> DEFINE m == mem[n]
           ok == ~m.prepErr
           a == Ack(ok)
           cmd == [type |-> "prepAck", node |-> n, ok |-> ok]
           c == [m.clone EXCEPT !.prepAcks[n] = a]
           w == [m EXCEPT !.prepAcked = m.known, !.clone.prepAcks[n] = a,
                          !.eff = IF ok THEN m.eff ELSE "FAILED"]
<1>1. /\ m.pc = "prepAck" /\ UNCHANGED <<setup, flipped, disk>>
      /\ Call(n, cmd, AfterPrepAck(m, n, ok), EnterSwap(m, n))
  BY Zenon DEF PrepAck
<1>2. /\ World(setup, task, disk) /\ Outcome(setup, task, disk, flipped)
      /\ m \in Memory /\ Good(n, m, setup, task, disk)
      /\ Careful(n, m, setup, task, disk, flipped) /\ task \in TaskOn(UnitIds)
  BY NodeFacts, ZenonT(30)
<1>3. Midway(n, m, setup, task, disk, flipped)
  BY <1>1, <1>2, CarefulMidway
<1>4. Listed(m.clone, task) /\ m.clone.status = "PREPARING" /\ m.eff = "PREPARING"
  BY <1>1, <1>2, Zenon DEF Good
<1>5. task.status # "STARTED"
  BY <1>3, <1>4, ZenonT(30) DEF Midway, Behind
<1>6. Careful(n, EnterSwap(m, n), setup, task, disk, flipped)
  BY <1>2, <1>3, <1>4, EnterSwapCareful, SMTT(30), Z3T(30)
<1>7. ok \in BOOLEAN /\ a \in AckStatus
  BY DEF Ack, AckStatus
<1>8. /\ cmd.type = "prepAck" /\ Timely(cmd, setup, task, disk, flipped)
      /\ Sound(cmd, task, disk)
  <2>1. /\ cmd \in Command /\ cmd.type = "prepAck" /\ cmd.node = n /\ cmd.ok = ok
    BY <1>7, ZenonT(30) DEF Command
  <2>2. ok => Over(task) \/ \A u \in LocalUnits(n) : disk[u] \in Merged
    BY <1>1, <1>2, Zenon DEF Good
  <2> HIDE DEF cmd, ok
  <2>3. Timely(cmd, setup, task, disk, flipped)
    BY <1>5, <2>1, Zenon DEF Timely
  <2>4. Sound(cmd, task, disk)
    BY <2>1, <2>2, ZenonT(30) DEF Sound
  <2> QED
    BY <2>1, <2>3, <2>4
<1>9. /\ c \in TaskOn(UnitIds) /\ c.units = m.clone.units /\ c.status = m.clone.status
      /\ c.barrier = m.clone.barrier /\ c.postAcks = m.clone.postAcks
  <2> HIDE DEF a
  <2> QED
    BY <1>4, <1>7 DEF Listed, TaskOn
<1>10. /\ w \in Memory /\ w.clone = c /\ w.completed = m.completed /\ SameErrors(w, m)
       /\ (ok => w.eff = m.eff) /\ (~ok => w.eff = "FAILED")
  <2> HIDE DEF a, ok
  <2>1. w = [m EXCEPT !.prepAcked = m.known, !.clone = c,
                      !.eff = IF ok THEN m.eff ELSE "FAILED"]
    BY <1>2 DEF Memory
  <2> HIDE DEF c, w
  <2>2. w \in Memory
    BY <1>2, <1>9, <2>1, ZenonT(30) DEF Memory, TaskStatus
  <2>3. w.clone = c /\ w.completed = m.completed /\ SameErrors(w, m)
    BY <1>2, <2>1, ZenonT(30) DEF Memory, SameErrors
  <2>4. (ok => w.eff = m.eff) /\ (~ok => w.eff = "FAILED")
    BY <1>2, <2>1 DEF Memory
  <2> QED
    BY <2>2, <2>3, <2>4, Zenon
<1>11. ASSUME NEW r, ~Refused(cmd, task), r = Applied(cmd, task), Moves(setup, task, r),
              World(setup, r, disk), Outcome(setup, r, disk, flipped),
              Careful(n, m, setup, r, disk, flipped)
       PROVE  Careful(n, AfterPrepAck(m, n, ok), setup, r, disk, flipped)
  <2>1. Midway(n, m, setup, r, disk, flipped)
    BY <1>1, <1>11, CarefulMidway, SMTT(30), Z3T(30)
  <2>2. ~ok => Lost(r)
    <3> SUFFICES ASSUME ~ok PROVE Lost(r)
      BY Zenon
    <3>1. cmd = [type |-> "prepAck", node |-> n, ok |-> FALSE]
      BY Zenon
    <3>2. m.prepErr /\ PrepErrSeen(n, m, {}, task, disk)
      BY <1>3, Zenon DEF Midway
    <3> HIDE DEF cmd, m
    <3> QED
      BY <1>2, <1>5, <1>11, <3>1, <3>2, PrepErrLoses, SMTT(30), Z3T(30)
  <2>3. AfterPrepAck(m, n, ok) = EnterSwap(w, n)
    BY Zenon DEF AfterPrepAck
  <2> HIDE DEF w, c, cmd, ok
  <2>4. Listed(c, r)
    <3>1. Listed(m.clone, r)
      BY <1>2, <1>4, <1>11, ListedGrows DEF Moves
    <3> QED
      BY <1>9, <3>1, ListedAck
  <2>5. Behind(c, setup, r)
    BY <1>9, <2>1, Zenon DEF Midway, Behind, Lost
  <2>6. Aware(w, r)
    BY <1>4, <1>9, <1>10, <2>2, ZenonT(30) DEF Aware
  <2>7. PrepErrSeen(n, w, {}, r, disk) /\ SwapErrSeen(n, w, {}, setup, r, disk)
    BY <1>10, <2>1, ErrorsSeen DEF Midway
  <2>8. Midway(n, w, setup, r, disk, flipped)
    BY <1>10, <2>1, <2>5, <2>6, <2>7, Zenon DEF Midway
  <2> QED
    BY <1>10, <1>11, <2>3, <2>4, <2>8, EnterSwapCareful, ZenonT(30)
<1> HIDE DEF cmd, m, ok, a, c, w
<1>12. /\ DiskGrows(disk, disk', task) /\ StaysShort(n, disk, disk')
       /\ \A u \in UnitIds : UnitToNode[u] # n => disk'[u] = disk[u]
  BY <1>1, NodeFacts, ZenonT(30)
<1> QED
  BY <1>1, <1>2, <1>6, <1>8, <1>11, <1>12, CallCutover, SMTT(30), Z3T(30) DEF m

\* A swap ack.
LEMMA SwapAckCutover ==
    ASSUME SchedulerInv, CutoverInv, NEW n \in Nodes, SwapAck(n)
    PROVE  CutoverInv'
<1> DEFINE m == mem[n]
           ok == ~m.swapErr
           a == Ack(ok)
           cmd == [type |-> "postAck", node |-> n, ok |-> ok]
           c == [m.clone EXCEPT !.postAcks[n] = a]
           w == [m EXCEPT !.swapAcked = m.known, !.clone.postAcks[n] = a,
                          !.eff = IF ~ok /\ m.eff = "SWAPPING" THEN "FAILED" ELSE m.eff]
<1>1. /\ m.pc = "swapAck" /\ UNCHANGED <<setup, flipped, disk>>
      /\ Call(n, cmd, AfterSwapAck(m, n, ok), EnterCompleted(m))
  BY ZenonT(30) DEF SwapAck
<1>2. /\ World(setup, task, disk) /\ Outcome(setup, task, disk, flipped)
      /\ m \in Memory /\ Good(n, m, setup, task, disk)
      /\ Careful(n, m, setup, task, disk, flipped) /\ task \in TaskOn(UnitIds)
  BY NodeFacts, Zenon
<1>3. Midway(n, m, setup, task, disk, flipped)
  BY <1>1, <1>2, CarefulMidway
<1>4. Listed(m.clone, task) /\ m.eff # "STARTED"
  BY <1>1, <1>2, Zenon DEF Good, Careful
<1>5. task.status # "STARTED"
  BY <1>3, <1>4, Zenon DEF Midway, Behind, Aware, Lost
<1>6. Careful(n, EnterCompleted(m), setup, task, disk, flipped)
  BY <1>2, <1>3, EnterCompletedCareful
<1>7. /\ ok \in BOOLEAN /\ a \in AckStatus
      /\ SwapErrSeen(n, m, {}, setup, task, disk) /\ (ok \/ m.swapErr)
  BY <1>3, Zenon DEF Ack, AckStatus, Midway
<1>8. Smooth(setup) => ok
  BY <1>3, Zenon DEF Midway, SwapErrSeen, Smooth
<1>9. /\ Timely(cmd, setup, task, disk, flipped) /\ Sound(cmd, task, disk)
  <2>1. /\ cmd \in Command /\ cmd.type = "postAck" /\ cmd.node = n /\ cmd.ok = ok
    BY <1>7, ZenonT(30) DEF Command
  <2>2. ok => Over(task) \/ \A u \in LocalUnits(n) : disk[u] \in NewData
    BY <1>1, <1>2, Zenon DEF Good
  <2> HIDE DEF cmd, ok
  <2>3. Timely(cmd, setup, task, disk, flipped)
    BY <1>5, <1>8, <2>1, Zenon DEF Timely
  <2>4. Sound(cmd, task, disk)
    BY <2>1, <2>2, ZenonT(30) DEF Sound
  <2> QED
    BY <2>3, <2>4
<1>10. /\ c \in TaskOn(UnitIds) /\ c.units = m.clone.units /\ c.status = m.clone.status
       /\ c.barrier = m.clone.barrier
       /\ \A k \in Nodes : k # n => c.postAcks[k] = m.clone.postAcks[k]
  <2> HIDE DEF a
  <2> QED
    BY <1>4, <1>7 DEF Listed, TaskOn
<1>11. /\ w \in Memory /\ w.clone = c /\ w.completed = m.completed /\ SameErrors(w, m)
       /\ (w.eff = m.eff \/ (w.eff = "FAILED" /\ ~ok))
  <2> HIDE DEF a, ok
  <2>1. w = [m EXCEPT !.swapAcked = m.known, !.clone = c,
                      !.eff = IF ~ok /\ m.eff = "SWAPPING" THEN "FAILED" ELSE m.eff]
    BY <1>2 DEF Memory
  <2> HIDE DEF c, w
  <2>2. w \in Memory
    BY <1>2, <1>10, <2>1, ZenonT(30) DEF Memory, TaskStatus
  <2>3. w.clone = c /\ w.completed = m.completed /\ SameErrors(w, m)
    BY <1>2, <2>1, ZenonT(30) DEF Memory, SameErrors
  <2>4. w.eff = m.eff \/ (w.eff = "FAILED" /\ ~ok)
    BY <1>2, <2>1 DEF Memory
  <2> QED
    BY <2>2, <2>3, <2>4, Zenon
<1>12. ASSUME NEW r, ~Refused(cmd, task), r = Applied(cmd, task), Moves(setup, task, r),
              World(setup, r, disk), Outcome(setup, r, disk, flipped),
              Careful(n, m, setup, r, disk, flipped)
       PROVE  Careful(n, AfterSwapAck(m, n, ok), setup, r, disk, flipped)
  <2>1. Midway(n, m, setup, r, disk, flipped)
    BY <1>1, <1>12, CarefulMidway
  <2>2. AfterSwapAck(m, n, ok) = EnterCompleted(w)
    BY Zenon DEF AfterSwapAck
  <2>3. cmd = [type |-> "postAck", node |-> n, ok |-> ok]
    OBVIOUS
  <2> HIDE DEF w, c, cmd, ok, m
  <2>4. ~ok => Lost(r)
    BY <1>2, <1>5, <1>7, <1>12, <2>3, SwapErrLoses, SMTT(30), Z3T(30)
  <2>5. r.postAcks[n] # "none" \/ Over(r)
    BY <1>2, <1>5, <1>7, <1>8, <1>12, <2>3, PostAckLands, SMTT(30), Z3T(30)
  <2>6. Behind(c, setup, r)
    BY <1>10, <2>1, <2>5, Zenon DEF Midway, Behind, Lost
  <2>7. Aware(w, r)
    BY <1>10, <1>11, <2>1, <2>4, Zenon DEF Aware, Midway
  <2>8. PrepErrSeen(n, w, {}, r, disk) /\ SwapErrSeen(n, w, {}, setup, r, disk)
    BY <1>11, <2>1, ErrorsSeen DEF Midway
  <2>9. Midway(n, w, setup, r, disk, flipped)
    BY <1>11, <2>1, <2>6, <2>7, <2>8, Zenon DEF Midway
  <2> QED
    BY <1>11, <2>2, <2>9, EnterCompletedCareful, ZenonT(30)
<1> HIDE DEF cmd, m, ok, a, c, w
<1>13. /\ DiskGrows(disk, disk', task) /\ StaysShort(n, disk, disk')
       /\ \A u \in UnitIds : UnitToNode[u] # n => disk'[u] = disk[u]
  BY <1>1, NodeFacts, Zenon
<1> QED
  BY <1>1, <1>2, <1>6, <1>9, <1>12, <1>13, CallCutover, SMTT(30), Z3T(30) DEF m

\* The last write of a tick.
LEMMA EndOfTickCutover ==
    ASSUME SchedulerInv, CutoverInv, NEW n \in Nodes, MarkFailed(n) \/ Finalize(n)
    PROVE  CutoverInv'
<1> DEFINE m == mem[n]
           w == [m EXCEPT !.completed = FALSE]
<1>1. /\ World(setup, task, disk) /\ m \in Memory
      /\ Careful(n, m, setup, task, disk, flipped) /\ UNCHANGED <<setup, flipped, disk>>
  BY NodeFacts, Zenon DEF MarkFailed, Finalize
<1>2. /\ DiskGrows(disk, disk', task) /\ StaysShort(n, disk, disk')
      /\ \A u \in UnitIds : UnitToNode[u] # n => disk'[u] = disk[u]
  BY <1>1, NodeFacts, Zenon
<1>3. w \in Memory /\ SameErrors(w, m) /\ w.completed = FALSE
  BY <1>1, Zenon DEF Memory, SameErrors
<1>4. m.pc \in {"fail", "finalize"}
  BY Zenon DEF MarkFailed, Finalize
<1>5. ASSUME NEW r, Careful(n, m, setup, r, disk, flipped)
      PROVE  /\ Careful(n, Idle(m), setup, r, disk, flipped)
             /\ Careful(n, Idle(w), setup, r, disk, flipped)
  <2> HIDE DEF m, w
  <2>1. Midway(n, m, setup, r, disk, flipped)
    BY <1>4, <1>5, CarefulMidway, SMTT(30), Z3T(30)
  <2>2. PrepErrSeen(n, w, {}, r, disk) /\ SwapErrSeen(n, w, {}, setup, r, disk)
    BY <1>3, <2>1, ErrorsSeen DEF Midway
  <2>3. Careful(n, Idle(w), setup, r, disk, flipped)
    BY <1>3, <2>2, IdleCareful, Zenon
  <2>4. Careful(n, Idle(m), setup, r, disk, flipped)
    BY <1>1, <2>1, IdleCareful, SMTT(30), Z3T(30) DEF Midway
  <2> QED
    BY <2>3, <2>4
<1>6. CASE MarkFailed(n)
  <2> DEFINE cmd == [type |-> "fail", node |-> n]
  <2>1. m.pc = "fail" /\ Call(n, cmd, Idle(m), Idle(m))
    BY <1>6, Zenon DEF MarkFailed
  <2>2. cmd \in Command /\ cmd.type = "fail"
    BY ZenonT(30) DEF Command
  <2>3. ~Smooth(setup)
    BY <1>1, <2>1, Zenon DEF Careful
  <2> HIDE DEF cmd, m, w
  <2>4. Timely(cmd, setup, task, disk, flipped) /\ Sound(cmd, task, disk)
    BY <2>2, <2>3, ZenonT(30) DEF Timely, Sound
  <2> QED
    BY <1>1, <1>2, <1>5, <2>1, <2>4, CallCutover, SMTT(30), Z3T(30) DEF m
<1>7. CASE Finalize(n)
  <2> DEFINE cmd == [type |-> "finalize", node |-> n]
  <2>1. m.pc = "finalize" /\ Call(n, cmd, Idle(m), Idle(w))
    BY <1>7, Zenon DEF Finalize
  <2>2. cmd \in Command /\ cmd.type = "finalize"
    BY ZenonT(30) DEF Command
  <2>3. Settled(task, disk, flipped)
    BY <1>1, <2>1, Zenon DEF Careful
  <2> HIDE DEF cmd, m, w
  <2>4. Timely(cmd, setup, task, disk, flipped) /\ Sound(cmd, task, disk)
    BY <2>2, <2>3, ZenonT(30) DEF Timely, Sound
  <2> QED
    BY <1>1, <1>2, <1>5, <2>1, <2>4, CallCutover, SMTT(30), Z3T(30) DEF m
<1> QED
  BY <1>6, <1>7, Zenon

\* A worker claims a unit, ends it, or reports its failure.
LEMMA WorkCutover ==
    ASSUME SchedulerInv, CutoverInv, NEW n \in Nodes, NEW u \in UnitIds,
           ClaimUnit(n, u) \/ FailUnit(n, u) \/ CompleteUnit(n, u)
    PROVE  CutoverInv'
<1>1. PICK type \in {"claim", "failed", "done"} :
          /\ Call(n, [type |-> type, node |-> n, unit |-> u], mem[n], mem[n])
          /\ type # "done" => disk' = disk
          /\ type = "done" => /\ disk' = [disk EXCEPT ![u] = "reindexed"]
                              /\ task.units[u].status = "IN_PROGRESS"
  BY Zenon DEF ClaimUnit, FailUnit, CompleteUnit
<1> DEFINE cmd == [type |-> type, node |-> n, unit |-> u]
<1>2. UnitToNode[u] = n /\ UNCHANGED <<setup, flipped>>
  BY Zenon DEF ClaimUnit, FailUnit, CompleteUnit, Working
<1>3. /\ disk \in [UnitIds -> UnitDisk] /\ World(setup, task, disk) /\ mem[n] \in Memory
      /\ Careful(n, mem[n], setup, task, disk, flipped) /\ Moves(setup, task, task)
  <2>1. disk \in [UnitIds -> UnitDisk]
    BY Zenon DEF SchedulerInv, TypeOK
  <2> QED
    BY <2>1, NodeFacts, Zenon
<1>4. /\ type = "done" => disk'[u] = "reindexed" /\ disk[u] \notin Merged /\ disk[u] \notin NewData
      /\ \A v \in UnitIds \ {u} : disk'[v] = disk[v]
      /\ type # "done" => disk' = disk
  BY <1>1, <1>3, Zenon DEF World, UnitTerminal, Merged, NewData
<1>5. DiskGrows(disk, disk', task)
  <2>1. CASE type = "done"
    BY <1>4, <2>1 DEF DiskGrows
  <2>2. CASE type # "done"
    BY <1>4, <2>2, NodeFacts, Zenon
  <2> QED
    BY <2>1, <2>2, SMTT(30), Z3T(30)
<1>6. StaysShort(n, disk, disk')
  <2>1. "reindexed" \notin Merged /\ "reindexed" \notin NewData
    BY Zenon DEF Merged, NewData
  <2> QED
    BY <1>4, <2>1, Zenon DEF StaysShort, LocalUnits
<1>7. World(setup, task, disk')
  <2>1. CASE type = "done"
    BY <1>3, <1>4, <2>1, Zenon DEF World, Merged, NewData
  <2>2. CASE type # "done"
    BY <1>3, <1>4, <2>2, Zenon
  <2> QED
    BY <2>1, <2>2
<1>8. Sound(cmd, task, disk')
  <2>1. cmd \in Command /\ cmd.type = type /\ cmd.node = n /\ cmd.unit = u
    BY ZenonT(30) DEF Command
  <2>2. type = "done" => disk'[u] # "none"
    BY <1>4, Zenon
  <2> HIDE DEF cmd
  <2> QED
    BY <1>2, <2>1, <2>2, Zenon DEF Sound
<1>9. Timely(cmd, setup, task, disk', flipped)
  <2>1. cmd.type \notin {"prepAck", "postAck", "finalize", "fail"}
    OBVIOUS
  <2> HIDE DEF cmd
  <2> QED
    BY <2>1, Zenon DEF Timely
<1>10. Careful(n, mem[n], setup, task, disk', flipped)
  <2>1. Swapped(disk) => Swapped(disk')
    BY <1>5, SwappedGrows, Zenon
  <2> QED
    BY <1>3, <1>6, <2>1, CarefulMoves
<1>11. \A v \in UnitIds : UnitToNode[v] # n => disk'[v] = disk[v]
  BY <1>2, <1>4, Zenon
<1>12. Call(n, cmd, mem[n], mem[n])
  BY <1>1, Zenon
<1> HIDE DEF cmd
<1> QED
  BY <1>2, <1>5, <1>6, <1>7, <1>8, <1>9, <1>10, <1>11, <1>12, CallCutover, SMTT(30), Z3T(30)

\* A write that timed out is applied late; the task is cancelled or terminated.
LEMMA EnvironmentCutover ==
    ASSUME SchedulerInv, CutoverInv,
           CancelTask \/ ForceTerminateTask \/ \E cmd \in inflight : LateApply(cmd)
    PROVE  CutoverInv'
<1>1. /\ World(setup, task, disk) /\ task \in TaskOn(UnitIds)
      /\ Outcome(setup, task, disk, flipped)
  BY Zenon DEF SchedulerInv, TypeOK, CutoverInv
<1>2. ASSUME CancelTask PROVE CutoverInv'
  <2>1. task' = markTerminal(task, "CANCELLED", 1) /\ task.status = "STARTED"
        /\ UNCHANGED <<setup, flipped, disk, mem, inflight>>
    BY <1>2, Zenon DEF CancelTask, IsCancellable
  <2>2. Moves(setup, task, task') /\ Outcome(setup, task', disk, flipped)
    BY <1>1, <2>1, EndOutcome, Zenon DEF TaskStatus, IsActive, IsTerminal
  <2> QED
    BY <2>1, <2>2, RecordCutover
<1>3. ASSUME ForceTerminateTask PROVE CutoverInv'
  <2>1. /\ task' = markTerminal(task, "FAILED", 1) /\ setup.stale
        /\ task.status \in {"STARTED", "PREPARING", "SWAPPING"}
        /\ UNCHANGED <<setup, flipped, disk, mem, inflight>>
    BY <1>3, Zenon DEF ForceTerminateTask, ForceTerminateApplies, IsForceTerminable
  <2>2. IsActive(task.status) /\ ~Smooth(setup) /\ "FAILED" \in TaskStatus
    BY <2>1, Zenon DEF IsActive, IsTerminal, Smooth, TaskStatus
  <2>3. Moves(setup, task, task') /\ Outcome(setup, task', disk, flipped)
    BY <1>1, <2>1, <2>2, EndOutcome, Zenon
  <2> QED
    BY <2>1, <2>3, RecordCutover
<1>4. ASSUME NEW cmd \in inflight, LateApply(cmd) PROVE CutoverInv'
  <2>1. Sound(cmd, task, disk) /\ Timely(cmd, setup, task, disk, flipped)
    BY Zenon DEF SchedulerInv, CutoverInv
  <2>2. Moves(setup, task, task)
    BY <1>1, MovesRefl, SMTT(30), Z3T(30)
  <2>3. ~Refused(cmd, task) => /\ Moves(setup, task, Applied(cmd, task))
                               /\ Outcome(setup, Applied(cmd, task), disk, flipped)
    BY <1>1, <2>1, AppliedTimely
  <2>4. /\ inflight' \subseteq inflight /\ UNCHANGED <<setup, flipped, disk, mem>>
        /\ (Refused(cmd, task) => task' = task)
        /\ (~Refused(cmd, task) => task' = Applied(cmd, task))
    BY <1>4, Zenon DEF LateApply
  <2>5. Moves(setup, task, task') /\ Outcome(setup, task', disk, flipped)
    BY <1>1, <2>2, <2>3, <2>4, Zenon
  <2> QED
    BY <2>4, <2>5, RecordCutover
<1> QED
  BY <1>2, <1>3, <1>4

\* A tick that finds the task ended, or in error, has nothing to flip.
LEMMA EndedSettled ==
    ASSUME NEW m, NEW s, NEW t, NEW d, NEW f, Outcome(s, t, d, f), ReadyToComplete(m),
           Behind(m.clone, s, t), Aware(m, t), m.eff # "SWAPPING"
    PROVE  Settled(t, d, f)
<1>1. m.eff \in {"FAILED", "FINISHED", "CANCELLED"}
  BY Zenon DEF ReadyToComplete
<1> QED
  BY <1>1, Zenon DEF Aware, Behind, Lost, Settled, Outcome

\* The flip of the schema comes after every swap, and after every ack unless a
\* swap has failed.
LEMMA FlipSettles ==
    ASSUME NEW m, NEW s, NEW t, NEW d, NEW f, World(s, t, d), Outcome(s, t, d, f),
           Listed(m.clone, t), ReadyToComplete(m), Behind(m.clone, s, t), Aware(m, t),
           m.clone.status = "SWAPPING"
    PROVE  Settled(t, d, TRUE) /\ Outcome(s, t, d, TRUE)
<1>1. CASE Lost(t)
  <2>1. ~Smooth(s) /\ t.status # "FINISHED"
    BY <1>1, Zenon DEF Lost, Behind
  <2> QED
    BY <1>1, <2>1, Zenon DEF Settled, Outcome
<1>2. CASE t.status = "FINISHED"
  BY <1>2, Zenon DEF Settled, Outcome
<1>3. CASE ~Lost(t) /\ t.status # "FINISHED"
  <2>1. ~Over(t) /\ m.eff = "SWAPPING" /\ t \in TaskOn(UnitIds)
    BY <1>3, Zenon DEF Over, IsTerminal, Lost, Aware, World, Record
  <2>2. ASSUME NEW u \in UnitIds PROVE t.postAcks[UnitToNode[u]] = "ok" /\ d[u] \in NewData
    <3>1. /\ m.clone.units[u].node = UnitToNode[u] /\ UnitToNode[u] \in Nodes
          /\ DOMAIN m.clone.units = UnitIds
      BY UnitsAssumption, Zenon DEF Listed, TaskOn
    <3>2. UnitToNode[u] \in NodesWithLocalUnits(m.clone)
      BY <3>1, NoNodeAssumption, Zenon DEF NodesWithLocalUnits
    <3>3. m.clone.postAcks[UnitToNode[u]] # "none"
      BY <2>1, <3>2, Zenon DEF ReadyToComplete, MissingPostCompletionAckNodes
    <3>4. t.postAcks[UnitToNode[u]] \in AckStatus /\ t.postAcks[UnitToNode[u]] # "none"
      BY <2>1, <3>1, <3>3, Zenon DEF Behind, TaskOn
    <3>5. t.postAcks[UnitToNode[u]] # "failed"
      BY <1>3, <3>1, Zenon DEF Outcome
    <3>6. t.postAcks[UnitToNode[u]] = "ok"
      BY <3>4, <3>5, Zenon DEF AckStatus
    <3> QED
      BY <3>6, Zenon DEF World
  <2>3. Swapped(d)
    BY <2>2, Zenon DEF Swapped
  <2>4. Smooth(s) => t.status \in {"SWAPPING", "FINISHED"}
    BY Zenon DEF Behind
  <2> QED
    BY <1>3, <2>2, <2>3, <2>4, ZenonT(30) DEF Settled, Outcome
<1> QED
  BY <1>1, <1>2, <1>3, Zenon

\* The reaction to an error of the flip, in a cutover that may fail.
LEMMA FlipErrorCareful ==
    ASSUME NEW n \in Nodes, NEW m \in Memory, NEW s, NEW t, NEW d, NEW f, ~Smooth(s),
           PrepErrSeen(n, m, {}, t, d), SwapErrSeen(n, m, {}, s, t, d),
           Behind(m.clone, s, t), Aware(m, t), m.eff # "SWAPPING" => Settled(t, d, f),
           NEW permanent \in BOOLEAN
    PROVE  Careful(n, AfterFlipError(m, permanent), s, t, d, f)
<1> DEFINE k == IF m.attempts < maxCompletedCallbackAttempts THEN m.attempts + 1 ELSE m.attempts
           w == [m EXCEPT !.completed = FALSE, !.attempts = k]
           x == [w EXCEPT !.pc = "fail"]
<1>1. k \in 0..maxCompletedCallbackAttempts
  BY BudgetAssumption DEF Memory
<1>2. \/ AfterFlipError(m, permanent) = EnterFinalize(m) /\ m.eff # "SWAPPING"
      \/ AfterFlipError(m, permanent) \in {x, Idle(w)}
  BY ZenonT(30) DEF AfterFlipError
<1> HIDE DEF k
<1>3. /\ w \in Memory /\ w.completed = FALSE /\ w.clone = m.clone /\ w.eff = m.eff
      /\ SameErrors(w, m)
  BY <1>1, ZenonT(30) DEF Memory, SameErrors
<1> HIDE DEF w
<1>4. /\ x.completed = FALSE /\ x.clone = m.clone /\ x.eff = m.eff /\ x.pc = "fail"
      /\ SameErrors(x, m)
  BY <1>3, ZenonT(30) DEF Memory, SameErrors
<1> HIDE DEF x
<1>5. PrepErrSeen(n, w, {}, t, d) /\ SwapErrSeen(n, w, {}, s, t, d)
  BY <1>3, ErrorsSeen, SMTT(30), Z3T(30)
<1>6. PrepErrSeen(n, x, {}, t, d) /\ SwapErrSeen(n, x, {}, s, t, d)
  BY <1>4, ErrorsSeen
<1>7. Careful(n, Idle(w), s, t, d, f)
  BY <1>3, <1>5, IdleCareful, Zenon
<1>8. Careful(n, x, s, t, d, f)
  BY <1>4, <1>6, Zenon DEF Careful, Aware
<1>9. m.eff # "SWAPPING" => Careful(n, EnterFinalize(m), s, t, d, f)
  <2>1. m.eff # "SWAPPING" => Midway(n, m, s, t, d, f)
    BY Zenon DEF Midway
  <2> QED
    BY <2>1, EnterFinalizeCareful
<1> QED
  BY <1>2, <1>7, <1>8, <1>9, ZenonT(30)

\* OnTaskCompleted.
LEMMA CompletedCutover ==
    ASSUME SchedulerInv, CutoverInv, NEW n \in Nodes,
           FlipSchema(n) \/ TerminalCleanup(n) \/ NothingToComplete(n)
    PROVE  CutoverInv'
<1> DEFINE m == mem[n]
<1>1. m.pc = "completed" /\ UNCHANGED <<setup, task, inflight>>
  BY Zenon DEF FlipSchema, TerminalCleanup, NothingToComplete
<1>2. /\ task \in TaskOn(UnitIds) /\ World(setup, task, disk)
      /\ m \in Memory /\ Good(n, m, setup, task, disk)
      /\ Careful(n, m, setup, task, disk, flipped)
      /\ Outcome(setup, task, disk, flipped) /\ DiskGrows(disk, disk, task)
      /\ Moves(setup, task, task)
  BY NodeFacts, Zenon
<1>3. /\ PrepErrSeen(n, m, {}, task, disk) /\ SwapErrSeen(n, m, {}, setup, task, disk)
      /\ Behind(m.clone, setup, task) /\ Aware(m, task) /\ ReadyToComplete(m)
      /\ Listed(m.clone, task)
  BY <1>1, <1>2, ZenonT(30) DEF Careful, Good
<1>4. m.eff # "SWAPPING" => Settled(task, disk, flipped)
  BY <1>2, <1>3, EndedSettled, SMTT(30), Z3T(30)
<1>5. ASSUME NEW d, NEW f, Settled(task, d, f), StaysShort(n, disk, d)
      PROVE  Careful(n, EnterFinalize(m), setup, task, d, f)
  <2>1. PrepErrSeen(n, m, {}, task, d)
    BY <1>3, <1>5, Zenon DEF PrepErrSeen, StaysShort
  <2>2. SwapErrSeen(n, m, {}, setup, task, d)
    BY <1>3, <1>5, Zenon DEF SwapErrSeen, StaysShort
  <2>3. Midway(n, m, setup, task, d, f)
    BY <1>3, <1>5, <2>1, <2>2, Zenon DEF Midway
  <2> QED
    BY <1>2, <2>3, EnterFinalizeCareful, SMTT(30), Z3T(30)
<1>6. StaysShort(n, disk, disk)
  BY Zenon DEF StaysShort
<1>7. CASE FlipSchema(n)
  <2>1. disk' = disk /\ m.clone.status = "SWAPPING"
    BY <1>7, ZenonT(30) DEF FlipSchema
  <2>2. Settled(task, disk, TRUE) /\ Outcome(setup, task, disk, TRUE)
    BY <1>2, <1>3, <2>1, FlipSettles, Zenon
  <2>3. CASE flipped' = TRUE /\ mem' = [mem EXCEPT ![n] = EnterFinalize(m)]
    <3>1. Careful(n, EnterFinalize(m), setup, task, disk, TRUE)
      BY <1>5, <1>6, <2>2, Zenon
    <3> HIDE DEF m
    <3> QED
      BY <1>1, <1>2, <2>1, <2>2, <2>3, <3>1, NodeCutover, Zenon
  <2>4. ASSUME "flip" \in setup.fails, flipped' \in {flipped, TRUE}, NEW permanent \in BOOLEAN,
               mem' = [mem EXCEPT ![n] = AfterFlipError(m, permanent)]
        PROVE  CutoverInv'
    <3>1. ~Smooth(setup) /\ (flipped => flipped')
      <4>1. "flip" \in setup.fails \cap {"swap", "flip"}
        BY <2>4, Zenon
      <4>2. CASE flipped' = flipped
        BY <4>1, <4>2, Zenon DEF Smooth
      <4>3. CASE flipped' = TRUE
        BY <4>1, <4>3, Zenon DEF Smooth
      <4> QED
        BY <2>4, <4>2, <4>3, Zenon
    <3>2. Outcome(setup, task, disk, flipped')
      BY <1>2, <3>1, Zenon DEF Outcome
    <3>3. m.eff # "SWAPPING" => Settled(task, disk, flipped')
      BY <1>4, <3>1, Zenon DEF Settled
    <3> HIDE DEF m
    <3>4. Careful(n, AfterFlipError(m, permanent), setup, task, disk, flipped')
      BY <1>2, <1>3, <3>1, <3>3, FlipErrorCareful, Zenon
    <3> QED
      BY <1>1, <1>2, <2>1, <2>4, <3>1, <3>2, <3>4, NodeCutover, Zenon
  <2> QED
    BY <1>7, <2>3, <2>4, Zenon DEF FlipSchema
<1>8. CASE TerminalCleanup(n)
  <2>1. /\ m.clone.status \in {"FAILED", "CANCELLED"} /\ flipped' = flipped
        /\ mem' = [mem EXCEPT ![n] = EnterFinalize(m)]
        /\ \E us \in SUBSET Partial(n) : disk' = Wiped(us)
    <3>1. disk' = disk => disk' = Wiped({})
      BY DEF Wiped, SchedulerInv, TypeOK
    <3> QED
      BY <1>8, <3>1, Zenon DEF TerminalCleanup
  <2>2. Lost(task)
    BY <1>3, <2>1, Zenon DEF Behind, Lost
  <2>3. \A u \in UnitIds : /\ disk'[u] = disk[u] \/ (disk[u] = "reindexed" /\ disk'[u] = "none")
                           /\ UnitToNode[u] # n => disk'[u] = disk[u]
    BY <2>1, ZenonT(30), SMTT(30) DEF Wiped, Partial, LocalUnits
  <2>4. Over(task)
    BY <2>2, ZenonT(30) DEF Lost, Over, IsTerminal
  <2>5. DiskGrows(disk, disk', task)
    BY <2>3, <2>4, SMTT(30), Z3T(30) DEF DiskGrows, Merged, NewData
  <2>6. StaysShort(n, disk, disk')
    BY <2>3, SMTT(30), Z3T(30) DEF StaysShort, LocalUnits, Merged, NewData
  <2>7. Outcome(setup, task, disk', flipped)
    BY <1>2, <2>5, OutcomeGrows, SMTT(30), Z3T(30)
  <2>8. Careful(n, EnterFinalize(m), setup, task, disk', flipped)
    BY <1>5, <2>2, <2>6, ZenonT(30) DEF Settled
  <2> HIDE DEF m
  <2> QED
    BY <1>1, <1>2, <2>1, <2>3, <2>5, <2>7, <2>8, NodeCutover, Zenon
<1>9. CASE NothingToComplete(n)
  <2>1. /\ m.clone.status \notin {"SWAPPING", "FAILED", "CANCELLED"}
        /\ mem' = [mem EXCEPT ![n] = EnterFinalize(m)] /\ UNCHANGED <<flipped, disk>>
    BY <1>9, Zenon DEF NothingToComplete
  <2>2. Settled(task, disk, flipped)
    BY <1>3, <1>4, <2>1, Zenon DEF Aware
  <2>3. Careful(n, EnterFinalize(m), setup, task, disk, flipped)
    BY <1>5, <1>6, <2>2, Zenon
  <2> HIDE DEF m
  <2> QED
    BY <1>1, <1>2, <2>1, <2>3, NodeCutover, Zenon
<1> QED
  BY <1>7, <1>8, <1>9, Zenon

\* The preparation of one unit.
LEMMA PrepUnitCutover ==
    ASSUME RerunsSucceed, SchedulerInv, CutoverInv, NEW n \in Nodes, NEW u \in UnitIds,
           PrepUnit(n, u)
    PROVE  CutoverInv'
<1>1. PICK ok \in BOOLEAN :
          /\ ok \/ MayFail("prep", disk[u] # "reindexed")
          /\ disk' = IF ok /\ disk[u] = "reindexed" THEN [disk EXCEPT ![u] = "merged"] ELSE disk
          /\ LET m == [mem[n] EXCEPT !.todo = mem[n].todo \ {u},
                                     !.prepErr = mem[n].prepErr \/ ~ok]
             IN  mem' = [mem EXCEPT ![n] = IF m.todo = {} THEN PrepSettled(m, n) ELSE m]
  BY Zenon DEF PrepUnit
<1> DEFINE m == mem[n]
           err == m.prepErr \/ ~ok
           w == [m EXCEPT !.todo = m.todo \ {u}, !.prepErr = err]
<1>2. m.pc = "prep" /\ u \in m.todo /\ UNCHANGED <<setup, task, flipped, inflight>>
  BY Zenon DEF PrepUnit
<1>3. /\ World(setup, task, disk) /\ task \in TaskOn(UnitIds) /\ m \in Memory
      /\ Good(n, m, setup, task, disk) /\ Careful(n, m, setup, task, disk, flipped)
      /\ Outcome(setup, task, disk, flipped) /\ Moves(setup, task, task)
  BY NodeFacts, Zenon
<1>4. /\ \A v \in UnitIds \ {u} : disk'[v] = disk[v]
      /\ disk'[u] = disk[u] \/ (disk[u] = "reindexed" /\ disk'[u] = "merged")
      /\ ~ok => disk' = disk
  <2>1. disk \in [UnitIds -> UnitDisk]
    BY Zenon DEF SchedulerInv, TypeOK
  <2> QED
    BY <1>1, <2>1
<1>5. /\ Listed(m.clone, task) /\ m.clone.status = "PREPARING" /\ task.barrier
      /\ OwnGroups(m.clone, n) \subseteq m.prepFired /\ u \in LocalUnits(n)
  BY <1>2, <1>3, Zenon DEF Good, Careful, Listed
<1>6. task.units[u].group \in m.prepFired /\ UnitTerminal(task.units[u]) /\ UnitToNode[u] = n
  <2>1. task.units[u].group \in OwnGroups(m.clone, n)
    BY <1>5, GroupsOfOwner
  <2>2. UnitTerminal(task.units[u])
    BY <1>5, Zenon DEF Listed, UnitTerminal
  <2> QED
    BY <1>5, <2>1, <2>2, ZenonT(30) DEF LocalUnits
<1>7. ~ok => disk'[u] \notin Merged
  <2> SUFFICES ASSUME ~ok PROVE disk[u] \notin Merged
    BY <1>4, Zenon
  <2>1. "prep" \in setup.fails /\ (disk[u] # "reindexed" => setup.rerunFails) /\ setup \in Setups
    BY <1>1, Zenon DEF MayFail, SchedulerInv
  <2>2. ~setup.rerunFails
    BY <2>1 DEF RerunsSucceed
  <2> QED
    BY <2>1, <2>2, Zenon DEF Merged
<1>8. DiskGrows(disk, disk', task)
  BY <1>4 DEF DiskGrows, Merged, NewData
<1>9. World(setup, task, disk')
  BY <1>3, <1>4, <1>6, Zenon DEF World, Merged, NewData
<1>10. /\ \A v \in UnitIds : UnitToNode[v] # n => disk'[v] = disk[v]
       /\ disk'[u] \in NewData => disk[u] \in NewData
  BY <1>4, <1>6, Zenon DEF NewData
<1>11. Outcome(setup, task, disk', flipped)
  BY <1>3, <1>8, OutcomeGrows, SMTT(30), Z3T(30)
<1>12. err \in BOOLEAN /\ (m.prepErr => err) /\ (err => m.prepErr \/ ~ok)
  BY <1>3, Zenon DEF Memory
<1>13. mem' = [mem EXCEPT ![n] = IF w.todo = {} THEN PrepSettled(w, n) ELSE w]
  BY <1>1
<1> HIDE DEF err
<1>14. /\ w \in Memory /\ w.todo = m.todo \ {u} /\ w.prepErr = err /\ w.pc = "prep"
       /\ w.prepFired = m.prepFired /\ w.clone = m.clone /\ w.eff = m.eff
       /\ w.swapErr = m.swapErr /\ w.swapFired = m.swapFired /\ w.completed = m.completed
  BY <1>2, <1>3, <1>12, ZenonT(30) DEF Memory
<1> HIDE DEF w
<1>15. PrepErrSeen(n, w, w.todo, task, disk')
  <2> SUFFICES ASSUME err, ~Lost(task)
               PROVE  \E v \in LocalUnits(n) \ w.todo :
                         task.units[v].group \in w.prepFired /\ disk'[v] \notin Merged
    BY <1>5, <1>14, Zenon DEF PrepErrSeen
  <2>1. CASE m.prepErr
    <3>1. PICK v \in LocalUnits(n) \ m.todo :
              task.units[v].group \in m.prepFired /\ disk[v] \notin Merged
      BY <1>2, <1>3, <2>1, Zenon DEF Careful, PrepErrSeen
    <3>2. v \in UnitIds \ {u} /\ v \notin w.todo
      BY <1>2, <1>14, Zenon DEF LocalUnits
    <3> QED
      BY <1>4, <1>14, <3>1, <3>2, ZenonT(30)
  <2>2. CASE ~ok
    BY <1>5, <1>6, <1>7, <1>14, <2>2, ZenonT(30)
  <2> QED
    BY <1>12, <2>1, <2>2, Zenon
<1>16. SwapErrSeen(n, w, {}, setup, task, disk')
  <2>1. SwapErrSeen(n, m, {}, setup, task, disk)
    BY <1>2, <1>3, Zenon DEF Careful
  <2>2. \A v \in LocalUnits(n) : disk[v] \notin NewData => disk'[v] \notin NewData
    BY <1>4, <1>10, Zenon DEF LocalUnits
  <2> QED
    BY <1>14, <2>1, <2>2, Zenon DEF SwapErrSeen
<1>17. w.completed => Settled(task, disk', flipped)
  <2>1. m.completed => Settled(task, disk, flipped)
    BY <1>2, <1>3, Zenon DEF Careful
  <2>2. Swapped(disk) => Swapped(disk')
    BY <1>8, SwappedGrows, Zenon
  <2> QED
    BY <1>14, <2>1, <2>2, Zenon DEF Settled
<1>18. /\ Behind(w.clone, setup, task) /\ Aware(w, task) /\ w.clone.barrier
       /\ w.todo \subseteq LocalUnits(n)
  BY <1>2, <1>3, <1>14, Zenon DEF Careful, Aware
<1>19. ASSUME w.todo # {} PROVE Careful(n, w, setup, task, disk', flipped)
  BY <1>14, <1>15, <1>16, <1>17, <1>18, ZenonT(30) DEF Careful
<1>20. ASSUME w.todo = {} PROVE Careful(n, PrepSettled(w, n), setup, task, disk', flipped)
  <2>1. Midway(n, w, setup, task, disk', flipped)
    BY <1>15, <1>16, <1>17, <1>18, <1>20, ZenonT(30) DEF Midway
  <2> QED
    BY <1>5, <1>9, <1>11, <1>14, <2>1, PrepSettledCareful, SMTT(30), Z3T(30)
<1> DEFINE x == IF w.todo = {} THEN PrepSettled(w, n) ELSE w
<1>21. Careful(n, x, setup, task, disk', flipped) /\ mem' = [mem EXCEPT ![n] = x]
  BY <1>13, <1>19, <1>20, ZenonT(30)
<1> HIDE DEF m, x
<1> QED
  BY <1>2, <1>3, <1>8, <1>10, <1>11, <1>21, NodeCutover, Zenon

\* The swap of one unit.
LEMMA SwapUnitCutover ==
    ASSUME RerunsSucceed, SchedulerInv, CutoverInv, NEW n \in Nodes, NEW u \in UnitIds,
           SwapUnit(n, u)
    PROVE  CutoverInv'
<1>1. PICK ok \in BOOLEAN :
          /\ ok \/ MayFail("swap", disk[u] \in {"swapped", "promoted"})
          /\ \E d \in (IF ok THEN {SwapSuccessLeaves(disk[u])} ELSE SwapFailureLeaves(disk[u])) :
                disk' = [disk EXCEPT ![u] = d]
          /\ LET m == [mem[n] EXCEPT !.todo = mem[n].todo \ {u},
                                     !.swapErr = mem[n].swapErr \/ ~ok]
             IN  mem' = [mem EXCEPT ![n] = IF m.todo = {} THEN SwapSettled(m, n) ELSE m]
  BY Zenon DEF SwapUnit
<1> DEFINE m == mem[n]
           err == m.swapErr \/ ~ok
           w == [m EXCEPT !.todo = m.todo \ {u}, !.swapErr = err]
<1>2. m.pc = "swap" /\ u \in m.todo /\ UNCHANGED <<setup, task, flipped, inflight>>
  BY Zenon DEF SwapUnit
<1>3. /\ task \in TaskOn(UnitIds) /\ m \in Memory
      /\ Careful(n, m, setup, task, disk, flipped)
      /\ Outcome(setup, task, disk, flipped) /\ Moves(setup, task, task)
  BY NodeFacts, Zenon
<1>4. /\ \A v \in UnitIds \ {u} : disk'[v] = disk[v]
      /\ \/ disk'[u] = disk[u] \/ disk'[u] \in NewData
         \/ disk[u] = "reindexed" /\ disk'[u] = "merged"
      /\ ~ok => disk'[u] = disk[u] \/ disk'[u] = "merged"
  <2>1. disk \in [UnitIds -> UnitDisk]
    BY Zenon DEF SchedulerInv, TypeOK
  <2> QED
    BY <1>1, <2>1, SMTT(30), Z3T(30) DEF SwapSuccessLeaves, SwapFailureLeaves, NewData
<1>5. /\ u \in LocalUnits(n) /\ UnitToNode[u] = n /\ task.units[u].group \in m.swapFired
      /\ Lost(task) \/ ~m.prepErr
  BY <1>2, <1>3, Zenon DEF Careful, LocalUnits
<1>6. ~ok => "swap" \in setup.fails /\ disk'[u] \notin NewData
  <2> SUFFICES ASSUME ~ok PROVE "swap" \in setup.fails /\ disk'[u] \notin NewData
    BY Zenon
  <2>1. "swap" \in setup.fails /\ (disk[u] \in NewData => setup.rerunFails) /\ setup \in Setups
    BY <1>1, Zenon DEF MayFail, SchedulerInv, NewData
  <2>2. ~setup.rerunFails
    BY <2>1, SMTT(30), Z3T(30) DEF RerunsSucceed
  <2> QED
    BY <1>4, <2>1, <2>2, Zenon DEF NewData
<1>7. DiskGrows(disk, disk', task)
  BY <1>4 DEF DiskGrows, Merged, NewData
<1>8. \A v \in UnitIds : UnitToNode[v] # n => disk'[v] = disk[v]
  BY <1>4, <1>5, Zenon
<1>9. Outcome(setup, task, disk', flipped)
  BY <1>3, <1>7, OutcomeGrows, SMTT(30), Z3T(30)
<1>10. err \in BOOLEAN /\ (err => m.swapErr \/ ~ok)
  BY <1>3, Zenon DEF Memory
<1>11. mem' = [mem EXCEPT ![n] = IF w.todo = {} THEN SwapSettled(w, n) ELSE w]
  BY <1>1
<1> HIDE DEF err
<1>12. /\ w \in Memory /\ w.todo = m.todo \ {u} /\ w.swapErr = err /\ w.pc = "swap"
       /\ w.prepErr = m.prepErr /\ w.prepFired = m.prepFired /\ w.swapFired = m.swapFired
       /\ w.clone = m.clone /\ w.eff = m.eff /\ w.completed = m.completed
  BY <1>2, <1>3, <1>10, ZenonT(30) DEF Memory
<1> HIDE DEF w
<1>13. SwapErrSeen(n, w, w.todo, setup, task, disk')
  <2> SUFFICES ASSUME err
               PROVE  /\ "swap" \in setup.fails
                      /\ Lost(task) \/ \E v \in LocalUnits(n) \ w.todo :
                            task.units[v].group \in w.swapFired /\ disk'[v] \notin NewData
    BY <1>12, Zenon DEF SwapErrSeen
  <2>1. CASE m.swapErr
    <3>1. SwapErrSeen(n, m, m.todo, setup, task, disk)
      BY <1>2, <1>3, Zenon DEF Careful
    <3>2. \A v \in LocalUnits(n) \ m.todo : v \in UnitIds \ {u} /\ v \notin w.todo
      BY <1>2, <1>12, Zenon DEF LocalUnits
    <3> QED
      BY <1>4, <1>12, <2>1, <3>1, <3>2, ZenonT(30) DEF SwapErrSeen
  <2>2. CASE ~ok
    BY <1>5, <1>6, <1>12, <2>2, Zenon
  <2> QED
    BY <1>10, <2>1, <2>2, Zenon
<1>14. PrepErrSeen(n, w, {}, task, disk')
  BY <1>2, <1>3, <1>5, <1>12, Zenon DEF Careful, PrepErrSeen
<1>15. w.completed => Settled(task, disk', flipped)
  <2>1. m.completed => Settled(task, disk, flipped)
    BY <1>2, <1>3, ZenonT(30) DEF Careful
  <2>2. Swapped(disk) => Swapped(disk')
    BY <1>7, SwappedGrows, Zenon
  <2> QED
    BY <1>12, <2>1, <2>2, Zenon DEF Settled
<1>16. /\ Behind(w.clone, setup, task) /\ Aware(w, task) /\ (Lost(task) \/ ~w.prepErr)
       /\ \A v \in w.todo : v \in LocalUnits(n) /\ task.units[v].group \in w.swapFired
  BY <1>2, <1>3, <1>12, Zenon DEF Careful, Aware
<1>17. ASSUME w.todo # {} PROVE Careful(n, w, setup, task, disk', flipped)
  BY <1>12, <1>13, <1>14, <1>15, <1>16, ZenonT(30) DEF Careful
<1>18. ASSUME w.todo = {} PROVE Careful(n, SwapSettled(w, n), setup, task, disk', flipped)
  <2>1. Midway(n, w, setup, task, disk', flipped)
    BY <1>13, <1>14, <1>15, <1>16, <1>18, ZenonT(30) DEF Midway
  <2> QED
    BY <1>12, <2>1, SwapSettledCareful
<1> DEFINE x == IF w.todo = {} THEN SwapSettled(w, n) ELSE w
<1>19. Careful(n, x, setup, task, disk', flipped) /\ mem' = [mem EXCEPT ![n] = x]
  BY <1>11, <1>17, <1>18, Zenon
<1> HIDE DEF m, x
<1> QED
  BY <1>2, <1>3, <1>7, <1>8, <1>9, <1>19, NodeCutover, Zenon

\* tick, up to its first callback or Raft write.
LEMMA TickCutover ==
    ASSUME SchedulerInv, CutoverInv, NEW n \in Nodes, Tick(n)
    PROVE  CutoverInv'
<1> DEFINE m == mem[n]
           b == IF m.booted THEN m ELSE PreMark(m, task, n)
           c == Reconciled(b, task, n)
           w == [c EXCEPT !.clone = task, !.eff = task.status]
<1>1. /\ m.pc = "idle" /\ mem' = [mem EXCEPT ![n] = EnterTick(w, n)]
      /\ UNCHANGED <<setup, task, flipped, disk, inflight>>
  BY Zenon DEF Tick
<1>2. /\ task \in TaskOn(UnitIds) /\ Record(setup, task) /\ World(setup, task, disk)
      /\ m \in Memory /\ Good(n, m, setup, task, disk)
      /\ Careful(n, m, setup, task, disk, flipped) /\ Outcome(setup, task, disk, flipped)
      /\ DiskGrows(disk, disk, task) /\ Moves(setup, task, task)
  BY NodeFacts, Zenon
<1>3. Good(n, b, setup, task, disk) /\ b.pc = "idle"
  BY <1>1, <1>2, BootGood
<1>4. Careful(n, b, setup, task, disk, flipped)
  BY <1>1, <1>2, BootCareful
<1> HIDE DEF b
<1>5. Good(n, c, setup, task, disk) /\ c.pc = "idle"
  BY <1>2, <1>3, BootGood
<1>6. Careful(n, c, setup, task, disk, flipped) /\ c \in Memory
  <2>1. b \in Memory /\ c \in Memory
    BY <1>3, <1>5, Zenon DEF Good
  <2> QED
    BY <1>2, <1>3, <1>4, <2>1, BootCareful, SMTT(30), Z3T(30)
<1> HIDE DEF c
<1>7. /\ w \in Memory /\ w.clone = task /\ w.eff = task.status
      /\ w.completed = c.completed /\ SameErrors(w, c)
  BY <1>2, <1>6, ZenonT(30) DEF Memory, TaskOn, SameErrors
<1> HIDE DEF w
<1>8. PrepErrSeen(n, w, {}, task, disk) /\ SwapErrSeen(n, w, {}, setup, task, disk)
  <2>1. PrepErrSeen(n, c, {}, task, disk) /\ SwapErrSeen(n, c, {}, setup, task, disk)
    BY <1>5, <1>6, Zenon DEF Careful
  <2> QED
    BY <1>7, <2>1, ErrorsSeen
<1>9. w.completed => Settled(task, disk, flipped)
  BY <1>5, <1>6, <1>7, Zenon DEF Careful
<1>10. Behind(w.clone, setup, task) /\ Aware(w, task)
  BY <1>7, Zenon DEF Behind, Aware
<1>11. Midway(n, w, setup, task, disk, flipped)
  BY <1>8, <1>9, <1>10, ZenonT(30) DEF Midway
<1>12. Listed(w.clone, task)
  BY <1>2, <1>7, ListedRefl, SMTT(30), Z3T(30)
<1>13. Careful(n, EnterTick(w, n), setup, task, disk, flipped)
  BY <1>2, <1>7, <1>11, <1>12, EnterTickCareful, SMTT(30), Z3T(30)
<1> HIDE DEF m
<1> QED
  BY <1>1, <1>2, <1>13, NodeCutover, Zenon

\* A crash, and a restart after it.
LEMMA CrashRestartCutover ==
    ASSUME SchedulerInv, CutoverInv, NEW n \in Nodes, Crash(n) \/ Restart(n)
    PROVE  CutoverInv'
<1>1. /\ task \in TaskOn(UnitIds) /\ World(setup, task, disk)
      /\ Outcome(setup, task, disk, flipped) /\ DiskGrows(disk, disk, task)
      /\ Moves(setup, task, task) /\ disk \in [UnitIds -> UnitDisk]
  <2>1. disk \in [UnitIds -> UnitDisk]
    BY Zenon DEF SchedulerInv, TypeOK
  <2> QED
    BY <2>1, NodeFacts, Zenon
<1>2. UNCHANGED <<setup, task, flipped, inflight>>
  BY Zenon DEF Crash, Restart
<1>3. CASE Crash(n)
  <2>1. mem' = [mem EXCEPT ![n] = FreshMemory(FALSE, FALSE)] /\ disk' = disk
    BY <1>3, Zenon DEF Crash
  <2>2. Careful(n, FreshMemory(FALSE, FALSE), setup, task, disk, flipped)
    BY FreshCareful, Zenon
  <2> QED
    BY <1>1, <1>2, <2>1, <2>2, NodeCutover, Zenon
<1>4. CASE Restart(n)
  <2> DEFINE f == FreshMemory(TRUE, FALSE)
             b == PreMark(f, task, n)
             c == Reconciled(b, task, n)
  <2>1. \E w \in {f, c} : mem' = [mem EXCEPT ![n] = w]
    BY <1>4, Zenon DEF Restart
  <2>2. disk' = FinalizedOnLoad(n)
    BY <1>4, Zenon DEF Restart
  <2>3. \A u \in UnitIds : /\ disk'[u] = disk[u] \/ (disk[u] = "merged" /\ disk'[u] = "promoted")
                           /\ UnitToNode[u] # n => disk'[u] = disk[u]
    BY <2>2, ZenonT(30) DEF FinalizedOnLoad, LocalUnits
  <2>4. DiskGrows(disk, disk', task)
    BY <2>3 DEF DiskGrows, Merged, NewData
  <2>5. Outcome(setup, task, disk', flipped)
    BY <1>1, <2>4, OutcomeGrows
  <2>6. /\ Good(n, f, setup, task, disk') /\ f.pc = "idle"
        /\ Careful(n, f, setup, task, disk', flipped)
    BY FreshGood, FreshCareful, Zenon
  <2> HIDE DEF f
  <2>7. Good(n, b, setup, task, disk') /\ b.pc = "idle"
    BY <1>1, <2>6, BootGood, SMTT(30), Z3T(30)
  <2>8. Careful(n, b, setup, task, disk', flipped)
    <3>1. f \in Memory
      BY <2>6, Zenon DEF Good
    <3> QED
      BY <1>1, <2>5, <2>6, <3>1, BootCareful, SMTT(30), Z3T(30)
  <2> HIDE DEF b
  <2>9. Careful(n, c, setup, task, disk', flipped)
    <3>1. b \in Memory
      BY <2>7, Zenon DEF Good
    <3> QED
      BY <1>1, <2>5, <2>7, <2>8, <3>1, BootCareful, SMTT(30), Z3T(30)
  <2> HIDE DEF c
  <2>10. PICK w : mem' = [mem EXCEPT ![n] = w] /\ Careful(n, w, setup, task, disk', flipped)
    BY <2>1, <2>6, <2>9, Zenon
  <2> QED
    BY <1>1, <1>2, <2>3, <2>4, <2>5, <2>10, NodeCutover, Zenon
<1> QED
  BY <1>3, <1>4

\* A terminated worker ends its unit, or sees that it was told to stop.
LEMMA EndingCutover ==
    ASSUME SchedulerInv, CutoverInv, NEW n \in Nodes,
           WorkerEnds(n) \/ \E u \in UnitIds : LateUnit(n, u)
    PROVE  CutoverInv'
<1>1. /\ task \in TaskOn(UnitIds) /\ World(setup, task, disk) /\ mem[n] \in Memory
      /\ Careful(n, mem[n], setup, task, disk, flipped)
      /\ Outcome(setup, task, disk, flipped) /\ DiskGrows(disk, disk, task)
      /\ Moves(setup, task, task) /\ disk \in [UnitIds -> UnitDisk]
      /\ mem \in [Nodes -> Memory]
  <2>1. disk \in [UnitIds -> UnitDisk] /\ mem \in [Nodes -> Memory]
    BY Zenon DEF SchedulerInv, TypeOK
  <2> QED
    BY <2>1, NodeFacts, Zenon
<1>2. UNCHANGED <<setup, task, flipped, inflight>>
  BY Zenon DEF WorkerEnds, LateUnit
<1>3. CASE WorkerEnds(n)
  <2> DEFINE w == [mem[n] EXCEPT !.handle = "none"]
  <2>1. mem' = [mem EXCEPT ![n] = w] /\ disk' = disk
    BY <1>3, Zenon DEF WorkerEnds
  <2>2. /\ w.pc = mem[n].pc /\ SameErrors(w, mem[n]) /\ w.completed = mem[n].completed
        /\ w.clone = mem[n].clone /\ w.eff = mem[n].eff /\ w.todo = mem[n].todo
        /\ w.attempts = mem[n].attempts
    BY <1>1, ZenonT(30) DEF Memory, SameErrors
  <2> HIDE DEF w
  <2>3. Careful(n, w, setup, task, disk, flipped)
    BY <1>1, <2>2, ZenonT(30), SMTT(30)
       DEF Careful, SameErrors, PrepErrSeen, SwapErrSeen, Aware, ReadyToComplete
  <2> QED
    BY <1>1, <1>2, <2>1, <2>3, NodeCutover, Zenon
<1>4. ASSUME NEW u \in UnitIds, LateUnit(n, u) PROVE CutoverInv'
  <2>1. /\ UnitToNode[u] = n /\ task.units[u].status = "IN_PROGRESS"
        /\ disk' = [disk EXCEPT ![u] = "reindexed"]
        /\ mem' = [mem EXCEPT ![n] = mem[n]]
    BY <1>1, <1>4 DEF LateUnit
  <2>2. /\ disk'[u] = "reindexed" /\ disk[u] \notin Merged /\ disk[u] \notin NewData
        /\ \A v \in UnitIds \ {u} : disk'[v] = disk[v]
    BY <1>1, <2>1, Zenon DEF World, UnitTerminal, Merged, NewData
  <2>3. DiskGrows(disk, disk', task)
    BY <2>2 DEF DiskGrows
  <2>4. StaysShort(n, disk, disk')
    <3>1. "reindexed" \notin Merged /\ "reindexed" \notin NewData
      BY Zenon DEF Merged, NewData
    <3> QED
      BY <2>2, <3>1, Zenon DEF StaysShort, LocalUnits
  <2>5. Outcome(setup, task, disk', flipped)
    BY <1>1, <2>3, OutcomeGrows
  <2>6. Careful(n, mem[n], setup, task, disk', flipped)
    <3>1. Swapped(disk) => Swapped(disk')
      BY <2>3, SwappedGrows, Zenon
    <3> QED
      BY <1>1, <2>4, <3>1, CarefulMoves
  <2>7. \A v \in UnitIds : UnitToNode[v] # n => disk'[v] = disk[v]
    BY <2>1, <2>2, Zenon
  <2> QED
    BY <1>1, <1>2, <2>1, <2>3, <2>5, <2>6, <2>7, NodeCutover, Zenon
<1> QED
  BY <1>3, <1>4, Zenon

-----------------------------------------------------------------------------
(* The theorems.                                                           *)

\* A new task, nothing flipped and nothing on its way.
LEMMA InitCutover == Init => CutoverInv
<1> SUFFICES ASSUME Init PROVE CutoverInv
  OBVIOUS
<1>1. /\ task.status = "STARTED" /\ flipped = FALSE /\ inflight = {}
      /\ \A k \in Nodes : task.prepAcks[k] = "none" /\ task.postAcks[k] = "none"
  BY Zenon DEF Init, NewTask
<1>2. Outcome(setup, task, disk, flipped)
  BY <1>1, Zenon DEF Outcome
<1>3. \A n \in Nodes : Careful(n, mem[n], setup, task, disk, flipped)
  BY FreshCareful, Zenon DEF Init
<1> QED
  BY <1>1, <1>2, <1>3, Zenon DEF CutoverInv

\* Every step keeps the invariant.
LEMMA NextCutover ==
    ASSUME RerunsSucceed, SchedulerInv, CutoverInv, [Next]_vars
    PROVE  CutoverInv'
<1>1. \A n \in setup.nodes : n \in Nodes
  BY SetupsAssumption DEF SchedulerInv, SetupType
<1>2. ASSUME NEW n \in Nodes, Tick(n) \/ Restart(n) \/ Crash(n) PROVE CutoverInv'
  BY <1>2, TickCutover, CrashRestartCutover, Zenon
<1>3. ASSUME NEW n \in Nodes, TickStep(n) PROVE CutoverInv'
  <2>1. ASSUME NEW u \in UnitIds, PrepUnit(n, u) \/ SwapUnit(n, u) PROVE CutoverInv'
    BY <2>1, PrepUnitCutover, SwapUnitCutover, Zenon
  <2>2. ASSUME PrepAck(n) \/ SwapAck(n) PROVE CutoverInv'
    BY <2>2, PrepAckCutover, SwapAckCutover, Zenon
  <2>3. ASSUME FlipSchema(n) \/ TerminalCleanup(n) \/ NothingToComplete(n) PROVE CutoverInv'
    BY <2>3, CompletedCutover
  <2>4. ASSUME MarkFailed(n) \/ Finalize(n) PROVE CutoverInv'
    BY <2>4, EndOfTickCutover, SMTT(30), Z3T(30)
  <2> QED
    BY <1>3, <2>1, <2>2, <2>3, <2>4, Zenon DEF TickStep
<1>4. ASSUME NEW n \in Nodes, NEW u \in UnitIds, Work(n, u) \/ FailUnit(n, u) PROVE CutoverInv'
  BY <1>4, WorkCutover, SMTT(30), Z3T(30) DEF Work
<1>5. ASSUME NEW n \in Nodes, WorkerEnds(n) \/ \E u \in UnitIds : LateUnit(n, u)
      PROVE  CutoverInv'
  BY <1>5, EndingCutover, Zenon
<1>6. CASE UNCHANGED vars
  BY <1>6 DEF vars, CutoverInv
<1> QED
  BY <1>1, <1>2, <1>3, <1>4, <1>5, <1>6, EnvironmentCutover, ZenonT(30), SMTT(30)
     DEF Next, Environment

\* The cutover of any number of nodes: what a node remembers of its errors is
\* still to see on its disk, its copy of the record is behind the record, and a
\* command on its way to end the task is one the record may take.
THEOREM CutoverInvariant == RerunsSucceed => (Spec => []CutoverInv)
<1> SUFFICES ASSUME RerunsSucceed PROVE Spec => []CutoverInv
  OBVIOUS
<1>1. SchedulerInv /\ CutoverInv /\ [Next]_vars => CutoverInv'
  BY NextCutover
<1> QED
  BY <1>1, InitCutover, SchedulerInvariant, PTL DEF Spec

\* A FINISHED task is a finished migration: MarkTaskFinalized only succeeds when
\* every replica serves the new data and the schema says so.
THEOREM CutoverFinishedIsComplete == RerunsSucceed => (Spec => []FinishedIsComplete)
<1> SUFFICES ASSUME RerunsSucceed PROVE Spec => []FinishedIsComplete
  OBVIOUS
<1>1. CutoverInv => FinishedIsComplete
  BY Zenon DEF CutoverInv, Outcome, FinishedIsComplete, Swapped, OnNewData, NewData
<1> QED
  BY <1>1, CutoverInvariant, PTL

\* When no swap and no flip fails, the schema is flipped only after the success
\* of every owner of a unit is in the record.
THEOREM CutoverFlipNeedsEveryAck == RerunsSucceed => (Spec => []FlipNeedsEveryAck)
<1> SUFFICES ASSUME RerunsSucceed PROVE Spec => []FlipNeedsEveryAck
  OBVIOUS
<1>1. SchedulerInv /\ CutoverInv => FlipNeedsEveryAck
  <2> SUFFICES ASSUME SchedulerInv, CutoverInv, CutoverSound, flipped
               PROVE  AllUnitsTerminal(task) /\ AllPostCompletionAcksSuccessful(task)
    BY Zenon DEF FlipNeedsEveryAck
  <2>1. /\ task.status \in {"SWAPPING", "FINISHED"}
        /\ \A u \in UnitIds : task.postAcks[UnitToNode[u]] = "ok"
    BY Zenon DEF CutoverInv, Outcome, Smooth, CutoverSound
  <2>2. /\ task \in TaskOn(UnitIds) /\ TaskInv(task)
        /\ \A u \in UnitIds : task.units[u].node \in {NoNode, UnitToNode[u]}
    BY Zenon DEF SchedulerInv, World, Record
  <2>3. DOMAIN task.units = UnitIds
    BY <2>2, Zenon DEF TaskOn
  <2>4. AllUnitsTerminal(task)
    BY <2>1, <2>2, Zenon DEF TaskInv, AllUnitsTerminal, UnitTerminal
  <2>5. AllPostCompletionAcksSuccessful(task)
    <3> SUFFICES ASSUME NEW u \in UnitIds, task.units[u].node # NoNode
                 PROVE  task.postAcks[task.units[u].node] = "ok"
      BY <2>3 DEF AllPostCompletionAcksSuccessful, NodesWithLocalUnits
    <3>1. task.units[u].node = UnitToNode[u]
      BY <2>2, Zenon
    <3> QED
      BY <2>1, <3>1, Zenon
  <2> QED
    BY <2>4, <2>5
<1> QED
  BY <1>1, SchedulerInvariant, CutoverInvariant, PTL

-----------------------------------------------------------------------------
(* The flip is not overtaken, whatever fails before the cutover.           *)

Committed(t) == t.status \in {"SWAPPING", "FINISHED"}

\* A command that does not fail a committed task.
Harmless(cmd) == cmd.type # "fail" /\ (cmd.type = "postAck" => cmd.ok)

\* A memory that does not: a copy that is committed is one of a committed task.
Steady(m, t) ==
    /\ ~m.swapErr /\ m.pc # "fail"
    /\ m.pc # "idle" /\ Committed(m.clone) => Committed(t)

FlipInv ==
    Smooth(setup) => /\ flipped => Committed(task)
                     /\ \A cmd \in inflight : Harmless(cmd)
                     /\ \A n \in Nodes : Steady(mem[n], task)

\* The phase w that a tick enters with memory m.
Enters(w, m) ==
    /\ w.swapErr = m.swapErr /\ w.handle = m.handle
    /\ w.pc # "fail" /\ (w.pc = "idle" \/ w.clone = m.clone)

\* No phase of a tick is entered with another error, worker or copy.
LEMMA PhaseEnters ==
    ASSUME NEW m \in Memory, NEW n
    PROVE  /\ Enters(Idle(m), m) /\ Enters(EnterFinalize(m), m) /\ Enters(EnterCompleted(m), m)
           /\ Enters(SwapSettled(m, n), m)
<1>1. Enters(Idle(m), m)
  BY Zenon DEF Enters, Idle, Memory
<1>2. Enters([m EXCEPT !.pc = "finalize"], m) /\ Enters([m EXCEPT !.pc = "swapAck"], m)
  BY Zenon DEF Enters, Memory
<1>3. Enters([m EXCEPT !.pc = "completed", !.completed = TRUE, !.known = TRUE], m)
  BY Zenon DEF Enters, Memory
<1>4. Enters(EnterFinalize(m), m)
  BY <1>1, <1>2, Zenon DEF EnterFinalize
<1>5. Enters(EnterCompleted(m), m)
  BY <1>3, <1>4, Zenon DEF EnterCompleted
<1> QED
  BY <1>1, <1>2, <1>4, <1>5, Zenon DEF SwapSettled

\* The same of the swap.
LEMMA SwapEnters ==
    ASSUME NEW m \in Memory, NEW n \in Nodes, m.clone \in TaskOn(UnitIds)
    PROVE  Enters(EnterSwap(m, n), m)
<1> DEFINE due  == {g \in OwnGroups(m.clone, n) \ m.swapFired : SwapDue(m, g)}
           work == SwapWork(m, due, n)
           w == [m EXCEPT !.swapFired = m.swapFired \cup due, !.todo = work, !.pc = "swap",
                          !.known = m.known \/ due # {}]
<1>1. due \subseteq Groups /\ work \subseteq UnitIds
  <2>1. DOMAIN m.clone.units = UnitIds /\ \A u \in UnitIds : m.clone.units[u].group \in Groups
    BY DEF TaskOn, Unit
  <2> QED
    BY <2>1, Zenon DEF OwnGroups, TaskGroups, SwapWork, UnitsOf, LocalGroupUnitIDs
<1>2. EnterSwap(m, n) = IF work = {} THEN SwapSettled(w, n) ELSE w
  BY ZenonT(30) DEF EnterSwap
<1> HIDE DEF work, due
<1>3. w \in Memory
  BY <1>1, ZenonT(30) DEF Memory, Steps
<1>4. w.swapErr = m.swapErr /\ w.handle = m.handle /\ w.pc = "swap" /\ w.clone = m.clone
  BY Zenon DEF Memory
<1> HIDE DEF w
<1>5. Enters(SwapSettled(w, n), w)
  BY <1>3, PhaseEnters
<1> QED
  BY <1>2, <1>4, <1>5, Zenon DEF Enters

\* And of the preparation and of the tick as a whole.
LEMMA TickEnters ==
    ASSUME NEW m \in Memory, NEW n \in Nodes, m.clone \in TaskOn(UnitIds)
    PROVE  Enters(PrepSettled(m, n), m) /\ Enters(EnterTick(m, n), m)
<1>0. ASSUME NEW x \in Memory, x.clone \in TaskOn(UnitIds)
      PROVE  Enters(PrepSettled(x, n), x)
  <2>1. Enters([x EXCEPT !.pc = "prepAck"], x)
    BY Zenon DEF Enters, Memory
  <2> QED
    BY <1>0, <2>1, SwapEnters, Zenon DEF PrepSettled
<1> DEFINE due == OwnGroups(m.clone, n) \ m.prepFired
           work == UnitsOf(m.clone, due, n)
           w == [m EXCEPT !.prepFired = m.prepFired \cup due, !.todo = work, !.pc = "prep",
                          !.known = m.known \/ due # {}]
<1>1. due \subseteq Groups /\ work \subseteq UnitIds
  <2>1. DOMAIN m.clone.units = UnitIds /\ \A u \in UnitIds : m.clone.units[u].group \in Groups
    BY DEF TaskOn, Unit
  <2> QED
    BY <2>1, SMTT(30), Z3T(30) DEF OwnGroups, TaskGroups, UnitsOf, LocalGroupUnitIDs
<1>2. EnterPrep(m, n) \in {EnterSwap(m, n), PrepSettled(w, n), w}
  BY ZenonT(30) DEF EnterPrep
<1> HIDE DEF work, due
<1>3. w \in Memory
  BY <1>1, ZenonT(30) DEF Memory, Steps
<1>4. w.swapErr = m.swapErr /\ w.handle = m.handle /\ w.pc = "prep" /\ w.clone = m.clone
  BY Zenon DEF Memory
<1> HIDE DEF w
<1>5. Enters(PrepSettled(w, n), w)
  BY <1>0, <1>3, <1>4, Zenon
<1>6. Enters(PrepSettled(w, n), m) /\ Enters(w, m)
  BY <1>4, <1>5, Zenon DEF Enters
<1>7. Enters(EnterPrep(m, n), m)
  BY <1>2, <1>6, SwapEnters, Zenon
<1> QED
  BY <1>0, <1>7, PhaseEnters, Zenon DEF EnterTick

\* A tick that enters its next phase stays steady.
LEMMA EntersSteady ==
    ASSUME NEW w, NEW m, NEW t, Enters(w, m), ~m.swapErr, Committed(m.clone) => Committed(t)
    PROVE  Steady(w, t)
BY Zenon DEF Enters, Steady, Committed

\* No harmless command takes a task out of its cutover.
LEMMA StaysCommitted ==
    ASSUME NEW t \in TaskOn(UnitIds), NEW cmd \in Command, Harmless(cmd), ~Refused(cmd, t),
           Committed(t)
    PROVE  Committed(Applied(cmd, t))
<1>1. CASE cmd.type = "postAck" /\ PostAckApplies(t, cmd.node)
  <2>1. Applied(cmd, t) = PostAcked(t, cmd.node, cmd.ok, 1) /\ cmd.ok
    BY <1>1, Zenon DEF Applied, Harmless
  <2>2. PostAcked(t, cmd.node, cmd.ok, 1) = [t EXCEPT !.postAcks[cmd.node] = Ack(cmd.ok)]
    BY <2>1, Zenon DEF PostAcked
  <2> QED
    BY <2>1, <2>2, Zenon DEF Committed, TaskOn
<1>2. CASE cmd.type = "finalize" /\ t.status = "SWAPPING"
  <2>1. Applied(cmd, t) = markTerminal(t, "FINISHED", 1)
    BY <1>2, Zenon DEF Applied
  <2> QED
    BY <2>1, Zenon DEF Committed, markTerminal, TaskOn
<1>3. cmd.type \notin {"claim", "done", "failed"}
  BY Zenon DEF Refused, findStartedUnit, Committed
<1>4. ~PrepAckApplies(t, cmd.node)
  BY Zenon DEF PrepAckApplies, Committed
<1>5. cmd.type # "fail"
  BY Zenon DEF Harmless
<1> QED
  BY <1>1, <1>2, <1>3, <1>4, <1>5, SMTT(30), Z3T(30) DEF Applied

\* A step that keeps the task in its cutover and every memory steady.
LEMMA SteadyStep ==
    ASSUME FlipInv, setup' = setup, Smooth(setup) =>
               /\ Committed(task) => Committed(task')
               /\ flipped' => Committed(task')
               /\ \A cmd \in inflight' : cmd \in inflight \/ Harmless(cmd)
               /\ \A k \in Nodes : mem'[k] = mem[k] \/ Steady(mem'[k], task')
    PROVE  FlipInv'
<1> SUFFICES ASSUME Smooth(setup)
             PROVE  /\ flipped' => Committed(task')
                    /\ \A cmd \in inflight' : Harmless(cmd)
                    /\ \A k \in Nodes : Steady(mem'[k], task')
  BY Zenon DEF FlipInv
<1>1. \A cmd \in inflight' : Harmless(cmd)
  BY Zenon DEF FlipInv
<1>2. ASSUME NEW k \in Nodes PROVE Steady(mem'[k], task')
  BY Zenon DEF FlipInv, Steady
<1> QED
  BY <1>1, <1>2, Zenon

\* A Raft write of a node.
LEMMA SteadyCall ==
    ASSUME SchedulerInv, FlipInv, NEW n \in Nodes, NEW cmd \in Command, NEW onOk, NEW onErr,
           Call(n, cmd, onOk, onErr), UNCHANGED <<setup, flipped>>,
           Smooth(setup) => Harmless(cmd) /\ Steady(onOk, task) /\ Steady(onErr, task)
    PROVE  FlipInv'
<1>1. task \in TaskOn(UnitIds) /\ mem \in [Nodes -> Memory]
  BY Zenon DEF SchedulerInv, TypeOK
<1>2. /\ task' = task \/ (~Refused(cmd, task) /\ task' = Applied(cmd, task))
      /\ inflight' = inflight \/ inflight' = inflight \cup {cmd}
      /\ \E w \in {onOk, onErr} : mem' = [mem EXCEPT ![n] = w]
  BY Zenon DEF Call
<1>3. Smooth(setup) /\ Committed(task) => Committed(task')
  BY <1>1, <1>2, StaysCommitted, Zenon
<1>4. Smooth(setup) => \A k \in Nodes : mem'[k] = mem[k] \/ Steady(mem'[k], task')
  BY <1>1, <1>2, <1>3, Zenon DEF Steady
<1>5. Smooth(setup) /\ flipped' => Committed(task')
  BY <1>3, Zenon DEF FlipInv
<1>6. Smooth(setup) => \A c \in inflight' : c \in inflight \/ Harmless(c)
  BY <1>2, Zenon
<1> QED
  BY <1>3, <1>4, <1>5, <1>6, SteadyStep, Zenon

\* A step of a node that leaves the record alone.
LEMMA SteadyNode ==
    ASSUME SchedulerInv, FlipInv, NEW n \in Nodes, NEW w, mem' = [mem EXCEPT ![n] = w],
           UNCHANGED <<setup, task, inflight>>,
           Smooth(setup) => Steady(w, task) /\ (flipped' => flipped \/ Committed(task))
    PROVE  FlipInv'
<1>1. mem \in [Nodes -> Memory]
  BY Zenon DEF SchedulerInv, TypeOK
<1>2. Smooth(setup) => \A k \in Nodes : mem'[k] = mem[k] \/ Steady(mem'[k], task')
  BY <1>1, Zenon
<1>3. Smooth(setup) /\ flipped' => Committed(task')
  BY Zenon DEF FlipInv
<1> QED
  BY <1>2, <1>3, SteadyStep, Zenon

\* What is known of a node in its tick.
LEMMA SteadyFacts ==
    ASSUME SchedulerInv, FlipInv, NEW n \in Nodes
    PROVE  /\ mem[n] \in Memory /\ (mem[n].pc # "idle" => mem[n].clone \in TaskOn(UnitIds))
           /\ task \in TaskOn(UnitIds) /\ (Smooth(setup) => Steady(mem[n], task))
BY Zenon DEF SchedulerInv, TypeOK, FlipInv, Good, Listed

\* The units of a phase, one by one.
LEMMA UnitFlip ==
    ASSUME SchedulerInv, FlipInv, NEW n \in Nodes, NEW u \in UnitIds,
           PrepUnit(n, u) \/ SwapUnit(n, u)
    PROVE  FlipInv'
<1> DEFINE m == mem[n]
<1>1. m \in Memory /\ m.clone \in TaskOn(UnitIds) /\ (Smooth(setup) => Steady(m, task))
  BY SteadyFacts, ZenonT(30) DEF PrepUnit, SwapUnit
<1>2. CASE PrepUnit(n, u)
  <2>1. PICK ok \in BOOLEAN :
            LET x == [m EXCEPT !.todo = m.todo \ {u}, !.prepErr = m.prepErr \/ ~ok]
            IN  mem' = [mem EXCEPT ![n] = IF x.todo = {} THEN PrepSettled(x, n) ELSE x]
    BY <1>2, ZenonT(30) DEF PrepUnit
  <2> DEFINE x == [m EXCEPT !.todo = m.todo \ {u}, !.prepErr = m.prepErr \/ ~ok]
  <2>2. x \in Memory /\ x.clone = m.clone /\ x.swapErr = m.swapErr /\ x.pc = "prep"
    BY <1>1, <1>2, ZenonT(30) DEF Memory, PrepUnit
  <2>3. \E w : mem' = [mem EXCEPT ![n] = w] /\ w \in {x, PrepSettled(x, n)}
    BY <2>1, Zenon
  <2> HIDE DEF x
  <2>4. Enters(PrepSettled(x, n), x) /\ Enters(x, x)
    BY <1>1, <2>2, TickEnters, Zenon DEF Enters
  <2>5. Smooth(setup) => ~x.swapErr /\ (Committed(x.clone) => Committed(task))
    BY <1>1, <1>2, <2>2, Zenon DEF Steady, PrepUnit
  <2>6. Smooth(setup) => Steady(PrepSettled(x, n), task) /\ Steady(x, task)
    BY <2>4, <2>5, EntersSteady, Zenon
  <2>7. UNCHANGED <<setup, task, inflight, flipped>>
    BY <1>2, Zenon DEF PrepUnit
  <2> QED
    BY <2>3, <2>6, <2>7, SteadyNode, ZenonT(30)
<1>3. CASE SwapUnit(n, u)
  <2>1. PICK ok \in BOOLEAN :
            /\ ok \/ "swap" \in setup.fails
            /\ LET x == [m EXCEPT !.todo = m.todo \ {u}, !.swapErr = m.swapErr \/ ~ok]
               IN  mem' = [mem EXCEPT ![n] = IF x.todo = {} THEN SwapSettled(x, n) ELSE x]
    BY <1>3, ZenonT(30) DEF SwapUnit, MayFail
  <2> DEFINE x == [m EXCEPT !.todo = m.todo \ {u}, !.swapErr = m.swapErr \/ ~ok]
  <2>2. /\ x \in Memory /\ x.clone = m.clone /\ x.pc = "swap"
        /\ x.swapErr = (m.swapErr \/ ~ok)
    BY <1>1, <1>3, ZenonT(30) DEF Memory, SwapUnit
  <2>3. \E w : mem' = [mem EXCEPT ![n] = w] /\ w \in {x, SwapSettled(x, n)}
    BY <2>1, Zenon
  <2> HIDE DEF x
  <2>4. Enters(SwapSettled(x, n), x) /\ Enters(x, x)
    BY <2>2, PhaseEnters, Zenon DEF Enters
  <2>5. Smooth(setup) => ok
    BY <2>1, Zenon DEF Smooth
  <2>6. Smooth(setup) => ~x.swapErr /\ (Committed(x.clone) => Committed(task))
    BY <1>1, <1>3, <2>2, <2>5, Zenon DEF Steady, SwapUnit
  <2>7. Smooth(setup) => Steady(SwapSettled(x, n), task) /\ Steady(x, task)
    BY <2>4, <2>6, EntersSteady, Zenon
  <2>8. UNCHANGED <<setup, task, inflight, flipped>>
    BY <1>3, Zenon DEF SwapUnit
  <2> QED
    BY <2>3, <2>7, <2>8, SteadyNode, Zenon
<1> QED
  BY <1>2, <1>3

\* The acks of a node.
LEMMA AckFlip ==
    ASSUME SchedulerInv, FlipInv, NEW n \in Nodes, PrepAck(n) \/ SwapAck(n)
    PROVE  FlipInv'
<1> DEFINE m == mem[n]
<1>1. /\ m \in Memory /\ m.clone \in TaskOn(UnitIds) /\ m.prepErr \in BOOLEAN
      /\ m.swapErr \in BOOLEAN /\ m.pc # "idle" /\ (Smooth(setup) => Steady(m, task))
  BY SteadyFacts, Zenon DEF PrepAck, SwapAck, Memory
<1>2. Smooth(setup) => ~m.swapErr /\ (Committed(m.clone) => Committed(task))
  BY <1>1, Zenon DEF Steady
<1>3. CASE PrepAck(n)
  <2> DEFINE ok == ~m.prepErr
             a == Ack(ok)
             e == IF ok THEN m.eff ELSE "FAILED"
             x == [m EXCEPT !.prepAcked = m.known, !.clone.prepAcks[n] = a, !.eff = e]
             cmd == [type |-> "prepAck", node |-> n, ok |-> ok]
  <2>1. Call(n, cmd, EnterSwap(x, n), EnterSwap(m, n)) /\ UNCHANGED <<setup, flipped>>
    BY <1>3, Zenon DEF PrepAck, AfterPrepAck
  <2>2. cmd \in Command /\ Harmless(cmd)
    BY <1>1, SMTT(30), Z3T(30) DEF Command, Harmless
  <2>3. a \in AckStatus /\ e \in TaskStatus
    BY <1>1, SMTT(30), Z3T(30) DEF Ack, AckStatus, Memory, TaskStatus
  <2> HIDE DEF cmd, a, e, ok
  <2>4. /\ [m.clone EXCEPT !.prepAcks[n] = a] \in TaskOn(UnitIds)
        /\ [m.clone EXCEPT !.prepAcks[n] = a].status = m.clone.status
    BY <1>1, <2>3 DEF TaskOn
  <2>5. /\ x.clone = [m.clone EXCEPT !.prepAcks[n] = a] /\ x.swapErr = m.swapErr
        /\ x \in Memory
    BY <1>1, <2>3, <2>4, ZenonT(30) DEF Memory
  <2> HIDE DEF x
  <2>6. Enters(EnterSwap(x, n), x) /\ Enters(EnterSwap(m, n), m)
    BY <1>1, <2>4, <2>5, SwapEnters, Zenon
  <2>7. Smooth(setup) => ~x.swapErr /\ (Committed(x.clone) => Committed(task))
    BY <1>2, <2>4, <2>5, Zenon DEF Committed
  <2>8. Smooth(setup) => Steady(EnterSwap(x, n), task) /\ Steady(EnterSwap(m, n), task)
    BY <1>2, <2>6, <2>7, EntersSteady, Zenon
  <2> QED
    BY <2>1, <2>2, <2>8, SteadyCall, Zenon
<1>4. CASE SwapAck(n)
  <2> DEFINE ok == ~m.swapErr
             a == Ack(ok)
             e == IF ~ok /\ m.eff = "SWAPPING" THEN "FAILED" ELSE m.eff
             x == [m EXCEPT !.swapAcked = m.known, !.clone.postAcks[n] = a, !.eff = e]
             cmd == [type |-> "postAck", node |-> n, ok |-> ok]
  <2>1. Call(n, cmd, EnterCompleted(x), EnterCompleted(m)) /\ UNCHANGED <<setup, flipped>>
    BY <1>4, Zenon DEF SwapAck, AfterSwapAck
  <2>2. cmd \in Command /\ (Smooth(setup) => Harmless(cmd))
    BY <1>1, <1>2, ZenonT(30) DEF Command, Harmless
  <2>3. a \in AckStatus /\ e \in TaskStatus
    BY <1>1, SMTT(30), Z3T(30) DEF Ack, AckStatus, Memory, TaskStatus
  <2> HIDE DEF cmd, a, e, ok
  <2>4. /\ [m.clone EXCEPT !.postAcks[n] = a] \in TaskOn(UnitIds)
        /\ [m.clone EXCEPT !.postAcks[n] = a].status = m.clone.status
    BY <1>1, <2>3 DEF TaskOn
  <2>5. /\ x.clone = [m.clone EXCEPT !.postAcks[n] = a] /\ x.swapErr = m.swapErr
        /\ x \in Memory
    BY <1>1, <2>3, <2>4, ZenonT(30) DEF Memory
  <2> HIDE DEF x
  <2>6. Enters(EnterCompleted(x), x) /\ Enters(EnterCompleted(m), m)
    BY <1>1, <2>5, PhaseEnters, Zenon
  <2>7. Smooth(setup) => ~x.swapErr /\ (Committed(x.clone) => Committed(task))
    BY <1>2, <2>4, <2>5, Zenon DEF Committed
  <2>8. Smooth(setup) => Steady(EnterCompleted(x), task) /\ Steady(EnterCompleted(m), task)
    BY <1>2, <2>6, <2>7, EntersSteady, Zenon
  <2> QED
    BY <2>1, <2>2, <2>8, SteadyCall, Zenon
<1> QED
  BY <1>3, <1>4, SMTT(30), Z3T(30)

\* OnTaskCompleted, and the end of the tick.
LEMMA CompletedFlip ==
    ASSUME SchedulerInv, FlipInv, NEW n \in Nodes,
           \/ FlipSchema(n) \/ TerminalCleanup(n) \/ NothingToComplete(n)
           \/ MarkFailed(n) \/ Finalize(n)
    PROVE  FlipInv'
<1> DEFINE m == mem[n]
           x == [m EXCEPT !.completed = FALSE]
<1>1. m \in Memory /\ m.pc # "idle" /\ (Smooth(setup) => Steady(m, task))
  BY SteadyFacts, Zenon DEF FlipSchema, TerminalCleanup, NothingToComplete, MarkFailed, Finalize
<1>2. Smooth(setup) => ~m.swapErr /\ m.pc # "fail" /\ (Committed(m.clone) => Committed(task))
  BY <1>1, Zenon DEF Steady
<1>3. x \in Memory /\ x.swapErr = m.swapErr /\ x.clone = m.clone
  BY <1>1, Zenon DEF Memory
<1> HIDE DEF x
<1>4. Enters(EnterFinalize(m), m) /\ Enters(Idle(m), m) /\ Enters(Idle(x), x)
  BY <1>1, <1>3, PhaseEnters, SMTT(30), Z3T(30)
<1>5. Smooth(setup) => /\ Steady(EnterFinalize(m), task) /\ Steady(Idle(m), task)
                       /\ Steady(Idle(x), task)
  BY <1>2, <1>3, <1>4, EntersSteady, Zenon
<1>6. CASE FlipSchema(n)
  <2>1. /\ UNCHANGED <<setup, task, inflight>> /\ Committed(m.clone)
        /\ \E w : mem' = [mem EXCEPT ![n] = w] /\ (Smooth(setup) => w = EnterFinalize(m))
    BY <1>6, Zenon DEF FlipSchema, Smooth, Committed
  <2> QED
    BY <1>2, <1>5, <2>1, SteadyNode, Zenon
<1>7. CASE TerminalCleanup(n) \/ NothingToComplete(n)
  <2>1. UNCHANGED <<setup, task, inflight, flipped>> /\ mem' = [mem EXCEPT ![n] = EnterFinalize(m)]
    BY <1>7, Zenon DEF TerminalCleanup, NothingToComplete
  <2> QED
    BY <1>5, <2>1, SteadyNode, Zenon
<1>8. CASE MarkFailed(n)
  <2>1. /\ Call(n, [type |-> "fail", node |-> n], Idle(m), Idle(m)) /\ m.pc = "fail"
        /\ UNCHANGED <<setup, flipped>>
    BY <1>8, Zenon DEF MarkFailed
  <2>2. [type |-> "fail", node |-> n] \in Command
    BY SMTT(30), Z3T(30) DEF Command
  <2> QED
    BY <1>2, <2>1, <2>2, SteadyCall, Zenon
<1>9. CASE Finalize(n)
  <2>1. /\ Call(n, [type |-> "finalize", node |-> n], Idle(m), Idle(x))
        /\ UNCHANGED <<setup, flipped>>
    BY <1>9, Zenon DEF Finalize, x
  <2>2. [type |-> "finalize", node |-> n] \in Command /\ Harmless([type |-> "finalize", node |-> n])
    BY SMTT(30), Z3T(30) DEF Command, Harmless
  <2> QED
    BY <1>5, <2>1, <2>2, SteadyCall, Zenon
<1> QED
  BY <1>6, <1>7, <1>8, <1>9, SMTT(30), Z3T(30)

\* The listing of a tick, a crash and a restart.
LEMMA TickFlip ==
    ASSUME SchedulerInv, FlipInv, NEW n \in Nodes, Tick(n) \/ Crash(n) \/ Restart(n)
    PROVE  FlipInv'
<1>1. /\ task \in TaskOn(UnitIds) /\ UNCHANGED <<setup, task, inflight, flipped>>
      /\ Good(n, mem[n], setup, task, disk) /\ (Smooth(setup) => Steady(mem[n], task))
  BY SteadyFacts, Zenon DEF SchedulerInv, Tick, Crash, Restart
<1>2. ASSUME NEW x \in Memory
      PROVE  /\ PreMark(x, task, n).swapErr = x.swapErr
             /\ Reconciled(x, task, n).swapErr = x.swapErr
  BY <1>2, ZenonT(30) DEF PreMark, Reconciled, Memory
<1>3. CASE Tick(n)
  <2> DEFINE m == mem[n]
             b == IF m.booted THEN m ELSE PreMark(m, task, n)
             c == Reconciled(b, task, n)
             w == [c EXCEPT !.clone = task, !.eff = task.status]
  <2>1. m.pc = "idle" /\ mem' = [mem EXCEPT ![n] = EnterTick(w, n)]
    BY <1>3, Zenon DEF Tick
  <2>2. Good(n, b, setup, task, disk) /\ b.pc = "idle" /\ b.swapErr = m.swapErr
    <3>1. m \in Memory
      BY <1>1, Zenon DEF Good
    <3> QED
      BY <1>1, <1>2, <2>1, <3>1, BootGood, ZenonT(30)
  <2> HIDE DEF b
  <2>3. Good(n, c, setup, task, disk) /\ c.swapErr = b.swapErr
    <3>1. b \in Memory
      BY <2>2, Zenon DEF Good
    <3> QED
      BY <1>1, <1>2, <2>2, <3>1, BootGood, ZenonT(30)
  <2> HIDE DEF c
  <2>4. w \in Memory /\ w.clone = task /\ w.swapErr = c.swapErr
    BY <1>1, <2>3, ZenonT(30) DEF Good, Memory, TaskOn
  <2> HIDE DEF w
  <2>5. Enters(EnterTick(w, n), w)
    BY <1>1, <2>4, TickEnters, Zenon
  <2>6. Smooth(setup) => ~w.swapErr
    BY <1>1, <2>2, <2>3, <2>4, Zenon DEF Steady
  <2>7. Smooth(setup) => Steady(EnterTick(w, n), task)
    BY <2>4, <2>5, <2>6, EntersSteady, Zenon
  <2> QED
    BY <1>1, <2>1, <2>7, SteadyNode, Zenon
<1>4. CASE Crash(n) \/ Restart(n)
  <2> DEFINE f(up) == FreshMemory(up, FALSE)
             b == PreMark(f(TRUE), task, n)
             c == Reconciled(b, task, n)
  <2>1. \E w : mem' = [mem EXCEPT ![n] = w] /\ w \in {f(TRUE), f(FALSE), c}
    BY <1>4, Zenon DEF Crash, Restart
  <2>2. ASSUME NEW up \in BOOLEAN
        PROVE  /\ Good(n, f(up), setup, task, disk) /\ f(up).pc = "idle" /\ ~f(up).swapErr
    BY FreshGood, Zenon DEF FreshMemory
  <2> HIDE DEF f
  <2>3. Good(n, b, setup, task, disk) /\ b.pc = "idle" /\ ~b.swapErr
    <3>1. /\ f(TRUE) \in Memory /\ f(TRUE).pc = "idle" /\ ~f(TRUE).swapErr
          /\ Good(n, f(TRUE), setup, task, disk)
      BY <2>2, Zenon DEF Good
    <3> QED
      BY <1>1, <1>2, <3>1, BootGood, ZenonT(30)
  <2> HIDE DEF b
  <2>4. c.pc = "idle" /\ ~c.swapErr
    <3>1. b \in Memory
      BY <2>3, Zenon DEF Good
    <3> QED
      BY <1>1, <1>2, <2>3, <3>1, BootGood, ZenonT(30)
  <2> HIDE DEF c
  <2>5. Steady(f(TRUE), task) /\ Steady(f(FALSE), task) /\ Steady(c, task)
    BY <2>2, <2>4, Zenon DEF Steady
  <2> QED
    BY <1>1, <2>1, <2>5, SteadyNode, Zenon
<1> QED
  BY <1>3, <1>4

\* The workers, and what comes from outside.
LEMMA OutsideFlip ==
    ASSUME SchedulerInv, FlipInv,
           \/ \E n \in Nodes : WorkerEnds(n)
           \/ \E n \in Nodes, u \in UnitIds : Work(n, u) \/ FailUnit(n, u) \/ LateUnit(n, u)
           \/ CancelTask \/ ForceTerminateTask \/ \E cmd \in inflight : LateApply(cmd)
    PROVE  FlipInv'
<1>1. ASSUME NEW n \in Nodes, NEW u \in UnitIds, Work(n, u) \/ FailUnit(n, u)
      PROVE  FlipInv'
  <2>1. PICK type \in {"claim", "done", "failed"} :
            /\ Call(n, [type |-> type, node |-> n, unit |-> u], mem[n], mem[n])
            /\ UNCHANGED <<setup, flipped>>
    BY <1>1, Zenon DEF Work, ClaimUnit, CompleteUnit, FailUnit
  <2>2. /\ [type |-> type, node |-> n, unit |-> u] \in Command
        /\ Harmless([type |-> type, node |-> n, unit |-> u])
    BY SMTT(30), Z3T(30) DEF Command, Harmless
  <2> QED
    BY <2>1, <2>2, SteadyFacts, SteadyCall, Zenon
<1>2. CASE CancelTask \/ ForceTerminateTask
  <2>1. UNCHANGED <<setup, flipped, mem, inflight>> /\ (Smooth(setup) => ~Committed(task))
    BY <1>2, Zenon DEF CancelTask, ForceTerminateTask, IsCancellable, Smooth, Committed
  <2>2. Smooth(setup) => ~flipped
    BY <2>1, Zenon DEF FlipInv
  <2> QED
    BY <2>1, <2>2, SteadyStep, Zenon
<1>3. ASSUME NEW cmd \in inflight, LateApply(cmd) PROVE FlipInv'
  <2>1. /\ UNCHANGED <<setup, flipped, mem>> /\ inflight' \subseteq inflight
        /\ task' = task \/ (~Refused(cmd, task) /\ task' = Applied(cmd, task))
    BY <1>3, Zenon DEF LateApply
  <2>2. task \in TaskOn(UnitIds) /\ cmd \in Command
    BY Zenon DEF SchedulerInv, TypeOK, Sound
  <2>3. Smooth(setup) => Harmless(cmd) /\ (flipped => Committed(task))
    BY Zenon DEF FlipInv
  <2>4. Smooth(setup) /\ Committed(task) => Committed(task')
    BY <2>1, <2>2, <2>3, StaysCommitted, Zenon
  <2> QED
    BY <2>1, <2>3, <2>4, SteadyStep, Zenon
<1>4. ASSUME NEW n \in Nodes, WorkerEnds(n) PROVE FlipInv'
  <2> DEFINE w == [mem[n] EXCEPT !.handle = "none"]
  <2>1. mem' = [mem EXCEPT ![n] = w] /\ UNCHANGED <<setup, task, inflight, flipped>>
    BY <1>4, Zenon DEF WorkerEnds
  <2>2. w.swapErr = mem[n].swapErr /\ w.pc = mem[n].pc /\ w.clone = mem[n].clone
    BY SteadyFacts, ZenonT(30) DEF Memory
  <2> HIDE DEF w
  <2>3. Smooth(setup) => Steady(w, task)
    BY <2>2, SteadyFacts, Zenon DEF Steady
  <2> QED
    BY <2>1, <2>3, SteadyNode, Zenon
<1>5. ASSUME NEW n \in Nodes, NEW u \in UnitIds, LateUnit(n, u) PROVE FlipInv'
  BY <1>5, Zenon DEF LateUnit, FlipInv, Smooth
<1> QED
  BY <1>1, <1>2, <1>3, <1>4, <1>5, Zenon

\* When no swap and no flip fails, a flip is not overtaken by a cancel or by the
\* failure of another node: from then on the task can only finish.  This holds
\* whatever a re-run does.
THEOREM CutoverIsNotTorn == Spec => []CutoverNotTorn
<1>1. ASSUME Init PROVE FlipInv
  <2>1. flipped = FALSE /\ inflight = {} /\ \A n \in Nodes : mem[n] = FreshMemory(TRUE, TRUE)
    BY <1>1, Zenon DEF Init
  <2>2. FreshMemory(TRUE, TRUE).pc = "idle" /\ FreshMemory(TRUE, TRUE).swapErr = FALSE
    BY Zenon DEF FreshMemory
  <2>3. \A n \in Nodes : Steady(mem[n], task)
    BY <2>1, <2>2, Zenon DEF Steady
  <2> QED
    BY <2>1, <2>3, Zenon DEF FlipInv
<1>2. ASSUME SchedulerInv, FlipInv, [Next]_vars PROVE FlipInv'
  <2>1. \A n \in setup.nodes : n \in Nodes
    BY <1>2, SetupsAssumption, SMTT(30), Z3T(30) DEF SchedulerInv, SetupType
  <2>2. ASSUME NEW n \in Nodes, TickStep(n) PROVE FlipInv'
    BY <1>2, <2>2, UnitFlip, AckFlip, CompletedFlip, ZenonT(30) DEF TickStep
  <2>3. ASSUME NEW n \in Nodes, Tick(n) \/ Crash(n) \/ Restart(n) PROVE FlipInv'
    BY <1>2, <2>3, TickFlip, Zenon
  <2>4. CASE UNCHANGED vars
    BY <1>2, <2>4, SMTT(30), Z3T(30) DEF vars, FlipInv
  <2> QED
    BY <1>2, <2>1, <2>2, <2>3, <2>4, OutsideFlip, ZenonT(30) DEF Next, Environment
<1>3. FlipInv => CutoverNotTorn
  BY Zenon DEF FlipInv, Smooth, CutoverSound, CutoverNotTorn, Committed
<1> QED
  BY <1>1, <1>2, <1>3, SchedulerInvariant, PTL DEF Spec

-----------------------------------------------------------------------------
(* What is cleaned up.                                                     *)

\* A node that cleaned up has no worker left, and the task is over.
CleanInv ==
    \A n \in Nodes : cleaned[n] = "done" =>
        Over(task) /\ mem[n].handle = "none" /\ \A u \in LocalUnits(n) : disk[u] # "reindexed"

\* A step that starts no worker of an ended task and leaves no partial state on
\* a node without one.
LEMMA CleanStep ==
    ASSUME CleanInv, Over(task) => Over(task'),
           \A k \in Nodes : cleaned[k] = "done" /\ Over(task) /\ mem[k].handle = "none" =>
               /\ mem'[k].handle = "none"
               /\ \A u \in LocalUnits(k) : disk'[u] = "reindexed" => disk[u] = "reindexed",
           \A k \in Nodes : cleaned'[k] = "done" /\ cleaned[k] # "done" =>
               /\ Over(task') /\ mem'[k].handle = "none"
               /\ \A u \in LocalUnits(k) : disk'[u] # "reindexed"
    PROVE  CleanInv'
<1> SUFFICES ASSUME NEW k \in Nodes, cleaned'[k] = "done"
             PROVE  /\ Over(task') /\ mem'[k].handle = "none"
                    /\ \A u \in LocalUnits(k) : disk'[u] # "reindexed"
  BY Zenon DEF CleanInv, LocalUnits
<1>1. CASE cleaned[k] # "done"
  BY <1>1, Zenon
<1>2. CASE cleaned[k] = "done"
  BY <1>2, Zenon DEF CleanInv
<1> QED
  BY <1>1, <1>2

\* No command changes the record of an ended task.
LEMMA EndedStays ==
    ASSUME NEW t, NEW cmd \in Command, ~Refused(cmd, t), Over(t)
    PROVE  Applied(cmd, t) = t
<1>1. cmd.type \notin {"claim", "done", "failed"} /\ t.status # "SWAPPING"
  BY Zenon DEF Refused, findStartedUnit, Over, IsTerminal
<1>2. ~PrepAckApplies(t, cmd.node) /\ ~PostAckApplies(t, cmd.node)
  BY Zenon DEF PrepAckApplies, PostAckApplies, Over, IsTerminal
<1> QED
  BY <1>1, <1>2, SMTT(30), Z3T(30) DEF Applied

\* A step of a node that cleans nothing up.
LEMMA CleanNode ==
    ASSUME SchedulerInv, CleanInv, NEW n \in Nodes, NEW w, mem' = [mem EXCEPT ![n] = w],
           cleaned' = cleaned, Over(task) => Over(task'),
           Over(task) /\ mem[n].handle = "none" => w.handle = "none",
           \A u \in UnitIds : disk'[u] = "reindexed" =>
               disk[u] = "reindexed" \/ (UnitToNode[u] = n /\ mem[n].handle # "none")
    PROVE  CleanInv'
<1>1. mem \in [Nodes -> Memory]
  BY Zenon DEF SchedulerInv, TypeOK
<1>2. \A k \in Nodes : mem'[k] = IF k = n THEN w ELSE mem[k]
  BY <1>1, Zenon
<1>3. ASSUME NEW k \in Nodes, Over(task), mem[k].handle = "none"
      PROVE  /\ mem'[k].handle = "none"
             /\ \A u \in LocalUnits(k) : disk'[u] = "reindexed" => disk[u] = "reindexed"
  <2>1. mem'[k].handle = "none"
    BY <1>2, <1>3, Zenon
  <2>2. ASSUME NEW u \in LocalUnits(k), disk'[u] = "reindexed" PROVE disk[u] = "reindexed"
    BY <1>3, <2>2, Zenon DEF LocalUnits
  <2> QED
    BY <2>1, <2>2, Zenon
<1> QED
  BY <1>3, CleanStep, Zenon

\* A Raft write of a node.
LEMMA CleanCall ==
    ASSUME SchedulerInv, CleanInv, NEW n \in Nodes, NEW cmd \in Command, NEW onOk, NEW onErr,
           Call(n, cmd, onOk, onErr), cleaned' = cleaned,
           onOk.handle = mem[n].handle, onErr.handle = mem[n].handle,
           \A u \in UnitIds : disk'[u] = "reindexed" =>
               disk[u] = "reindexed" \/ (UnitToNode[u] = n /\ mem[n].handle # "none")
    PROVE  CleanInv'
<1>1. /\ task' = task \/ (~Refused(cmd, task) /\ task' = Applied(cmd, task))
      /\ \E w \in {onOk, onErr} : mem' = [mem EXCEPT ![n] = w]
  BY Zenon DEF Call
<1>2. Over(task) => Over(task')
  BY <1>1, EndedStays, Zenon
<1> QED
  BY <1>1, <1>2, CleanNode, Zenon

\* The units of a phase, one by one.
LEMMA UnitClean ==
    ASSUME SchedulerInv, CleanInv, NEW n \in Nodes, NEW u \in UnitIds,
           PrepUnit(n, u) \/ SwapUnit(n, u)
    PROVE  CleanInv'
<1> DEFINE m == mem[n]
<1>1. /\ m \in Memory /\ m.clone \in TaskOn(UnitIds) /\ disk \in [UnitIds -> UnitDisk]
      /\ UNCHANGED <<task, cleaned>>
  BY ZenonT(30) DEF PrepUnit, SwapUnit, SchedulerInv, TypeOK, Good, Listed
<1>2. CASE PrepUnit(n, u)
  <2>1. PICK ok \in BOOLEAN :
            /\ disk' = IF ok /\ disk[u] = "reindexed" THEN [disk EXCEPT ![u] = "merged"] ELSE disk
            /\ LET x == [m EXCEPT !.todo = m.todo \ {u}, !.prepErr = m.prepErr \/ ~ok]
               IN  mem' = [mem EXCEPT ![n] = IF x.todo = {} THEN PrepSettled(x, n) ELSE x]
    BY <1>2, ZenonT(30) DEF PrepUnit
  <2> DEFINE x == [m EXCEPT !.todo = m.todo \ {u}, !.prepErr = m.prepErr \/ ~ok]
  <2>2. x \in Memory /\ x.clone = m.clone /\ x.handle = m.handle
    BY <1>1, <1>2, ZenonT(30) DEF Memory, PrepUnit
  <2>3. \E w : mem' = [mem EXCEPT ![n] = w] /\ w \in {x, PrepSettled(x, n)}
    BY <2>1, Zenon
  <2>4. \A v \in UnitIds : disk'[v] = "reindexed" => disk[v] = "reindexed"
    BY <1>1, <2>1, ZenonT(30), SMTT(30)
  <2> HIDE DEF x
  <2>5. PrepSettled(x, n).handle = x.handle
    BY <1>1, <2>2, TickEnters, Zenon DEF Enters
  <2> QED
    BY <1>1, <2>2, <2>3, <2>4, <2>5, CleanNode, ZenonT(30)
<1>3. CASE SwapUnit(n, u)
  <2>1. PICK ok \in BOOLEAN :
            /\ \E d \in (IF ok THEN {SwapSuccessLeaves(disk[u])} ELSE SwapFailureLeaves(disk[u])) :
                   disk' = [disk EXCEPT ![u] = d]
            /\ LET x == [m EXCEPT !.todo = m.todo \ {u}, !.swapErr = m.swapErr \/ ~ok]
               IN  mem' = [mem EXCEPT ![n] = IF x.todo = {} THEN SwapSettled(x, n) ELSE x]
    BY <1>3, ZenonT(30) DEF SwapUnit
  <2> DEFINE x == [m EXCEPT !.todo = m.todo \ {u}, !.swapErr = m.swapErr \/ ~ok]
  <2>2. x \in Memory /\ x.handle = m.handle
    BY <1>1, <1>3, ZenonT(30) DEF Memory, SwapUnit
  <2>3. \E w : mem' = [mem EXCEPT ![n] = w] /\ w \in {x, SwapSettled(x, n)}
    BY <2>1, Zenon
  <2>4. \A v \in UnitIds : disk'[v] = "reindexed" => disk[v] = "reindexed"
    <3>1. PICK d : disk' = [disk EXCEPT ![u] = d] /\ (d = "reindexed" => disk[u] = "reindexed")
      BY <2>1, ZenonT(30), SMTT(30) DEF SwapSuccessLeaves, SwapFailureLeaves
    <3> QED
      BY <1>1, <3>1, ZenonT(30), SMTT(30)
  <2> HIDE DEF x
  <2>5. SwapSettled(x, n).handle = x.handle
    BY <2>2, PhaseEnters, Zenon DEF Enters
  <2> QED
    BY <1>1, <2>2, <2>3, <2>4, <2>5, CleanNode, ZenonT(30)
<1> QED
  BY <1>2, <1>3

\* The acks of a node.
LEMMA AckClean ==
    ASSUME SchedulerInv, CleanInv, NEW n \in Nodes, PrepAck(n) \/ SwapAck(n)
    PROVE  CleanInv'
<1> DEFINE m == mem[n]
<1>1. /\ m \in Memory /\ m.clone \in TaskOn(UnitIds) /\ m.prepErr \in BOOLEAN
      /\ m.swapErr \in BOOLEAN /\ UNCHANGED <<disk, cleaned>>
  BY ZenonT(30) DEF PrepAck, SwapAck, Memory, SchedulerInv, TypeOK, Good, Listed
<1>2. CASE PrepAck(n)
  <2> DEFINE ok == ~m.prepErr
             a == Ack(ok)
             e == IF ok THEN m.eff ELSE "FAILED"
             x == [m EXCEPT !.prepAcked = m.known, !.clone.prepAcks[n] = a, !.eff = e]
             cmd == [type |-> "prepAck", node |-> n, ok |-> ok]
  <2>1. Call(n, cmd, EnterSwap(x, n), EnterSwap(m, n))
    BY <1>2, Zenon DEF PrepAck, AfterPrepAck
  <2>2. cmd \in Command
    BY <1>1, SMTT(30), Z3T(30) DEF Command
  <2>3. a \in AckStatus /\ e \in TaskStatus
    BY <1>1, SMTT(30), Z3T(30) DEF Ack, AckStatus, Memory, TaskStatus
  <2> HIDE DEF cmd, a, e, ok
  <2>4. [m.clone EXCEPT !.prepAcks[n] = a] \in TaskOn(UnitIds)
    BY <1>1, <2>3 DEF TaskOn
  <2>5. /\ x.clone = [m.clone EXCEPT !.prepAcks[n] = a] /\ x.handle = m.handle
        /\ x \in Memory
    BY <1>1, <2>3, <2>4, ZenonT(30) DEF Memory
  <2> HIDE DEF x
  <2>6. EnterSwap(x, n).handle = m.handle /\ EnterSwap(m, n).handle = m.handle
    BY <1>1, <2>4, <2>5, SwapEnters, Zenon DEF Enters
  <2> QED
    BY <1>1, <2>1, <2>2, <2>6, CleanCall, Zenon
<1>3. CASE SwapAck(n)
  <2> DEFINE ok == ~m.swapErr
             a == Ack(ok)
             e == IF ~ok /\ m.eff = "SWAPPING" THEN "FAILED" ELSE m.eff
             x == [m EXCEPT !.swapAcked = m.known, !.clone.postAcks[n] = a, !.eff = e]
             cmd == [type |-> "postAck", node |-> n, ok |-> ok]
  <2>1. Call(n, cmd, EnterCompleted(x), EnterCompleted(m))
    BY <1>3, Zenon DEF SwapAck, AfterSwapAck
  <2>2. cmd \in Command
    BY <1>1, SMTT(30), Z3T(30) DEF Command
  <2>3. a \in AckStatus /\ e \in TaskStatus
    BY <1>1, SMTT(30), Z3T(30) DEF Ack, AckStatus, Memory, TaskStatus
  <2> HIDE DEF cmd, a, e, ok
  <2>4. [m.clone EXCEPT !.postAcks[n] = a] \in TaskOn(UnitIds)
    BY <1>1, <2>3 DEF TaskOn
  <2>5. x.handle = m.handle /\ x \in Memory
    BY <1>1, <2>3, <2>4, ZenonT(30) DEF Memory
  <2> HIDE DEF x
  <2>6. EnterCompleted(x).handle = m.handle /\ EnterCompleted(m).handle = m.handle
    BY <1>1, <2>5, PhaseEnters, Zenon DEF Enters
  <2> QED
    BY <1>1, <2>1, <2>2, <2>6, CleanCall, Zenon
<1> QED
  BY <1>2, <1>3

\* OnTaskCompleted, and the end of the tick.
LEMMA CompletedClean ==
    ASSUME SchedulerInv, CleanInv, NEW n \in Nodes,
           \/ FlipSchema(n) \/ TerminalCleanup(n) \/ NothingToComplete(n)
           \/ MarkFailed(n) \/ Finalize(n)
    PROVE  CleanInv'
<1> DEFINE m == mem[n]
<1>1. /\ m \in Memory /\ mem \in [Nodes -> Memory] /\ disk \in [UnitIds -> UnitDisk]
      /\ cleaned \in [Nodes -> CleanupState]
  BY Zenon DEF SchedulerInv, TypeOK
<1>2. ASSUME NEW x \in Memory PROVE EnterFinalize(x).handle = x.handle /\ Idle(x).handle = x.handle
  BY <1>2, PhaseEnters, Zenon DEF Enters
<1>3. CASE FlipSchema(n)
  <2>1. /\ UNCHANGED <<task, disk, cleaned>>
        /\ \E w : /\ mem' = [mem EXCEPT ![n] = w]
                  /\ w = EnterFinalize(m) \/ \E permanent \in BOOLEAN : w = AfterFlipError(m, permanent)
    BY <1>3, Zenon DEF FlipSchema
  <2>2. ASSUME NEW permanent \in BOOLEAN PROVE AfterFlipError(m, permanent).handle = m.handle
    <3> DEFINE k == IF m.attempts < maxCompletedCallbackAttempts THEN m.attempts + 1 ELSE m.attempts
               x == [m EXCEPT !.completed = FALSE, !.attempts = k]
               y == [x EXCEPT !.pc = "fail"]
    <3>1. AfterFlipError(m, permanent) \in {EnterFinalize(m), y, Idle(x)}
      BY ZenonT(30) DEF AfterFlipError
    <3>2. k \in 0..maxCompletedCallbackAttempts
      BY <1>1, BudgetAssumption DEF Memory
    <3> HIDE DEF k
    <3>3. x \in Memory /\ x.handle = m.handle /\ y.handle = m.handle
      BY <1>1, <3>2, ZenonT(30) DEF Memory
    <3> HIDE DEF x, y
    <3> QED
      BY <1>1, <1>2, <3>1, <3>3, ZenonT(30), SMTT(30)
  <2> QED
    BY <1>1, <1>2, <2>1, <2>2, CleanNode, Zenon
<1>4. CASE NothingToComplete(n)
  <2>1. UNCHANGED <<task, disk, cleaned>> /\ mem' = [mem EXCEPT ![n] = EnterFinalize(m)]
    BY <1>4, Zenon DEF NothingToComplete
  <2> QED
    BY <1>1, <1>2, <2>1, CleanNode, Zenon
<1>5. CASE MarkFailed(n) \/ Finalize(n)
  <2> DEFINE x == [m EXCEPT !.completed = FALSE]
  <2>1. /\ \E type \in {"fail", "finalize"} : \E onErr \in {Idle(m), Idle(x)} :
                Call(n, [type |-> type, node |-> n], Idle(m), onErr)
        /\ UNCHANGED <<disk, cleaned>>
    BY <1>5, Zenon DEF MarkFailed, Finalize
  <2>2. x \in Memory /\ x.handle = m.handle
    BY <1>1, Zenon DEF Memory
  <2> HIDE DEF x
  <2>3. \A type \in {"fail", "finalize"} : [type |-> type, node |-> n] \in Command
    BY SMTT(30), Z3T(30) DEF Command
  <2>4. Idle(m).handle = m.handle /\ Idle(x).handle = m.handle
    BY <1>1, <1>2, <2>2, Zenon
  <2> QED
    BY <2>1, <2>3, <2>4, CleanCall, Zenon
<1>6. CASE TerminalCleanup(n)
  <2>1. /\ UNCHANGED task /\ mem' = [mem EXCEPT ![n] = EnterFinalize(m)]
        /\ m.pc = "completed" /\ m.clone.status \in {"FAILED", "CANCELLED"}
        /\ \E r \in CleanupState : cleaned' = [cleaned EXCEPT ![n] = r]
        /\ \/ m.handle = "none" /\ disk' = Wiped(Partial(n))
           \/ cleaned' = [cleaned EXCEPT ![n] = "given up"]
        /\ disk' = disk \/ \E us \in SUBSET Partial(n) : disk' = Wiped(us)
    BY <1>6, ZenonT(30), SMTT(30) DEF TerminalCleanup, Drained, CleanupState
  <2>2. Over(task)
    BY <2>1, Zenon DEF SchedulerInv, Good, Listed, IsTerminal
  <2>3. \A k \in Nodes : mem'[k].handle = mem[k].handle
    BY <1>1, <1>2, <2>1, ZenonT(30), SMTT(30)
  <2>4. \A u \in UnitIds : disk'[u] = "reindexed" => disk[u] = "reindexed"
    BY <1>1, <2>1, ZenonT(30), SMTT(30) DEF Wiped
  <2>5. ASSUME NEW k \in Nodes, cleaned'[k] = "done", cleaned[k] # "done"
        PROVE  m.handle = "none" /\ k = n /\ \A u \in LocalUnits(k) : disk'[u] # "reindexed"
    <3>1. k = n /\ cleaned' # [cleaned EXCEPT ![n] = "given up"]
      BY <1>1, <2>1, <2>5, ZenonT(30), SMTT(30)
    <3>2. m.handle = "none" /\ disk' = Wiped(Partial(n))
      BY <2>1, <3>1, Zenon
    <3> QED
      BY <1>1, <3>1, <3>2, ZenonT(30), SMTT(30) DEF Wiped, Partial, LocalUnits
  <2>6. \A k \in Nodes : LocalUnits(k) \subseteq UnitIds
    BY Zenon DEF LocalUnits
  <2> HIDE DEF m
  <2> QED
    BY <2>1, <2>2, <2>3, <2>4, <2>5, <2>6, CleanStep, ZenonT(30) DEF m
<1> QED
  BY <1>3, <1>4, <1>5, <1>6, SMTT(30), Z3T(30)

\* The listing of a tick, a crash and a restart.
LEMMA TickClean ==
    ASSUME SchedulerInv, CleanInv, NEW n \in Nodes, Tick(n) \/ Crash(n) \/ Restart(n)
    PROVE  CleanInv'
<1>1. /\ task \in TaskOn(UnitIds) /\ UNCHANGED <<task, cleaned>> /\ mem[n] \in Memory
      /\ Good(n, mem[n], setup, task, disk) /\ disk \in [UnitIds -> UnitDisk]
  BY Zenon DEF SchedulerInv, TypeOK, Tick, Crash, Restart
<1>2. ASSUME NEW x \in Memory
      PROVE  /\ PreMark(x, task, n).handle = x.handle
             /\ Over(task) /\ x.handle = "none" => Reconciled(x, task, n).handle = "none"
  <2>1. PreMark(x, task, n).handle = x.handle
    BY <1>2, ZenonT(30) DEF PreMark, Memory
  <2>2. ASSUME Over(task), x.handle = "none" PROVE Reconciled(x, task, n).handle = "none"
    <3> DEFINE run == task.status = "STARTED" /\ NodeHasNonTerminalUnits(task, n)
               end == task.status # "STARTED" /\ x.handle # "none" /\ MidUnit(task, n)
               h == CASE run -> "running" [] end -> "ending" [] OTHER -> "none"
    <3>1. ~run /\ ~end
      BY <2>2, Zenon DEF Over, IsTerminal
    <3>2. Reconciled(x, task, n) = [x EXCEPT !.handle = h]
      BY DEF Reconciled
    <3> HIDE DEF run, end
    <3>3. h = "none"
      BY <3>1, ZenonT(30), SMTT(30)
    <3> HIDE DEF h
    <3> QED
      BY <1>2, <3>2, <3>3, Zenon DEF Memory
  <2> QED
    BY <2>1, <2>2
<1>3. CASE Tick(n)
  <2> DEFINE m == mem[n]
             b == IF m.booted THEN m ELSE PreMark(m, task, n)
             c == Reconciled(b, task, n)
             w == [c EXCEPT !.clone = task, !.eff = task.status]
  <2>1. m.pc = "idle" /\ mem' = [mem EXCEPT ![n] = EnterTick(w, n)] /\ disk' = disk
    BY <1>3, Zenon DEF Tick
  <2>2. Good(n, b, setup, task, disk) /\ b.pc = "idle" /\ b.handle = m.handle
    BY <1>1, <1>2, <2>1, BootGood, ZenonT(30)
  <2> HIDE DEF b
  <2>3. /\ Good(n, c, setup, task, disk)
        /\ Over(task) /\ b.handle = "none" => c.handle = "none"
    <3>1. b \in Memory
      BY <2>2, Zenon DEF Good
    <3> QED
      BY <1>1, <1>2, <2>2, <3>1, BootGood, ZenonT(30)
  <2> HIDE DEF c
  <2>4. w \in Memory /\ w.clone = task /\ w.handle = c.handle
    BY <1>1, <2>3, ZenonT(30) DEF Good, Memory, TaskOn
  <2> HIDE DEF w
  <2>5. EnterTick(w, n).handle = w.handle
    BY <1>1, <2>4, TickEnters, Zenon DEF Enters
  <2> QED
    BY <1>1, <2>1, <2>2, <2>3, <2>4, <2>5, CleanNode, Zenon
<1>4. CASE Crash(n) \/ Restart(n)
  <2> DEFINE f(up) == FreshMemory(up, FALSE)
             b == PreMark(f(TRUE), task, n)
             c == Reconciled(b, task, n)
  <2>1. /\ \E w : mem' = [mem EXCEPT ![n] = w] /\ w \in {f(TRUE), f(FALSE), c}
        /\ disk' = disk \/ disk' = FinalizedOnLoad(n)
    BY <1>4, Zenon DEF Crash, Restart
  <2>2. \A u \in UnitIds : disk'[u] = "reindexed" => disk[u] = "reindexed"
    BY <2>1, ZenonT(30), SMTT(30) DEF FinalizedOnLoad
  <2>3. ASSUME NEW up \in BOOLEAN
        PROVE  Good(n, f(up), setup, task, disk) /\ f(up).pc = "idle" /\ f(up).handle = "none"
    BY FreshGood, Zenon DEF FreshMemory
  <2> HIDE DEF f
  <2>4. Good(n, b, setup, task, disk) /\ b.handle = "none"
    <3>1. f(TRUE) \in Memory /\ f(TRUE).pc = "idle" /\ Good(n, f(TRUE), setup, task, disk)
      BY <2>3, Zenon DEF Good
    <3> QED
      BY <1>1, <1>2, <2>3, <3>1, BootGood, ZenonT(30)
  <2> HIDE DEF b
  <2>5. Over(task) => c.handle = "none"
    BY <1>2, <2>4, Zenon DEF Good
  <2> HIDE DEF c
  <2>6. PICK w : mem' = [mem EXCEPT ![n] = w] /\ w \in {f(TRUE), f(FALSE), c}
    BY <2>1, Zenon
  <2>7. Over(task) => w.handle = "none"
    <3>1. f(TRUE).handle = "none" /\ f(FALSE).handle = "none"
      BY <2>3, Zenon
    <3> QED
      BY <2>5, <2>6, <3>1, Zenon
  <2> QED
    BY <1>1, <2>2, <2>6, <2>7, CleanNode, Zenon
<1> QED
  BY <1>3, <1>4

\* The workers, and what comes from outside.
LEMMA OutsideClean ==
    ASSUME SchedulerInv, CleanInv,
           \/ \E n \in Nodes : WorkerEnds(n)
           \/ \E n \in Nodes, u \in UnitIds : Work(n, u) \/ FailUnit(n, u) \/ LateUnit(n, u)
           \/ CancelTask \/ ForceTerminateTask \/ \E cmd \in inflight : LateApply(cmd)
    PROVE  CleanInv'
<1>0. /\ task \in TaskOn(UnitIds) /\ mem \in [Nodes -> Memory] /\ disk \in [UnitIds -> UnitDisk]
  BY Zenon DEF SchedulerInv, TypeOK
<1>1. ASSUME NEW n \in Nodes, NEW u \in UnitIds, Work(n, u) \/ FailUnit(n, u)
      PROVE  CleanInv'
  <2>1. PICK type \in {"claim", "done", "failed"} :
            /\ Call(n, [type |-> type, node |-> n, unit |-> u], mem[n], mem[n])
            /\ cleaned' = cleaned /\ UnitToNode[u] = n /\ mem[n].handle = "running"
            /\ disk' = disk \/ disk' = [disk EXCEPT ![u] = "reindexed"]
    BY <1>1, ZenonT(30) DEF Work, ClaimUnit, CompleteUnit, FailUnit, Working
  <2>2. [type |-> type, node |-> n, unit |-> u] \in Command
    BY SMTT(30), Z3T(30) DEF Command
  <2>3. \A v \in UnitIds : disk'[v] = "reindexed" =>
            disk[v] = "reindexed" \/ (UnitToNode[v] = n /\ mem[n].handle # "none")
    BY <1>0, <2>1, ZenonT(30), SMTT(30)
  <2> QED
    BY <2>1, <2>2, <2>3, CleanCall, Zenon
<1>2. CASE CancelTask \/ ForceTerminateTask
  <2>1. UNCHANGED <<disk, cleaned, mem>> /\ ~Over(task)
    BY <1>2, ZenonT(30) DEF CancelTask, ForceTerminateTask, IsCancellable, ForceTerminateApplies,
                            IsForceTerminable, IsActive, Over, IsTerminal
  <2> QED
    BY <2>1, CleanStep, Zenon
<1>3. ASSUME NEW cmd \in inflight, LateApply(cmd) PROVE CleanInv'
  <2>1. /\ UNCHANGED <<disk, cleaned, mem>>
        /\ task' = task \/ (~Refused(cmd, task) /\ task' = Applied(cmd, task))
    BY <1>3, Zenon DEF LateApply
  <2>2. cmd \in Command
    BY Zenon DEF SchedulerInv, TypeOK, Sound
  <2>3. Over(task) => Over(task')
    BY <2>1, <2>2, EndedStays, Zenon
  <2> QED
    BY <2>1, <2>3, CleanStep, Zenon
<1>4. ASSUME NEW n \in Nodes, WorkerEnds(n) PROVE CleanInv'
  <2> DEFINE w == [mem[n] EXCEPT !.handle = "none"]
  <2>1. mem' = [mem EXCEPT ![n] = w] /\ UNCHANGED <<task, disk, cleaned>>
    BY <1>4, Zenon DEF WorkerEnds
  <2>2. w.handle = "none"
    BY <1>0, Zenon DEF Memory
  <2> HIDE DEF w
  <2> QED
    BY <2>1, <2>2, CleanNode, Zenon
<1>5. ASSUME NEW n \in Nodes, NEW u \in UnitIds, LateUnit(n, u) PROVE CleanInv'
  <2>1. /\ mem' = [mem EXCEPT ![n] = mem[n]] /\ UNCHANGED <<task, cleaned>>
        /\ mem[n].handle = "ending" /\ UnitToNode[u] = n
        /\ disk' = [disk EXCEPT ![u] = "reindexed"]
    BY <1>0, <1>5 DEF LateUnit
  <2>2. \A v \in UnitIds : disk'[v] = "reindexed" =>
            disk[v] = "reindexed" \/ (UnitToNode[v] = n /\ mem[n].handle # "none")
    BY <1>0, <2>1, ZenonT(30), SMTT(30)
  <2> QED
    BY <2>1, <2>2, CleanNode, Zenon
<1> QED
  BY <1>1, <1>2, <1>3, <1>4, <1>5, Zenon

\* A clean-up that went through is final, on any number of nodes and with any
\* crashes and failures: the sweep comes after the worker's last write, and no
\* worker of the ended task is started after it.
THEOREM SchedulerCleanedStaysClean == Spec => []CleanedStaysClean
<1>1. ASSUME Init PROVE CleanInv
  BY <1>1, Zenon DEF Init, CleanInv
<1>2. ASSUME SchedulerInv, CleanInv, [Next]_vars PROVE CleanInv'
  <2>1. \A n \in setup.nodes : n \in Nodes
    BY <1>2, SetupsAssumption, SMTT(30), Z3T(30) DEF SchedulerInv, SetupType
  <2>2. ASSUME NEW n \in Nodes, TickStep(n) PROVE CleanInv'
    BY <1>2, <2>2, UnitClean, AckClean, CompletedClean, ZenonT(30) DEF TickStep
  <2>3. ASSUME NEW n \in Nodes, Tick(n) \/ Crash(n) \/ Restart(n) PROVE CleanInv'
    BY <1>2, <2>3, TickClean, Zenon
  <2>4. CASE UNCHANGED vars
    BY <1>2, <2>4, SMTT(30), Z3T(30) DEF vars, CleanInv, LocalUnits
  <2> QED
    BY <1>2, <2>1, <2>2, <2>3, <2>4, OutsideClean, ZenonT(30) DEF Next, Environment
<1>3. CleanInv => CleanedStaysClean
  BY Zenon DEF CleanInv, CleanedStaysClean, Partial
<1> QED
  BY <1>1, <1>2, <1>3, SchedulerInvariant, PTL DEF Spec
=============================================================================
