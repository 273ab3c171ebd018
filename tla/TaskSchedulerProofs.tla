------------------------ MODULE TaskSchedulerProofs ------------------------
(* Theorems about TaskScheduler: its types, the truth of the recorded acks *)
(* and the preparation barrier, for any number of nodes, units and faults. *)
EXTENDS TaskScheduler, TaskEvolutionProofs

-----------------------------------------------------------------------------
(* The inductive invariant.  A node works on an old copy of the record, so *)
(* its parts are stated of explicit values: a setup s, a record t, a disk  *)
(* d and a memory m.                                                       *)

Over(t) == IsTerminal(t.status)
Merged == {"merged", "swapped", "promoted"}
NewData == {"swapped", "promoted"}

\* The record: units are only claimed by the nodes they are placed on.
Record(s, t) ==
    /\ t \in TaskOn(UnitIds) /\ TaskInv(t)
    /\ \A u \in UnitIds : /\ t.units[u].group = s.groupOf[u]
                          /\ t.units[u].node \in {NoNode, UnitToNode[u]}

\* The barrier is open for unit u.
Open(s, t, u) ==
    IF t.barrier THEN AllUnitsTerminal(t) /\ allExpectedPreparationAcksLanded(t)
    ELSE AllGroupUnitsTerminal(t, s.groupOf[u])

\* Record and disk: only finished units are prepared, only existing work is
\* finished, acks are true and swaps are behind the barrier.
World(s, t, d) ==
    /\ Record(s, t)
    /\ \A u \in UnitIds :
          /\ ~UnitTerminal(t.units[u]) => d[u] \notin Merged
          /\ t.units[u].status = "COMPLETED" /\ d[u] = "none" => Over(t)
          /\ t.prepAcks[UnitToNode[u]] = "ok" => d[u] \in Merged
          /\ t.postAcks[UnitToNode[u]] = "ok" => d[u] \in NewData
          /\ d[u] = "swapped" /\ "prep" \notin s.fails => Open(s, t, u)

\* What a command, sent or on its way, may still say.
Sound(cmd, t, d) ==
    /\ cmd \in Command
    /\ cmd.type \in {"claim", "done", "failed"} => UnitToNode[cmd.unit] = cmd.node
    /\ cmd.type = "done" => Over(t) \/ d[cmd.unit] # "none"
    /\ cmd.type = "prepAck" /\ cmd.ok =>
           Over(t) \/ \A u \in LocalUnits(cmd.node) : d[u] \in Merged
    /\ cmd.type = "postAck" /\ cmd.ok =>
           Over(t) \/ \A u \in LocalUnits(cmd.node) : d[u] \in NewData

\* The copy c was the record once.
Listed(c, t) ==
    /\ c \in TaskOn(UnitIds) /\ c.barrier = t.barrier
    /\ \A u \in UnitIds :
          /\ c.units[u].group = t.units[u].group
          /\ c.units[u].node \in {NoNode, UnitToNode[u]}
          /\ UnitTerminal(c.units[u]) => UnitTerminal(t.units[u])
          /\ c.units[u].status = "FAILED" => Over(t)
          /\ c.units[u].status = "COMPLETED" => c.units[u].node = UnitToNode[u]
          /\ c.status \in {"PREPARING", "SWAPPING"} => c.units[u].status = "COMPLETED"
    /\ IsTerminal(c.status) => Over(t)
    /\ c.status = "SWAPPING" /\ c.barrier => allExpectedPreparationAcksLanded(t)

\* The groups that node n has fired are done, but for the units in busy.
PrepDone(n, m, busy, t, d) ==
    \A u \in LocalUnits(n) \ busy :
        t.units[u].group \in m.prepFired => Over(t) \/ m.prepErr \/ d[u] \in Merged
SwapDone(n, m, busy, t, d) ==
    \A u \in LocalUnits(n) \ busy :
        t.units[u].group \in m.swapFired => Over(t) \/ m.swapErr \/ d[u] \in NewData

\* The status of the tick is that of its copy, or a preparation has failed.
EffOK(m, s) ==
    \/ m.eff = m.clone.status
    \/ m.eff = "FAILED" /\ m.clone.status = "PREPARING" /\ "prep" \in s.fails

MaySwap(s, t, u) ==
    UnitTerminal(t.units[u]) /\ ("prep" \notin s.fails => Open(s, t, u))

\* Between two phases of a tick of node n.
Between(n, m, s, t, d) ==
    /\ m \in Memory /\ (m.prepErr => "prep" \in s.fails)
    /\ PrepDone(n, m, {}, t, d) /\ SwapDone(n, m, {}, t, d)
    /\ Listed(m.clone, t)

\* The memory of node n.
Good(n, m, s, t, d) ==
    /\ m \in Memory /\ (m.prepErr => "prep" \in s.fails)
    /\ PrepDone(n, m, IF m.pc = "prep" THEN m.todo ELSE {}, t, d)
    /\ SwapDone(n, m, IF m.pc = "swap" THEN m.todo ELSE {}, t, d)
    /\ m.pc # "idle" => Listed(m.clone, t)
    /\ m.pc \in {"prep", "prepAck"} =>
           m.clone.status = "PREPARING" /\ m.eff = "PREPARING"
    /\ m.pc = "prep" => OwnGroups(m.clone, n) \subseteq m.prepFired
    /\ m.pc \in {"swap", "swapAck"} => EffOK(m, s)
    /\ m.pc = "swap" => \A u \in m.todo : MaySwap(s, t, u)
    /\ m.pc = "prepAck" /\ ~m.prepErr =>
           Over(t) \/ \A u \in LocalUnits(n) : d[u] \in Merged
    /\ m.pc = "swapAck" /\ ~m.swapErr =>
           Over(t) \/ \A u \in LocalUnits(n) : d[u] \in NewData

SchedulerInv ==
    /\ TypeOK /\ setup \in Setups
    /\ World(setup, task, disk)
    /\ \A cmd \in inflight : Sound(cmd, task, disk)
    /\ \A n \in Nodes : Good(n, mem[n], setup, task, disk)

-----------------------------------------------------------------------------
(* How record and disk move.                                               *)

Grows(t, r) ==
    /\ r \in TaskOn(UnitIds) /\ r.barrier = t.barrier /\ Stands(t, r)
    /\ \A u \in UnitIds : r.units[u].group = t.units[u].group
    /\ Over(t) => Over(r)

\* Only the clean-up after the end of the task wipes what a unit has done.
DiskGrows(d, e, t) ==
    \A u \in UnitIds : /\ d[u] \in Merged => e[u] \in Merged
                       /\ d[u] \in NewData => e[u] \in NewData
                       /\ d[u] # "none" => e[u] # "none" \/ Over(t)

\* A barrier that is open stays open.
LEMMA OpenStays ==
    ASSUME NEW t \in TaskOn(UnitIds), NEW r, Grows(t, r), AllUnitsTerminal(t),
           allExpectedPreparationAcksLanded(t)
    PROVE  AllUnitsTerminal(r) /\ allExpectedPreparationAcksLanded(r)
<1>1. DOMAIN t.units = UnitIds /\ DOMAIN r.units = UnitIds
  BY DEF Grows, TaskOn
<1>2. \A u \in UnitIds : r.units[u] = t.units[u]
  BY <1>1 DEF Grows, Stands, AllUnitsTerminal
<1>3. AllUnitsTerminal(r)
  BY <1>1, <1>2 DEF AllUnitsTerminal
<1>4. \A n \in NodesWithLocalUnits(r) : n \in NodesWithLocalUnits(t) /\ n \in Nodes
  BY <1>1, <1>2 DEF NodesWithLocalUnits, TaskOn, Unit
<1> QED
  BY <1>3, <1>4 DEF allExpectedPreparationAcksLanded, Grows, Stands

\* So it does for a unit.
LEMMA OpenGrows ==
    ASSUME NEW s, NEW t \in TaskOn(UnitIds), NEW r, Grows(t, r), NEW u, Open(s, t, u)
    PROVE  Open(s, r, u)
<1>1. DOMAIN t.units = UnitIds /\ DOMAIN r.units = UnitIds /\ r.barrier = t.barrier
  BY DEF Grows, TaskOn
<1>2. CASE t.barrier
  BY <1>1, <1>2, OpenStays DEF Open
<1>3. CASE ~t.barrier
  BY <1>1, <1>3 DEF Open, AllGroupUnitsTerminal, Grows, Stands
<1> QED
  BY <1>2, <1>3
\* A copy stays a copy of the record.
LEMMA ListedGrows ==
    ASSUME NEW c, NEW t \in TaskOn(UnitIds), NEW r, Grows(t, r), Listed(c, t)
    PROVE  Listed(c, r)
<1>1. /\ DOMAIN t.units = UnitIds /\ DOMAIN r.units = UnitIds /\ DOMAIN c.units = UnitIds
      /\ r.barrier = t.barrier /\ (Over(t) => Over(r))
  BY DEF Grows, Listed, TaskOn
<1>2. \A u \in UnitIds : /\ r.units[u].group = t.units[u].group
                         /\ UnitTerminal(t.units[u]) => UnitTerminal(r.units[u])
  BY <1>1 DEF Grows, Stands
<1>3. ASSUME c.status = "SWAPPING", c.barrier
      PROVE  allExpectedPreparationAcksLanded(r)
  <2>1. AllUnitsTerminal(t)
    BY <1>1, <1>3 DEF AllUnitsTerminal, Listed, UnitTerminal
  <2> QED
    BY <1>3, <2>1, OpenStays DEF Listed
<1> QED
  BY <1>1, <1>2, <1>3 DEF Listed

\* The memory of a node stays good when record and disk move on.
LEMMA GoodGrows ==
    ASSUME NEW n, NEW m, NEW s, NEW t \in TaskOn(UnitIds), NEW d, NEW r, NEW e,
           Grows(t, r), DiskGrows(d, e, t), Good(n, m, s, t, d)
    PROVE  Good(n, m, s, r, e)
<1>1. \A u \in UnitIds : /\ r.units[u].group = t.units[u].group
                         /\ UnitTerminal(t.units[u]) => UnitTerminal(r.units[u])
  BY DEF Grows, Stands, TaskOn
<1>2. LocalUnits(n) \subseteq UnitIds /\ (Over(t) => Over(r))
  BY DEF LocalUnits, Grows
<1>3. \A u \in UnitIds : /\ d[u] \in Merged => e[u] \in Merged
                         /\ d[u] \in NewData => e[u] \in NewData
  BY DEF DiskGrows
<1>4. \A busy : /\ PrepDone(n, m, busy, t, d) => PrepDone(n, m, busy, r, e)
                /\ SwapDone(n, m, busy, t, d) => SwapDone(n, m, busy, r, e)
  BY <1>1, <1>2, <1>3 DEF PrepDone, SwapDone
<1>5. Listed(m.clone, t) => Listed(m.clone, r)
  BY ListedGrows
<1>6. ASSUME m.pc = "swap" PROVE \A u \in m.todo : MaySwap(s, r, u)
  <2>1. m.todo \subseteq UnitIds
    BY DEF Good, Memory
  <2> QED
    BY <1>1, <1>6, <2>1, OpenGrows DEF Good, MaySwap
<1> QED
  BY <1>2, <1>3, <1>4, <1>5, <1>6 DEF Good

\* So does a command on its way.
LEMMA SoundGrows ==
    ASSUME NEW cmd, NEW t, NEW d, NEW r, NEW e, Grows(t, r), DiskGrows(d, e, t),
           Sound(cmd, t, d)
    PROVE  Sound(cmd, r, e)
<1>1. cmd.type = "done" => cmd.unit \in UnitIds
  BY DEF Sound, Command
<1>2. \A n : LocalUnits(n) \subseteq UnitIds
  BY DEF LocalUnits
<1>3. Over(t) => Over(r)
  BY DEF Grows
<1> QED
  BY <1>1, <1>2, <1>3 DEF Sound, DiskGrows

\* Nothing is lost when nothing moves.
LEMMA GrowsRefl ==
    ASSUME NEW t \in TaskOn(UnitIds), NEW d
    PROVE  Grows(t, t) /\ DiskGrows(d, d, t)
BY DEF Grows, DiskGrows, Stands

-----------------------------------------------------------------------------
(* The phases of a tick.                                                   *)

\* The end of a tick.
LEMMA IdleGood ==
    ASSUME NEW n, NEW m \in Memory, NEW s, NEW t, NEW d, m.prepErr => "prep" \in s.fails,
           PrepDone(n, m, {}, t, d), SwapDone(n, m, {}, t, d)
    PROVE  Good(n, Idle(m), s, t, d)
<1>1. Idle(m) \in Memory /\ Idle(m).pc = "idle"
  BY Zenon DEF Idle, Memory, Steps, TaskStatus
<1>2. /\ Idle(m).prepErr = m.prepErr /\ Idle(m).prepFired = m.prepFired
      /\ Idle(m).swapErr = m.swapErr /\ Idle(m).swapFired = m.swapFired
  BY DEF Idle, Memory
<1> QED
  BY <1>1, <1>2 DEF Good, PrepDone, SwapDone

\* Finalizing, or the end.
LEMMA EnterFinalizeGood ==
    ASSUME NEW n, NEW m, NEW s, NEW t, NEW d, Between(n, m, s, t, d)
    PROVE  Good(n, EnterFinalize(m), s, t, d)
<1> DEFINE w == [m EXCEPT !.pc = "finalize"]
<1>1. m \in Memory
  BY DEF Between
<1>2. /\ w \in Memory /\ w.pc = "finalize" /\ w.clone = m.clone
      /\ w.prepErr = m.prepErr /\ w.prepFired = m.prepFired
      /\ w.swapErr = m.swapErr /\ w.swapFired = m.swapFired
  BY <1>1 DEF Memory, Steps
<1>3. Good(n, w, s, t, d)
  BY <1>2 DEF Good, Between, PrepDone, SwapDone
<1>4. Good(n, Idle(m), s, t, d)
  BY <1>1, IdleGood DEF Between
<1> QED
  BY <1>3, <1>4 DEF EnterFinalize

\* OnTaskCompleted, or what comes after it.
LEMMA EnterCompletedGood ==
    ASSUME NEW n, NEW m, NEW s, NEW t, NEW d, Between(n, m, s, t, d)
    PROVE  Good(n, EnterCompleted(m), s, t, d)
<1> DEFINE w == [m EXCEPT !.pc = "completed", !.completed = TRUE, !.known = TRUE]
<1>1. m \in Memory
  BY DEF Between
<1>2. /\ w \in Memory /\ w.pc = "completed" /\ w.clone = m.clone
      /\ w.prepErr = m.prepErr /\ w.prepFired = m.prepFired
      /\ w.swapErr = m.swapErr /\ w.swapFired = m.swapFired
  BY <1>1, Zenon DEF Memory, Steps
<1>3. Good(n, w, s, t, d)
  BY <1>2 DEF Good, Between, PrepDone, SwapDone
<1> QED
  BY <1>3, EnterFinalizeGood DEF EnterCompleted

\* Past STARTED and before the end every unit of a node is in one of its groups.
LEMMA GroupsOfOwner ==
    ASSUME NEW c, NEW t, NEW n, Listed(c, t), c.status \in {"PREPARING", "SWAPPING"},
           NEW u \in LocalUnits(n)
    PROVE  t.units[u].group \in OwnGroups(c, n) /\ u \in LocalGroupUnitIDs(c, t.units[u].group, n)
<1>1. u \in UnitIds /\ UnitToNode[u] = n /\ DOMAIN c.units = UnitIds
  BY DEF LocalUnits, Listed, TaskOn
<1>2. c.units[u].node = n /\ c.units[u].group = t.units[u].group
  BY <1>1 DEF Listed
<1>3. u \in LocalGroupUnitIDs(c, t.units[u].group, n)
  BY <1>1, <1>2 DEF LocalGroupUnitIDs
<1>4. t.units[u].group \in TaskGroups(c)
  BY <1>1, <1>2 DEF TaskGroups
<1> QED
  BY <1>3, <1>4 DEF OwnGroups

\* A copy of an active task that is past STARTED is PREPARING or SWAPPING.
LEMMA ActiveCopy ==
    ASSUME NEW c, NEW t, Listed(c, t), ~Over(t), c.status # "STARTED"
    PROVE  c.status \in {"PREPARING", "SWAPPING"}
BY DEF Listed, TaskOn, TaskStatus, IsTerminal

\* The swap ack is only sent when every unit of the node is swapped.
LEMMA SwapSettledGood ==
    ASSUME NEW n, NEW m, NEW s, NEW t, NEW d, Between(n, m, s, t, d), EffOK(m, s)
    PROVE  Good(n, SwapSettled(m, n), s, t, d)
<1> DEFINE w == [m EXCEPT !.pc = "swapAck"]
<1>1. m \in Memory /\ Listed(m.clone, t)
  BY DEF Between
<1>2. /\ w \in Memory /\ w.pc = "swapAck" /\ w.clone = m.clone /\ w.eff = m.eff
      /\ w.prepErr = m.prepErr /\ w.prepFired = m.prepFired
      /\ w.swapErr = m.swapErr /\ w.swapFired = m.swapFired
  BY <1>1 DEF Memory, Steps
<1>3. ASSUME m.eff # "STARTED", OwnGroups(m.clone, n) \subseteq m.swapFired
      PROVE  Good(n, w, s, t, d)
  <2>1. ASSUME ~Over(t), ~m.swapErr, NEW u \in LocalUnits(n) PROVE d[u] \in NewData
    <3>1. m.clone.status \in {"PREPARING", "SWAPPING"}
      BY <1>1, <1>3, <2>1, ActiveCopy DEF EffOK
    <3>2. t.units[u].group \in m.swapFired
      BY <1>1, <1>3, <2>1, <3>1, GroupsOfOwner
    <3> QED
      BY <2>1, <3>2 DEF Between, SwapDone
  <2> QED
    BY <1>2, <2>1 DEF Good, Between, PrepDone, SwapDone, EffOK
<1> QED
  BY <1>3, EnterCompletedGood DEF SwapSettled

\* A group is only swapped when it is due: its units on the node have been
\* worked on, and the barrier is open for them.
LEMMA SwapDueFacts ==
    ASSUME NEW n, NEW m, NEW s, NEW t, NEW d, Between(n, m, s, t, d), EffOK(m, s),
           Record(s, t), ~IsTerminal(m.clone.status), NEW g, SwapDue(m, g), NEW u \in UnitIds,
           m.clone.units[u].group = g, m.clone.units[u].status # "FAILED"
    PROVE  /\ m.clone.units[u].status = "COMPLETED"
           /\ MaySwap(s, t, u)
<1> DEFINE c == m.clone
<1>1. /\ Listed(c, t) /\ DOMAIN c.units = UnitIds /\ DOMAIN t.units = UnitIds
      /\ c.barrier = t.barrier /\ c.barrier \in BOOLEAN
  BY SMTT(30), Z3T(30) DEF Between, Listed, Record, TaskOn
<1>2. CASE c.status \in {"PREPARING", "SWAPPING"}
  <2>1. \A v \in UnitIds : c.units[v].status = "COMPLETED" /\ UnitTerminal(t.units[v])
    BY <1>1, <1>2 DEF Listed, UnitTerminal
  <2>2. CASE ~c.barrier
    BY <1>1, <2>1, <2>2, SMTT(30), Z3T(30) DEF MaySwap, Open, AllGroupUnitsTerminal
  <2>3. CASE c.barrier /\ c.status = "SWAPPING"
    BY <1>1, <2>1, <2>3 DEF MaySwap, Open, AllUnitsTerminal, Listed
  <2>4. CASE c.barrier /\ c.status = "PREPARING"
    <3>1. m.eff = "FAILED"
      BY <2>4 DEF SwapDue, EffOK
    <3> QED
      BY <2>1, <2>4, <3>1 DEF MaySwap, EffOK
  <2> QED
    BY <1>1, <1>2, <2>2, <2>3, <2>4, SMTT(30), Z3T(30)
<1>3. CASE c.status \notin {"PREPARING", "SWAPPING"}
  <2>1. ~c.barrier /\ AllGroupUnitsTerminal(c, g)
    BY <1>3 DEF SwapDue, EffOK, IsTerminal
  <2>2. c.units[u].status = "COMPLETED"
    BY <1>1, <2>1, SMTT(30), Z3T(30) DEF AllGroupUnitsTerminal, UnitTerminal
  <2>3. \A v \in UnitIds : t.units[v].group = g => UnitTerminal(t.units[v])
    BY <1>1, <2>1 DEF AllGroupUnitsTerminal, Listed
  <2>4. s.groupOf[u] = g /\ t.units[u].group = g
    BY <1>1 DEF Record, Listed
  <2> QED
    BY <1>1, <2>1, <2>2, <2>3, <2>4 DEF MaySwap, Open, AllGroupUnitsTerminal
<1> QED
  BY <1>2, <1>3, SMTT(30), Z3T(30)

\* The swap phase: what fires is done or in the work list.
LEMMA EnterSwapGood ==
    ASSUME NEW n \in Nodes, NEW m, NEW s, NEW t, NEW d, Between(n, m, s, t, d), EffOK(m, s),
           Record(s, t)
    PROVE  Good(n, EnterSwap(m, n), s, t, d)
<1> DEFINE due  == {g \in OwnGroups(m.clone, n) \ m.swapFired : SwapDue(m, g)}
           work == SwapWork(m, due, n)
           w == [m EXCEPT !.swapFired = m.swapFired \cup due, !.todo = work, !.pc = "swap",
                          !.known = m.known \/ due # {}]
<1>1. m \in Memory /\ Listed(m.clone, t) /\ DOMAIN m.clone.units = UnitIds
  BY DEF Between, Listed, TaskOn
<1>2. due \subseteq Groups /\ work \subseteq UnitIds
  <2>1. \A u \in UnitIds : m.clone.units[u].group \in Groups
    BY <1>1 DEF Listed, TaskOn, Unit
  <2> QED
    BY <1>1, <2>1, Zenon DEF OwnGroups, TaskGroups, SwapWork, UnitsOf, LocalGroupUnitIDs
<1>3. /\ w \in Memory /\ w.pc = "swap" /\ w.clone = m.clone /\ w.eff = m.eff
      /\ w.todo = work /\ w.swapFired = m.swapFired \cup due
      /\ w.prepErr = m.prepErr /\ w.prepFired = m.prepFired /\ w.swapErr = m.swapErr
  BY <1>1, <1>2, ZenonT(30) DEF Memory, Steps
<1>4. \A u \in work : MaySwap(s, t, u)
  <2> TAKE u \in work
  <2>1. PICK g \in due : u \in LocalGroupUnitIDs(m.clone, g, n)
    BY DEF SwapWork, UnitsOf
  <2> QED
    BY <1>1, <2>1, SwapDueFacts DEF SwapWork, LocalGroupUnitIDs
<1>5. SwapDone(n, w, work, t, d)
  <2> SUFFICES ASSUME NEW u \in LocalUnits(n) \ work, t.units[u].group \in due, ~Over(t)
               PROVE  FALSE
    BY <1>3 DEF SwapDone, Between
  <2>1. u \in UnitIds /\ UnitToNode[u] = n
    BY Zenon DEF LocalUnits
  <2>2. ~IsTerminal(m.clone.status) /\ m.clone.units[u].status # "FAILED"
    BY <1>1, <2>1, Zenon DEF Listed
  <2>3. m.clone.units[u].group = t.units[u].group
    BY <1>1, <2>1, Zenon DEF Listed
  <2>4. m.clone.units[u].status = "COMPLETED"
    BY <2>1, <2>2, <2>3, SwapDueFacts, SMTT(30), Z3T(30)
  <2>5. m.clone.units[u].node = n
    BY <1>1, <2>1, <2>4, SMTT(30), Z3T(30) DEF Listed
  <2>6. u \in UnitsOf(m.clone, due, n)
    BY <1>1, <2>1, <2>3, <2>5 DEF UnitsOf, LocalGroupUnitIDs
  <2> QED
    BY <2>2, <2>6 DEF SwapWork
<1>6. PrepDone(n, w, {}, t, d)
  BY <1>3 DEF Between, PrepDone
<1>7. EffOK(w, s)
  BY <1>3 DEF EffOK
<1>8. CASE work = {}
  <2>1. Between(n, w, s, t, d)
    BY <1>1, <1>3, <1>5, <1>6, <1>8 DEF Between
  <2>2. EnterSwap(m, n) = SwapSettled(w, n)
    BY <1>8 DEF EnterSwap
  <2> QED
    BY <1>7, <2>1, <2>2, SwapSettledGood
<1>9. CASE work # {}
  <2>1. EnterSwap(m, n) = w
    BY <1>9, ZenonT(30) DEF EnterSwap
  <2>2. Good(n, w, s, t, d)
    <3>0. m.prepErr => "prep" \in s.fails
      BY DEF Between
    <3> HIDE DEF w, work, due
    <3> QED
      BY <1>1, <1>3, <1>4, <1>5, <1>6, <1>7, <3>0 DEF Good
  <2> QED
    BY <2>1, <2>2
<1> QED
  BY <1>8, <1>9, ZenonT(30)

\* The prep ack is only sent when every unit of the node is prepared.
LEMMA PrepSettledGood ==
    ASSUME NEW n \in Nodes, NEW m, NEW s, NEW t, NEW d, Between(n, m, s, t, d), Record(s, t),
           m.clone.status = "PREPARING", m.eff = "PREPARING",
           OwnGroups(m.clone, n) \subseteq m.prepFired
    PROVE  Good(n, PrepSettled(m, n), s, t, d)
<1> DEFINE w == [m EXCEPT !.pc = "prepAck"]
<1>1. m \in Memory /\ Listed(m.clone, t)
  BY DEF Between
<1>2. /\ w \in Memory /\ w.pc = "prepAck" /\ w.clone = m.clone /\ w.eff = m.eff
      /\ w.prepErr = m.prepErr /\ w.prepFired = m.prepFired
      /\ w.swapErr = m.swapErr /\ w.swapFired = m.swapFired
  BY <1>1 DEF Memory, Steps
<1>3. ASSUME ~Over(t), ~m.prepErr, NEW u \in LocalUnits(n) PROVE d[u] \in Merged
  <2>1. t.units[u].group \in m.prepFired
    BY <1>1, GroupsOfOwner
  <2> QED
    BY <1>3, <2>1 DEF Between, PrepDone
<1>4. Good(n, w, s, t, d)
  BY <1>2, <1>3 DEF Good, Between, PrepDone, SwapDone
<1>5. Good(n, EnterSwap(m, n), s, t, d)
  BY EnterSwapGood DEF EffOK
<1> QED
  BY <1>4, <1>5 DEF PrepSettled

\* The preparation phase: what fires is in the work list.
LEMMA EnterPrepGood ==
    ASSUME NEW n \in Nodes, NEW m, NEW s, NEW t, NEW d, Between(n, m, s, t, d), Record(s, t),
           m.eff = m.clone.status
    PROVE  Good(n, EnterPrep(m, n), s, t, d)
<1> DEFINE due == OwnGroups(m.clone, n) \ m.prepFired
           work == UnitsOf(m.clone, due, n)
           w == [m EXCEPT !.prepFired = m.prepFired \cup due, !.todo = work, !.pc = "prep",
                          !.known = m.known \/ due # {}]
<1>1. m \in Memory /\ Listed(m.clone, t) /\ DOMAIN m.clone.units = UnitIds
  BY DEF Between, Listed, TaskOn
<1>2. CASE ~(m.clone.barrier /\ m.clone.status = "PREPARING")
  BY <1>2, EnterSwapGood DEF EnterPrep, EffOK
<1>3. CASE m.clone.barrier /\ m.clone.status = "PREPARING"
  <2>1. due \subseteq Groups /\ work \subseteq UnitIds
    <3>1. \A u \in UnitIds : m.clone.units[u].group \in Groups
      BY <1>1 DEF Listed, TaskOn, Unit
    <3> QED
      BY <1>1, <3>1, SMTT(30), Z3T(30) DEF OwnGroups, TaskGroups, UnitsOf, LocalGroupUnitIDs
  <2>2. /\ w \in Memory /\ w.pc = "prep" /\ w.clone = m.clone /\ w.eff = m.eff
        /\ w.todo = work /\ w.prepFired = m.prepFired \cup due
        /\ w.prepErr = m.prepErr /\ w.swapFired = m.swapFired /\ w.swapErr = m.swapErr
    BY <1>1, <2>1, ZenonT(30) DEF Memory, Steps
  <2>3. PrepDone(n, w, work, t, d)
    <3> SUFFICES ASSUME NEW u \in LocalUnits(n) \ work, t.units[u].group \in due
                 PROVE  FALSE
      BY <2>2 DEF PrepDone, Between
    <3>1. u \in LocalGroupUnitIDs(m.clone, t.units[u].group, n)
      BY <1>1, <1>3, GroupsOfOwner
    <3> QED
      BY <3>1 DEF UnitsOf
  <2>4. SwapDone(n, w, {}, t, d) /\ OwnGroups(w.clone, n) \subseteq w.prepFired
    BY <2>2 DEF Between, SwapDone
  <2>5. m.prepErr => "prep" \in s.fails
    BY DEF Between
  <2>6. EnterPrep(m, n) = IF work = {} THEN PrepSettled(w, n) ELSE w
    BY <1>3, <2>2, SMTT(30), Z3T(30) DEF EnterPrep
  <2> HIDE DEF w, work, due
  <2>7. CASE work = {}
    <3>1. Between(n, w, s, t, d)
      BY <1>1, <2>2, <2>3, <2>4, <2>5, <2>7, SMTT(30), Z3T(30) DEF Between
    <3> QED
      BY <1>3, <2>2, <2>4, <2>6, <2>7, <3>1, PrepSettledGood, SMTT(30), Z3T(30)
  <2>8. CASE work # {}
    <3>1. Good(n, w, s, t, d)
      BY <1>1, <1>3, <2>2, <2>3, <2>4, <2>5, SMTT(30), Z3T(30) DEF Good
    <3> QED
      BY <2>6, <2>8, <3>1, SMTT(30), Z3T(30)
  <2> QED
    BY <2>7, <2>8
<1> QED
  BY <1>2, <1>3, SMTT(30), Z3T(30)

\* A tick up to its first step.
LEMMA EnterTickGood ==
    ASSUME NEW n \in Nodes, NEW m, NEW s, NEW t, NEW d, Between(n, m, s, t, d), Record(s, t),
           m.eff = m.clone.status
    PROVE  Good(n, EnterTick(m, n), s, t, d)
BY EnterPrepGood, EnterCompletedGood DEF EnterTick

\* The record is a copy of itself.
LEMMA ListedRefl ==
    ASSUME NEW s, NEW t, Record(s, t)
    PROVE  Listed(t, t)
<1>1. DOMAIN t.units = UnitIds /\ t \in TaskOn(UnitIds)
  BY DEF Record, TaskOn
<1>2. \A u \in UnitIds : t.units[u] \in Unit
  BY <1>1 DEF TaskOn
<1>3. \A u \in UnitIds :
          /\ t.units[u].status = "FAILED" => Over(t)
          /\ t.units[u].status = "COMPLETED" => t.units[u].node = UnitToNode[u]
          /\ t.status \in {"PREPARING", "SWAPPING"} => t.units[u].status = "COMPLETED"
  BY <1>1 DEF Record, TaskInv, AnyUnitFailed, Over, IsTerminal
<1>4. ASSUME t.status = "SWAPPING", t.barrier PROVE allExpectedPreparationAcksLanded(t)
  BY <1>1, <1>4, SMTT(30), Z3T(30) DEF Record, TaskInv, allExpectedPreparationAcksLanded, NodesWithLocalUnits
<1> QED
  BY <1>1, <1>3, <1>4 DEF Listed, Record, Over

\* A node that starts, remembers nothing.
LEMMA FreshGood ==
    ASSUME NEW n, NEW up \in BOOLEAN, NEW booted \in BOOLEAN, NEW s, NEW t, NEW d
    PROVE  Good(n, FreshMemory(up, booted), s, t, d) /\ FreshMemory(up, booted).pc = "idle"
<1> DEFINE w == FreshMemory(up, booted)
<1>1. /\ w \in Memory /\ w.pc = "idle" /\ w.prepErr = FALSE
      /\ w.prepFired = {} /\ w.swapFired = {}
  BY BudgetAssumption DEF FreshMemory, Memory, Steps, TaskStatus
<1> QED
  BY <1>1, Zenon DEF Good, PrepDone, SwapDone

\* The pre-mark of an ended task and the look for work.
LEMMA BootGood ==
    ASSUME NEW n, NEW m, NEW s, NEW t \in TaskOn(UnitIds), NEW d, Good(n, m, s, t, d),
           m.pc = "idle"
    PROVE  /\ Good(n, PreMark(m, t, n), s, t, d) /\ PreMark(m, t, n).pc = "idle"
           /\ Good(n, Reconciled(m, t, n), s, t, d) /\ Reconciled(m, t, n).pc = "idle"
<1>1. m \in Memory
  BY DEF Good
<1>2. Good(n, PreMark(m, t, n), s, t, d) /\ PreMark(m, t, n).pc = "idle"
  <2>1. CASE ~PreMarkDue(t, n)
    <3> DEFINE w == [m EXCEPT !.booted = TRUE]
    <3>1. /\ w \in Memory /\ w.pc = "idle" /\ w.prepErr = m.prepErr /\ w.swapErr = m.swapErr
          /\ w.prepFired = m.prepFired /\ w.swapFired = m.swapFired
      BY <1>1, Zenon DEF Memory
    <3> QED
      BY <2>1, <3>1 DEF PreMark, Good, PrepDone, SwapDone
  <2>2. CASE PreMarkDue(t, n)
    <3> DEFINE w == [m EXCEPT !.booted = TRUE, !.known = TRUE, !.completed = TRUE,
                              !.prepAcked = TRUE, !.swapAcked = TRUE,
                              !.prepFired = TaskGroups(t), !.swapFired = TaskGroups(t)]
    <3>1. TaskGroups(t) \subseteq Groups
      BY DEF TaskGroups, TaskOn, Unit
    <3>2. w \in Memory /\ w.pc = "idle" /\ w.prepErr = m.prepErr
      BY <1>1, <3>1, Zenon DEF Memory
    <3>3. Over(t)
      BY <2>2 DEF PreMarkDue, Over
    <3>4. PreMark(m, t, n) = w
      BY <2>2 DEF PreMark
    <3>5. Good(n, w, s, t, d)
      BY <3>2, <3>3 DEF Good, PrepDone, SwapDone
    <3> QED
      BY <3>2, <3>4, <3>5
  <2> QED
    BY <2>1, <2>2
<1>3. Good(n, Reconciled(m, t, n), s, t, d) /\ Reconciled(m, t, n).pc = "idle"
  <2> DEFINE w == Reconciled(m, t, n)
  <2>1. PICK h \in {"none", "running", "ending"} : w = [m EXCEPT !.handle = h]
    <3> DEFINE run == t.status = "STARTED" /\ NodeHasNonTerminalUnits(t, n)
               end == t.status # "STARTED" /\ m.handle # "none" /\ MidUnit(t, n)
    <3>1. w = [m EXCEPT !.handle = CASE run -> "running" [] end -> "ending" [] OTHER -> "none"]
      BY DEF Reconciled
    <3>2. run => ~end
      OBVIOUS
    <3> DEFINE h == CASE run -> "running" [] end -> "ending" [] OTHER -> "none"
    <3> HIDE DEF run, end
    <3>3. h \in {"none", "running", "ending"}
      BY <3>2, ZenonT(30), SMTT(30)
    <3>4. w = [m EXCEPT !.handle = h]
      BY <3>1, Zenon
    <3> HIDE DEF w, h
    <3> QED
      BY <3>3, <3>4
  <2>2. /\ w \in Memory /\ w.pc = "idle" /\ w.prepErr = m.prepErr /\ w.swapErr = m.swapErr
        /\ w.prepFired = m.prepFired /\ w.swapFired = m.swapFired
    BY <1>1, <2>1, ZenonT(30), SMTT(30) DEF Memory
  <2> QED
    BY <2>2, Zenon DEF Good, PrepDone, SwapDone
<1> QED
  BY <1>2, <1>3, Zenon

-----------------------------------------------------------------------------
(* The commands.                                                           *)

\* A record that grows by nothing false keeps the world as it should be.
LEMMA WorldGrows ==
    ASSUME NEW s, NEW t, NEW d, NEW r, World(s, t, d), Record(s, r), Grows(t, r),
           \A u \in UnitIds :
               /\ r.units[u].status = "COMPLETED" /\ d[u] = "none" =>
                      t.units[u].status = "COMPLETED" \/ Over(r)
               /\ r.prepAcks[UnitToNode[u]] = "ok" =>
                      t.prepAcks[UnitToNode[u]] = "ok" \/ d[u] \in Merged
               /\ r.postAcks[UnitToNode[u]] = "ok" =>
                      t.postAcks[UnitToNode[u]] = "ok" \/ d[u] \in NewData
    PROVE  World(s, r, d)
<1>1. t \in TaskOn(UnitIds) /\ DOMAIN t.units = UnitIds /\ (Over(t) => Over(r))
  BY Zenon DEF World, Record, TaskOn, Grows
<1>2. \A u \in UnitIds : ~UnitTerminal(r.units[u]) => ~UnitTerminal(t.units[u])
  BY <1>1, Zenon DEF Grows, Stands
<1>3. \A u \in UnitIds : d[u] = "swapped" /\ "prep" \notin s.fails => Open(s, r, u)
  BY <1>1, OpenGrows, Zenon DEF World
<1> QED
  BY <1>1, <1>2, <1>3, Zenon DEF World

\* The reports of a unit, by the node that it is placed on.
LEMMA UnitCommandGrows ==
    ASSUME NEW s, NEW t, Record(s, t), NEW u \in UnitIds, NEW n \in Nodes, UnitToNode[u] = n,
           findStartedUnit(t, u, n), ~UnitTerminal(t.units[u]),
           NEW r \in {UnitProgressed(t, u, n, 0), UnitCompleted(t, u, n, 1), UnitFailed(t, u, n, 1)}
    PROVE  /\ Record(s, r) /\ Grows(t, r)
           /\ r.prepAcks = t.prepAcks /\ r.postAcks = t.postAcks
           /\ \A v \in UnitIds : v # u => r.units[v] = t.units[v]
           /\ UnitProgressed(t, u, n, 0).units[u].status = "IN_PROGRESS"
           /\ UnitFailed(t, u, n, 1).units[u].status = "FAILED"
<1>1. t \in TaskOn(UnitIds) /\ DOMAIN t.units = UnitIds /\ t.units[u] \in Unit
  BY Zenon DEF Record, TaskOn
<1>2. 0 \in 0..MaxProgress /\ 1 \in Nat \ {0} /\ 1 \in Nat
  BY MaxProgressAssumption, SMTT(30), Z3T(30)
<1> DEFINE unit == t.units[u]
           a == UnitProgressed(t, u, n, 0)
           b == UnitCompleted(t, u, n, 1)
           c == UnitFailed(t, u, n, 1)
           done == WithUnitDone(t, u, n)
<1>3. a \in TaskOn(UnitIds) /\ b \in TaskOn(UnitIds) /\ c \in TaskOn(UnitIds) /\ done \in TaskOn(UnitIds)
  BY <1>1, <1>2, UnitReportType, SMTT(30), Z3T(30)
<1>4. Evolves(t, a) /\ Evolves(t, b) /\ Evolves(t, c)
  BY <1>1, <1>2, UnitReportEvolves
<1> DEFINE Same(q) ==
      /\ q.prepAcks = t.prepAcks /\ q.postAcks = t.postAcks
      /\ \A v \in UnitIds : v # u => q.units[v] = t.units[v]
      /\ q.units[u].group = unit.group /\ q.units[u].node = n
<1>5. /\ Same(a) /\ a.units[u].status = "IN_PROGRESS"
      /\ Same(c) /\ c.units[u].status = "FAILED"
      /\ Same(b)
  <2>1. Same(a) /\ a.units[u].status = "IN_PROGRESS"
    <3> DEFINE x == [unit EXCEPT !.node = n, !.status = "IN_PROGRESS",
                                 !.progress = IF 0 > unit.progress THEN 0 ELSE unit.progress]
    <3>1. a = [t EXCEPT !.units[u] = x]
      BY DEF UnitProgressed
    <3>2. x.group = unit.group /\ x.node = n /\ x.status = "IN_PROGRESS"
      BY <1>1 DEF Unit
    <3> HIDE DEF x, a
    <3> QED
      BY <1>1, <3>1, <3>2 DEF TaskOn
  <2>2. Same(c) /\ c.units[u].status = "FAILED"
    <3> DEFINE x == [unit EXCEPT !.node = n, !.status = "FAILED"]
    <3>1. c = [[t EXCEPT !.units[u] = x] EXCEPT !.status = "FAILED", !.finishedAt = 1]
      BY DEF UnitFailed, markTerminal
    <3>2. x.group = unit.group /\ x.node = n /\ x.status = "FAILED"
      BY <1>1 DEF Unit
    <3> HIDE DEF x, c
    <3> QED
      BY <1>1, <3>1, <3>2 DEF TaskOn
  <2>3. Same(done)
    <3> DEFINE x == [unit EXCEPT !.node = n, !.status = "COMPLETED", !.progress = MaxProgress]
    <3>1. done = [t EXCEPT !.units[u] = x]
      BY DEF WithUnitDone
    <3>2. x.group = unit.group /\ x.node = n
      BY <1>1 DEF Unit
    <3> HIDE DEF x, done
    <3> QED
      BY <1>1, <3>1, <3>2 DEF TaskOn
  <2>4. b.units = done.units /\ b.prepAcks = done.prepAcks /\ b.postAcks = done.postAcks
    <3>1. \/ b = done \/ b = markTerminal(done, "FAILED", 1)
          \/ \E st \in {"PREPARING", "SWAPPING"} : b = [done EXCEPT !.status = st]
      BY Zenon DEF UnitCompleted
    <3> HIDE DEF b, done
    <3> QED
      BY <1>3, <3>1, ZenonT(30) DEF markTerminal, TaskOn
  <2> QED
    BY <2>1, <2>2, <2>3, <2>4, ZenonT(30)
<1>6. /\ r \in TaskOn(UnitIds) /\ DOMAIN r.units = UnitIds /\ Evolves(t, r) /\ Same(r)
  <2> HIDE DEF Same, a, b, c
  <2>1. r \in {a, b, c}
    BY Zenon DEF a, b, c
  <2>2. r \in TaskOn(UnitIds) /\ Evolves(t, r) /\ Same(r)
    BY <1>3, <1>4, <1>5, <2>1, ZenonT(30)
  <2> QED
    BY <1>5, <2>1, <2>2 DEF TaskOn
<1>7. Record(s, r)
  BY <1>6, SMTT(30), Z3T(30) DEF Record, Evolves
<1>8. Grows(t, r)
  BY <1>6, ZenonT(30) DEF Grows, Evolves, SameSubmission, Over, IsActive
<1> QED
  BY <1>5, <1>6, <1>7, <1>8, Zenon

\* A preparation ack that applies.
LEMMA PrepAckGrows ==
    ASSUME NEW s, NEW t, Record(s, t), NEW n \in Nodes, NEW ok \in BOOLEAN,
           PrepAckApplies(t, n), NEW r, r = PrepAcked(t, n, ok, 1)
    PROVE  /\ Record(s, r) /\ Grows(t, r)
           /\ r.units = t.units /\ r.postAcks = t.postAcks
           /\ \A k \in Nodes : r.prepAcks[k] = "ok" => t.prepAcks[k] = "ok" \/ (k = n /\ ok)
<1>1. t \in TaskOn(UnitIds) /\ 1 \in Nat \ {0} /\ 1 \in Nat
  BY DEF Record
<1>2. r \in TaskOn(UnitIds)
  BY <1>1, AckType
<1>3. Evolves(t, r)
  BY <1>1, AckEvolves
<1> DEFINE p == [t EXCEPT !.prepAcks[n] = Ack(ok)]
<1>4. /\ p \in TaskOn(UnitIds) /\ p.units = t.units /\ p.postAcks = t.postAcks
      /\ p.prepAcks = [t.prepAcks EXCEPT ![n] = Ack(ok)]
  BY <1>1 DEF TaskOn, Ack, AckStatus
<1>5. r = p \/ r = markTerminal(p, "FAILED", 1) \/ r = [p EXCEPT !.status = "SWAPPING"]
  BY DEF PrepAcked
<1> HIDE DEF p
<1>6. r.units = t.units /\ r.postAcks = t.postAcks /\ r.prepAcks = [t.prepAcks EXCEPT ![n] = Ack(ok)]
  BY <1>4, <1>5, Zenon DEF markTerminal, TaskOn
<1>7. \A k \in Nodes : r.prepAcks[k] = "ok" => t.prepAcks[k] = "ok" \/ (k = n /\ ok)
  BY <1>1, <1>6, SMTT(30), Z3T(30) DEF TaskOn, Ack
<1> QED
  BY <1>2, <1>3, <1>6, <1>7 DEF Record, Grows, Evolves, SameSubmission, Over, IsActive

\* A swap ack that applies.
LEMMA PostAckGrows ==
    ASSUME NEW s, NEW t, Record(s, t), NEW n \in Nodes, NEW ok \in BOOLEAN,
           PostAckApplies(t, n), NEW r, r = PostAcked(t, n, ok, 1)
    PROVE  /\ Record(s, r) /\ Grows(t, r)
           /\ r.units = t.units /\ r.prepAcks = t.prepAcks
           /\ \A k \in Nodes : r.postAcks[k] = "ok" => t.postAcks[k] = "ok" \/ (k = n /\ ok)
<1>1. t \in TaskOn(UnitIds) /\ 1 \in Nat \ {0} /\ 1 \in Nat
  BY DEF Record
<1>2. r \in TaskOn(UnitIds)
  BY <1>1, AckType
<1>3. Evolves(t, r)
  BY <1>1, AckEvolves
<1> DEFINE p == [t EXCEPT !.postAcks[n] = Ack(ok)]
<1>4. /\ p \in TaskOn(UnitIds) /\ p.units = t.units /\ p.prepAcks = t.prepAcks
      /\ p.postAcks = [t.postAcks EXCEPT ![n] = Ack(ok)]
  BY <1>1 DEF TaskOn, Ack, AckStatus
<1>5. r = p \/ r = markTerminal(p, "FAILED", 1)
  BY DEF PostAcked
<1> HIDE DEF p
<1>6. r.units = t.units /\ r.prepAcks = t.prepAcks /\ r.postAcks = [t.postAcks EXCEPT ![n] = Ack(ok)]
  BY <1>4, <1>5, Zenon DEF markTerminal, TaskOn
<1>7. \A k \in Nodes : r.postAcks[k] = "ok" => t.postAcks[k] = "ok" \/ (k = n /\ ok)
  BY <1>1, <1>6 DEF TaskOn, Ack
<1> QED
  BY <1>2, <1>3, <1>6, <1>7 DEF Record, Grows, Evolves, SameSubmission, Over, IsActive

\* The end of an active task.
LEMMA EndGrows ==
    ASSUME NEW s, NEW t, NEW d, World(s, t, d), IsActive(t.status), NEW st \in TaskStatus,
           st \in {"FAILED", "CANCELLED"} \/ (t.status = "SWAPPING" /\ st = "FINISHED")
    PROVE  World(s, markTerminal(t, st, 1), d) /\ Grows(t, markTerminal(t, st, 1))
<1> DEFINE r == markTerminal(t, st, 1)
<1>1. Record(s, t) /\ t \in TaskOn(UnitIds) /\ 1 \in Nat \ {0} /\ 1 \in Nat
  BY DEF World, Record
<1>2. r \in TaskOn(UnitIds) /\ Evolves(t, r)
  BY <1>1, markTerminalType, markTerminalEvolves
<1>3. r.units = t.units /\ r.prepAcks = t.prepAcks /\ r.postAcks = t.postAcks
  BY <1>1, Zenon DEF markTerminal, TaskOn
<1> HIDE DEF r
<1>4. Record(s, r) /\ Grows(t, r)
  BY <1>1, <1>2, <1>3, SMTT(30), Z3T(30) DEF Record, Grows, Evolves, SameSubmission, Over, IsActive
<1>5. World(s, r, d)
  BY <1>3, <1>4, WorldGrows, SMTT(30), Z3T(30)
<1> QED
  BY <1>4, <1>5, Zenon DEF r

\* A command that is sound and not refused.
LEMMA AppliedGood ==
    ASSUME NEW s, NEW t, NEW d, World(s, t, d), NEW cmd, Sound(cmd, t, d), ~Refused(cmd, t)
    PROVE  World(s, Applied(cmd, t), d) /\ Grows(t, Applied(cmd, t))
<1>1. Record(s, t) /\ t \in TaskOn(UnitIds) /\ cmd \in Command
  BY DEF World, Record, Sound
<1>2. World(s, t, d) /\ Grows(t, t)
  BY <1>1, GrowsRefl, SMTT(30), Z3T(30)
<1>3. CASE cmd.type = "prepAck" /\ PrepAckApplies(t, cmd.node)
  <2> DEFINE r == PrepAcked(t, cmd.node, cmd.ok, 1)
  <2>1. /\ cmd.node \in Nodes /\ cmd.ok \in BOOLEAN /\ Applied(cmd, t) = r
        /\ r = PrepAcked(t, cmd.node, cmd.ok, 1)
    BY <1>1, <1>3, ZenonT(30) DEF Command, Applied
  <2> HIDE DEF r
  <2>2. /\ Record(s, r) /\ Grows(t, r) /\ r.units = t.units /\ r.postAcks = t.postAcks
        /\ \A k \in Nodes : r.prepAcks[k] = "ok" =>
               t.prepAcks[k] = "ok" \/ (k = cmd.node /\ cmd.ok = TRUE)
    BY <1>1, <1>3, <2>1, PrepAckGrows, SMTT(30), Z3T(30)
  <2>3. ~Over(t)
    BY <1>3, ZenonT(30) DEF PrepAckApplies, Over, IsTerminal
  <2>4. \A u \in UnitIds : r.prepAcks[UnitToNode[u]] = "ok" =>
            t.prepAcks[UnitToNode[u]] = "ok" \/ d[u] \in Merged
    <3> SUFFICES ASSUME NEW u \in UnitIds, r.prepAcks[UnitToNode[u]] = "ok",
                        t.prepAcks[UnitToNode[u]] # "ok"
                 PROVE  d[u] \in Merged
      OBVIOUS
    <3>1. UnitToNode[u] = cmd.node /\ cmd.ok
      BY <2>2, UnitsAssumption, SMTT(30), Z3T(30)
    <3> QED
      BY <1>3, <2>3, <3>1 DEF Sound, LocalUnits
  <2> QED
    BY <2>1, <2>2, <2>4, WorldGrows
<1>4. CASE cmd.type = "postAck" /\ PostAckApplies(t, cmd.node)
  <2> DEFINE r == PostAcked(t, cmd.node, cmd.ok, 1)
  <2>1. /\ cmd.node \in Nodes /\ cmd.ok \in BOOLEAN /\ Applied(cmd, t) = r
        /\ r = PostAcked(t, cmd.node, cmd.ok, 1)
    BY <1>1, <1>4, ZenonT(30) DEF Command, Applied
  <2> HIDE DEF r
  <2>2. /\ Record(s, r) /\ Grows(t, r) /\ r.units = t.units /\ r.prepAcks = t.prepAcks
        /\ \A k \in Nodes : r.postAcks[k] = "ok" =>
               t.postAcks[k] = "ok" \/ (k = cmd.node /\ cmd.ok = TRUE)
    BY <1>1, <1>4, <2>1, PostAckGrows, SMTT(30), Z3T(30)
  <2>3. ~Over(t)
    BY <1>4, ZenonT(30) DEF PostAckApplies, Over, IsTerminal
  <2>4. \A u \in UnitIds : r.postAcks[UnitToNode[u]] = "ok" =>
            t.postAcks[UnitToNode[u]] = "ok" \/ d[u] \in NewData
    <3> SUFFICES ASSUME NEW u \in UnitIds, r.postAcks[UnitToNode[u]] = "ok",
                        t.postAcks[UnitToNode[u]] # "ok"
                 PROVE  d[u] \in NewData
      BY SMTT(30), Z3T(30)
    <3>1. UnitToNode[u] = cmd.node /\ cmd.ok
      BY <2>2, UnitsAssumption
    <3> QED
      BY <1>4, <2>3, <3>1 DEF Sound, LocalUnits
  <2> QED
    BY <2>1, <2>2, <2>4, WorldGrows
<1>5. CASE cmd.type \in {"finalize", "fail"} /\ t.status = "SWAPPING"
  <2>1. \E st \in {"FINISHED", "FAILED"} : Applied(cmd, t) = markTerminal(t, st, 1)
    BY <1>5, SMTT(30), Z3T(30) DEF Applied
  <2> QED
    BY <1>5, <2>1, EndGrows DEF IsActive, IsTerminal, TaskStatus
<1>6. CASE cmd.type \in {"claim", "done", "failed"}
  <2> DEFINE u == cmd.unit
             n == cmd.node
             r == Applied(cmd, t)
  <2>1. u \in UnitIds /\ n \in Nodes /\ UnitToNode[u] = n
    BY <1>1, <1>6 DEF Command, Sound
  <2>2. findStartedUnit(t, u, n) /\ ~UnitTerminal(t.units[u])
    BY <1>6 DEF Refused
  <2>3. /\ r \in {UnitProgressed(t, u, n, 0), UnitCompleted(t, u, n, 1), UnitFailed(t, u, n, 1)}
        /\ cmd.type = "claim" => r = UnitProgressed(t, u, n, 0)
        /\ cmd.type = "failed" => r = UnitFailed(t, u, n, 1)
    BY <1>6, ZenonT(30) DEF Applied
  <2>4. /\ Record(s, r) /\ Grows(t, r) /\ r.prepAcks = t.prepAcks /\ r.postAcks = t.postAcks
        /\ \A v \in UnitIds : v # u => r.units[v] = t.units[v]
        /\ UnitProgressed(t, u, n, 0).units[u].status = "IN_PROGRESS"
        /\ UnitFailed(t, u, n, 1).units[u].status = "FAILED"
    <3> HIDE DEF r, u, n
    <3>1. Record(s, t)
      BY <1>1, Zenon
    <3>2. r \in {UnitProgressed(t, u, n, 0), UnitCompleted(t, u, n, 1), UnitFailed(t, u, n, 1)}
      BY <2>3, ZenonT(30)
    <3> QED
      BY <2>1, <2>2, <3>1, <3>2, UnitCommandGrows, SMTT(30), Z3T(30)
  <2>5. r.units[u].status = "COMPLETED" => cmd.type = "done"
    BY <1>6, <2>3, <2>4
  <2>6. ~Over(t)
    BY <2>2, ZenonT(30) DEF findStartedUnit, Over, IsTerminal
  <2> HIDE DEF r
  <2>7. \A v \in UnitIds : r.units[v].status = "COMPLETED" /\ d[v] = "none" =>
            t.units[v].status = "COMPLETED"
    BY <2>1, <2>4, <2>5, <2>6, SMTT(30), Z3T(30) DEF Sound
  <2>8. World(s, r, d)
    BY <2>4, <2>7, WorldGrows
  <2> QED
    BY <2>4, <2>8, SMTT(30), Z3T(30) DEF r
<1>7. CASE Applied(cmd, t) = t
  BY <1>2, <1>7, SMTT(30), Z3T(30)
<1>8. cmd.type \in {"prepAck", "postAck", "finalize", "fail", "claim", "done", "failed"}
  BY <1>1 DEF Command
<1> QED
  BY <1>3, <1>4, <1>5, <1>6, <1>7, <1>8, SMTT(30), Z3T(30) DEF Applied

-----------------------------------------------------------------------------
(* The kinds of steps.                                                     *)

\* What is on its way and what the nodes remember, when record and disk move.
LEMMA EverythingGrows ==
    ASSUME SchedulerInv, NEW r, NEW e, Grows(task, r), DiskGrows(disk, e, task)
    PROVE  /\ \A cmd \in inflight : Sound(cmd, r, e)
           /\ \A n \in Nodes : Good(n, mem[n], setup, r, e)
<1>1. task \in TaskOn(UnitIds)
  BY DEF SchedulerInv, TypeOK
<1>2. \A cmd \in inflight : Sound(cmd, r, e)
  BY SoundGrows DEF SchedulerInv
<1>3. \A n \in Nodes : Good(n, mem[n], setup, r, e)
  BY <1>1, GoodGrows DEF SchedulerInv
<1> QED
  BY <1>2, <1>3

\* A step that changes the record only.
LEMMA RecordStep ==
    ASSUME SchedulerInv, Grows(task, task'), World(setup, task', disk),
           inflight' \subseteq inflight,
           UNCHANGED <<setup, flipped, disk, cleaned, mem, crashes, timeouts>>
    PROVE  SchedulerInv'
<1>1. task \in TaskOn(UnitIds) /\ task' \in TaskOn(UnitIds)
  BY DEF SchedulerInv, TypeOK, Grows
<1>2. DiskGrows(disk, disk, task)
  BY <1>1, GrowsRefl
<1>3. /\ \A cmd \in inflight : Sound(cmd, task', disk)
      /\ \A n \in Nodes : Good(n, mem[n], setup, task', disk)
  BY <1>2, EverythingGrows
<1>4. TypeOK'
  BY <1>1, SMTT(30), Z3T(30) DEF SchedulerInv, TypeOK
<1> QED
  BY <1>3, <1>4 DEF SchedulerInv

\* A step of one node that changes its memory and its disk only.
LEMMA LocalStep ==
    ASSUME SchedulerInv, NEW n \in Nodes, NEW w, mem' = [mem EXCEPT ![n] = w],
           disk' \in [UnitIds -> UnitDisk], DiskGrows(disk, disk', task),
           World(setup, task, disk'), Good(n, w, setup, task, disk'),
           flipped' \in BOOLEAN, cleaned' \in [Nodes -> CleanupState], crashes' \in 0..setup.maxCrashes,
           UNCHANGED <<setup, task, inflight, timeouts>>
    PROVE  SchedulerInv'
<1>1. task \in TaskOn(UnitIds) /\ mem \in [Nodes -> Memory] /\ w \in Memory
  BY Zenon DEF SchedulerInv, TypeOK, Good
<1>2. Grows(task, task)
  BY <1>1, GrowsRefl
<1>3. /\ \A cmd \in inflight : Sound(cmd, task, disk')
      /\ \A k \in Nodes : Good(k, mem[k], setup, task, disk')
  BY <1>2, EverythingGrows
<1>4. \A k \in Nodes : Good(k, mem'[k], setup, task, disk')
  BY <1>1, <1>3, SMTT(30), Z3T(30)
<1>5. TypeOK'
  BY <1>1 DEF SchedulerInv, TypeOK
<1> QED
  BY <1>3, <1>4, <1>5 DEF SchedulerInv

\* A step of one node that writes through Raft, perhaps after work on its disk.
LEMMA CallStep ==
    ASSUME SchedulerInv, NEW n \in Nodes, NEW cmd, NEW onOk, NEW onErr,
           Call(n, cmd, onOk, onErr),
           disk' \in [UnitIds -> UnitDisk], DiskGrows(disk, disk', task),
           World(setup, task, disk'), Sound(cmd, task, disk'),
           \A r : Record(setup, r) /\ Good(n, mem[n], setup, r, disk') =>
                      Good(n, onOk, setup, r, disk') /\ Good(n, onErr, setup, r, disk'),
           UNCHANGED <<setup, flipped, cleaned, crashes>>
    PROVE  SchedulerInv'
<1>1. task \in TaskOn(UnitIds) /\ mem \in [Nodes -> Memory]
  BY DEF SchedulerInv, TypeOK
<1>2. Grows(task, task') /\ World(setup, task', disk')
  <2>1. Grows(task, task)
    BY <1>1, GrowsRefl
  <2>2. ASSUME ~Refused(cmd, task)
        PROVE  World(setup, Applied(cmd, task), disk') /\ Grows(task, Applied(cmd, task))
    BY <2>2, AppliedGood
  <2>3. task' = task \/ (~Refused(cmd, task) /\ task' = Applied(cmd, task))
    BY DEF Call
  <2> QED
    BY <2>1, <2>2, <2>3
<1>3. /\ \A c \in inflight : Sound(c, task', disk')
      /\ \A k \in Nodes : Good(k, mem[k], setup, task', disk')
  BY <1>2, EverythingGrows
<1>4. inflight' = inflight \/ inflight' = inflight \cup {cmd}
  BY DEF Call
<1>5. \A c \in inflight' : Sound(c, task', disk')
  <2>1. DiskGrows(disk', disk', task)
    BY <1>1, GrowsRefl
  <2>2. Sound(cmd, task', disk')
    BY <1>2, <2>1, SoundGrows
  <2> QED
    BY <1>3, <1>4, <2>2
<1>6. Good(n, onOk, setup, task', disk') /\ Good(n, onErr, setup, task', disk')
  BY <1>2, <1>3, Zenon DEF World
<1>7. \E w : mem' = [mem EXCEPT ![n] = w] /\ Good(n, w, setup, task', disk')
  BY <1>6 DEF Call
<1>8. mem' \in [Nodes -> Memory] /\ \A k \in Nodes : Good(k, mem'[k], setup, task', disk')
  <2> PICK w : mem' = [mem EXCEPT ![n] = w] /\ Good(n, w, setup, task', disk')
    BY <1>7, Zenon
  <2>1. w \in Memory
    BY ZenonT(30) DEF Good
  <2> QED
    BY <1>1, <1>3, <2>1
<1>9. timeouts' \in 0..setup.maxTimeouts
  BY SetupsAssumption, SMTT(30), Z3T(30) DEF Call, SchedulerInv, TypeOK, SetupType
<1>10. TypeOK'
  <2>1. task' \in TaskOn(UnitIds)
    BY <1>2, Zenon DEF Grows
  <2>2. inflight' \subseteq Command
    BY <1>5, Zenon DEF Sound
  <2> QED
    BY <1>8, <1>9, <2>1, <2>2 DEF SchedulerInv, TypeOK
<1> QED
  BY <1>2, <1>5, <1>8, <1>10, SMTT(30), Z3T(30) DEF SchedulerInv

-----------------------------------------------------------------------------
(* The steps of a tick.                                                    *)

\* After the last callback of a phase.
LEMMA GoodBetween ==
    ASSUME NEW n, NEW m, NEW s, NEW t, NEW d, Good(n, m, s, t, d),
           m.pc \notin {"idle", "prep", "swap"}
    PROVE  Between(n, m, s, t, d)
BY ZenonT(30) DEF Good, Between

\* A tick notes its own ack on its copy.
LEMMA ListedAck ==
    ASSUME NEW c, NEW t, Listed(c, t), NEW p \in TaskOn(UnitIds),
           p.units = c.units, p.status = c.status, p.barrier = c.barrier
    PROVE  Listed(p, t)
BY DEF Listed

\* The swap phase, after a preparation ack.
LEMMA AfterPrepAckGood ==
    ASSUME NEW n \in Nodes, NEW m, NEW s, NEW t, NEW d, Good(n, m, s, t, d), Record(s, t),
           m.pc = "prepAck"
    PROVE  /\ Good(n, AfterPrepAck(m, n, ~m.prepErr), s, t, d)
           /\ Good(n, EnterSwap(m, n), s, t, d)
<1> DEFINE ok == ~m.prepErr
           a == Ack(ok)
           c == [m.clone EXCEPT !.prepAcks[n] = a]
           w == [m EXCEPT !.prepAcked = m.known, !.clone.prepAcks[n] = a,
                          !.eff = IF ok THEN m.eff ELSE "FAILED"]
<1>1. Between(n, m, s, t, d)
  BY GoodBetween, ZenonT(30)
<1>2. m \in Memory /\ Listed(m.clone, t) /\ ok \in BOOLEAN
  BY <1>1, SMTT(30), Z3T(30) DEF Between, Memory
<1>3. m.clone.status = "PREPARING" /\ m.eff = "PREPARING"
  BY DEF Good
<1>4. Listed(c, t) /\ c \in TaskOn(UnitIds) /\ c.status = m.clone.status
  <2>1. a \in AckStatus
    BY DEF Ack, AckStatus
  <2>2. /\ c \in TaskOn(UnitIds)
        /\ c.units = m.clone.units /\ c.status = m.clone.status /\ c.barrier = m.clone.barrier
    <3> HIDE DEF a
    <3> QED
      BY <1>2, <2>1 DEF Listed, TaskOn
  <2> HIDE DEF c
  <2> QED
    BY <1>2, <2>2, ListedAck
<1>5. /\ w \in Memory /\ w.clone = c /\ w.eff = (IF ok THEN m.eff ELSE "FAILED")
      /\ w.prepErr = m.prepErr /\ w.prepFired = m.prepFired
      /\ w.swapErr = m.swapErr /\ w.swapFired = m.swapFired
  <2> HIDE DEF c, a, ok
  <2>1. w = [m EXCEPT !.prepAcked = m.known, !.clone = c,
                      !.eff = IF ok THEN m.eff ELSE "FAILED"]
    BY <1>2 DEF Memory, c
  <2> QED
    BY <1>2, <1>4, <2>1, ZenonT(30) DEF Memory, TaskStatus
<1>6. Between(n, w, s, t, d) /\ EffOK(w, s)
  <2> HIDE DEF w, c
  <2>1. m.prepErr => "prep" \in s.fails
    BY <1>1, Zenon DEF Between
  <2>2. EffOK(w, s)
    BY <1>3, <1>4, <1>5, <2>1 DEF EffOK
  <2> QED
    BY <1>1, <1>4, <1>5, <2>2, Zenon DEF Between, PrepDone, SwapDone
<1>7. AfterPrepAck(m, n, ok) = EnterSwap(w, n)
  BY DEF AfterPrepAck
<1> HIDE DEF w, c
<1>8. Good(n, EnterSwap(w, n), s, t, d)
  BY <1>6, EnterSwapGood, SMTT(30), Z3T(30)
<1>9. Good(n, EnterSwap(m, n), s, t, d)
  BY <1>1, <1>3, EnterSwapGood, SMTT(30), Z3T(30) DEF EffOK
<1> QED
  BY <1>7, <1>8, <1>9

\* OnTaskCompleted, after a swap ack.
LEMMA AfterSwapAckGood ==
    ASSUME NEW n \in Nodes, NEW m, NEW s, NEW t, NEW d, Good(n, m, s, t, d),
           m.pc = "swapAck"
    PROVE  /\ Good(n, AfterSwapAck(m, n, ~m.swapErr), s, t, d)
           /\ Good(n, EnterCompleted(m), s, t, d)
<1> DEFINE ok == ~m.swapErr
           a == Ack(ok)
           c == [m.clone EXCEPT !.postAcks[n] = a]
           w == [m EXCEPT !.swapAcked = m.known, !.clone.postAcks[n] = a,
                          !.eff = IF ~ok /\ m.eff = "SWAPPING" THEN "FAILED" ELSE m.eff]
<1>1. Between(n, m, s, t, d)
  BY GoodBetween, SMTT(30), Z3T(30)
<1>2. m \in Memory /\ Listed(m.clone, t) /\ ok \in BOOLEAN
  BY <1>1 DEF Between, Memory
<1>3. Listed(c, t) /\ c \in TaskOn(UnitIds)
  <2>1. a \in AckStatus
    BY DEF Ack, AckStatus
  <2>2. /\ c \in TaskOn(UnitIds)
        /\ c.units = m.clone.units /\ c.status = m.clone.status /\ c.barrier = m.clone.barrier
    <3> HIDE DEF a
    <3> QED
      BY <1>2, <2>1 DEF Listed, TaskOn
  <2> HIDE DEF c
  <2> QED
    BY <1>2, <2>2, ListedAck
<1>4. /\ w \in Memory /\ w.clone = c
      /\ w.prepErr = m.prepErr /\ w.prepFired = m.prepFired
      /\ w.swapErr = m.swapErr /\ w.swapFired = m.swapFired
  <2> HIDE DEF c, a, ok
  <2>1. w = [m EXCEPT !.swapAcked = m.known, !.clone = c,
                      !.eff = IF ~ok /\ m.eff = "SWAPPING" THEN "FAILED" ELSE m.eff]
    BY <1>2 DEF Memory, c
  <2> QED
    BY <1>2, <1>3, <2>1, ZenonT(30) DEF Memory, TaskStatus
<1>5. Between(n, w, s, t, d)
  <2> HIDE DEF w, c
  <2> QED
    BY <1>1, <1>3, <1>4 DEF Between, PrepDone, SwapDone
<1>6. AfterSwapAck(m, n, ok) = EnterCompleted(w)
  BY DEF AfterSwapAck
<1> HIDE DEF w, c
<1>7. Good(n, EnterCompleted(w), s, t, d) /\ Good(n, EnterCompleted(m), s, t, d)
  BY <1>1, <1>5, EnterCompletedGood
<1> QED
  BY <1>6, <1>7

-----------------------------------------------------------------------------
(* One lemma per action.                                                   *)

\* A step that leaves the disks alone.
LEMMA SameDisk ==
    ASSUME SchedulerInv, UNCHANGED disk
    PROVE  /\ disk' \in [UnitIds -> UnitDisk] /\ DiskGrows(disk, disk', task)
           /\ World(setup, task, disk')
<1>1. task \in TaskOn(UnitIds)
  BY DEF SchedulerInv, TypeOK
<1>2. DiskGrows(disk, disk, task)
  BY <1>1, GrowsRefl, Zenon
<1> QED
  BY <1>2 DEF SchedulerInv, TypeOK

\* A preparation ack: it is true when it is sent.
LEMMA PrepAckKeepsInv ==
    ASSUME SchedulerInv, NEW n \in Nodes, PrepAck(n)
    PROVE  SchedulerInv'
<1> DEFINE m == mem[n]
           cmd == [type |-> "prepAck", node |-> n, ok |-> ~m.prepErr]
<1>1. m.pc = "prepAck" /\ UNCHANGED <<setup, flipped, disk, cleaned, crashes>>
  BY ZenonT(30) DEF PrepAck
<1>2. Call(n, cmd, AfterPrepAck(m, n, ~m.prepErr), EnterSwap(m, n))
  BY DEF PrepAck
<1>3. Good(n, m, setup, task, disk') /\ m \in Memory
  BY <1>1, Zenon DEF SchedulerInv, Good
<1>4. Sound(cmd, task, disk')
  <2>1. cmd \in Command /\ cmd.type = "prepAck" /\ cmd.node = n /\ cmd.ok = ~m.prepErr
    BY <1>3, ZenonT(30) DEF Command, Memory
  <2> HIDE DEF cmd
  <2> QED
    BY <1>1, <1>3, <2>1, Zenon DEF Sound, Good
<1>5. ASSUME NEW r, Record(setup, r), Good(n, mem[n], setup, r, disk')
      PROVE  /\ Good(n, AfterPrepAck(m, n, ~m.prepErr), setup, r, disk')
             /\ Good(n, EnterSwap(m, n), setup, r, disk')
  BY <1>1, <1>5, AfterPrepAckGood, Zenon
<1> HIDE DEF cmd, m
<1> QED
  BY <1>1, <1>2, <1>4, <1>5, SameDisk, CallStep, Zenon

\* A swap ack: so is this one.
LEMMA SwapAckKeepsInv ==
    ASSUME SchedulerInv, NEW n \in Nodes, SwapAck(n)
    PROVE  SchedulerInv'
<1> DEFINE m == mem[n]
           cmd == [type |-> "postAck", node |-> n, ok |-> ~m.swapErr]
<1>1. m.pc = "swapAck" /\ UNCHANGED <<setup, flipped, disk, cleaned, crashes>>
  BY SMTT(30), Z3T(30) DEF SwapAck
<1>2. Call(n, cmd, AfterSwapAck(m, n, ~m.swapErr), EnterCompleted(m))
  BY DEF SwapAck
<1>3. Good(n, m, setup, task, disk') /\ m \in Memory
  BY <1>1, Zenon DEF SchedulerInv, Good
<1>4. Sound(cmd, task, disk')
  <2>1. cmd \in Command /\ cmd.type = "postAck" /\ cmd.node = n /\ cmd.ok = ~m.swapErr
    BY <1>3, ZenonT(30) DEF Command, Memory
  <2> HIDE DEF cmd
  <2> QED
    BY <1>1, <1>3, <2>1, Zenon DEF Sound, Good
<1>5. ASSUME NEW r, Record(setup, r), Good(n, mem[n], setup, r, disk')
      PROVE  /\ Good(n, AfterSwapAck(m, n, ~m.swapErr), setup, r, disk')
             /\ Good(n, EnterCompleted(m), setup, r, disk')
  BY <1>1, <1>5, AfterSwapAckGood, SMTT(30), Z3T(30)
<1> HIDE DEF cmd, m
<1> QED
  BY <1>1, <1>2, <1>4, <1>5, SameDisk, CallStep, ZenonT(30)

\* The writes that end a tick.
LEMMA EndOfTickKeepsInv ==
    ASSUME SchedulerInv, NEW n \in Nodes, MarkFailed(n) \/ Finalize(n)
    PROVE  SchedulerInv'
<1> DEFINE m == mem[n]
           w == [m EXCEPT !.completed = FALSE]
<1>1. m.pc \in {"fail", "finalize"} /\ UNCHANGED <<setup, flipped, disk, cleaned, crashes>>
  BY DEF MarkFailed, Finalize
<1>2. PICK cmd \in [type : {"finalize", "fail"}, node : Nodes], onErr \in {Idle(m), Idle(w)} :
          Call(n, cmd, Idle(m), onErr)
  <2>1. CASE MarkFailed(n)
    <3> DEFINE cmd == [type |-> "fail", node |-> n]
    <3>1. cmd \in [type : {"finalize", "fail"}, node : Nodes]
      OBVIOUS
    <3>2. Call(n, cmd, Idle(m), Idle(m))
      BY <2>1, Zenon DEF MarkFailed
    <3> QED
      BY <3>1, <3>2
  <2>2. CASE Finalize(n)
    <3> DEFINE cmd == [type |-> "finalize", node |-> n]
    <3>1. cmd \in [type : {"finalize", "fail"}, node : Nodes]
      OBVIOUS
    <3>2. Call(n, cmd, Idle(m), Idle(w))
      BY <2>2 DEF Finalize
    <3> QED
      BY <3>1, <3>2
  <2> QED
    BY <2>1, <2>2, Zenon
<1>3. Sound(cmd, task, disk')
  BY DEF Sound, Command
<1>4. ASSUME NEW r, Record(setup, r), Good(n, mem[n], setup, r, disk')
      PROVE  Good(n, Idle(m), setup, r, disk') /\ Good(n, onErr, setup, r, disk')
  <2>1. Between(n, m, setup, r, disk') /\ m \in Memory
    BY <1>1, <1>4, GoodBetween DEF Between
  <2>2. /\ w \in Memory /\ w.prepErr = m.prepErr /\ w.prepFired = m.prepFired
        /\ w.swapErr = m.swapErr /\ w.swapFired = m.swapFired
    BY <2>1, ZenonT(30) DEF Memory
  <2> HIDE DEF w
  <2>3. Good(n, Idle(m), setup, r, disk')
    BY <2>1, IdleGood, ZenonT(30) DEF Between
  <2>4. /\ PrepDone(n, w, {}, r, disk') /\ SwapDone(n, w, {}, r, disk')
        /\ w.prepErr => "prep" \in setup.fails
    BY <2>1, <2>2, SMTT(30), Z3T(30) DEF Between, PrepDone, SwapDone
  <2>5. Good(n, Idle(w), setup, r, disk')
    BY <2>2, <2>4, IdleGood
  <2> QED
    BY <2>3, <2>5
<1> HIDE DEF m, w
<1> QED
  BY <1>1, <1>2, <1>3, <1>4, SameDisk, CallStep

\* A worker claims a unit or reports its failure.
LEMMA ReportKeepsInv ==
    ASSUME SchedulerInv, NEW n \in Nodes, NEW u \in UnitIds, ClaimUnit(n, u) \/ FailUnit(n, u)
    PROVE  SchedulerInv'
<1>1. PICK type \in {"claim", "failed"} :
          Call(n, [type |-> type, node |-> n, unit |-> u], mem[n], mem[n])
  BY Zenon DEF ClaimUnit, FailUnit
<1> DEFINE cmd == [type |-> type, node |-> n, unit |-> u]
<1>2. UnitToNode[u] = n /\ UNCHANGED <<setup, flipped, disk, cleaned, crashes>>
  BY SMTT(30), Z3T(30) DEF ClaimUnit, FailUnit, Working
<1>3. Sound(cmd, task, disk')
  BY <1>2 DEF Sound, Command
<1>4. Call(n, cmd, mem[n], mem[n])
  BY <1>1
<1> HIDE DEF cmd
<1> QED
  BY <1>2, <1>3, <1>4, SameDisk, CallStep, ZenonT(30)

\* A worker ends a unit and reports it.
LEMMA CompleteUnitKeepsInv ==
    ASSUME SchedulerInv, NEW n \in Nodes, NEW u \in UnitIds, CompleteUnit(n, u)
    PROVE  SchedulerInv'
<1> DEFINE cmd == [type |-> "done", node |-> n, unit |-> u]
<1>1. /\ UnitToNode[u] = n /\ task.units[u].status = "IN_PROGRESS"
      /\ disk' = [disk EXCEPT ![u] = "reindexed"]
      /\ UNCHANGED <<setup, flipped, cleaned, crashes>>
      /\ Call(n, cmd, mem[n], mem[n])
  BY DEF CompleteUnit, Working
<1>2. disk \in [UnitIds -> UnitDisk] /\ World(setup, task, disk)
  BY Zenon DEF SchedulerInv, TypeOK
<1>3. /\ disk' \in [UnitIds -> UnitDisk] /\ disk'[u] = "reindexed"
      /\ \A v \in UnitIds \ {u} : disk'[v] = disk[v]
  BY <1>1, <1>2, Zenon DEF UnitDisk
<1>4. ~UnitTerminal(task.units[u]) /\ disk[u] \notin Merged /\ disk[u] \notin NewData
  BY <1>1, <1>2, Zenon DEF World, UnitTerminal, Merged, NewData
<1>5. DiskGrows(disk, disk', task)
  BY <1>3, <1>4 DEF DiskGrows
<1>6. World(setup, task, disk')
  BY <1>2, <1>3, <1>4, Zenon DEF World, Merged, NewData
<1>7. Sound(cmd, task, disk')
  BY <1>1, <1>3, Zenon DEF Sound, Command
<1> HIDE DEF cmd
<1> QED
  BY <1>1, <1>3, <1>5, <1>6, <1>7, CallStep, ZenonT(30)

\* A terminated worker ends its unit, or sees that it was told to stop.
LEMMA EndingKeepsInv ==
    ASSUME SchedulerInv, NEW n \in Nodes,
           WorkerEnds(n) \/ \E u \in UnitIds : LateUnit(n, u)
    PROVE  SchedulerInv'
<1>1. /\ UNCHANGED <<setup, task, flipped, cleaned, inflight, crashes, timeouts>>
      /\ flipped' \in BOOLEAN /\ cleaned' \in [Nodes -> CleanupState] /\ crashes' \in 0..setup.maxCrashes
  BY Zenon DEF WorkerEnds, LateUnit, SchedulerInv, TypeOK
<1>2. /\ disk \in [UnitIds -> UnitDisk] /\ World(setup, task, disk) /\ task \in TaskOn(UnitIds)
      /\ mem \in [Nodes -> Memory] /\ Good(n, mem[n], setup, task, disk)
  BY Zenon DEF SchedulerInv, TypeOK
<1>3. CASE WorkerEnds(n)
  <2> DEFINE w == [mem[n] EXCEPT !.handle = "none"]
  <2>1. mem' = [mem EXCEPT ![n] = w] /\ disk' = disk
    BY <1>3, Zenon DEF WorkerEnds
  <2>2. /\ w \in Memory /\ w.pc = mem[n].pc /\ w.prepErr = mem[n].prepErr
        /\ w.swapErr = mem[n].swapErr /\ w.prepFired = mem[n].prepFired
        /\ w.swapFired = mem[n].swapFired /\ w.clone = mem[n].clone /\ w.eff = mem[n].eff
        /\ w.todo = mem[n].todo
    BY <1>2, ZenonT(30), SMTT(30) DEF Memory
  <2> HIDE DEF w
  <2>3. Good(n, w, setup, task, disk')
    BY <1>2, <2>1, <2>2, Zenon DEF Good, PrepDone, SwapDone, EffOK
  <2> QED
    BY <1>1, <2>1, <2>3, SameDisk, LocalStep, Zenon
<1>4. ASSUME NEW u \in UnitIds, LateUnit(n, u) PROVE SchedulerInv'
  <2>1. /\ UnitToNode[u] = n /\ task.units[u].status = "IN_PROGRESS"
        /\ disk' = [disk EXCEPT ![u] = "reindexed"]
        /\ mem' = [mem EXCEPT ![n] = mem[n]]
    BY <1>2, <1>4 DEF LateUnit
  <2>2. /\ disk' \in [UnitIds -> UnitDisk] /\ disk'[u] = "reindexed"
        /\ \A v \in UnitIds \ {u} : disk'[v] = disk[v]
    BY <1>2, <2>1, Zenon DEF UnitDisk
  <2>3. ~UnitTerminal(task.units[u]) /\ disk[u] \notin Merged /\ disk[u] \notin NewData
    BY <1>2, <2>1, Zenon DEF World, UnitTerminal, Merged, NewData
  <2>4. DiskGrows(disk, disk', task)
    BY <2>2, <2>3 DEF DiskGrows
  <2>5. World(setup, task, disk')
    BY <1>2, <2>2, <2>3, Zenon DEF World, Merged, NewData
  <2>6. Good(n, mem[n], setup, task, disk')
    BY <1>2, <2>4, GrowsRefl, EverythingGrows
  <2> QED
    BY <1>1, <2>1, <2>2, <2>4, <2>5, <2>6, LocalStep, Zenon
<1> QED
  BY <1>3, <1>4, Zenon

\* A write that timed out is applied late; the task is cancelled or terminated.
LEMMA EnvironmentKeepsInv ==
    ASSUME SchedulerInv, CancelTask \/ ForceTerminateTask \/ \E cmd \in inflight : LateApply(cmd)
    PROVE  SchedulerInv'
<1>1. World(setup, task, disk) /\ task \in TaskOn(UnitIds)
  BY DEF SchedulerInv, TypeOK
<1>2. ASSUME CancelTask \/ ForceTerminateTask PROVE SchedulerInv'
  <2>1. PICK st \in {"FAILED", "CANCELLED"} : task' = markTerminal(task, st, 1)
    BY <1>2, Zenon DEF CancelTask, ForceTerminateTask
  <2>2. IsActive(task.status)
    BY <1>1, <1>2 DEF CancelTask, ForceTerminateTask, IsCancellable, ForceTerminateApplies,
                      IsForceTerminable, IsActive, IsTerminal, TaskOn, TaskStatus
  <2>3. World(setup, task', disk) /\ Grows(task, task')
    BY <1>1, <2>1, <2>2, EndGrows, ZenonT(30) DEF TaskStatus
  <2>4. UNCHANGED <<setup, flipped, disk, cleaned, mem, inflight, crashes, timeouts>>
    BY <1>2 DEF CancelTask, ForceTerminateTask
  <2> QED
    BY <2>3, <2>4, RecordStep, Zenon
<1>3. ASSUME NEW cmd \in inflight, LateApply(cmd) PROVE SchedulerInv'
  <2>1. Sound(cmd, task, disk)
    BY DEF SchedulerInv
  <2>2. Grows(task, task)
    BY <1>1, GrowsRefl
  <2>3. ASSUME ~Refused(cmd, task)
        PROVE  World(setup, Applied(cmd, task), disk) /\ Grows(task, Applied(cmd, task))
    BY <1>1, <2>1, <2>3, AppliedGood, ZenonT(30)
  <2>4. World(setup, task', disk) /\ Grows(task, task')
    BY <1>1, <1>3, <2>2, <2>3, SMTT(30), Z3T(30) DEF LateApply
  <2>5. /\ inflight' \subseteq inflight
        /\ UNCHANGED <<setup, flipped, disk, cleaned, mem, crashes, timeouts>>
    BY <1>3 DEF LateApply
  <2> QED
    BY <2>4, <2>5, RecordStep
<1> QED
  BY <1>2, <1>3

\* OnTaskCompleted.
LEMMA CompletedKeepsInv ==
    ASSUME SchedulerInv, NEW n \in Nodes,
           FlipSchema(n) \/ TerminalCleanup(n) \/ NothingToComplete(n)
    PROVE  SchedulerInv'
<1> DEFINE m == mem[n]
<1>1. /\ m.pc = "completed" /\ UNCHANGED <<setup, task, inflight, crashes, timeouts>>
      /\ flipped' \in BOOLEAN /\ cleaned' \in [Nodes -> CleanupState] /\ crashes' \in 0..setup.maxCrashes
  BY ZenonT(30), SMTT(30) DEF FlipSchema, TerminalCleanup, NothingToComplete, SchedulerInv, TypeOK, CleanupState
<1>2. disk \in [UnitIds -> UnitDisk] /\ World(setup, task, disk) /\ task \in TaskOn(UnitIds)
  BY DEF SchedulerInv, TypeOK
<1>3. /\ disk' \in [UnitIds -> UnitDisk] /\ DiskGrows(disk, disk', task)
      /\ World(setup, task, disk')
  <2>1. CASE TerminalCleanup(n)
    <3>1. Over(task)
      BY <1>1, <2>1, Zenon DEF TerminalCleanup, SchedulerInv, Good, Listed, IsTerminal
    <3>2. \A u \in UnitIds : \/ disk'[u] = disk[u]
                             \/ disk[u] = "reindexed" /\ disk'[u] = "none"
      BY <2>1, ZenonT(30), SMTT(30) DEF TerminalCleanup, Wiped, Partial
    <3>3. disk' \in [UnitIds -> UnitDisk]
      BY <1>2, <2>1, ZenonT(30), SMTT(30) DEF TerminalCleanup, Wiped, UnitDisk
    <3>4. DiskGrows(disk, disk', task)
      BY <3>1, <3>2, SMTT(30), Z3T(30) DEF DiskGrows, Merged, NewData
    <3>5. World(setup, task, disk')
      BY <1>2, <3>1, <3>2 DEF World, Merged, NewData
    <3> QED
      BY <3>3, <3>4, <3>5
  <2>2. CASE FlipSchema(n) \/ NothingToComplete(n)
    BY <2>2, SameDisk, Zenon DEF FlipSchema, NothingToComplete
  <2> QED
    BY <2>1, <2>2
<1>4. Grows(task, task)
  BY <1>2, GrowsRefl
<1>5. Good(n, m, setup, task, disk')
  BY <1>3, <1>4, EverythingGrows
<1>6. Between(n, m, setup, task, disk') /\ m \in Memory
  BY <1>1, <1>5, GoodBetween, Zenon DEF Between
<1>7. ASSUME NEW permanent \in BOOLEAN
      PROVE  Good(n, AfterFlipError(m, permanent), setup, task, disk')
  <2> DEFINE k == IF m.attempts < maxCompletedCallbackAttempts THEN m.attempts + 1 ELSE m.attempts
             w == [m EXCEPT !.completed = FALSE, !.attempts = k]
             x == [w EXCEPT !.pc = "fail"]
  <2>1. k \in 0..maxCompletedCallbackAttempts
    BY <1>6, BudgetAssumption DEF Memory
  <2> HIDE DEF k
  <2>2. /\ w \in Memory /\ w.prepErr = m.prepErr /\ w.prepFired = m.prepFired
        /\ w.swapErr = m.swapErr /\ w.swapFired = m.swapFired /\ w.clone = m.clone
    BY <1>6, <2>1, ZenonT(30) DEF Memory
  <2>3. AfterFlipError(m, permanent) \in {EnterFinalize(m), x, Idle(w)}
    BY ZenonT(30) DEF AfterFlipError, k
  <2> HIDE DEF w
  <2>4. Between(n, w, setup, task, disk')
    BY <1>6, <2>2 DEF Between, PrepDone, SwapDone
  <2>5. Good(n, Idle(w), setup, task, disk')
    BY <2>4, IdleGood, Zenon DEF Between
  <2>6. /\ x \in Memory /\ x.prepErr = w.prepErr /\ x.prepFired = w.prepFired /\ x.pc = "fail"
        /\ x.swapErr = w.swapErr /\ x.swapFired = w.swapFired /\ x.clone = w.clone
    BY <2>2 DEF Memory, Steps
  <2> HIDE DEF x
  <2>7. Good(n, x, setup, task, disk')
    BY <2>4, <2>6, Zenon DEF Good, Between, PrepDone, SwapDone
  <2>8. Good(n, EnterFinalize(m), setup, task, disk')
    BY <1>6, EnterFinalizeGood
  <2> QED
    BY <2>3, <2>5, <2>7, <2>8, SMTT(30), Z3T(30)
<1>8. Good(n, EnterFinalize(m), setup, task, disk')
  BY <1>6, EnterFinalizeGood
<1>9. \E w : mem' = [mem EXCEPT ![n] = w] /\ Good(n, w, setup, task, disk')
  BY <1>7, <1>8, Zenon DEF FlipSchema, TerminalCleanup, NothingToComplete
<1> HIDE DEF m
<1> QED
  BY <1>1, <1>3, <1>9, LocalStep, Zenon

\* OnGroupCompleted of a barrier task, on one unit.
LEMMA PrepUnitKeepsInv ==
    ASSUME SchedulerInv, NEW n \in Nodes, NEW u \in UnitIds, PrepUnit(n, u)
    PROVE  SchedulerInv'
<1>1. PICK ok \in BOOLEAN :
          /\ ok \/ MayFail("prep", disk[u] # "reindexed")
          /\ disk' = IF ok /\ disk[u] = "reindexed" THEN [disk EXCEPT ![u] = "merged"] ELSE disk
          /\ LET m == [mem[n] EXCEPT !.todo = mem[n].todo \ {u},
                                     !.prepErr = mem[n].prepErr \/ ~ok]
             IN  mem' = [mem EXCEPT ![n] = IF m.todo = {} THEN PrepSettled(m, n) ELSE m]
  BY Zenon DEF PrepUnit
<1> DEFINE m == mem[n]
           err == m.prepErr \/ ~ok
           w == [m EXCEPT !.todo = m.todo \ {u}, !.prepErr = err]
<1>2. /\ m.pc = "prep" /\ u \in m.todo
      /\ UNCHANGED <<setup, task, flipped, cleaned, inflight, crashes, timeouts>>
      /\ flipped' \in BOOLEAN /\ cleaned' \in [Nodes -> CleanupState] /\ crashes' \in 0..setup.maxCrashes
  BY DEF PrepUnit, SchedulerInv, TypeOK
<1>3. /\ disk \in [UnitIds -> UnitDisk] /\ World(setup, task, disk) /\ Record(setup, task)
      /\ task \in TaskOn(UnitIds) /\ Good(n, m, setup, task, disk)
  BY Zenon DEF SchedulerInv, TypeOK, World
<1>4. /\ disk' \in [UnitIds -> UnitDisk] /\ \A v \in UnitIds \ {u} : disk'[v] = disk[v]
      /\ disk'[u] = disk[u] \/ (disk[u] = "reindexed" /\ disk'[u] = "merged")
      /\ ok /\ disk[u] = "reindexed" => disk'[u] = "merged"
  BY <1>1, <1>3 DEF UnitDisk
<1>5. Listed(m.clone, task) /\ m.clone.status = "PREPARING" /\ m.eff = "PREPARING"
  BY <1>2, <1>3, Zenon DEF Good
<1>6. UnitTerminal(task.units[u]) /\ task.units[u] \in Unit
  BY <1>3, <1>5, Zenon DEF Listed, UnitTerminal, TaskOn
<1>7. DiskGrows(disk, disk', task)
  BY <1>4 DEF DiskGrows, Merged, NewData
<1>8. World(setup, task, disk')
  BY <1>3, <1>4, <1>6, Zenon DEF World, Merged, NewData
<1>9. Good(n, m, setup, task, disk') /\ m \in Memory
  <2>1. Grows(task, task)
    BY <1>3, GrowsRefl, SMTT(30), Z3T(30)
  <2> QED
    BY <1>7, <2>1, EverythingGrows, Zenon DEF Good
<1>10. Over(task) \/ err \/ disk'[u] \in Merged
  <2> SUFFICES ASSUME ok, ~Over(task) PROVE disk'[u] \in Merged
    OBVIOUS
  <2>1. task.units[u].status = "COMPLETED"
    BY <1>3, <1>6, ListedRefl, ZenonT(30) DEF UnitTerminal, Listed
  <2>2. disk[u] # "none" /\ disk[u] \in UnitDisk
    BY <1>3, <2>1, SMTT(30), Z3T(30) DEF World
  <2> QED
    BY <1>4, <2>2 DEF UnitDisk, Merged
<1>11. err \in BOOLEAN /\ (err => "prep" \in setup.fails)
  BY <1>1, <1>3, <1>9 DEF MayFail, Good, Memory
<1> HIDE DEF err
<1>12. /\ w \in Memory /\ w.todo = m.todo \ {u} /\ w.prepErr = err /\ w.pc = "prep"
       /\ w.prepFired = m.prepFired /\ w.clone = m.clone /\ w.eff = m.eff
       /\ w.swapErr = m.swapErr /\ w.swapFired = m.swapFired
  BY <1>2, <1>9, <1>11, Zenon DEF Memory
<1>13. mem' = [mem EXCEPT ![n] = IF w.todo = {} THEN PrepSettled(w, n) ELSE w]
  BY <1>1 DEF err
<1> HIDE DEF w
<1>14. PrepDone(n, w, w.todo, task, disk') /\ SwapDone(n, w, {}, task, disk')
  <2>1. SwapDone(n, w, {}, task, disk')
    BY <1>2, <1>9, <1>12, Zenon DEF Good, SwapDone
  <2>2. PrepDone(n, m, m.todo, task, disk')
    BY <1>2, <1>9, Zenon DEF Good
  <2>3. m.prepErr => err
    BY SMTT(30), Z3T(30) DEF err
  <2>4. PrepDone(n, w, w.todo, task, disk')
    BY <1>10, <1>12, <2>2, <2>3 DEF PrepDone
  <2> QED
    BY <2>1, <2>4
<1>15. OwnGroups(w.clone, n) \subseteq w.prepFired
  BY <1>2, <1>9, <1>12, Zenon DEF Good
<1>16. w.todo # {} => Good(n, w, setup, task, disk')
  BY <1>5, <1>11, <1>12, <1>14, <1>15, Zenon DEF Good
<1>17. ASSUME w.todo = {} PROVE Good(n, PrepSettled(w, n), setup, task, disk')
  <2>1. Between(n, w, setup, task, disk')
    BY <1>5, <1>11, <1>12, <1>14, <1>17, Zenon DEF Between
  <2> QED
    BY <1>3, <1>5, <1>12, <1>15, <2>1, PrepSettledGood, Zenon
<1> HIDE DEF m
<1> QED
  BY <1>2, <1>4, <1>7, <1>8, <1>13, <1>16, <1>17, LocalStep, Zenon

\* The swap of one unit.
LEMMA SwapUnitKeepsInv ==
    ASSUME SchedulerInv, NEW n \in Nodes, NEW u \in UnitIds, SwapUnit(n, u)
    PROVE  SchedulerInv'
<1>1. PICK ok \in BOOLEAN :
          /\ ok \/ MayFail("swap", disk[u] \in {"swapped", "promoted"})
          /\ \E d \in (IF ok THEN {SwapSuccessLeaves(disk[u])} ELSE SwapFailureLeaves(disk[u])) :
                disk' = [disk EXCEPT ![u] = d]
          /\ LET m == [mem[n] EXCEPT !.todo = mem[n].todo \ {u},
                                     !.swapErr = mem[n].swapErr \/ ~ok]
             IN  mem' = [mem EXCEPT ![n] = IF m.todo = {} THEN SwapSettled(m, n) ELSE m]
  BY Zenon DEF SwapUnit
<1> DEFINE m == mem[n]
           err == m.swapErr \/ ~ok
           w == [m EXCEPT !.todo = m.todo \ {u}, !.swapErr = err]
<1>2. /\ m.pc = "swap" /\ u \in m.todo
      /\ UNCHANGED <<setup, task, flipped, cleaned, inflight, crashes, timeouts>>
      /\ flipped' \in BOOLEAN /\ cleaned' \in [Nodes -> CleanupState] /\ crashes' \in 0..setup.maxCrashes
  BY SMTT(30), Z3T(30) DEF SwapUnit, SchedulerInv, TypeOK
<1>3. /\ disk \in [UnitIds -> UnitDisk] /\ World(setup, task, disk)
      /\ task \in TaskOn(UnitIds) /\ Good(n, m, setup, task, disk)
  BY DEF SchedulerInv, TypeOK
<1>4. /\ disk' \in [UnitIds -> UnitDisk] /\ \A v \in UnitIds \ {u} : disk'[v] = disk[v]
      /\ \/ disk'[u] = disk[u] \/ disk'[u] \in NewData
         \/ disk[u] = "reindexed" /\ disk'[u] = "merged"
      /\ ok => disk'[u] \in NewData
  BY <1>1, <1>3 DEF UnitDisk, SwapSuccessLeaves, SwapFailureLeaves, NewData
<1>5. MaySwap(setup, task, u)
  BY <1>2, <1>3, Zenon DEF Good
<1>6. DiskGrows(disk, disk', task)
  BY <1>4 DEF DiskGrows, Merged, NewData
<1>7. World(setup, task, disk')
  BY <1>3, <1>4, <1>5, ZenonT(30) DEF World, Merged, NewData, MaySwap
<1>8. Good(n, m, setup, task, disk') /\ m \in Memory
  <2>1. Grows(task, task)
    BY <1>3, GrowsRefl, SMTT(30), Z3T(30)
  <2> QED
    BY <1>6, <2>1, EverythingGrows, Zenon DEF Good
<1>9. err \in BOOLEAN /\ (err \/ disk'[u] \in NewData)
  BY <1>4, <1>8 DEF Memory
<1> HIDE DEF err
<1>10. /\ w \in Memory /\ w.todo = m.todo \ {u} /\ w.swapErr = err /\ w.pc = "swap"
       /\ w.prepFired = m.prepFired /\ w.clone = m.clone /\ w.eff = m.eff
       /\ w.prepErr = m.prepErr /\ w.swapFired = m.swapFired
  BY <1>2, <1>8, <1>9, Zenon DEF Memory
<1>11. mem' = [mem EXCEPT ![n] = IF w.todo = {} THEN SwapSettled(w, n) ELSE w]
  BY <1>1 DEF err
<1> HIDE DEF w
<1>12. SwapDone(n, w, w.todo, task, disk') /\ PrepDone(n, w, {}, task, disk')
  <2>1. PrepDone(n, w, {}, task, disk')
    BY <1>2, <1>8, <1>10, Zenon DEF Good, PrepDone
  <2>2. SwapDone(n, m, m.todo, task, disk')
    BY <1>2, <1>8, Zenon DEF Good
  <2>3. m.swapErr => err
    BY SMTT(30), Z3T(30) DEF err
  <2>4. SwapDone(n, w, w.todo, task, disk')
    BY <1>9, <1>10, <2>2, <2>3 DEF SwapDone
  <2> QED
    BY <2>1, <2>4
<1>13. /\ Listed(w.clone, task) /\ EffOK(w, setup) /\ (w.prepErr => "prep" \in setup.fails)
       /\ \A v \in w.todo : MaySwap(setup, task, v)
  BY <1>2, <1>8, <1>10, Zenon DEF Good, EffOK
<1>14. w.todo # {} => Good(n, w, setup, task, disk')
  BY <1>10, <1>12, <1>13, Zenon DEF Good
<1>15. ASSUME w.todo = {} PROVE Good(n, SwapSettled(w, n), setup, task, disk')
  <2>1. Between(n, w, setup, task, disk')
    BY <1>10, <1>12, <1>13, <1>15, Zenon DEF Between
  <2> QED
    BY <1>13, <2>1, SwapSettledGood, Zenon
<1> HIDE DEF m
<1> QED
  BY <1>2, <1>4, <1>6, <1>7, <1>11, <1>14, <1>15, LocalStep, ZenonT(30)

\* tick, up to its first callback or Raft write.
LEMMA TickKeepsInv ==
    ASSUME SchedulerInv, NEW n \in Nodes, Tick(n)
    PROVE  SchedulerInv'
<1> DEFINE m == mem[n]
           b == IF m.booted THEN m ELSE PreMark(m, task, n)
           c == Reconciled(b, task, n)
           w == [c EXCEPT !.clone = task, !.eff = task.status]
<1>1. /\ m.pc = "idle" /\ mem' = [mem EXCEPT ![n] = EnterTick(w, n)]
      /\ UNCHANGED <<setup, task, flipped, disk, cleaned, inflight, crashes, timeouts>>
      /\ flipped' \in BOOLEAN /\ cleaned' \in [Nodes -> CleanupState] /\ crashes' \in 0..setup.maxCrashes
  BY DEF Tick, SchedulerInv, TypeOK
<1>2. task \in TaskOn(UnitIds) /\ Record(setup, task) /\ Good(n, m, setup, task, disk)
  BY Zenon DEF SchedulerInv, TypeOK, World
<1>3. Good(n, b, setup, task, disk) /\ b.pc = "idle"
  BY <1>1, <1>2, BootGood
<1> HIDE DEF b
<1>4. Good(n, c, setup, task, disk) /\ c.pc = "idle" /\ c \in Memory
  BY <1>2, <1>3, BootGood, ZenonT(30) DEF Good
<1> HIDE DEF c
<1>5. /\ w \in Memory /\ w.clone = task /\ w.eff = task.status
      /\ w.prepErr = c.prepErr /\ w.prepFired = c.prepFired
      /\ w.swapErr = c.swapErr /\ w.swapFired = c.swapFired
  BY <1>2, <1>4, Zenon DEF Memory, TaskOn
<1> HIDE DEF w
<1>6. Between(n, w, setup, task, disk)
  BY <1>2, <1>4, <1>5, ListedRefl, Zenon DEF Between, Good, PrepDone, SwapDone
<1>7. Good(n, EnterTick(w, n), setup, task, disk')
  BY <1>1, <1>2, <1>5, <1>6, EnterTickGood, Zenon
<1> QED
  BY <1>1, <1>7, SameDisk, LocalStep, Zenon

\* A crash.
LEMMA CrashKeepsInv ==
    ASSUME SchedulerInv, NEW n \in Nodes, Crash(n)
    PROVE  SchedulerInv'
<1>1. /\ mem' = [mem EXCEPT ![n] = FreshMemory(FALSE, FALSE)]
      /\ UNCHANGED <<setup, task, flipped, disk, cleaned, inflight, timeouts>>
      /\ flipped' \in BOOLEAN /\ cleaned' \in [Nodes -> CleanupState]
  BY SMTT(30), Z3T(30) DEF Crash, SchedulerInv, TypeOK
<1>2. crashes' \in 0..setup.maxCrashes
  BY SetupsAssumption DEF Crash, SchedulerInv, TypeOK, SetupType
<1>3. Good(n, FreshMemory(FALSE, FALSE), setup, task, disk')
  BY FreshGood, Zenon
<1> QED
  BY <1>1, <1>2, <1>3, SameDisk, LocalStep, Zenon

\* A restart: the shard load makes merged units canonical.
LEMMA RestartKeepsInv ==
    ASSUME SchedulerInv, NEW n \in Nodes, Restart(n)
    PROVE  SchedulerInv'
<1> DEFINE f == FreshMemory(TRUE, FALSE)
           b == PreMark(f, task, n)
<1>1. /\ \E w \in {f, Reconciled(b, task, n)} : mem' = [mem EXCEPT ![n] = w]
      /\ UNCHANGED <<setup, task, flipped, cleaned, inflight, crashes, timeouts>>
      /\ flipped' \in BOOLEAN /\ cleaned' \in [Nodes -> CleanupState] /\ crashes' \in 0..setup.maxCrashes
      /\ disk' = FinalizedOnLoad(n)
  BY Zenon DEF Restart, SchedulerInv, TypeOK
<1>2. disk \in [UnitIds -> UnitDisk] /\ World(setup, task, disk) /\ task \in TaskOn(UnitIds)
  BY SMTT(30), Z3T(30) DEF SchedulerInv, TypeOK
<1>3. /\ disk' \in [UnitIds -> UnitDisk]
      /\ \A u \in UnitIds : disk'[u] = disk[u] \/ (disk[u] = "merged" /\ disk'[u] = "promoted")
  BY <1>1, <1>2 DEF FinalizedOnLoad, UnitDisk
<1>4. DiskGrows(disk, disk', task)
  BY <1>3 DEF DiskGrows, Merged, NewData
<1>5. World(setup, task, disk')
  BY <1>2, <1>3, Zenon DEF World, Merged, NewData
<1>6. Good(n, f, setup, task, disk') /\ f.pc = "idle"
  BY FreshGood, Zenon
<1> HIDE DEF f
<1>7. Good(n, b, setup, task, disk') /\ b.pc = "idle"
  BY <1>2, <1>6, BootGood, SMTT(30), Z3T(30)
<1> HIDE DEF b
<1>8. Good(n, Reconciled(b, task, n), setup, task, disk')
  BY <1>2, <1>7, BootGood
<1> QED
  BY <1>1, <1>3, <1>4, <1>5, <1>6, <1>8, LocalStep, Zenon

-----------------------------------------------------------------------------
(* The theorems.                                                           *)

\* A new task, nothing on the disks.
LEMMA InitInv == Init => SchedulerInv
<1> SUFFICES ASSUME Init PROVE SchedulerInv
  OBVIOUS
<1>1. /\ setup \in Setups /\ setup \in SetupType /\ 0 \in Nat
      /\ setup.groupOf \in [UnitIds -> Groups] /\ setup.barrier \in BOOLEAN
      /\ setup.maxCrashes \in Nat /\ setup.maxTimeouts \in Nat
  BY SetupsAssumption DEF Init, SetupType
<1>2. task = NewTask(0, ThePayload, setup.barrier, 0, setup.groupOf)
  BY SMTT(30), Z3T(30) DEF Init
<1>3. task \in TaskOn(UnitIds)
  BY <1>1, <1>2, NewTaskType, UnitsAssumption, SMTT(30), Z3T(30)
<1>4. TaskInv(task)
  BY <1>1, <1>2, NewTaskInv, UnitsAssumption
<1>5. /\ \A u \in UnitIds : /\ task.units[u].group = setup.groupOf[u]
                            /\ task.units[u].node = NoNode /\ task.units[u].status = "PENDING"
      /\ \A n \in Nodes : task.prepAcks[n] = "none" /\ task.postAcks[n] = "none"
  BY <1>1, <1>2, Zenon DEF NewTask
<1>6. disk \in [UnitIds -> UnitDisk] /\ \A u \in UnitIds : disk[u] = "none"
  BY SMTT(30), Z3T(30) DEF Init, UnitDisk
<1>7. World(setup, task, disk)
  BY <1>3, <1>4, <1>5, <1>6, UnitsAssumption DEF World, Record, Merged
<1>8. \A n \in Nodes : Good(n, mem[n], setup, task, disk)
  BY FreshGood, Zenon DEF Init
<1>9. TypeOK
  <2>1. mem \in [Nodes -> Memory]
    BY <1>8, Zenon DEF Init, Good
  <2>2. crashes \in 0..setup.maxCrashes /\ timeouts \in 0..setup.maxTimeouts
    BY <1>1 DEF Init
  <2>3. flipped \in BOOLEAN /\ cleaned \in [Nodes -> CleanupState] /\ inflight \subseteq Command
    BY Zenon DEF Init, CleanupState
  <2> QED
    BY <1>3, <1>6, <2>1, <2>2, <2>3 DEF TypeOK
<1> QED
  BY <1>1, <1>7, <1>8, <1>9, Zenon DEF SchedulerInv, Init

\* Every step keeps the invariant.
LEMMA NextKeepsInv == SchedulerInv /\ [Next]_vars => SchedulerInv'
<1> SUFFICES ASSUME SchedulerInv, [Next]_vars PROVE SchedulerInv'
  OBVIOUS
<1>1. \A n \in setup.nodes : n \in Nodes
  BY SetupsAssumption DEF SchedulerInv, SetupType
<1>2. ASSUME NEW n \in setup.nodes, Tick(n) \/ TickStep(n) \/ Restart(n) PROVE SchedulerInv'
  BY <1>1, <1>2, TickKeepsInv, RestartKeepsInv, PrepUnitKeepsInv, SwapUnitKeepsInv,
     PrepAckKeepsInv, SwapAckKeepsInv, CompletedKeepsInv, EndOfTickKeepsInv, ZenonT(30) DEF TickStep
<1>3. ASSUME NEW n \in setup.nodes, NEW u \in UnitIds, Work(n, u) \/ FailUnit(n, u)
      PROVE  SchedulerInv'
  BY <1>1, <1>3, ReportKeepsInv, CompleteUnitKeepsInv DEF Work
<1>4. ASSUME NEW n \in setup.nodes,
             Crash(n) \/ WorkerEnds(n) \/ \E u \in UnitIds : LateUnit(n, u)
      PROVE  SchedulerInv'
  BY <1>1, <1>4, CrashKeepsInv, EndingKeepsInv, ZenonT(30)
<1>5. CASE UNCHANGED vars
  BY <1>5 DEF vars, SchedulerInv, TypeOK
<1> QED
  BY <1>2, <1>3, <1>4, <1>5, EnvironmentKeepsInv DEF Next, Environment

\* The schedulers of any number of nodes, over any units and any faults: an ack
\* on its way is true, a running tick works on a copy that was the record once,
\* and what a node remembers having fired is done on its disk.
THEOREM SchedulerInvariant == Spec => []SchedulerInv
BY InitInv, NextKeepsInv, PTL DEF Spec

\* The record, the disks, the memories and the writes on their way have their
\* types, and the attempts of OnTaskCompleted stay within their budget.
THEOREM SchedulerTypeCorrect == Spec => []TypeOK
<1>1. SchedulerInv => TypeOK
  BY DEF SchedulerInv
<1> QED
  BY <1>1, SchedulerInvariant, PTL

\* A recorded success is true of the disk of the node that reported it, with any
\* crashes, re-runs and delayed writes.
THEOREM SchedulerAcksAreHonest == Spec => []AcksAreHonest
<1>1. SchedulerInv => AcksAreHonest
  BY Zenon DEF SchedulerInv, World, AcksAreHonest, OnNewData, Merged, NewData
<1> QED
  BY <1>1, SchedulerInvariant, PTL

\* No bucket pointer is flipped before the barrier of its unit is open, unless a
\* preparation fails.
THEOREM SchedulerSwapBehindBarrier == Spec => []SwapBehindBarrier
<1>1. SchedulerInv => SwapBehindBarrier
  BY Zenon DEF SchedulerInv, World, SwapBehindBarrier, Open
<1> QED
  BY <1>1, SchedulerInvariant, PTL
=============================================================================
