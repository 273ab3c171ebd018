------------------------ MODULE MovementWritesProofs ------------------------
(***************************************************************************)
(* What is proved of MovementWrites for every number of replicas and       *)
(* writes: its types, that the target joins no older than FINALIZING began *)
(* and that it misses no acknowledged write once the log is drained.       *)
(***************************************************************************)
EXTENDS MovementWrites, FiniteSetTheorems, TLAPS

\* The scenarios of the second and third theorem: the writes are puts, and no
\* append fails for good after the drain of FINALIZING.
PutsOnly == \A s \in Scenarios : \A w \in DOMAIN s.writes : s.writes[w].kind = "PUT"
NoLateLoss == \A s \in Scenarios : "after" \notin s.appendFails

Places == {"capture", "copy", "copied", "finalize", "drain", "add", "joined",
           "barrier", "snapshot", "predrain", "seal", "sealing", "tail", "moved",
           "fence", "removed", "finished", "aborted"}

\* TypeOK with the variables it leaves out, and the log as a record.
Types ==
    /\ sc \in Scenarios
    /\ phase \in [Writes -> {"new", "registered", "asked", "commit", "acked", "error"}]
    /\ coord \in [Writes -> Nodes]
    /\ leg \in [Writes -> [Nodes -> {"off", "asked", "prepared", "stuck", "done", "failed"}]]
    /\ ackers \in [Writes -> SUBSET Nodes]
    /\ store \in [Nodes -> [Keys -> -Len(sc.writes) .. Len(sc.writes)]]
    /\ stage \in 0 .. Ready /\ view \in [Nodes -> 0 .. Ready]
    /\ owed \in [Nodes -> SUBSET Writes]
    /\ reach \in [Nodes -> {0, Integrating, Dehydrating}]
    /\ log \in [reg : {"none", "open", "sealed"}, entries : Seq(Writes), wait : SUBSET Writes]
    /\ pc \in Places
    /\ pos \in 0 .. Len(sc.writes) /\ cap \in 0 .. Len(sc.writes)
    /\ boundary \subseteq Writes

\* Where the worker is when Raft has committed so much.
Course ==
    /\ pc \in {"capture", "copy", "copied", "finalize", "drain", "add", "joined", "aborted"}
           => stage <= Added
    /\ pc \in {"barrier", "snapshot", "predrain", "seal", "sealing", "tail", "moved"}
           => stage = Integrating
    /\ pc = "fence" => stage \in {Dehydrating, Removed}
    /\ pc = "removed" => stage = Removed
    /\ pc = "finished" => stage = Ready
    /\ sc.type = "COPY" => stage \notin {Dehydrating, Removed}

\* The log, its tailer and the entries.
Logged ==
    /\ pc = "capture" => log = NoLog /\ pos = 0 /\ cap = 0
    /\ pc \in {"moved", "fence", "removed", "finished"} => log.reg = "none"
    /\ log.reg = "none" => log.entries = <<>>
    /\ log.reg # "none" => pos <= Len(log.entries) /\ cap <= Len(log.entries)
    /\ \A i \in 1 .. Len(log.entries) : leg[log.entries[i]][Source] = "done"
    /\ \A i, j \in 1 .. Len(log.entries) : log.entries[i] = log.entries[j] => i = j

\* A write: it is sent when it is registered and not before, it was acknowledged
\* by nodes that have it, the target gets none before INTEGRATING, and where
\* it waits the older writes of the same object are over.
Ordered(w) ==
    /\ phase[w] \in {"new", "registered"} => \A n \in Nodes : leg[w][n] = "off"
    /\ \A n \in ackers[w] : leg[w][n] = "done"
    /\ stage < Integrating => leg[w][Target] = "off"
    /\ phase[w] # "new" /\ w \in Waiting =>
           \A u \in 1 .. w - 1 : Key(u) = Key(w) => Settled(u)

\* The writes on their way from n that the target is not sent.
Unrouted(n) ==
    {w \in Writes : coord[w] = n /\ phase[w] \in {"asked", "commit"} /\ leg[w][Target] = "off"}

\* A node that has applied INTEGRATING sends the target every later write and
\* reports when the earlier ones are over.
Reached(n) ==
    /\ view[n] <= stage
    /\ sc.type = "COPY" => view[n] \notin {Dehydrating, Removed}
    /\ view[n] >= Integrating => Unrouted(n) \subseteq owed[n]
    /\ reach[n] >= Integrating => view[n] >= Integrating /\ Unrouted(n) = {}

\* What comes after the barrier of INTEGRATING.
Passed ==
    pc \in {"snapshot", "predrain", "seal", "sealing", "tail", "moved",
            "fence", "removed", "finished"} \/ log.reg = "sealed"
        => AllPeersAtLeast(Integrating)

WritesInv ==
    /\ Types /\ Course /\ Logged /\ Passed
    /\ \A w \in Writes : Ordered(w)
    /\ \A n \in Nodes : Reached(n)

-----------------------------------------------------------------------------
(* The operators.                                                          *)

USE DEF Added, Integrating, Dehydrating, Removed, Ready

\* A sequence is a function from 1 to its length.
LEMMA Elements ==
    ASSUME NEW S, NEW s \in Seq(S)
    PROVE  /\ Len(s) \in Nat /\ DOMAIN s = 1 .. Len(s) /\ s \in [1 .. Len(s) -> S]
           /\ \A i \in 1 .. Len(s) : s[i] \in S
OBVIOUS

\* An entry is added at the end.
LEMMA Appended ==
    ASSUME NEW S, NEW s \in Seq(S), NEW e \in S
    PROVE  /\ Append(s, e) \in Seq(S) /\ Len(Append(s, e)) = Len(s) + 1
           /\ Append(s, e)[Len(s) + 1] = e
           /\ \A i \in 1 .. Len(s) : Append(s, e)[i] = s[i]
OBVIOUS

\* The writes are numbered from 1, and the two ends are nodes.
LEMMA ScenarioFacts ==
    ASSUME sc \in Scenarios
    PROVE  /\ Len(sc.writes) \in Nat /\ Writes = 1 .. Len(sc.writes)
           /\ sc.type \in {"COPY", "MOVE"} /\ Waiting \subseteq Writes
           /\ \A w \in Writes : Key(w) \in Keys /\ Kind(w) \in {"PUT", "DELETE"}
           /\ Source \in Nodes /\ Target \in Nodes /\ Source \in Base /\ Source # Target
<1>1. sc \in ScenarioType
  BY WritesConstants
<1>2. /\ sc.type \in {"COPY", "MOVE"}
      /\ sc.writes \in Seq([key : STRING, kind : {"PUT", "DELETE"},
                             level : {"ONE", "QUORUM", "ALL"}, waits : BOOLEAN])
  BY <1>1 DEF ScenarioType
<1>3. Len(sc.writes) \in Nat /\ Writes = 1 .. Len(sc.writes)
  BY <1>2, Elements DEF Writes
<1>4. \A w \in Writes : Key(w) \in Keys
  BY DEF Key, Keys
<1>5. ASSUME NEW w \in Writes
      PROVE  Kind(w) \in {"PUT", "DELETE"}
  <2>1. sc.writes[w] \in [key : STRING, kind : {"PUT", "DELETE"},
                          level : {"ONE", "QUORUM", "ALL"}, waits : BOOLEAN]
    BY <1>2, <1>3, Elements, Zenon
  <2> QED
    BY <2>1 DEF Kind
<1> QED
  BY <1>2, <1>3, <1>4, <1>5, WritesConstants DEF Nodes, Base, Waiting

\* A node routes to the target from INTEGRATING on, and has the source in its
\* schema until the removal (FilterOneShardReplicas, ShardReplicas).
LEMMA Routing ==
    ASSUME NEW v \in 0 .. Ready
    PROVE  /\ Target \in FilterOneShardReplicas(v) <=> v >= Integrating
           /\ Source \notin ShardReplicas(v) => v >= Removed
<1>1. v \in {0, 1, 2, 3, 4, 5}
  OBVIOUS
<1>2. StateAt(v) \in {"READY", "DEHYDRATING", "INTEGRATING"} <=> v >= Integrating
  BY <1>1 DEF StateAt
<1>3. v >= Added => Target \in ShardReplicas(v)
  BY WritesConstants DEF ShardReplicas
<1>4. Source \notin ShardReplicas(v) => v >= Removed
  BY DEF ShardReplicas, Base
<1> QED
  BY <1>2, <1>3, <1>4, WritesConstants DEF FilterOneShardReplicas

\* No write is in the log twice, so the log is no longer than the writes are
\* many.
LEMMA EntriesFit ==
    ASSUME NEW N \in Nat, NEW s \in Seq(1 .. N),
           \A i, j \in 1 .. Len(s) : s[i] = s[j] => i = j
    PROVE  Len(s) <= N
<1>1. Len(s) \in Nat /\ s \in [1 .. Len(s) -> 1 .. N]
  BY Elements
<1>2. s \in Injection(1 .. Len(s), 1 .. N)
  BY <1>1 DEF Injection, IsInjective
<1>3. IsFiniteSet(1 .. N) /\ Cardinality(1 .. N) = N
  BY FS_Interval
<1>4. Cardinality(1 .. Len(s)) = Len(s)
  <2>1. \A k \in Nat : Cardinality(1 .. k) = k
    BY FS_Interval
  <2> QED
    BY <1>1, <2>1, Zenon
<1> QED
  BY <1>2, <1>3, <1>4, FS_Injection

-----------------------------------------------------------------------------
(* A step of a write disturbs no other write and no drain.                 *)

\* The writes are new, the worker has not begun.
LEMMA InitWrites ==
    ASSUME Init
    PROVE  WritesInv
<1>1. /\ sc \in Scenarios /\ Len(sc.writes) \in Nat /\ Writes = 1 .. Len(sc.writes)
      /\ Source \in Nodes /\ Target \in Nodes
  BY ScenarioFacts DEF Init
<1>2. Types
  BY <1>1 DEF Init, Types, Places, NoLog
<1>3. Course /\ Logged
  BY <1>1 DEF Init, Course, Logged, NoLog
<1>4. Passed
  BY DEF Init, Passed, NoLog
<1>5. \A w \in Writes : Ordered(w)
  BY <1>1 DEF Init, Ordered
<1>6. \A n \in Nodes : Reached(n)
  BY DEF Init, Reached
<1> QED
  BY <1>2, <1>3, <1>4, <1>5, <1>6, Zenon DEF WritesInv

\* Where a write has a step left, no later write of its object that waits has
\* begun, so the step leaves the order of all others as it is.
LEMMA OthersOrdered ==
    ASSUME WritesInv, NEW w \in Writes, ~Settled(w), UNCHANGED <<sc, stage>>,
           \A u \in Writes \ {w} :
               phase'[u] = phase[u] /\ leg'[u] = leg[u] /\ ackers'[u] = ackers[u]
    PROVE  /\ \A u \in Writes \ {w} : Ordered(u)'
           /\ \A u \in 1 .. w - 1 : Settled(u) => Settled(u)'
<1>1. /\ Writes = 1 .. Len(sc.writes) /\ Len(sc.writes) \in Nat
      /\ Writes' = Writes /\ Nodes' = Nodes /\ Waiting' = Waiting
  BY ScenarioFacts DEF WritesInv, Types, Writes, Nodes, Base, Waiting
<1>2. \A u \in Writes \ {w} : Settled(u) => Settled(u)'
  BY <1>1 DEF Settled
<1>3. ASSUME NEW u \in Writes \ {w}
      PROVE  Ordered(u)'
  <2>1. Ordered(u)
    BY DEF WritesInv
  <2>2. phase[u] # "new" /\ u \in Waiting =>
            \A x \in 1 .. u - 1 : Key(x) = Key(u) => x # w /\ Settled(x)
    BY <2>1 DEF Ordered
  <2>3. ASSUME phase[u] # "new", u \in Waiting, NEW x \in 1 .. u - 1, Key(x)' = Key(u)'
        PROVE  Settled(x)'
    <3>1. Key(x) = Key(u) /\ x \in Writes
      BY <1>1, <2>3 DEF Key
    <3> QED
      BY <1>2, <2>2, <2>3, <3>1
  <2>4. phase'[u] = phase[u] /\ leg'[u] = leg[u] /\ ackers'[u] = ackers[u]
    OBVIOUS
  <2> QED
    BY <1>1, <2>1, <2>3, <2>4 DEF Ordered
<1>4. 1 .. w - 1 \subseteq Writes \ {w}
  BY <1>1
<1> QED
  BY <1>2, <1>3, <1>4

\* A step that leaves what the nodes know alone, and takes no write out of sight
\* of a node that has applied INTEGRATING, keeps the drains.
LEMMA ReachedSame ==
    ASSUME WritesInv, UNCHANGED <<sc, stage, view, owed, reach>>,
           \A n \in Nodes : view[n] >= Integrating => Unrouted(n)' \subseteq Unrouted(n)
    PROVE  \A n \in Nodes : Reached(n)'
<1>1. \A n \in Nodes : Reached(n)
  BY DEF WritesInv
<1> QED
  BY <1>1 DEF Reached

\* A step of a write leaves the worker, the log and what Raft has alone.
LEMMA WriteFrame ==
    ASSUME WritesInv, UNCHANGED <<sc, movementVars, log>>,
           \A u \in Writes : leg[u][Source] = "done" => leg'[u][Source] = "done"
    PROVE  Course' /\ Logged' /\ Passed' /\ Writes' = Writes /\ Nodes' = Nodes /\ Keys' = Keys
<1>1. Writes' = Writes /\ Nodes' = Nodes /\ Keys' = Keys
  BY DEF Writes, Nodes, Base, Keys
<1>2. Course'
  BY DEF WritesInv, Course, movementVars
<1>3. log.entries \in Seq(Writes)
  BY DEF WritesInv, Types
<1>4. \A i \in 1 .. Len(log.entries) : log.entries[i] \in Writes
  BY <1>3, Elements
<1>5. Logged'
  BY <1>4 DEF WritesInv, Logged, NoLog, movementVars
<1>6. Passed'
  BY <1>1 DEF WritesInv, Passed, AllPeersAtLeast, movementVars
<1> QED
  BY <1>1, <1>2, <1>5, <1>6

\* A replica coordinates a write.
LEMMA RegisterInv ==
    ASSUME WritesInv, NEW w \in Writes, NEW n \in Nodes, Register(w, n)
    PROVE  WritesInv'
<1>1. /\ phase[w] = "new" /\ phase' = [phase EXCEPT ![w] = "registered"]
      /\ coord' = [coord EXCEPT ![w] = n]
      /\ w \in Waiting => \A u \in 1 .. w - 1 : Key(u) = Key(w) => Settled(u)
      /\ UNCHANGED <<sc, leg, ackers, store, movementVars, log>>
  BY Zenon DEF Register
<1>2. Course' /\ Logged' /\ Passed' /\ Writes' = Writes /\ Nodes' = Nodes /\ Keys' = Keys
  BY <1>1, WriteFrame
<1>3. Types /\ Ordered(w)
  BY DEF WritesInv
<1>4. Types'
  BY <1>1, <1>2, <1>3 DEF Types, movementVars
<1>5. ~Settled(w)
  BY <1>1 DEF Settled
<1>6. UNCHANGED <<sc, stage, view, owed, reach>>
  BY <1>1 DEF movementVars
<1>7. /\ \A u \in Writes \ {w} : Ordered(u)'
      /\ \A u \in 1 .. w - 1 : Settled(u) => Settled(u)'
  <2>1. \A u \in Writes \ {w} : phase'[u] = phase[u] /\ leg'[u] = leg[u] /\ ackers'[u] = ackers[u]
    BY <1>1, <1>3, Zenon DEF Types
  <2> QED
    BY <1>5, <1>6, <2>1, OthersOrdered
<1>8. Ordered(w)'
  BY <1>1, <1>2, <1>3, <1>6, <1>7, SMTT(30), Z3T(30) DEF Ordered, Key, Types, Waiting
<1>9. \A m \in Nodes : Unrouted(m)' \subseteq Unrouted(m)
  BY <1>1, <1>2, <1>3 DEF Unrouted, Types
<1>10. \A m \in Nodes : Reached(m)'
  BY <1>6, <1>9, ReachedSame
<1> QED
  BY <1>2, <1>4, <1>7, <1>8, <1>10, Zenon DEF WritesInv

\* The write is sent to the replicas its coordinator's view routes to.
LEMMA PushInv ==
    ASSUME WritesInv, NEW w \in Writes, Push(w)
    PROVE  WritesInv'
<1> DEFINE sent == [n \in Nodes |->
              IF n \in FilterOneShardReplicas(view[coord[w]]) THEN "asked" ELSE "off"]
<1>1. /\ phase[w] = "registered" /\ phase' = [phase EXCEPT ![w] = "asked"]
      /\ leg' = [leg EXCEPT ![w] = sent]
      /\ UNCHANGED <<sc, coord, ackers, store, movementVars, log>>
  BY Zenon DEF Push
<1>2. Types /\ Ordered(w)
  BY DEF WritesInv
<1>3. \A n \in Nodes : leg[w][n] = "off"
  BY <1>1, <1>2 DEF Ordered
<1>4. Source \in Nodes /\ Target \in Nodes
  BY <1>2, ScenarioFacts DEF Types
<1>5. /\ \A u \in Writes \ {w} : leg'[u] = leg[u] /\ phase'[u] = phase[u]
      /\ leg'[w] = sent /\ phase'[w] = "asked"
      /\ leg' \in [Writes -> [Nodes -> {"off", "asked", "prepared", "stuck", "done", "failed"}]]
  <2>1. sent \in [Nodes -> {"off", "asked", "prepared", "stuck", "done", "failed"}]
    OBVIOUS
  <2> HIDE DEF sent
  <2> QED
    BY <1>1, <1>2, <2>1 DEF Types
<1>6. Course' /\ Logged' /\ Passed' /\ Writes' = Writes /\ Nodes' = Nodes /\ Keys' = Keys
  <2>1. \A u \in Writes : leg[u][Source] = "done" => leg'[u][Source] = "done"
    BY <1>3, <1>4, <1>5, Zenon
  <2> QED
    BY <1>1, <2>1, WriteFrame
<1>7. Types'
  BY <1>1, <1>2, <1>5, <1>6, Zenon DEF Types, movementVars
<1>8. UNCHANGED <<sc, stage, view, owed, reach>>
  BY <1>1 DEF movementVars
<1>9. ~Settled(w)
  BY <1>1, Zenon DEF Settled
<1>10. /\ \A u \in Writes \ {w} : Ordered(u)'
       /\ \A u \in 1 .. w - 1 : Settled(u) => Settled(u)'
  BY <1>1, <1>5, <1>8, <1>9, OthersOrdered, Zenon
<1>11. coord[w] \in Nodes /\ view[coord[w]] \in 0 .. Ready /\ view[coord[w]] <= stage
  <2>1. coord[w] \in Nodes
    BY <1>2 DEF Types
  <2> QED
    BY <1>2, <2>1 DEF Types, WritesInv, Reached
<1>12. leg'[w][Target] = "off" <=> view[coord[w]] < Integrating
  BY <1>4, <1>5, <1>11, Routing, SMTT(30), Z3T(30)
<1>13. Ordered(w)'
  <2>1. ackers[w] = {}
    BY <1>2, <1>3, Zenon DEF Ordered, Types
  <2>2. stage < Integrating => leg'[w][Target] = "off"
    BY <1>2, <1>11, <1>12 DEF Types
  <2> QED
    BY <1>1, <1>2, <1>5, <1>6, <1>8, <1>10, <2>1, <2>2, SMTT(30), Z3T(30) DEF Ordered, Key, Waiting
<1>14. \A n \in Nodes : view[n] >= Integrating => Unrouted(n)' \subseteq Unrouted(n)
  <2> SUFFICES ASSUME NEW n \in Nodes, view[n] >= Integrating, NEW u \in Unrouted(n)'
               PROVE  u \in Unrouted(n)
    OBVIOUS
  <2>1. /\ u \in Writes /\ coord[u] = n /\ phase'[u] \in {"asked", "commit"}
        /\ leg'[u][Target] = "off"
    BY <1>1, <1>6 DEF Unrouted
  <2>2. u # w
    BY <1>2, <1>11, <1>12, <2>1 DEF Types
  <2> QED
    BY <1>5, <2>1, <2>2 DEF Unrouted
<1>15. \A n \in Nodes : Reached(n)'
  BY <1>8, <1>14, ReachedSame, Zenon
<1> QED
  BY <1>6, <1>7, <1>10, <1>13, <1>15, Zenon DEF WritesInv

\* A step of a write that is under way, on the legs it was sent on.
LEMMA LegStep ==
    ASSUME WritesInv, NEW w \in Writes, ~Settled(w), phase[w] \notin {"new", "registered"},
           UNCHANGED <<sc, coord, movementVars>>,
           \A u \in Writes \ {w} :
               phase'[u] = phase[u] /\ leg'[u] = leg[u] /\ ackers'[u] = ackers[u],
           phase'[w] \notin {"new", "registered"},
           phase'[w] \in {"asked", "commit"} => phase[w] \in {"asked", "commit"},
           \A n \in Nodes : leg'[w][n] = "off" <=> leg[w][n] = "off",
           \A n \in ackers'[w] : leg'[w][n] = "done"
    PROVE  /\ \A u \in Writes' : Ordered(u)'
           /\ \A n \in Nodes' : Reached(n)'
<1>1. Writes' = Writes /\ Nodes' = Nodes /\ UNCHANGED <<sc, stage, view, owed, reach>>
  BY Zenon DEF Writes, Nodes, Base, movementVars
<1>2. Target \in Nodes
  BY ScenarioFacts DEF WritesInv, Types
<1>3. Ordered(w)
  BY DEF WritesInv
<1>4. /\ \A u \in Writes \ {w} : Ordered(u)'
      /\ \A u \in 1 .. w - 1 : Settled(u) => Settled(u)'
  BY <1>1, OthersOrdered, Zenon
<1>5. Ordered(w)'
  BY <1>1, <1>2, <1>3, <1>4, Zenon DEF Ordered, Key, Waiting
<1>6. \A n \in Nodes : Unrouted(n)' \subseteq Unrouted(n)
  BY <1>1, <1>2, SMTT(30), Z3T(30) DEF Unrouted
<1>7. \A n \in Nodes : Reached(n)'
  BY <1>1, <1>6, ReachedSame
<1> QED
  BY <1>1, <1>4, <1>5, <1>7, Zenon

\* A node answers a prepare, or a message is lost.
LEMMA AnswerInv ==
    ASSUME WritesInv, NEW w \in Writes, NEW n \in Nodes,
           Prepare(w, n) \/ Refuse(w, n) \/ Lose(w, n)
    PROVE  WritesInv'
<1>1. /\ leg[w][n] \in {"asked", "prepared"}
      /\ \/ leg' = [leg EXCEPT ![w][n] = "failed"] \/ leg' = [leg EXCEPT ![w][n] = "prepared"]
         \/ leg' = [leg EXCEPT ![w][n] = "stuck"]
      /\ UNCHANGED <<sc, phase, coord, ackers, store, movementVars, log>>
  BY DEF Prepare, Refuse, Lose
<1>2. Types /\ Ordered(w)
  BY DEF WritesInv
<1>3. PICK a \in {"failed", "prepared", "stuck"} : leg' = [leg EXCEPT ![w][n] = a]
  BY <1>1
<1>4. /\ leg' \in [Writes -> [Nodes -> {"off", "asked", "prepared", "stuck", "done", "failed"}]]
      /\ \A u \in Writes \ {w} : leg'[u] = leg[u]
      /\ \A m \in Nodes : leg'[w][m] = IF m = n THEN a ELSE leg[w][m]
  BY <1>2, <1>3 DEF Types
<1>5. ~Settled(w) /\ phase[w] \notin {"new", "registered"}
  BY <1>1, <1>2 DEF Settled, Ordered
<1>6. Course' /\ Logged' /\ Passed' /\ Writes' = Writes /\ Nodes' = Nodes /\ Keys' = Keys
  <2>1. Source \in Nodes
    BY <1>2, ScenarioFacts DEF Types
  <2>2. \A u \in Writes : leg[u][Source] = "done" => leg'[u][Source] = "done"
    BY <1>1, <1>4, <2>1, Zenon
  <2> QED
    BY <1>1, <2>2, WriteFrame
<1>7. Types'
  BY <1>1, <1>2, <1>4, <1>6, Zenon DEF Types, movementVars
<1>8. /\ \A m \in Nodes : leg'[w][m] = "off" <=> leg[w][m] = "off"
      /\ \A m \in ackers'[w] : leg'[w][m] = "done"
  BY <1>1, <1>2, <1>4, Zenon DEF Ordered, Types
<1>9. /\ \A u \in Writes' : Ordered(u)'
      /\ \A m \in Nodes' : Reached(m)'
  BY <1>1, <1>4, <1>5, <1>8, LegStep, Zenon
<1> QED
  BY <1>6, <1>7, <1>9, Zenon DEF WritesInv

\* Enough replicas have prepared the write.
LEMMA StartCommitInv ==
    ASSUME WritesInv, NEW w \in Writes, StartCommit(w)
    PROVE  WritesInv'
<1>1. /\ phase[w] = "asked" /\ phase' = [phase EXCEPT ![w] = "commit"]
      /\ UNCHANGED <<sc, coord, leg, ackers, store, movementVars, log>>
  BY ZenonT(30) DEF StartCommit
<1>2. Types /\ Ordered(w)
  BY DEF WritesInv
<1>3. ~Settled(w)
  BY <1>1 DEF Settled
<1>4. /\ \A u \in Writes \ {w} : phase'[u] = phase[u]
      /\ phase'[w] = "commit"
  BY <1>1, <1>2 DEF Types
<1>5. Course' /\ Logged' /\ Passed' /\ Writes' = Writes /\ Nodes' = Nodes /\ Keys' = Keys
  BY <1>1, WriteFrame, Zenon
<1>6. Types'
  BY <1>1, <1>2, <1>5, Zenon DEF Types, movementVars
<1>7. /\ \A u \in Writes' : Ordered(u)'
      /\ \A m \in Nodes' : Reached(m)'
  <2>1. \A m \in ackers'[w] : leg'[w][m] = "done"
    BY <1>1, <1>2, Zenon DEF Ordered
  <2> QED
    BY <1>1, <1>3, <1>4, <2>1, LegStep, Zenon
<1> QED
  BY <1>5, <1>6, <1>7, Zenon DEF WritesInv

\* Too few have.
LEMMA AbortInv ==
    ASSUME WritesInv, NEW w \in Writes, Abort(w)
    PROVE  WritesInv'
<1> DEFINE dropped == [n \in Nodes |-> IF leg[w][n] = "prepared" THEN "failed" ELSE leg[w][n]]
<1>1. /\ phase[w] = "asked" /\ phase' = [phase EXCEPT ![w] = "error"]
      /\ leg' = [leg EXCEPT ![w] = [n \in Nodes |-> IF @[n] = "prepared" THEN "failed" ELSE @[n]]]
      /\ UNCHANGED <<sc, coord, ackers, store, movementVars, log>>
  BY Zenon DEF Abort
<1>2. Types /\ Ordered(w)
  BY DEF WritesInv
<1>3. ~Settled(w)
  BY <1>1 DEF Settled
<1>4. /\ \A u \in Writes \ {w} : phase'[u] = phase[u] /\ leg'[u] = leg[u]
      /\ phase'[w] = "error"
      /\ leg' \in [Writes -> [Nodes -> {"off", "asked", "prepared", "stuck", "done", "failed"}]]
      /\ \A n \in Nodes : leg'[w][n] = IF leg[w][n] = "prepared" THEN "failed" ELSE leg[w][n]
  <2>1. leg' = [leg EXCEPT ![w] = dropped]
    BY <1>1, <1>2 DEF Types
  <2>2. dropped \in [Nodes -> {"off", "asked", "prepared", "stuck", "done", "failed"}]
    BY <1>2 DEF Types
  <2>3. /\ \A u \in Writes \ {w} : phase'[u] = phase[u] /\ leg'[u] = leg[u]
        /\ phase'[w] = "error" /\ leg'[w] = dropped
        /\ leg' \in [Writes -> [Nodes -> {"off", "asked", "prepared", "stuck", "done", "failed"}]]
    <3> HIDE DEF dropped
    <3> QED
      BY <1>1, <1>2, <2>1, <2>2, SMTT(30), Z3T(30) DEF Types
  <2> QED
    BY <2>3
<1>5. Course' /\ Logged' /\ Passed' /\ Writes' = Writes /\ Nodes' = Nodes /\ Keys' = Keys
  <2>1. Source \in Nodes
    BY <1>2, ScenarioFacts DEF Types
  <2>2. \A u \in Writes : leg[u][Source] = "done" => leg'[u][Source] = "done"
    BY <1>4, <2>1, Zenon
  <2> QED
    BY <1>1, <2>2, WriteFrame, Zenon
<1>6. Types'
  BY <1>1, <1>2, <1>4, <1>5, Zenon DEF Types, movementVars
<1>7. /\ \A u \in Writes' : Ordered(u)'
      /\ \A m \in Nodes' : Reached(m)'
  <2>1. /\ \A m \in Nodes : leg'[w][m] = "off" <=> leg[w][m] = "off"
        /\ \A m \in ackers'[w] : leg'[w][m] = "done"
    BY <1>1, <1>2, <1>4 DEF Ordered, Types
  <2> QED
    BY <1>1, <1>3, <1>4, <2>1, LegStep, ZenonT(30)
<1> QED
  BY <1>5, <1>6, <1>7, Zenon DEF WritesInv

\* The client has its answer.
LEMMA ReturnInv ==
    ASSUME WritesInv, NEW w \in Writes, Return(w)
    PROVE  WritesInv'
<1>1. /\ phase[w] = "commit"
      /\ phase' = [phase EXCEPT ![w] = "acked"] \/ phase' = [phase EXCEPT ![w] = "error"]
      /\ ackers' = [ackers EXCEPT ![w] = Legs(w, "done")] \/ ackers' = [ackers EXCEPT ![w] = {}]
      /\ UNCHANGED <<sc, coord, leg, store, movementVars, log>>
  BY ZenonT(30) DEF Return
<1>2. Types /\ Ordered(w)
  BY DEF WritesInv
<1>3. ~Settled(w)
  BY <1>1 DEF Settled
<1>4. PICK p \in {"acked", "error"} : phase' = [phase EXCEPT ![w] = p]
  BY <1>1
<1>5. PICK a \in SUBSET Nodes :
          ackers' = [ackers EXCEPT ![w] = a] /\ \A n \in a : leg[w][n] = "done"
  BY <1>1, Zenon DEF Legs
<1>6. /\ \A u \in Writes \ {w} : phase'[u] = phase[u] /\ ackers'[u] = ackers[u]
      /\ phase'[w] = p /\ ackers'[w] = a
  BY <1>2, <1>4, <1>5, SMTT(30), Z3T(30) DEF Types
<1>7. Course' /\ Logged' /\ Passed' /\ Writes' = Writes /\ Nodes' = Nodes /\ Keys' = Keys
  BY <1>1, WriteFrame
<1>8. Types'
  BY <1>1, <1>2, <1>4, <1>5, <1>7, Zenon DEF Types, movementVars
<1>9. /\ \A u \in Writes' : Ordered(u)'
      /\ \A m \in Nodes' : Reached(m)'
  BY <1>1, <1>3, <1>5, <1>6, LegStep, Zenon
<1> QED
  BY <1>7, <1>8, <1>9, Zenon DEF WritesInv

\* What the commit does to the log.
LEMMA TeeFacts ==
    ASSUME WritesInv, NEW w \in Writes, NEW n \in Nodes, Commit(w, n)
    PROVE  \/ log' = log /\ ~Tees(n, w)
           \/ log' = NoLog /\ Tees(n, w) /\ DrainWindow \in sc.appendFails
           \/ /\ Tees(n, w) /\ log'.reg = "open" /\ log'.wait = log.wait
              /\ log'.entries = Append(log.entries, w)
              /\ log' \in [reg : {"none", "open", "sealed"}, entries : Seq(Writes),
                           wait : SUBSET Writes]
<1>1. log \in [reg : {"none", "open", "sealed"}, entries : Seq(Writes), wait : SUBSET Writes]
  BY DEF WritesInv, Types
<1>2. \/ log' = IF Tees(n, w) THEN [log EXCEPT !.entries = Append(@, w)] ELSE log
      \/ Tees(n, w) /\ DrainWindow \in sc.appendFails /\ log' = NoLog
  BY ZenonT(30) DEF Commit
<1>3. Append(log.entries, w) \in Seq(Writes)
  BY <1>1, Appended
<1>4. CASE Tees(n, w) /\ log' = [log EXCEPT !.entries = Append(log.entries, w)]
  BY <1>1, <1>3, <1>4, Zenon DEF Tees
<1> QED
  BY <1>2, <1>4, Zenon

\* The entries after a commit: the old ones and the write.
LEMMA AppendedEntries ==
    ASSUME NEW S, NEW s \in Seq(S), NEW w \in S, NEW t, t = Append(s, w)
    PROVE  /\ Len(s) \in Nat /\ Len(t) = Len(s) + 1 /\ t[Len(s) + 1] = w
           /\ \A i \in 1 .. Len(s) : t[i] = s[i]
  BY Appended, Elements, SMTT(30), Z3T(30)

\* A leg commits, and is teed into the open log of the source.
LEMMA CommitInv ==
    ASSUME WritesInv, NEW w \in Writes, NEW n \in Nodes, Commit(w, n)
    PROVE  WritesInv'
<1>1. /\ phase[w] \in {"commit", "acked"} /\ leg[w][n] = "prepared"
      /\ leg' = [leg EXCEPT ![w][n] = "done"]
      /\ store' = [store EXCEPT ![n][Key(w)] = Written(@, w)]
      /\ UNCHANGED <<sc, phase, coord, ackers, movementVars>>
  BY Zenon DEF Commit
<1>2. Types /\ Ordered(w) /\ Logged
  BY DEF WritesInv
<1>3. /\ leg' \in [Writes -> [Nodes -> {"off", "asked", "prepared", "stuck", "done", "failed"}]]
      /\ \A u \in Writes \ {w} : leg'[u] = leg[u]
      /\ \A m \in Nodes : leg'[w][m] = IF m = n THEN "done" ELSE leg[w][m]
  BY <1>1, <1>2 DEF Types
<1>4. ~Settled(w)
  BY <1>1, ZenonT(30) DEF Settled
<1>5. /\ Writes' = Writes /\ Nodes' = Nodes /\ Keys' = Keys
      /\ Writes = 1 .. Len(sc.writes) /\ Len(sc.writes) \in Nat /\ Key(w) \in Keys
      /\ Source \in Nodes
  BY <1>1, <1>2, ScenarioFacts, SMTT(30), Z3T(30) DEF Types, Writes, Nodes, Base, Keys
<1>6. \A u \in Writes : leg[u][Source] = "done" => leg'[u][Source] = "done"
  BY <1>1, <1>3, <1>5, Zenon
<1>7. store' \in [Nodes -> [Keys -> -Len(sc.writes) .. Len(sc.writes)]]
  <2>1. store[n][Key(w)] \in -Len(sc.writes) .. Len(sc.writes)
    BY <1>2, <1>5, SMTT(30), Z3T(30) DEF Types
  <2>2. Written(store[n][Key(w)], w) \in -Len(sc.writes) .. Len(sc.writes)
    BY <1>5, <2>1, SMTT(30), Z3T(30) DEF Written, deleteObject
  <2>3. store' = [store EXCEPT ![n][Key(w)] = Written(store[n][Key(w)], w)]
    BY <1>1, <1>2, <1>5, Zenon DEF Types
  <2> QED
    BY <1>2, <1>5, <2>2, <2>3, Zenon DEF Types
<1>8. /\ \A u \in Writes' : Ordered(u)'
      /\ \A m \in Nodes' : Reached(m)'
  <2>1. /\ \A m \in Nodes : leg'[w][m] = "off" <=> leg[w][m] = "off"
        /\ \A m \in ackers'[w] : leg'[w][m] = "done"
    BY <1>1, <1>2, <1>3, SMTT(30), Z3T(30) DEF Ordered, Types
  <2> QED
    BY <1>1, <1>3, <1>4, <2>1, LegStep, ZenonT(30)
<1>9. Course'
  BY <1>1 DEF WritesInv, Course, movementVars
<1>10. log.entries \in Seq(Writes) /\ \A i \in 1 .. Len(log.entries) : log.entries[i] \in Writes
  BY <1>2, Elements DEF Types
<1>11. CASE log' = log
  <2>1. Types'
    BY <1>1, <1>2, <1>3, <1>5, <1>7, <1>11, ZenonT(30) DEF Types, movementVars
  <2>2. Logged' /\ Passed'
    BY <1>1, <1>6, <1>11, WriteFrame
  <2> QED
    BY <1>8, <1>9, <2>1, <2>2, Zenon DEF WritesInv
<1>12. CASE log' = NoLog
  <2>1. log' \in [reg : {"none", "open", "sealed"}, entries : Seq(Writes), wait : SUBSET Writes]
    BY <1>12, SMTT(30), Z3T(30) DEF NoLog
  <2>2. Types'
    BY <1>1, <1>2, <1>3, <1>5, <1>7, <2>1, Zenon DEF Types, movementVars
  <2>3. log'.reg = "none" /\ log'.entries = <<>> /\ Len(log'.entries) = 0
    BY <1>12, SMTT(30), Z3T(30) DEF NoLog
  <2>4. Logged'
    BY <1>1, <1>2, <1>12, <2>3 DEF Logged, NoLog, movementVars
  <2>5. Passed'
    BY <1>1, <1>5, <2>3, ZenonT(30) DEF WritesInv, Passed, AllPeersAtLeast, movementVars
  <2> QED
    BY <1>8, <1>9, <2>2, <2>4, <2>5, ZenonT(30) DEF WritesInv
<1>13. CASE /\ Tees(n, w) /\ log'.reg = "open" /\ log'.entries = Append(log.entries, w)
            /\ log' \in [reg : {"none", "open", "sealed"}, entries : Seq(Writes), wait : SUBSET Writes]
  <2>1. Types'
    BY <1>1, <1>2, <1>3, <1>5, <1>7, <1>13, ZenonT(30) DEF Types, movementVars
  <2>2. n = Source /\ log.reg = "open"
    BY <1>13 DEF Tees
  <2> DEFINE s == log.entries
             t == log'.entries
  <2>3. /\ Len(s) \in Nat /\ Len(t) = Len(s) + 1 /\ t[Len(s) + 1] = w
        /\ \A i \in 1 .. Len(s) : t[i] = s[i]
    BY <1>10, <1>13, AppendedEntries
  <2>4. \A i \in 1 .. Len(s) : s[i] # w /\ leg'[s[i]][Source] = "done"
    BY <1>1, <1>2, <1>6, <1>10, <2>2, Zenon DEF Logged
  <2>5. leg'[w][Source] = "done"
    BY <1>3, <1>5, <2>2, Zenon
  <2>6. \A i \in 1 .. Len(s) + 1 : i \in 1 .. Len(s) \/ i = Len(s) + 1
    BY <2>3, SMTT(30), Z3T(30)
  <2>7. \A i \in 1 .. Len(t) : leg'[t[i]][Source] = "done"
    BY <2>3, <2>4, <2>5, <2>6, Zenon
  <2>8. \A i, j \in 1 .. Len(t) : t[i] = t[j] => i = j
    <3>1. \A i, j \in 1 .. Len(s) : s[i] = s[j] => i = j
      BY <1>2 DEF Logged
    <3> HIDE DEF s, t
    <3> QED
      BY <2>3, <2>4, <2>6, <3>1, SMTT(30), Z3T(30)
  <2>9. pc' = pc /\ pos' = pos /\ cap' = cap /\ reach' = reach
    BY <1>1 DEF movementVars
  <2>10. pc \notin {"capture", "moved", "fence", "removed", "finished"}
         /\ pos <= Len(s) /\ cap <= Len(s)
    BY <1>2, <2>2, SMTT(30), Z3T(30) DEF Logged, NoLog
  <2>11. pos <= Len(t) /\ cap <= Len(t)
    BY <1>2, <2>3, <2>10, SMTT(30), Z3T(30) DEF Types
  <2>12. Logged'
    BY <1>13, <2>7, <2>8, <2>9, <2>10, <2>11, Zenon DEF Logged
  <2>13. Passed'
    BY <1>5, <1>13, <2>9, Zenon DEF WritesInv, Passed, AllPeersAtLeast
  <2> QED
    BY <1>8, <1>9, <2>1, <2>12, <2>13, Zenon DEF WritesInv
<1> QED
  BY <1>11, <1>12, <1>13, TeeFacts

-----------------------------------------------------------------------------
(* A node applies a command and reports it.                                *)

\* The next stage of a movement.
LEMMA AfterFacts ==
    ASSUME WritesInv, NEW n \in Nodes, view[n] < stage
    PROVE  /\ After(view[n]) \in 0 .. Ready /\ view[n] < After(view[n])
           /\ After(view[n]) <= stage
           /\ sc.type = "COPY" => After(view[n]) \notin {Dehydrating, Removed}
<1>1. /\ view[n] \in 0 .. Ready /\ stage \in 0 .. Ready /\ sc.type \in {"COPY", "MOVE"}
      /\ sc.type = "COPY" => view[n] \notin {Dehydrating, Removed}
                             /\ stage \notin {Dehydrating, Removed}
  BY ScenarioFacts DEF WritesInv, Types, Course, Reached
<1> QED
  BY <1>1, SMTT(30), Z3T(30) DEF After

\* A node applies the next Raft command.
LEMMA ApplyInv ==
    ASSUME WritesInv, NEW n \in Nodes, Apply(n)
    PROVE  WritesInv'
<1> DEFINE v == After(view[n])
<1>1. /\ view[n] < stage
      /\ view' = [view EXCEPT ![n] = v]
      /\ owed' = [owed EXCEPT ![n] = IF v \in {Integrating, Dehydrating} THEN InFlight(n) ELSE {}]
      /\ UNCHANGED <<sc, phase, coord, ackers, stage, reach, log, pc, pos, cap, boundary>>
      /\ IF n = Source /\ v = Removed
         THEN /\ store' = [store EXCEPT ![n] = [k \in Keys |-> 0]]
              /\ leg' = [w \in Writes |-> [leg[w] EXCEPT ![n] =
                     IF @ \in {"asked", "prepared", "stuck"} THEN "failed" ELSE @]]
         ELSE UNCHANGED <<store, leg>>
  BY Zenon DEF Apply
<1>2. Types /\ Course /\ Logged /\ Passed
  BY ZenonT(30) DEF WritesInv
<1>3. /\ Writes' = Writes /\ Nodes' = Nodes /\ Keys' = Keys
      /\ Writes = 1 .. Len(sc.writes) /\ Len(sc.writes) \in Nat
      /\ Source \in Nodes /\ Target \in Nodes /\ Source # Target
  BY <1>1, <1>2, ScenarioFacts, SMTT(30), Z3T(30) DEF Types, Writes, Nodes, Base, Keys
<1>4. /\ v \in 0 .. Ready /\ view[n] < v /\ v <= stage
      /\ sc.type = "COPY" => v \notin {Dehydrating, Removed}
  BY <1>1, AfterFacts, Zenon
<1> HIDE DEF v
<1>5. /\ leg' \in [Writes -> [Nodes -> {"off", "asked", "prepared", "stuck", "done", "failed"}]]
      /\ \A u \in Writes, m \in Nodes :
            leg'[u][m] = leg[u][m] \/ (m = Source /\ leg'[u][m] = "failed"
                                       /\ leg[u][m] \in {"asked", "prepared", "stuck"})
      /\ store' \in [Nodes -> [Keys -> -Len(sc.writes) .. Len(sc.writes)]]
  <2>1. CASE UNCHANGED <<store, leg>>
    BY <1>2, <2>1, Zenon DEF Types
  <2>2. CASE n = Source /\ v = Removed
    <3>1. /\ store' = [store EXCEPT ![n] = [k \in Keys |-> 0]]
          /\ leg' = [w \in Writes |-> [leg[w] EXCEPT ![n] =
                 IF @ \in {"asked", "prepared", "stuck"} THEN "failed" ELSE @]]
      BY <1>1, <2>2
    <3>2. [k \in Keys |-> 0] \in [Keys -> -Len(sc.writes) .. Len(sc.writes)]
      BY <1>3, SMTT(30), Z3T(30)
    <3>3. store' \in [Nodes -> [Keys -> -Len(sc.writes) .. Len(sc.writes)]]
      BY <1>2, <3>1, <3>2, Zenon DEF Types
    <3>4. \A u \in Writes : leg'[u] = [leg[u] EXCEPT ![n] =
              IF leg[u][n] \in {"asked", "prepared", "stuck"} THEN "failed" ELSE leg[u][n]]
      BY <3>1, Zenon
    <3>5. ASSUME NEW u \in Writes
          PROVE  /\ leg[u] \in [Nodes -> {"off", "asked", "prepared", "stuck", "done", "failed"}]
                 /\ leg'[u] \in [Nodes -> {"off", "asked", "prepared", "stuck", "done", "failed"}]
      <4>1. leg[u] \in [Nodes -> {"off", "asked", "prepared", "stuck", "done", "failed"}]
        BY <1>2 DEF Types
      <4>2. leg'[u] = [leg[u] EXCEPT ![n] =
                IF leg[u][n] \in {"asked", "prepared", "stuck"} THEN "failed" ELSE leg[u][n]]
        BY <3>4, Zenon
      <4> QED
        BY <4>1, <4>2, Zenon
    <3>6. leg' \in [Writes -> [Nodes -> {"off", "asked", "prepared", "stuck", "done", "failed"}]]
      BY <3>1, <3>5, Zenon
    <3>7. \A u \in Writes, m \in Nodes :
              leg'[u][m] = leg[u][m] \/ (m = Source /\ leg'[u][m] = "failed"
                                         /\ leg[u][m] \in {"asked", "prepared", "stuck"})
      BY <2>2, <3>4, <3>5, ZenonT(30)
    <3> QED
      BY <3>3, <3>6, <3>7, Zenon
  <2> QED
    BY <1>1, <2>1, <2>2, Zenon
<1>7. owed' \in [Nodes -> SUBSET Writes]
  BY <1>1, <1>2 DEF Types, InFlight
<1>8. view' \in [Nodes -> 0 .. Ready] /\ view'[n] = v /\ \A m \in Nodes \ {n} : view'[m] = view[m]
  BY <1>1, <1>2, <1>4 DEF Types
<1>9. Types'
  BY <1>1, <1>2, <1>3, <1>5, <1>7, <1>8, ZenonT(30) DEF Types
<1>10. Course'
  BY <1>1, <1>2, SMTT(30), Z3T(30) DEF Course
<1>11. Logged'
  <2>1. \A i \in 1 .. Len(log.entries) : log.entries[i] \in Writes
    BY <1>2, Elements, Zenon DEF Types
  <2>2. \A u \in Writes : leg[u][Source] = "done" => leg'[u][Source] = "done"
    BY <1>3, <1>5, Zenon
  <2>3. \A i \in 1 .. Len(log.entries) : leg'[log.entries[i]][Source] = "done"
    BY <1>2, <2>1, <2>2, SMTT(30), Z3T(30) DEF Logged
  <2> QED
    BY <1>1, <1>2, <2>3 DEF Logged, NoLog
<1>12. Passed'
  BY <1>1, <1>2, <1>3, SMTT(30), Z3T(30) DEF Passed, AllPeersAtLeast
<1>13. ASSUME NEW u \in Writes
       PROVE  Ordered(u)'
  <2>1. Ordered(u)
    BY Zenon DEF WritesInv
  <2>2. \A x \in Writes : Settled(x) => Settled(x)'
    BY <1>1, <1>3, <1>5, SMTT(30), Z3T(30) DEF Settled
  <2>3. \A x \in 1 .. u - 1 : x \in Writes
    BY <1>3
  <2>4. phase[u] # "new" /\ u \in Waiting' =>
            \A x \in 1 .. u - 1 : Key(x)' = Key(u)' => Settled(x)'
    BY <1>1, <1>3, <2>1, <2>2, <2>3, Zenon DEF Ordered, Key, Waiting
  <2>5. \A m \in Nodes : leg[u][m] \in {"off", "done"} => leg'[u][m] = leg[u][m]
    BY <1>5, Zenon
  <2>6. ackers[u] \subseteq Nodes
    BY <1>2, SMTT(30), Z3T(30) DEF Types
  <2> QED
    BY <1>1, <1>3, <2>1, <2>4, <2>5, <2>6, SMTT(30), Z3T(30) DEF Ordered
<1>14. \A m \in Nodes : Unrouted(m)' = Unrouted(m)
  BY <1>1, <1>3, <1>5 DEF Unrouted
<1>15. ASSUME NEW m \in Nodes
       PROVE  Reached(m)'
  <2>1. Reached(m)
    BY DEF WritesInv
  <2>2. CASE m # n
    <3>1. owed'[m] = owed[m]
      BY <1>1, <1>2, <2>2, Zenon DEF Types
    <3> QED
      BY <1>1, <1>8, <1>14, <2>1, <2>2, <3>1, SMTT(30), Z3T(30) DEF Reached
  <2>3. CASE m = n
    <3>1. v >= Integrating => Unrouted(n) \subseteq owed'[n]
      <4>1. CASE v \in {Integrating, Dehydrating}
        <5>1. owed'[n] = InFlight(n)
          BY <1>1, <1>2, <4>1, Zenon DEF Types
        <5> QED
          BY <5>1, Zenon DEF Unrouted, InFlight
      <4>2. CASE v > Dehydrating
        <5>1. pc \in {"fence", "removed", "finished"}
          BY <1>2, <1>4, <4>2, SMTT(30), Z3T(30) DEF Types, Course, Places
        <5>2. reach[n] >= Integrating
          BY <1>2, <5>1, Zenon DEF Passed, AllPeersAtLeast
        <5> QED
          BY <2>1, <2>3, <5>2, Zenon DEF Reached
      <4> QED
        BY <1>4, <4>1, <4>2, SMTT(30), Z3T(30)
    <3>2. reach[n] >= Integrating => v >= Integrating /\ Unrouted(n) = {}
      <4>1. view[n] \in 0 .. Ready
        BY <1>2 DEF Types
      <4> QED
        BY <1>4, <2>1, <2>3, <4>1, SMTT(30), Z3T(30) DEF Reached
    <3> QED
      BY <1>1, <1>4, <1>8, <1>14, <2>3, <3>1, <3>2, SMTT(30), Z3T(30) DEF Reached
  <2> QED
    BY <2>2, <2>3
<1> QED
  BY <1>3, <1>9, <1>10, <1>11, <1>12, <1>13, <1>15, Zenon DEF WritesInv

\* A node reports the stage whose earlier writes are over.
LEMMA ReportReachedInv ==
    ASSUME WritesInv, NEW n \in Nodes, ReportReached(n)
    PROVE  WritesInv'
<1>1. /\ view[n] \in {Integrating, Dehydrating} /\ reach[n] < view[n]
      /\ owed[n] \cap InFlight(n) = {}
      /\ reach' = [reach EXCEPT ![n] = view[n]]
      /\ UNCHANGED <<sc, writeVars, store, stage, view, owed, log, pc, pos, cap, boundary>>
  BY Zenon DEF ReportReached, Reports, Drained
<1>2. Types /\ Course /\ Logged /\ Passed
  BY DEF WritesInv
<1>3. Writes' = Writes /\ Nodes' = Nodes /\ Keys' = Keys
  BY <1>1, Zenon DEF Writes, Nodes, Base, Keys
<1>4. /\ reach' \in [Nodes -> {0, Integrating, Dehydrating}]
      /\ \A m \in Nodes : reach'[m] = IF m = n THEN view[n] ELSE reach[m]
  BY <1>1, <1>2, Zenon DEF Types
<1>5. Types'
  BY <1>1, <1>2, <1>3, <1>4, Zenon DEF Types, writeVars
<1>6. Course' /\ Logged'
  BY <1>1, <1>2, Zenon DEF Course, Logged, NoLog, writeVars
<1>7. Passed'
  BY <1>1, <1>2, <1>3, <1>4, SMTT(30), Z3T(30) DEF Passed, AllPeersAtLeast, Types
<1>8. \A u \in Writes : Ordered(u)'
  BY <1>1, <1>3, SMTT(30), Z3T(30) DEF WritesInv, Ordered, Settled, Key, Waiting, writeVars
<1>9. \A m \in Nodes : Unrouted(m)' = Unrouted(m)
  BY <1>1, <1>3, Zenon DEF Unrouted, writeVars
<1>10. Unrouted(n) = {}
  <2>1. Unrouted(n) \subseteq owed[n]
    BY <1>1 DEF WritesInv, Reached
  <2>2. Unrouted(n) \subseteq InFlight(n)
    BY Zenon DEF Unrouted, InFlight
  <2> QED
    BY <1>1, <2>1, <2>2, SMTT(30), Z3T(30)
<1>11. ASSUME NEW m \in Nodes
       PROVE  Reached(m)'
  <2>1. Reached(m)
    BY DEF WritesInv
  <2> QED
    BY <1>1, <1>4, <1>9, <1>10, <2>1, Zenon DEF Reached
<1> QED
  BY <1>3, <1>5, <1>6, <1>7, <1>8, <1>11, Zenon DEF WritesInv

-----------------------------------------------------------------------------
(* The worker.                                                             *)

\* A step of the worker leaves the writes and the nodes alone.
LEMMA WorkerFrame ==
    ASSUME WritesInv, UNCHANGED <<sc, writeVars, view, owed, reach>>,
           stage' \in 0 .. Ready, stage <= stage'
    PROVE  /\ Writes' = Writes /\ Nodes' = Nodes /\ Keys' = Keys
           /\ \A u \in Writes : Ordered(u)'
           /\ \A n \in Nodes : Reached(n)'
           /\ AllPeersAtLeast(Integrating)' <=> AllPeersAtLeast(Integrating)
<1>1. Writes' = Writes /\ Nodes' = Nodes /\ Keys' = Keys
  BY DEF Writes, Nodes, Base, Keys
<1>2. stage \in 0 .. Ready /\ view \in [Nodes -> 0 .. Ready]
  BY Zenon DEF WritesInv, Types
<1>3. \A u \in Writes : Ordered(u)'
  BY <1>1, <1>2, SMTT(30), Z3T(30) DEF WritesInv, Ordered, Settled, Key, Waiting, writeVars
<1>4. \A n \in Nodes : Unrouted(n)' = Unrouted(n)
  BY <1>1, Zenon DEF Unrouted, writeVars
<1>5. \A n \in Nodes : Reached(n)'
  BY <1>1, <1>2, <1>4 DEF WritesInv, Reached
<1>6. AllPeersAtLeast(Integrating)' <=> AllPeersAtLeast(Integrating)
  BY <1>1, Zenon DEF AllPeersAtLeast
<1> QED
  BY <1>1, <1>3, <1>5, <1>6, Zenon

\* Where the log stays as it is, so does what is known of it, if the tailer
\* stays inside it.
LEMMA LogFrame ==
    ASSUME WritesInv, UNCHANGED <<leg, log>>, pc \notin {"capture"}, pc' # "capture",
           pc' \in {"moved", "fence", "removed", "finished"} => log.reg = "none",
           log.reg # "none" => pos' <= Len(log.entries) /\ cap' <= Len(log.entries)
    PROVE  Logged'
  BY DEF WritesInv, Logged

\* The log is no longer than the writes are many.
LEMMA LogFits ==
    ASSUME WritesInv
    PROVE  /\ log.entries \in Seq(Writes) /\ Len(log.entries) \in 0 .. Len(sc.writes)
           /\ Len(sc.writes) \in Nat /\ Writes = 1 .. Len(sc.writes)
           /\ \A i \in 1 .. Len(log.entries) : log.entries[i] \in Writes
<1>1. /\ Writes = 1 .. Len(sc.writes) /\ Len(sc.writes) \in Nat
      /\ log.entries \in Seq(Writes)
  BY ScenarioFacts, Zenon DEF WritesInv, Types
<1>2. \A i, j \in 1 .. Len(log.entries) : log.entries[i] = log.entries[j] => i = j
  BY DEF WritesInv, Logged
<1>3. Len(log.entries) <= Len(sc.writes)
  BY <1>1, <1>2, EntriesFit, Zenon
<1> QED
  BY <1>1, <1>3, Elements, SMTT(30), Z3T(30)

\* The change log is opened.
LEMMA CaptureInv ==
    ASSUME WritesInv, StartChangeCapture
    PROVE  WritesInv'
<1>1. /\ pc = "capture" /\ pc' = "copy"
      /\ log' = [reg |-> "open", entries |-> <<>>, wait |-> {}]
      /\ UNCHANGED <<sc, writeVars, view, owed, reach, store, stage, pos, cap, boundary>>
  BY Zenon DEF StartChangeCapture, NoLog, targetUnchanged
<1>2. Types /\ Course /\ Logged
  BY DEF WritesInv
<1>3. /\ Writes' = Writes /\ Nodes' = Nodes /\ Keys' = Keys
      /\ \A u \in Writes : Ordered(u)'
      /\ \A n \in Nodes : Reached(n)'
  BY <1>1, <1>2, WorkerFrame DEF Types
<1>4. /\ log' \in [reg : {"none", "open", "sealed"}, entries : Seq(Writes), wait : SUBSET Writes]
      /\ log'.reg = "open" /\ log'.entries = <<>> /\ Len(log'.entries) = 0
  BY <1>1, SMTT(30), Z3T(30)
<1>5. Types'
  BY <1>1, <1>2, <1>3, <1>4 DEF Types, Places, writeVars
<1>6. Course'
  BY <1>1, <1>2, ZenonT(30) DEF Course
<1>7. Logged'
  BY <1>1, <1>2, <1>4, SMTT(30), Z3T(30) DEF Logged
<1>8. Passed'
  BY <1>1, <1>4 DEF Passed
<1> QED
  BY <1>3, <1>5, <1>6, <1>7, <1>8, Zenon DEF WritesInv

\* The files are copied.
LEMMA CopyInv ==
    ASSUME WritesInv, CopyReplicaFiles
    PROVE  WritesInv'
<1>1. /\ pc = "copy" /\ pc' = "copied"
      /\ store' = [store EXCEPT ![Target] = store[Source]]
      /\ UNCHANGED <<sc, writeVars, view, owed, reach, stage, log, pos, cap, boundary>>
  BY ZenonT(30) DEF CopyReplicaFiles, targetUnchanged
<1>2. Types /\ Course /\ Logged /\ Passed /\ Source \in Nodes
  BY ScenarioFacts, Zenon DEF WritesInv, Types
<1>3. /\ Writes' = Writes /\ Nodes' = Nodes /\ Keys' = Keys
      /\ \A u \in Writes : Ordered(u)'
      /\ \A n \in Nodes : Reached(n)'
      /\ AllPeersAtLeast(Integrating)' <=> AllPeersAtLeast(Integrating)
  BY <1>1, <1>2, WorkerFrame DEF Types
<1>4. store' \in [Nodes -> [Keys -> -Len(sc.writes) .. Len(sc.writes)]]
  BY <1>1, <1>2, ZenonT(30) DEF Types
<1>5. Types'
  BY <1>1, <1>2, <1>3, <1>4, SMTT(30), Z3T(30) DEF Types, Places, writeVars
<1>6. Course' /\ Logged'
  BY <1>1, <1>2 DEF Course, Logged, writeVars
<1>7. Passed'
  BY <1>1, <1>2, <1>3, Zenon DEF Passed
<1> QED
  BY <1>3, <1>5, <1>6, <1>7, Zenon DEF WritesInv

\* The target replays an entry of the log.
LEMMA TailInv ==
    ASSUME WritesInv, TailAndApply
    PROVE  WritesInv'
<1> DEFINE w == log.entries[pos + 1]
<1>1. /\ pc \in {"drain", "predrain", "seal", "sealing", "tail"}
      /\ log.reg # "none" /\ pos < TailLimit
      /\ store' = [store EXCEPT ![Target][Key(w)] = Replayed(@, w)]
      /\ pos' = pos + 1
      /\ UNCHANGED <<sc, writeVars, view, owed, reach, stage, log, pc, cap, boundary>>
  BY Zenon DEF TailAndApply, targetUnchanged
<1>2. Types /\ Course /\ Logged /\ Passed
  BY DEF WritesInv
<1>3. /\ Writes = 1 .. Len(sc.writes) /\ Len(sc.writes) \in Nat
      /\ Len(log.entries) \in 0 .. Len(sc.writes)
      /\ \A i \in 1 .. Len(log.entries) : log.entries[i] \in Writes
  BY LogFits, ZenonT(30)
<1>4. pos \in 0 .. Len(sc.writes) /\ pos + 1 \in 1 .. Len(log.entries)
  BY <1>1, <1>2, <1>3, SMTT(30), Z3T(30) DEF TailLimit, Logged, Types
<1>5. w \in Writes
  BY <1>3, <1>4, Zenon
<1> HIDE DEF w
<1>6. /\ Target \in Nodes /\ Key(w) \in Keys
  BY <1>2, <1>5, ScenarioFacts, Zenon DEF Types
<1>7. /\ Writes' = Writes /\ Nodes' = Nodes /\ Keys' = Keys
      /\ \A u \in Writes : Ordered(u)'
      /\ \A n \in Nodes : Reached(n)'
      /\ AllPeersAtLeast(Integrating)' <=> AllPeersAtLeast(Integrating)
  BY <1>1, <1>2, WorkerFrame, SMTT(30), Z3T(30) DEF Types
<1>8. store' \in [Nodes -> [Keys -> -Len(sc.writes) .. Len(sc.writes)]]
  <2>1. store[Target][Key(w)] \in -Len(sc.writes) .. Len(sc.writes)
    BY <1>2, <1>6, SMTT(30), Z3T(30) DEF Types
  <2>2. Replayed(store[Target][Key(w)], w) \in -Len(sc.writes) .. Len(sc.writes)
    BY <1>3, <1>5, <2>1, SMTT(30), Z3T(30) DEF Replayed, deleteObject
  <2>3. store' = [store EXCEPT ![Target][Key(w)] = Replayed(store[Target][Key(w)], w)]
    BY <1>1, <1>2, <1>6, Zenon DEF Types
  <2> QED
    BY <1>2, <1>6, <2>2, <2>3, ZenonT(30) DEF Types
<1>9. Types'
  <2>1. pos' \in 0 .. Len(sc.writes)
    BY <1>1, <1>3, <1>4, SMTT(30), Z3T(30)
  <2> QED
    BY <1>1, <1>2, <1>7, <1>8, <2>1, Zenon DEF Types, writeVars
<1>10. Course'
  BY <1>1, <1>2, Zenon DEF Course
<1>11. Logged'
  BY <1>1, <1>2, <1>3, <1>4, LogFrame, SMTT(30), Z3T(30) DEF Logged, writeVars
<1>12. Passed'
  BY <1>1, <1>2, <1>7, Zenon DEF Passed
<1> QED
  BY <1>7, <1>9, <1>10, <1>11, <1>12, Zenon DEF WritesInv

\* A step of the worker that touches neither the log nor a store.
LEMMA WorkerStep ==
    ASSUME WritesInv, UNCHANGED <<sc, writeVars, view, owed, reach, store, log>>,
           pc # "capture", pc' \in Places \ {"capture"},
           stage' \in 0 .. Ready, stage <= stage', boundary' \subseteq Writes,
           pos' \in 0 .. Len(sc.writes), cap' \in 0 .. Len(sc.writes),
           log.reg # "none" => pos' <= Len(log.entries) /\ cap' <= Len(log.entries),
           pc' \in {"moved", "fence", "removed", "finished"} => log.reg = "none",
           pc' \in {"snapshot", "predrain", "seal", "sealing", "tail", "moved",
                    "fence", "removed", "finished"} => AllPeersAtLeast(Integrating),
           Course'
    PROVE  WritesInv'
<1>1. /\ Writes' = Writes /\ Nodes' = Nodes /\ Keys' = Keys
      /\ \A u \in Writes : Ordered(u)'
      /\ \A n \in Nodes : Reached(n)'
      /\ AllPeersAtLeast(Integrating)' <=> AllPeersAtLeast(Integrating)
  BY WorkerFrame, Zenon
<1>2. Types'
  BY <1>1, Zenon DEF WritesInv, Types, writeVars
<1>3. Logged'
  BY LogFrame, Zenon DEF writeVars
<1>4. Passed'
  BY <1>1, Zenon DEF WritesInv, Passed
<1> QED
  BY <1>1, <1>2, <1>3, <1>4, Zenon DEF WritesInv

\* What the steps of the worker need of the invariant.
LEMMA WorkerFacts ==
    ASSUME WritesInv
    PROVE  /\ Course /\ Passed /\ pc \in Places
           /\ stage \in 0 .. Ready /\ boundary \subseteq Writes
           /\ pos \in 0 .. Len(sc.writes) /\ cap \in 0 .. Len(sc.writes)
           /\ Len(log.entries) \in 0 .. Len(sc.writes)
           /\ log.reg # "none" => pos <= Len(log.entries) /\ cap <= Len(log.entries)
           /\ pc \in {"moved", "fence", "removed", "finished"} => log.reg = "none"
           /\ sc.type \in {"COPY", "MOVE"}
  BY LogFits, ScenarioFacts, Zenon DEF WritesInv, Types, Logged

\* The snapshots of the log, and the drains that end them.
LEMMA DrainStepsInv ==
    ASSUME WritesInv, UpdateToFinalizing \/ Snapshot \/ TailFails \/ EndDrain
    PROVE  WritesInv'
<1>1. /\ Course /\ Passed /\ pc \in Places
      /\ stage \in 0 .. Ready /\ boundary \subseteq Writes
      /\ pos \in 0 .. Len(sc.writes) /\ cap \in 0 .. Len(sc.writes)
      /\ Len(log.entries) \in 0 .. Len(sc.writes)
      /\ log.reg # "none" => pos <= Len(log.entries) /\ cap <= Len(log.entries)
  BY WorkerFacts, Zenon
<1>2. CASE UpdateToFinalizing
  <2>1. /\ pc = "copied" /\ pc' = "finalize" /\ boundary' \subseteq Writes
        /\ UNCHANGED <<sc, writeVars, view, owed, reach, store, log, stage, pos, cap>>
    BY <1>2, Zenon DEF UpdateToFinalizing, targetUnchanged
  <2>2. Course'
    BY <1>1, <2>1, Zenon DEF Course
  <2> QED
    BY <1>1, <2>1, <2>2, WorkerStep, SMTT(30), Z3T(30) DEF Places
<1>3. CASE Snapshot
  <2>1. /\ \/ pc = "finalize" /\ pc' \in {"aborted", "drain"}
           \/ pc = "snapshot" /\ pc' \in {"moved", "predrain"}
        /\ pc' = "moved" => log.reg = "none"
        /\ cap' = Len(log.entries) /\ pos' = 0
        /\ UNCHANGED <<sc, writeVars, view, owed, reach, store, log, stage, boundary>>
    BY <1>3, Zenon DEF Snapshot, LSN, targetUnchanged
  <2>2. Course'
    BY <1>1, <2>1, Zenon DEF Course
  <2>3. pc' \in {"moved", "predrain"} => AllPeersAtLeast(Integrating)
    BY <1>1, <2>1, Zenon DEF Passed
  <2> QED
    BY <1>1, <2>1, <2>2, <2>3, WorkerStep, SMTT(30), Z3T(30) DEF Places
<1>4. CASE TailFails
  <2>1. /\ log.reg = "none"
        /\ \/ pc = "drain" /\ pc' = "aborted"
           \/ pc \in {"predrain", "seal", "sealing"} /\ pc' \in {"barrier", "moved"}
        /\ UNCHANGED <<sc, writeVars, view, owed, reach, store, log, stage, pos, cap, boundary>>
    BY <1>4, Zenon DEF TailFails, targetUnchanged
  <2>2. Course'
    BY <1>1, <2>1, Zenon DEF Course
  <2>3. pc' = "moved" => AllPeersAtLeast(Integrating)
    BY <1>1, <2>1, Zenon DEF Passed
  <2> QED
    BY <1>1, <2>1, <2>2, <2>3, WorkerStep, SMTT(30), Z3T(30) DEF Places
<1>5. CASE EndDrain
  <2>1. /\ log.reg # "none" /\ pos = cap
        /\ \/ pc = "drain" /\ pc' = "add" /\ pos' = pos
           \/ pc = "predrain" /\ pc' = "seal" /\ pos' = 0
        /\ UNCHANGED <<sc, writeVars, view, owed, reach, store, log, stage, cap, boundary>>
    BY <1>5, Zenon DEF EndDrain, targetUnchanged
  <2>2. Course'
    BY <1>1, <2>1, Zenon DEF Course
  <2>3. pc' = "seal" => AllPeersAtLeast(Integrating)
    BY <1>1, <2>1, Zenon DEF Passed
  <2> QED
    BY <1>1, <2>1, <2>2, <2>3, WorkerStep, SMTT(30), Z3T(30) DEF Places
<1> QED
  BY <1>2, <1>3, <1>4, <1>5, Zenon

\* The worker moves Raft on, waits for the nodes or starts again.
LEMMA StageStepsInv ==
    ASSUME WritesInv,
           \/ AddReplicaToShard \/ UpdateToIntegrating \/ waitForIntegrating
           \/ nextStateAfterIntegrating \/ DeleteReplicaFromShard \/ UpdateToReady \/ Rerun
    PROVE  WritesInv'
<1>1. /\ Course /\ Passed /\ pc \in Places
      /\ stage \in 0 .. Ready /\ boundary \subseteq Writes
      /\ pos \in 0 .. Len(sc.writes) /\ cap \in 0 .. Len(sc.writes)
      /\ log.reg # "none" => pos <= Len(log.entries) /\ cap <= Len(log.entries)
      /\ pc \in {"moved", "fence", "removed", "finished"} => log.reg = "none"
      /\ sc.type \in {"COPY", "MOVE"}
  BY WorkerFacts, Zenon
<1>2. CASE AddReplicaToShard
  <2>1. /\ pc = "add" /\ pc' = "joined" /\ stage' = IF stage < Added THEN Added ELSE stage
        /\ UNCHANGED <<sc, writeVars, view, owed, reach, store, log, pos, cap, boundary>>
    BY <1>2, Zenon DEF AddReplicaToShard, targetUnchanged
  <2>2. Course'
    BY <1>1, <2>1, SMTT(30), Z3T(30) DEF Course
  <2> QED
    BY <1>1, <2>1, <2>2, WorkerStep, SMTT(30), Z3T(30) DEF Places
<1>3. CASE UpdateToIntegrating
  <2>1. /\ pc = "joined" /\ pc' = "barrier" /\ stage' = Integrating
        /\ UNCHANGED <<sc, writeVars, view, owed, reach, store, log, pos, cap, boundary>>
    BY <1>3, Zenon DEF UpdateToIntegrating, targetUnchanged
  <2>2. Course' /\ stage <= stage'
    BY <1>1, <2>1, SMTT(30), Z3T(30) DEF Course
  <2> QED
    BY <1>1, <2>1, <2>2, WorkerStep, SMTT(30), Z3T(30) DEF Places
<1>4. CASE waitForIntegrating
  <2>1. /\ pc = "barrier" /\ pc' = "snapshot" /\ AllPeersAtLeast(Integrating)
        /\ UNCHANGED <<sc, writeVars, view, owed, reach, store, log, stage, pos, cap, boundary>>
    BY <1>4, Zenon DEF waitForIntegrating, targetUnchanged
  <2>2. Course'
    BY <1>1, <2>1, Zenon DEF Course
  <2> QED
    BY <1>1, <2>1, <2>2, WorkerStep, SMTT(30), Z3T(30) DEF Places
<1>5. CASE nextStateAfterIntegrating
  <2>1. /\ pc = "moved" /\ pc' = IF sc.type = "MOVE" THEN "fence" ELSE "finished"
        /\ stage' = IF sc.type = "COPY" THEN Ready ELSE Dehydrating
        /\ UNCHANGED <<sc, writeVars, view, owed, reach, store, log, pos, cap, boundary>>
    BY <1>5, SMTT(30), Z3T(30) DEF nextStateAfterIntegrating, targetUnchanged, After
  <2>2. Course' /\ stage <= stage'
    BY <1>1, <2>1, SMTT(30), Z3T(30) DEF Course
  <2>3. AllPeersAtLeast(Integrating)
    BY <1>1, <2>1, Zenon DEF Passed
  <2> QED
    BY <1>1, <2>1, <2>2, <2>3, WorkerStep, SMTT(30), Z3T(30) DEF Places
<1>6. CASE DeleteReplicaFromShard
  <2>1. /\ pc = "fence" /\ pc' = "removed"
        /\ \/ Source \notin ShardReplicas(view[Target]) /\ stage' = stage
           \/ stage < Removed /\ stage' = Removed
        /\ UNCHANGED <<sc, writeVars, view, owed, reach, store, log, pos, cap, boundary>>
    BY <1>6, Zenon DEF DeleteReplicaFromShard, targetUnchanged
  <2>2. view[Target] \in 0 .. Ready /\ view[Target] <= stage
    BY ScenarioFacts DEF WritesInv, Types, Reached
  <2>3. Source \notin ShardReplicas(view[Target]) => stage >= Removed
    BY <1>1, <2>2, Routing, SMTT(30), Z3T(30)
  <2>4. stage' = Removed
    BY <1>1, <2>1, <2>3, SMTT(30), Z3T(30) DEF Course
  <2>5. Course' /\ stage <= stage'
    BY <1>1, <2>1, <2>4, SMTT(30), Z3T(30) DEF Course
  <2>6. AllPeersAtLeast(Integrating)
    BY <1>1, <2>1, Zenon DEF Passed
  <2> QED
    BY <1>1, <2>1, <2>4, <2>5, <2>6, WorkerStep, SMTT(30), Z3T(30) DEF Places
<1>7. CASE UpdateToReady
  <2>1. /\ pc = "removed" /\ pc' = "finished" /\ stage' = Ready
        /\ UNCHANGED <<sc, writeVars, view, owed, reach, store, log, pos, cap, boundary>>
    BY <1>7, Zenon DEF UpdateToReady, targetUnchanged
  <2>2. Course' /\ stage <= stage'
    BY <1>1, <2>1, SMTT(30), Z3T(30) DEF Course
  <2>3. AllPeersAtLeast(Integrating)
    BY <1>1, <2>1 DEF Passed
  <2> QED
    BY <1>1, <2>1, <2>2, <2>3, WorkerStep, SMTT(30), Z3T(30) DEF Places
<1>8. CASE Rerun
  <2>1. /\ pc \notin {"capture", "copy", "copied", "aborted", "finished"}
        /\ pc' = CASE stage <= Added -> "finalize"
                   [] stage = Integrating -> "barrier"
                   [] stage > Integrating -> "fence"
        /\ UNCHANGED <<sc, writeVars, view, owed, reach, store, log, stage, pos, cap, boundary>>
    BY <1>8 DEF Rerun
  <2>2. /\ pc' \in {"finalize", "barrier", "fence"}
        /\ pc' = "finalize" <=> stage <= Added
        /\ pc' = "barrier" <=> stage = Integrating
        /\ pc' = "fence" <=> stage > Integrating
    BY <1>1, <2>1
  <2>3. pc' = "fence" => pc \in {"fence", "removed"}
    BY <1>1, <2>1, <2>2, Zenon DEF Course, Places
  <2>4. Course'
    BY <1>1, <2>1, <2>2, <2>3, Zenon DEF Course
  <2>5. pc' = "fence" => AllPeersAtLeast(Integrating)
    BY <1>1, <2>3 DEF Passed
  <2> QED
    BY <1>1, <2>1, <2>2, <2>3, <2>4, <2>5, WorkerStep, SMTT(30), Z3T(30) DEF Places
<1> QED
  BY <1>2, <1>3, <1>4, <1>5, <1>6, <1>7, <1>8, SMTT(30), Z3T(30)

\* The log is sealed once the writes it waits for are over, then dropped.
LEMMA SealStepsInv ==
    ASSUME WritesInv, EnterFinalize \/ Seal \/ StopChangeCapture
    PROVE  WritesInv'
<1>1. Types /\ Course /\ Logged /\ Passed
  BY DEF WritesInv
<1>2. UNCHANGED <<sc, writeVars, view, owed, reach, store, stage, pos, cap, boundary>>
  BY Zenon DEF EnterFinalize, Seal, StopChangeCapture, targetUnchanged
<1>3. /\ Writes' = Writes /\ Nodes' = Nodes /\ Keys' = Keys
      /\ \A u \in Writes : Ordered(u)'
      /\ \A n \in Nodes : Reached(n)'
      /\ AllPeersAtLeast(Integrating)' <=> AllPeersAtLeast(Integrating)
  BY <1>1, <1>2, WorkerFrame, SMTT(30), Z3T(30) DEF Types
<1>4. CASE EnterFinalize \/ Seal
  <2>1. /\ pc \in {"seal", "sealing"} /\ pc' \in {"sealing", "tail"} /\ log.reg # "none"
        /\ log'.entries = log.entries /\ log'.reg \in {log.reg, "sealed"}
        /\ log' \in [reg : {"none", "open", "sealed"}, entries : Seq(Writes), wait : SUBSET Writes]
    <3>1. log \in [reg : {"none", "open", "sealed"}, entries : Seq(Writes), wait : SUBSET Writes]
      BY <1>1 DEF Types
    <3>2. CASE EnterFinalize
      <4>1. /\ pc = "seal" /\ log.reg # "none" /\ pc' = "sealing"
            /\ log' = [log EXCEPT !.wait = {w \in Writes : Pending(w)}]
        BY <3>2, Zenon DEF EnterFinalize
      <4> QED
        BY <3>1, <4>1
    <3>3. CASE Seal
      <4>1. /\ pc = "sealing" /\ log.reg # "none" /\ pc' = "tail"
            /\ log' = [log EXCEPT !.reg = "sealed", !.wait = {}]
        BY <3>3, Zenon DEF Seal
      <4> QED
        BY <3>1, <4>1, Zenon
    <3> QED
      BY <1>4, <3>2, <3>3, ZenonT(30)
  <2>2. Types'
    BY <1>1, <1>2, <1>3, <2>1, Zenon DEF Types, Places, writeVars
  <2>3. Course'
    BY <1>1, <1>2, <2>1, Zenon DEF Course
  <2>4. Logged'
    BY <1>1, <1>2, <2>1, Zenon DEF Logged, writeVars
  <2>5. Passed'
    BY <1>1, <1>3, <2>1, ZenonT(30) DEF Passed
  <2> QED
    BY <1>3, <2>2, <2>3, <2>4, <2>5, Zenon DEF WritesInv
<1>5. CASE StopChangeCapture
  <2>1. /\ pc = "tail" /\ pc' = "moved" /\ log' = NoLog
        /\ log'.reg = "none" /\ log'.entries = <<>> /\ Len(log'.entries) = 0
        /\ log' \in [reg : {"none", "open", "sealed"}, entries : Seq(Writes), wait : SUBSET Writes]
    BY <1>5, SMTT(30), Z3T(30) DEF StopChangeCapture, NoLog
  <2>2. Types'
    BY <1>1, <1>2, <1>3, <2>1, Zenon DEF Types, Places, writeVars
  <2>3. Course'
    BY <1>1, <1>2, <2>1, Zenon DEF Course
  <2>4. Logged'
    BY <2>1 DEF Logged
  <2>5. Passed'
    BY <1>1, <1>3, <2>1, Zenon DEF Passed
  <2> QED
    BY <1>3, <2>2, <2>3, <2>4, <2>5, Zenon DEF WritesInv
<1> QED
  BY <1>4, <1>5

\* The inductive invariant: every action of the worker, of a node and of a write
\* keeps it.
LEMMA WritesStep ==
    ASSUME WritesInv, Next
    PROVE  WritesInv'
<1>1. CASE TargetStep \/ Rerun
  BY <1>1, CaptureInv, CopyInv, TailInv, DrainStepsInv, StageStepsInv,
     SealStepsInv, SMTT(30), Z3T(30) DEF TargetStep
<1>2. ASSUME NEW n \in Nodes, NodeStep(n)
      PROVE  WritesInv'
  BY <1>2, ApplyInv, ReportReachedInv, Zenon DEF NodeStep
<1>3. ASSUME NEW w \in Writes, WriteStep(w)
      PROVE  WritesInv'
  BY <1>3, PushInv, StartCommitInv, AbortInv, ReturnInv, AnswerInv, CommitInv,
     SMTT(30), Z3T(30) DEF WriteStep
<1>4. ASSUME NEW w \in Writes, NEW n \in Nodes,
             Register(w, n) \/ Refuse(w, n) \/ Lose(w, n)
      PROVE  WritesInv'
  BY <1>4, RegisterInv, AnswerInv, Zenon
<1> QED
  BY <1>1, <1>2, <1>3, <1>4, Zenon DEF Next

\* And so does a step that changes nothing.
LEMMA WritesStutter ==
    ASSUME WritesInv, UNCHANGED vars
    PROVE  WritesInv'
<1>1. UNCHANGED <<sc, phase, coord, leg, ackers, store, stage, view, owed, reach, log, pc,
                  pos, cap, boundary>>
  BY Zenon DEF vars
<1>2. Writes' = Writes /\ Nodes' = Nodes /\ Keys' = Keys
  BY <1>1, Zenon DEF Writes, Nodes, Base, Keys
<1>3. (Types /\ Course /\ Logged /\ Passed)'
  BY <1>1, <1>2, ZenonT(30) DEF WritesInv, Types, Course, Logged, NoLog, Passed, AllPeersAtLeast
<1>4. \A u \in Writes : Ordered(u)'
  BY <1>1, <1>2, ZenonT(30) DEF WritesInv, Ordered, Settled, Key, Waiting
<1>5. \A n \in Nodes : Reached(n)'
  BY <1>1, <1>2 DEF WritesInv, Reached, Unrouted
<1> QED
  BY <1>2, <1>3, <1>4, <1>5, Zenon DEF WritesInv

\* Every variable of the writes and of the movement has its type, whatever the
\* scenario: a version is the number of a write, no node is ahead of Raft and the
\* log is never longer than the writes are many.
THEOREM WritesTypeCorrect == Spec => []TypeOK
<1>1. Init => WritesInv
  BY InitWrites
<1>2. WritesInv /\ [Next]_vars => WritesInv'
  BY WritesStep, WritesStutter
<1>3. WritesInv => TypeOK
  <2> SUFFICES ASSUME WritesInv PROVE TypeOK
    OBVIOUS
  <2>1. Types /\ \A n \in Nodes : Reached(n)
    BY DEF WritesInv
  <2>2. view \in [Nodes -> 0 .. stage]
    <3>1. stage \in Int /\ view \in [Nodes -> 0 .. Ready]
      BY <2>1, SMTT(30), Z3T(30) DEF Types
    <3>2. \A n \in Nodes : view[n] \in 0 .. stage
      BY <2>1, <3>1, SMTT(30), Z3T(30) DEF Reached
    <3> QED
      BY <3>1, <3>2, Zenon
  <2> QED
    BY <2>1, <2>2, Zenon DEF Types, TypeOK
<1> QED
  BY <1>1, <1>2, <1>3, PTL DEF Spec

-----------------------------------------------------------------------------
(* The data, when the writes are puts.                                     *)

Has(n, w) == store[n][Key(w)] >= w
InLog(w) == \E i \in 1 .. Len(log.entries) : log.entries[i] = w

\* What is stored was written under that key.  Of the writes that wait more is
\* known: none of the older ones is on its way, so what has them keeps them.
Stored(n, k) ==
    LET v == store[n][k]
    IN  v # 0 => v \in Writes /\ Key(v) = k /\ phase[v] # "new"

\* The log was lost where the movement gives up, or may be lost later.
Lost ==
    /\ log.reg = "none"
    /\ "after" \in sc.appendFails \/ pc \in {"copied", "finalize", "drain", "aborted"}

\* A write of the source is on the target, or in the log, or was sent to the
\* target too, or the client's answer did not count the source.
Carried(w) ==
    leg[w][Source] = "done" =>
        \/ Has(Target, w) \/ InLog(w) \/ leg[w][Target] # "off" \/ Lost
        \/ log.reg # "open" /\ phase[w] = "acked" /\ Source \notin ackers[w]

\* A write the source held when FINALIZING began is on the target, or will be
\* drained before the add.
Drains(w) ==
    \/ Has(Target, w) \/ pc = "aborted"
    \/ /\ pc \in {"finalize", "drain"}
       /\ \/ log.reg = "none"
          \/ \E i \in 1 .. Len(log.entries) : log.entries[i] = w /\ (pc = "drain" => i <= cap)

Puts == \A w \in Writes : Kind(w) = "PUT"
Contents == \A n \in Nodes, k \in Keys : Stored(n, k)
Taken == \A w \in Waiting : leg[w][Target] = "done" => Has(Target, w)

\* The copy takes an empty target to a source that has its writes.
Copying ==
    pc \in {"capture", "copy"} =>
        /\ \A k \in Keys : store[Target][k] = 0
        /\ \A w \in Waiting : leg[w][Source] = "done" => Has(Source, w)

Tailed ==
    \A i \in 1 .. Len(log.entries) :
        i <= pos /\ log.entries[i] \in Waiting => Has(Target, log.entries[i])
AllCarried == pc \notin {"capture", "copy"} => \A w \in Waiting : Carried(w)
AllDrain ==
    /\ pc \in {"capture", "copy", "copied"} => boundary = {}
    /\ \A w \in boundary : phase[w] # "new"
    /\ \A w \in boundary \cap Waiting : Drains(w)

\* From the add to the barrier the log is open, if it cannot be lost then.
LogKept ==
    \/ "after" \in sc.appendFails
    \/ pc \in {"capture", "copy", "copied", "finalize", "drain", "aborted"}
    \/ log.reg = "open" \/ AllPeersAtLeast(Integrating)

DataInv ==
    /\ Puts /\ Contents /\ Taken /\ Copying /\ Tailed
    /\ AllCarried /\ AllDrain /\ LogKept

\* What both invariants say of stores and log; with puts, to hold a write is to
\* have it or a later one.
LEMMA DataFacts ==
    ASSUME WritesInv, DataInv
    PROVE  /\ \A n \in Nodes, k \in Keys : store[n][k] \in 0 .. Len(sc.writes)
           /\ \A n \in Nodes, w \in Writes : Holds(n, w) <=> Has(n, w)
           /\ Writes = 1 .. Len(sc.writes) /\ Len(sc.writes) \in Nat
           /\ \A w \in Writes : Key(w) \in Keys
           /\ Waiting \subseteq Writes
           /\ Source \in Nodes /\ Target \in Nodes /\ Source # Target
           /\ log.entries \in Seq(Writes) /\ Len(log.entries) \in Nat
           /\ \A i \in 1 .. Len(log.entries) : log.entries[i] \in Writes
<1>1. /\ Writes = 1 .. Len(sc.writes) /\ Len(sc.writes) \in Nat
      /\ \A w \in Writes : Key(w) \in Keys
      /\ Waiting \subseteq Writes
      /\ Source \in Nodes /\ Target \in Nodes /\ Source # Target
  BY ScenarioFacts, Zenon DEF WritesInv, Types
<1>2. ASSUME NEW n \in Nodes, NEW k \in Keys
      PROVE  store[n][k] \in 0 .. Len(sc.writes)
  <2>1. Stored(n, k)
    BY Zenon DEF DataInv, Contents
  <2> QED
    BY <1>1, <2>1, SMTT(30), Z3T(30) DEF Stored
<1>3. ASSUME NEW n \in Nodes, NEW w \in Writes
      PROVE  Holds(n, w) <=> Has(n, w)
  <2>1. Key(w) \in Keys /\ Kind(w) = "PUT"
    BY <1>1, Zenon DEF DataInv, Puts
  <2>2. store[n][Key(w)] \in 0 .. Len(sc.writes)
    BY <1>2, <2>1, Zenon
  <2>3. Abs(store[n][Key(w)]) = store[n][Key(w)]
    BY <1>1, <2>2 DEF Abs
  <2> QED
    BY <2>1, <2>3, Zenon DEF Holds, Has
<1> QED
  BY <1>1, <1>2, <1>3, LogFits, SMTT(30), Z3T(30)

\* Nothing is stored and nothing logged.
LEMMA InitData ==
    ASSUME Init, PutsOnly
    PROVE  DataInv
<1>1. sc \in Scenarios /\ Source \in Nodes /\ Target \in Nodes /\ Waiting \subseteq Writes
  BY ScenarioFacts, Zenon DEF Init
<1>2. Puts
  BY <1>1, Zenon DEF PutsOnly, Puts, Writes, Kind
<1>3. Contents /\ Taken /\ Copying
  BY <1>1, Zenon DEF Init, Contents, Stored, Taken, Copying
<1>4. Tailed
  <2>1. log.entries = <<>> /\ Len(log.entries) = 0
    BY DEF Init, NoLog
  <2> QED
    BY <2>1, SMTT(30), Z3T(30) DEF Tailed
<1>5. pc = "capture" /\ boundary = {}
  BY Zenon DEF Init
<1>6. AllCarried /\ AllDrain /\ LogKept
  BY <1>5, Zenon DEF AllCarried, AllDrain, LogKept
<1> QED
  BY <1>2, <1>3, <1>4, <1>6, Zenon DEF DataInv

\* A step that neither commits a write nor moves the worker.
LEMMA QuietData ==
    ASSUME WritesInv, DataInv, UNCHANGED <<sc, log, pc, pos, cap, boundary>>,
           store'[Target] = store[Target], Contents',
           pc \in {"capture", "copy"} => store' = store,
           \A u \in Writes :
               /\ leg'[u][Source] = "done" <=> leg[u][Source] = "done"
               /\ leg'[u][Target] = "done" <=> leg[u][Target] = "done"
               /\ leg[u][Source] = "done" /\ leg[u][Target] # "off" => leg'[u][Target] # "off"
               /\ phase[u] # "new" => phase'[u] # "new"
               /\ phase[u] = "acked" => phase'[u] = "acked" /\ ackers'[u] = ackers[u],
           AllPeersAtLeast(Integrating) => AllPeersAtLeast(Integrating)'
    PROVE  DataInv'
<1>1. /\ Writes' = Writes /\ Nodes' = Nodes /\ Keys' = Keys /\ Waiting' = Waiting
      /\ Waiting \subseteq Writes
  BY Zenon DEF Writes, Nodes, Base, Keys, Waiting
<1>2. \A u \in Writes : Has(Target, u)' <=> Has(Target, u)
  BY Zenon DEF Has, Key
<1>3. \A i \in 1 .. Len(log.entries) : log.entries[i] \in Writes
  BY DataFacts, Zenon
<1>4. Puts' /\ Taken'
  BY <1>1, <1>2, ZenonT(30), SMTT(30) DEF DataInv, Puts, Kind, Taken
<1>5. Copying'
  BY <1>1, ZenonT(30), SMTT(30) DEF DataInv, Copying, Has, Key
<1>6. Tailed'
  BY <1>1, <1>2, <1>3, ZenonT(30), SMTT(30) DEF DataInv, Tailed
<1>7. AllCarried'
  <2> SUFFICES ASSUME pc \notin {"capture", "copy"}, NEW u \in Waiting
               PROVE  Carried(u)'
    BY <1>1, Zenon DEF AllCarried
  <2>1. Carried(u) /\ u \in Writes
    BY <1>1, Zenon DEF DataInv, AllCarried
  <2>2. (InLog(u) => InLog(u)') /\ (Lost => Lost')
    BY Zenon DEF InLog, Lost
  <2> QED
    BY <1>2, <2>1, <2>2, Zenon DEF Carried
<1>8. AllDrain'
  <2>1. boundary \subseteq Writes
    BY Zenon DEF WritesInv, Types
  <2>2. \A u \in boundary \cap Waiting : Drains(u)'
    BY <1>2, <2>1, Zenon DEF DataInv, AllDrain, Drains
  <2> QED
    BY <1>1, <2>1, <2>2, Zenon DEF DataInv, AllDrain
<1>9. LogKept'
  BY Zenon DEF DataInv, LogKept
<1> QED
  BY <1>4, <1>5, <1>6, <1>7, <1>8, <1>9, ZenonT(30) DEF DataInv

\* The steps of a write before and after its commits, and of a node.
LEMMA ContentsSame ==
    ASSUME WritesInv, DataInv, UNCHANGED <<sc, store>>,
           \A u \in Writes : phase[u] # "new" => phase'[u] # "new"
    PROVE  Contents'
<1>1. Writes' = Writes /\ Nodes' = Nodes /\ Keys' = Keys
  BY Zenon DEF Writes, Nodes, Base, Keys
<1> QED
  BY <1>1, SMTT(30), Z3T(30) DEF DataInv, Contents, Stored, Key

\* A step of a write other than a commit.
LEMMA WriteStepData ==
    ASSUME WritesInv, DataInv, NEW w \in Writes, NEW n \in Nodes,
           \/ Register(w, n) \/ Push(w) \/ Prepare(w, n) \/ Refuse(w, n) \/ Lose(w, n)
           \/ StartCommit(w) \/ Abort(w) \/ Return(w)
    PROVE  DataInv'
<1>1. UNCHANGED <<sc, store, log, movementVars>>
  BY Zenon DEF Register, Push, Prepare, Refuse, Lose, StartCommit, Abort, Return
<1>2. UNCHANGED <<sc, store, log, pc, pos, cap, boundary, reach>>
  BY <1>1, Zenon DEF movementVars
<1>3. Types /\ Ordered(w) /\ Source \in Nodes /\ Target \in Nodes
  BY DataFacts, Zenon DEF WritesInv
<1>4. \A u \in Writes :
          /\ leg'[u][Source] = "done" <=> leg[u][Source] = "done"
          /\ leg'[u][Target] = "done" <=> leg[u][Target] = "done"
          /\ leg[u][Source] = "done" /\ leg[u][Target] # "off" => leg'[u][Target] # "off"
  <2>1. CASE Register(w, n) \/ StartCommit(w) \/ Return(w)
    BY <2>1, Zenon DEF Register, StartCommit, Return
  <2>2. CASE Push(w)
    <3>1. \A m \in Nodes : leg[w][m] = "off"
      BY <1>3, <2>2, Zenon DEF Push, Ordered
    <3>2. \A u \in Writes : leg'[u] = IF u = w THEN [m \in Nodes |->
              IF m \in FilterOneShardReplicas(view[coord[w]]) THEN "asked" ELSE "off"] ELSE leg[u]
      BY <1>3, <2>2, ZenonT(30) DEF Push, Types
    <3>3. \A m \in Nodes : leg'[w][m] \in {"asked", "off"}
      BY <3>2, Zenon
    <3> QED
      BY <1>3, <3>1, <3>2, <3>3, Zenon
  <2>3. CASE Prepare(w, n) \/ Refuse(w, n) \/ Lose(w, n)
    <3>1. /\ leg[w][n] \in {"asked", "prepared"}
          /\ \E a \in {"prepared", "failed", "stuck"} : leg' = [leg EXCEPT ![w][n] = a]
      BY <2>3, ZenonT(30), SMTT(30) DEF Prepare, Refuse, Lose
    <3> QED
      BY <1>3, <3>1, SMTT(30), Z3T(30) DEF Types
  <2>4. CASE Abort(w)
    <3>1. leg' = [leg EXCEPT ![w] = [m \in Nodes |-> IF @[m] = "prepared" THEN "failed" ELSE @[m]]]
      BY <2>4, ZenonT(30) DEF Abort
    <3>2. \A u \in Writes, m \in Nodes :
              leg'[u][m] = IF u = w /\ leg[u][m] = "prepared" THEN "failed" ELSE leg[u][m]
      BY <1>3, <3>1, Zenon DEF Types
    <3> QED
      BY <1>3, <3>2, Zenon
  <2> QED
    BY <2>1, <2>2, <2>3, <2>4, Zenon
<1>5. \A u \in Writes :
          /\ phase[u] # "new" => phase'[u] # "new"
          /\ phase[u] = "acked" => phase'[u] = "acked" /\ ackers'[u] = ackers[u]
  <2>1. CASE Return(w)
    <3>1. /\ phase[w] = "commit"
          /\ phase' = [phase EXCEPT ![w] = "acked"] \/ phase' = [phase EXCEPT ![w] = "error"]
          /\ \A u \in Writes \ {w} : ackers'[u] = ackers[u]
      BY <1>3, <2>1, ZenonT(30) DEF Return, Types
    <3> QED
      BY <1>3, <3>1, Zenon DEF Types
  <2>2. CASE ~Return(w)
    <3>1. /\ ackers' = ackers
          /\ \/ phase' = phase
             \/ phase[w] # "acked" /\ \E p \in {"registered", "asked", "commit", "error"} :
                                          phase' = [phase EXCEPT ![w] = p]
      BY <2>2, SMTT(30), Z3T(30) DEF Register, Push, Prepare, Refuse, Lose, StartCommit, Abort
    <3> QED
      BY <1>3, <3>1, SMTT(30), Z3T(30) DEF Types
  <2> QED
    BY <2>1, <2>2, Zenon
<1>6. Contents'
  BY <1>2, <1>5, ContentsSame, SMTT(30), Z3T(30)
<1>7. AllPeersAtLeast(Integrating) => AllPeersAtLeast(Integrating)'
  BY <1>2 DEF AllPeersAtLeast, Nodes, Base
<1> QED
  BY <1>2, <1>4, <1>5, <1>6, <1>7, QuietData, ZenonT(30)

\* A step of a node.
LEMMA NodeStepData ==
    ASSUME WritesInv, DataInv, NEW n \in Nodes, Apply(n) \/ ReportReached(n)
    PROVE  DataInv'
<1>1. /\ Types /\ Course /\ Source \in Nodes /\ Target \in Nodes /\ Source # Target
  BY DataFacts, Zenon DEF WritesInv
<1>2. CASE ReportReached(n)
  <2>1. /\ reach[n] < view[n] /\ reach' = [reach EXCEPT ![n] = view[n]]
        /\ UNCHANGED <<sc, phase, leg, ackers, store, log, pc, pos, cap, boundary>>
    BY <1>2, Zenon DEF ReportReached, writeVars
  <2>2. Contents'
    BY <2>1, ContentsSame, Zenon
  <2>3. \A m \in Nodes : reach[m] >= Integrating => reach'[m] >= Integrating
    <3>1. /\ view[n] \in 0 .. Ready /\ reach[n] \in {0, Integrating, Dehydrating}
          /\ \A m \in Nodes : reach'[m] = IF m = n THEN view[n] ELSE reach[m]
      BY <1>1, <2>1, Zenon DEF Types
    <3> QED
      BY <2>1, <3>1, SMTT(30), Z3T(30)
  <2>4. AllPeersAtLeast(Integrating) => AllPeersAtLeast(Integrating)'
    BY <2>1, <2>3, Zenon DEF AllPeersAtLeast, Nodes, Base
  <2> QED
    BY <2>1, <2>2, <2>4, QuietData, Zenon
<1>3. CASE Apply(n)
  <2> DEFINE v == After(view[n])
  <2>1. /\ view[n] < stage
        /\ UNCHANGED <<sc, phase, ackers, reach, log, pc, pos, cap, boundary>>
        /\ IF n = Source /\ v = Removed
           THEN /\ store' = [store EXCEPT ![n] = [k \in Keys |-> 0]]
                /\ leg' = [w \in Writes |-> [leg[w] EXCEPT ![n] =
                       IF @ \in {"asked", "prepared", "stuck"} THEN "failed" ELSE @]]
           ELSE UNCHANGED <<store, leg>>
    BY <1>3, ZenonT(30) DEF Apply
  <2>2. v <= stage
    BY <2>1, AfterFacts, Zenon
  <2> HIDE DEF v
  <2>3. AllPeersAtLeast(Integrating) => AllPeersAtLeast(Integrating)'
    BY <2>1, ZenonT(30) DEF AllPeersAtLeast, Nodes, Base
  <2>4. CASE UNCHANGED <<store, leg>>
    <3>1. Contents'
      BY <2>1, <2>4, ContentsSame, ZenonT(30)
    <3> QED
      BY <2>1, <2>3, <2>4, <3>1, QuietData, SMTT(30), Z3T(30)
  <2>5. CASE n = Source /\ v = Removed
    <3>1. /\ store' = [store EXCEPT ![n] = [k \in Keys |-> 0]]
          /\ leg' = [w \in Writes |-> [leg[w] EXCEPT ![n] =
                 IF @ \in {"asked", "prepared", "stuck"} THEN "failed" ELSE @]]
      BY <2>1, <2>5, Zenon
    <3>2. pc \notin {"capture", "copy"}
      BY <1>1, <2>2, <2>5, SMTT(30), Z3T(30) DEF Course, Types
    <3>3. \A u \in Writes :
              /\ leg'[u][Source] = "done" <=> leg[u][Source] = "done"
              /\ leg'[u][Target] = leg[u][Target]
      BY <1>1, <2>5, <3>1, Zenon DEF Types
    <3>4. \A m \in Nodes, k \in Keys : store'[m][k] = IF m = Source THEN 0 ELSE store[m][k]
      BY <1>1, <2>5, <3>1, Zenon DEF Types
    <3>5. store'[Target] = store[Target]
      BY <1>1, <2>5, <3>1, Zenon DEF Types
    <3>6. Writes' = Writes /\ Nodes' = Nodes /\ Keys' = Keys
      BY <2>1, ZenonT(30) DEF Writes, Nodes, Base, Keys
    <3>7. Contents'
      BY <2>1, <3>4, <3>6, SMTT(30), Z3T(30) DEF DataInv, Contents, Stored, Key
    <3> QED
      BY <2>1, <2>3, <3>2, <3>3, <3>5, <3>7, QuietData, SMTT(30), Z3T(30)
  <2> QED
    BY <2>1, <2>4, <2>5, Zenon
<1> QED
  BY <1>2, <1>3, Zenon

\* A commit takes no write that waited from a store: an older one of the object
\* was over before it began.
LEMMA CommitKeeps ==
    ASSUME WritesInv, DataInv, NEW w \in Writes, NEW n \in Nodes, Commit(w, n)
    PROVE  /\ store'[n][Key(w)] = w
           /\ \A m \in Nodes, k \in Keys : store'[m][k] = store[m][k] \/ (m = n /\ k = Key(w))
           /\ \A u \in Waiting : phase[u] # "new" /\ Key(u) = Key(w) => u <= w
<1>1. /\ leg[w][n] = "prepared"
      /\ store' = [store EXCEPT ![n][Key(w)] = Written(@, w)]
  BY ZenonT(30) DEF Commit
<1>2. /\ Types /\ Writes = 1 .. Len(sc.writes) /\ Len(sc.writes) \in Nat
      /\ Key(w) \in Keys /\ Kind(w) = "PUT" /\ Waiting \subseteq Writes
  BY DataFacts, Zenon DEF WritesInv, DataInv, Puts
<1>3. store' = [store EXCEPT ![n][Key(w)] = w]
  BY <1>1, <1>2, SMTT(30), Z3T(30) DEF Written
<1>4. /\ store'[n][Key(w)] = w
      /\ \A m \in Nodes, k \in Keys : store'[m][k] = store[m][k] \/ (m = n /\ k = Key(w))
  BY <1>2, <1>3, Zenon DEF Types
<1>5. ASSUME NEW u \in Waiting, phase[u] # "new", Key(u) = Key(w)
      PROVE  u <= w
  <2> SUFFICES ASSUME u > w PROVE FALSE
    BY <1>2, SMTT(30), Z3T(30)
  <2>1. Ordered(u) /\ w \in 1 .. u - 1
    BY <1>2, SMTT(30), Z3T(30) DEF WritesInv
  <2>2. Settled(w)
    BY <1>5, <2>1, Zenon DEF Ordered
  <2> QED
    BY <1>1, <2>2, SMTT(30), Z3T(30) DEF Settled
<1> QED
  BY <1>4, <1>5, Zenon

\* A commit reaches the store and, on the source, the log.
LEMMA CommitData ==
    ASSUME WritesInv, DataInv, NEW w \in Writes, NEW n \in Nodes, Commit(w, n)
    PROVE  DataInv'
<1>1. /\ phase[w] \in {"commit", "acked"} /\ leg[w][n] = "prepared"
      /\ leg' = [leg EXCEPT ![w][n] = "done"]
      /\ UNCHANGED <<sc, phase, coord, ackers, movementVars>>
  BY Zenon DEF Commit
<1>2. UNCHANGED <<sc, phase, ackers, pc, pos, cap, boundary, reach>>
  BY <1>1 DEF movementVars
<1>3. /\ Types /\ Ordered(w) /\ Logged /\ Course /\ Passed
      /\ Puts /\ Contents /\ Taken /\ Copying /\ Tailed
      /\ AllCarried /\ AllDrain /\ LogKept
  BY Zenon DEF WritesInv, DataInv
<1>4. /\ Writes = 1 .. Len(sc.writes) /\ Len(sc.writes) \in Nat
      /\ \A u \in Writes : Key(u) \in Keys
      /\ Source \in Nodes /\ Target \in Nodes /\ Source # Target
      /\ log.entries \in Seq(Writes) /\ Len(log.entries) \in Nat
      /\ \A i \in 1 .. Len(log.entries) : log.entries[i] \in Writes
      /\ \A m \in Nodes, k \in Keys : store[m][k] \in 0 .. Len(sc.writes)
  BY DataFacts, Zenon
<1>5. /\ store'[n][Key(w)] = w
      /\ \A m \in Nodes, k \in Keys : store'[m][k] = store[m][k] \/ (m = n /\ k = Key(w))
      /\ \A u \in Waiting : phase[u] # "new" /\ Key(u) = Key(w) => u <= w
  BY CommitKeeps, Zenon
<1>6. /\ Writes' = Writes /\ Nodes' = Nodes /\ Keys' = Keys /\ Waiting' = Waiting
      /\ Waiting \subseteq Writes /\ \A u \in Writes : Key(u)' = Key(u)
  BY <1>2, Zenon DEF Writes, Nodes, Base, Keys, Key, Waiting
<1>7. /\ \A u \in Writes \ {w} : leg'[u] = leg[u]
      /\ \A m \in Nodes : leg'[w][m] = IF m = n THEN "done" ELSE leg[w][m]
  BY <1>1, <1>3, ZenonT(30) DEF Types
<1>8. /\ \A m \in Nodes, u \in Waiting :
             /\ leg[u][Source] = "done" \/ leg[u][Target] = "done" \/ u \in boundary
             /\ Has(m, u)
             => Has(m, u)'
      /\ Has(n, w)'
  <2>1. Has(n, w)'
    BY <1>4, <1>5, <1>6, SMTT(30), Z3T(30) DEF Has
  <2>2. ASSUME NEW m \in Nodes, NEW u \in Waiting, phase[u] # "new", Has(m, u)
        PROVE  Has(m, u)'
    <3>1. u \in Writes /\ Key(u) \in Keys /\ Key(u)' = Key(u)
      BY <1>4, <1>6, Zenon
    <3>2. CASE store'[m][Key(u)] = store[m][Key(u)]
      BY <2>2, <3>1, <3>2, Zenon DEF Has
    <3>3. CASE m = n /\ Key(u) = Key(w)
      <4>1. u <= w /\ store'[m][Key(u)'] = w
        BY <1>5, <2>2, <3>1, <3>3, Zenon
      <4> QED
        BY <1>4, <3>1, <4>1, SMTT(30), Z3T(30) DEF Has
    <3> QED
      BY <1>5, <3>1, <3>2, <3>3, Zenon
  <2>3. ASSUME NEW u \in Waiting,
               leg[u][Source] = "done" \/ leg[u][Target] = "done" \/ u \in boundary
        PROVE  phase[u] # "new"
    <3>1. Ordered(u)
      BY <1>6, Zenon DEF WritesInv
    <3> QED
      BY <1>3, <1>4, <2>3, <3>1, SMTT(30), Z3T(30) DEF Ordered, AllDrain
  <2> QED
    BY <2>1, <2>2, <2>3, Zenon
<1>9. Puts'
  BY <1>2, <1>3, <1>6, Zenon DEF Puts, Kind
<1>10. Contents'
  <2> SUFFICES ASSUME NEW m \in Nodes, NEW k \in Keys
               PROVE  Stored(m, k)'
    BY <1>6, Zenon DEF Contents
  <2>1. Stored(m, k)
    BY <1>3, ZenonT(30) DEF Contents
  <2>2. CASE store'[m][k] = store[m][k]
    BY <1>2, <1>6, <2>1, <2>2, SMTT(30), Z3T(30) DEF Stored
  <2>3. CASE m = n /\ k = Key(w)
    BY <1>1, <1>2, <1>5, <1>6, <2>3, SMTT(30), Z3T(30) DEF Stored
  <2> QED
    BY <1>5, <2>2, <2>3, Zenon
<1>11. Taken'
  BY <1>3, <1>4, <1>6, <1>7, <1>8, SMTT(30), Z3T(30) DEF Taken
<1>12. Copying'
  <2> SUFFICES ASSUME pc \in {"capture", "copy"}
               PROVE  /\ \A k \in Keys : store'[Target][k] = 0
                      /\ \A u \in Waiting : leg'[u][Source] = "done" => Has(Source, u)'
    BY <1>2, <1>6, Zenon DEF Copying
  <2>1. n # Target
    BY <1>1, <1>3, SMTT(30), Z3T(30) DEF Course, Ordered, Types
  <2>2. \A k \in Keys : store'[Target][k] = 0
    BY <1>3, <1>4, <1>5, <2>1, Zenon DEF Copying
  <2>3. \A u \in Waiting : leg'[u][Source] = "done" => Has(Source, u)'
    BY <1>3, <1>4, <1>6, <1>7, <1>8, ZenonT(30), SMTT(30) DEF Copying
  <2> QED
    BY <2>2, <2>3
<1>13. CASE log' = log /\ ~Tees(n, w)
  <2>1. Tailed'
    BY <1>2, <1>3, <1>4, <1>6, <1>8, <1>13, SMTT(30), Z3T(30) DEF Tailed, Logged
  <2>2. AllCarried'
    <3> SUFFICES ASSUME pc \notin {"capture", "copy"}, NEW u \in Waiting
                 PROVE  Carried(u)'
      BY <1>2, <1>6 DEF AllCarried
    <3>1. Carried(u) /\ u \in Writes
      BY <1>3, <1>6, Zenon DEF AllCarried
    <3>2. (InLog(u) => InLog(u)') /\ (Lost => Lost')
      BY <1>2, <1>13, ZenonT(30) DEF InLog, Lost
    <3>3. CASE ~(u = w /\ n = Source)
      <4>1. /\ leg'[u][Source] = "done" => leg[u][Source] = "done"
            /\ leg[u][Target] # "off" => leg'[u][Target] # "off"
        BY <1>4, <1>7, <3>1, <3>3, ZenonT(30), SMTT(30)
      <4> QED
        BY <1>2, <1>4, <1>8, <1>13, <3>1, <3>2, <4>1, SMTT(30), Z3T(30) DEF Carried
    <3>4. CASE u = w /\ n = Source
      <4>1. log.reg # "open"
        BY <1>3, <1>13, <3>4, Zenon DEF Tees, Puts
      <4>2. Lost \/ AllPeersAtLeast(Integrating)
        <5>1. log.reg \in {"none", "sealed"}
          BY <1>3, <4>1, ZenonT(30) DEF Types
        <5> QED
          BY <1>3, <4>1, <5>1, Zenon DEF Lost, LogKept, Passed
      <4>3. CASE phase[w] = "acked"
        <5>1. Source \notin ackers[w]
          BY <1>1, <1>3, <3>4, Zenon DEF Ordered
        <5> QED
          BY <1>2, <1>13, <3>4, <4>1, <4>3, <5>1, SMTT(30), Z3T(30) DEF Carried
      <4>4. CASE phase[w] = "commit" /\ AllPeersAtLeast(Integrating)
        <5>1. coord[w] \in Nodes
          BY <1>3, Zenon DEF Types
        <5>2. Unrouted(coord[w]) = {}
          BY <4>4, <5>1, Zenon DEF AllPeersAtLeast, WritesInv, Reached
        <5>3. leg[w][Target] # "off"
          BY <4>4, <5>2, Zenon DEF Unrouted
        <5>4. leg'[w][Target] # "off"
          BY <1>4, <1>7, <5>3, SMTT(30), Z3T(30)
        <5> QED
          BY <3>4, <5>4, Zenon DEF Carried
      <4>5. CASE Lost
        BY <3>2, <4>5, Zenon DEF Carried
      <4> QED
        BY <1>1, <4>2, <4>3, <4>4, <4>5, SMTT(30), Z3T(30)
    <3> QED
      BY <3>3, <3>4, Zenon
  <2>3. AllDrain'
    <3>1. boundary \subseteq Writes
      BY <1>3, Zenon DEF Types
    <3>2. \A u \in boundary \cap Waiting : Drains(u)'
      BY <1>2, <1>3, <1>4, <1>8, <1>13, <3>1, ZenonT(30), SMTT(30) DEF AllDrain, Drains
    <3> QED
      BY <1>2, <1>3, <1>6, <3>2, Zenon DEF AllDrain
  <2>4. LogKept'
    BY <1>2, <1>3, <1>6, <1>13, Zenon DEF LogKept, AllPeersAtLeast
  <2> QED
    BY <1>9, <1>10, <1>11, <1>12, <2>1, <2>2, <2>3, <2>4, SMTT(30), Z3T(30) DEF DataInv
<1>14. CASE log' = NoLog /\ Tees(n, w) /\ DrainWindow \in sc.appendFails
  <2>1. log'.reg = "none" /\ log'.entries = <<>> /\ Len(log'.entries) = 0
    BY <1>14, Zenon DEF NoLog
  <2>2. Tailed'
    <3> SUFFICES ASSUME NEW i \in 1 .. Len(log'.entries) PROVE FALSE
      BY Zenon DEF Tailed
    <3>1. i \in 1 .. 0
      BY <2>1, Zenon
    <3> QED
      BY <3>1
  <2>3. "after" \in sc.appendFails \/ pc \in {"copy", "copied", "finalize", "drain"}
    BY <1>14, Zenon DEF DrainWindow
  <2>4. AllCarried'
    BY <1>2, <1>6, <2>1, <2>3, SMTT(30), Z3T(30) DEF AllCarried, Carried, Lost
  <2>5. AllDrain'
    <3>1. boundary \subseteq Writes
      BY <1>3, SMTT(30), Z3T(30) DEF Types
    <3>2. \A u \in boundary \cap Waiting : Drains(u)'
      BY <1>2, <1>3, <1>4, <1>8, <2>1, <3>1, SMTT(30), Z3T(30) DEF AllDrain, Drains
    <3> QED
      BY <1>2, <1>3, <1>6, <3>2, SMTT(30), Z3T(30) DEF AllDrain
  <2>6. LogKept'
    BY <1>2, <2>3, SMTT(30), Z3T(30) DEF LogKept
  <2> QED
    BY <1>9, <1>10, <1>11, <1>12, <2>2, <2>4, <2>5, <2>6, ZenonT(30) DEF DataInv
<1>15. CASE /\ Tees(n, w) /\ log'.reg = "open" /\ log'.entries = Append(log.entries, w)
  <2> DEFINE s == log.entries
             t == log'.entries
  <2>1. /\ Len(s) \in Nat /\ Len(t) = Len(s) + 1 /\ t[Len(s) + 1] = w
        /\ \A i \in 1 .. Len(s) : t[i] = s[i]
    BY <1>4, <1>15, AppendedEntries, SMTT(30), Z3T(30)
  <2>2. \A i \in 1 .. Len(s) : i \in 1 .. Len(t) /\ t[i] = s[i]
    BY <2>1, SMTT(30), Z3T(30)
  <2>3. Len(s) + 1 \in 1 .. Len(t)
    BY <2>1, SMTT(30), Z3T(30)
  <2>4. log.reg = "open" /\ n = Source /\ pos \in Nat /\ pos <= Len(s)
    BY <1>3, <1>15, SMTT(30), Z3T(30) DEF Tees, Logged, Types
  <2>5. Tailed'
    <3>1. \A i \in 1 .. Len(t) : i <= pos => i \in 1 .. Len(s)
      <4> HIDE DEF s, t
      <4> QED
        BY <2>1, <2>4
    <3> QED
      BY <1>2, <1>3, <1>4, <1>6, <1>8, <2>2, <3>1, ZenonT(30), SMTT(30) DEF Tailed, Logged
  <2>6. InLog(w)' /\ \A u \in Writes : InLog(u) => InLog(u)'
    BY <2>1, <2>2, <2>3, Zenon DEF InLog
  <2>7. AllCarried'
    <3> SUFFICES ASSUME pc \notin {"capture", "copy"}, NEW u \in Waiting
                 PROVE  Carried(u)'
      BY <1>2, <1>6 DEF AllCarried
    <3>1. Carried(u) /\ u \in Writes
      BY <1>3, <1>6, Zenon DEF AllCarried
    <3>2. CASE u = w
      BY <2>6, <3>2, ZenonT(30) DEF Carried
    <3>3. CASE u # w
      BY <1>4, <1>7, <1>8, <2>4, <2>6, <3>1, <3>3, SMTT(30), Z3T(30) DEF Carried, Lost
    <3> QED
      BY <3>2, <3>3, SMTT(30), Z3T(30)
  <2>8. AllDrain'
    <3>1. boundary \subseteq Writes
      BY <1>3 DEF Types
    <3>2. ASSUME NEW u \in boundary \cap Waiting
          PROVE  Drains(u)'
      <4>1. Drains(u) /\ u \in Writes
        BY <1>3, <3>1, Zenon DEF AllDrain
      <4> QED
        BY <1>2, <1>4, <1>8, <2>2, <2>4, <4>1, ZenonT(30) DEF Drains
    <3> QED
      BY <1>2, <1>3, <1>6, <3>2, SMTT(30), Z3T(30) DEF AllDrain
  <2>9. LogKept'
    BY <1>15, Zenon DEF LogKept
  <2> QED
    BY <1>9, <1>10, <1>11, <1>12, <2>5, <2>7, <2>8, <2>9, Zenon DEF DataInv
<1> QED
  BY <1>13, <1>14, <1>15, TeeFacts, SMTT(30), Z3T(30)

\* A step of the worker that touches neither the log nor a store.
LEMMA WorkerData ==
    ASSUME WritesInv, DataInv, UNCHANGED <<sc, writeVars, reach, store, log>>,
           pc \notin {"capture", "copy"}, pc' \notin {"capture", "copy", "copied"},
           pos' \in {0, pos}, Lost => Lost', LogKept',
           boundary' = boundary \/ \A w \in boundary' : phase[w] # "new",
           \A w \in boundary' \cap Waiting : Drains(w)'
    PROVE  DataInv'
<1>1. /\ Writes' = Writes /\ Nodes' = Nodes /\ Keys' = Keys /\ Waiting' = Waiting
      /\ Waiting \subseteq Writes /\ UNCHANGED <<phase, leg, ackers>>
  BY Zenon DEF Writes, Nodes, Base, Keys, Waiting, writeVars
<1>2. \A m \in Nodes, u \in Writes : Has(m, u)' <=> Has(m, u)
  BY Zenon DEF Has, Key
<1>3. /\ Target \in Nodes /\ pos \in Nat
      /\ \A i \in 1 .. Len(log.entries) : log.entries[i] \in Writes
  <2>1. pos \in 0 .. Len(sc.writes)
    BY Zenon DEF WritesInv, Types
  <2>2. /\ Target \in Nodes /\ Len(sc.writes) \in Nat
        /\ \A i \in 1 .. Len(log.entries) : log.entries[i] \in Writes
    BY DataFacts, Zenon
  <2> QED
    BY <2>1, <2>2
<1>4. Puts' /\ Contents' /\ Taken'
  BY <1>1, <1>2, <1>3, Zenon DEF DataInv, Puts, Kind, Contents, Stored, Key, Taken
<1>5. Copying' /\ AllDrain'
  BY <1>1, Zenon DEF Copying, DataInv, AllDrain
<1>6. Tailed'
  BY <1>1, <1>2, <1>3, SMTT(30), Z3T(30) DEF DataInv, Tailed
<1>7. AllCarried'
  BY <1>1, <1>2, <1>3, Zenon DEF DataInv, AllCarried, Carried, InLog
<1> QED
  BY <1>4, <1>5, <1>6, <1>7, SMTT(30), Z3T(30) DEF DataInv

\* After the add every write of the boundary is on the target.
LEMMA BoundaryHeld ==
    ASSUME WritesInv, DataInv, pc \notin {"finalize", "drain", "aborted"}
    PROVE  \A w \in boundary \cap Waiting : Has(Target, w)
  BY Zenon DEF DataInv, AllDrain, Drains

\* FINALIZING begins: what the source holds then is the boundary.
LEMMA FinalizingData ==
    ASSUME WritesInv, DataInv, UpdateToFinalizing
    PROVE  DataInv'
<1>1. /\ pc = "copied" /\ pc' = "finalize"
      /\ boundary' = {w \in Writes : leg[w][Source] = "done"}
      /\ UNCHANGED <<sc, writeVars, reach, store, log, pos>>
  BY ZenonT(30) DEF UpdateToFinalizing, targetUnchanged
<1>2. /\ Types /\ Course /\ Passed /\ Target \in Nodes /\ AllCarried
  BY DataFacts, ZenonT(30) DEF WritesInv, DataInv
<1>3. stage < Integrating
  BY <1>1, <1>2 DEF Course, Types
<1>4. log.reg # "sealed"
  <2> SUFFICES ASSUME log.reg = "sealed" PROVE FALSE
    OBVIOUS
  <2>1. reach[Target] >= Integrating
    BY <1>2, Zenon DEF Passed, AllPeersAtLeast
  <2>2. view[Target] >= Integrating /\ view[Target] <= stage
    BY <1>2, <2>1 DEF WritesInv, Reached
  <2>3. view \in [Nodes -> 0 .. Ready] /\ stage \in 0 .. Ready
    BY <1>2, Zenon DEF Types
  <2>4. view[Target] \in 0 .. Ready
    BY <1>2, <2>3, Zenon
  <2>5. view[Target] \in Int /\ stage \in Int
    BY <2>3, <2>4, SMTT(30), Z3T(30) DEF Ready
  <2> QED
    BY <1>3, <2>2, <2>5, SMTT(30), Z3T(30) DEF Integrating
<1>5. ASSUME NEW w \in boundary' \cap Waiting
      PROVE  Drains(w)'
  <2>1. w \in Writes /\ w \in Waiting /\ leg[w][Source] = "done"
    BY <1>1, Zenon
  <2>2. leg[w][Target] = "off"
    BY <1>3, <2>1, Zenon DEF WritesInv, Ordered
  <2>3. Carried(w)
    BY <1>1, <1>2, <2>1, ZenonT(30) DEF AllCarried
  <2>4. Has(Target, w) \/ InLog(w) \/ log.reg = "none"
    BY <1>2, <1>4, <2>1, <2>2, <2>3, SMTT(30), Z3T(30) DEF Carried, Lost, Types
  <2>5. Has(Target, w)' <=> Has(Target, w)
    BY <1>1, Zenon DEF Has, Key
  <2> QED
    BY <1>1, <2>4, <2>5, Zenon DEF Drains, InLog
<1>6. LogKept' /\ (Lost => Lost')
  BY <1>1 DEF LogKept, Lost
<1>7. \A w \in boundary' : phase[w] # "new"
  <2>1. Source \in Nodes
    BY DataFacts, Zenon
  <2> QED
    BY <1>1, <2>1, SMTT(30), Z3T(30) DEF WritesInv, Ordered
<1> QED
  BY <1>1, <1>5, <1>6, <1>7, WorkerData

\* The drains: nothing up to the snapshot is left out.
LEMMA DrainStepsData ==
    ASSUME WritesInv, DataInv, Snapshot \/ TailFails \/ EndDrain
    PROVE  DataInv'
<1>1. /\ Types /\ Course /\ Logged /\ Passed /\ LogKept /\ Tailed
      /\ \A w \in boundary \cap Waiting : Drains(w)
  BY Zenon DEF WritesInv, DataInv, AllDrain
<1>2. UNCHANGED <<sc, writeVars, view, reach, store, log, boundary>>
  BY DEF Snapshot, TailFails, EndDrain, targetUnchanged
<1>3. AllPeersAtLeast(Integrating)' <=> AllPeersAtLeast(Integrating)
  BY <1>2 DEF AllPeersAtLeast, Nodes, Base
<1>4. \A w \in boundary : Has(Target, w)' <=> Has(Target, w)
  BY <1>2 DEF Has, Key
<1>5. CASE Snapshot /\ pc = "finalize"
  <2>1. pc' = (IF log.reg = "none" THEN "aborted" ELSE "drain") /\ cap' = Len(log.entries) /\ pos' = 0
    BY <1>5, Zenon DEF Snapshot, LSN
  <2>2. Len(log.entries) \in Nat
    BY DataFacts, ZenonT(30)
  <2>3. \A w \in boundary \cap Waiting : Drains(w)'
    BY <1>1, <1>2, <1>4, <1>5, <2>1, <2>2, SMTT(30), Z3T(30) DEF Drains
  <2>4. LogKept' /\ (Lost => Lost')
    BY <1>2, <2>1, Zenon DEF LogKept, Lost
  <2> QED
    BY <1>2, <1>5, <2>1, <2>3, <2>4, WorkerData, SMTT(30), Z3T(30)
<1>6. CASE Snapshot /\ pc = "snapshot"
  <2>1. pc' \in {"moved", "predrain"} /\ pos' = 0
    BY <1>6 DEF Snapshot
  <2>2. AllPeersAtLeast(Integrating)
    BY <1>1, <1>6, Zenon DEF Passed
  <2>3. \A w \in boundary \cap Waiting : Drains(w)'
    BY <1>4, <1>6, BoundaryHeld, ZenonT(30) DEF Drains
  <2>4. LogKept' /\ (Lost => Lost')
    BY <1>2, <1>3, <1>6, <2>2, SMTT(30), Z3T(30) DEF LogKept, Lost
  <2> QED
    BY <1>2, <1>6, <2>1, <2>3, <2>4, WorkerData, ZenonT(30)
<1>7. CASE TailFails /\ pc = "drain"
  <2>1. pc' = "aborted" /\ pos' = pos
    BY <1>7, Zenon DEF TailFails
  <2>2. /\ \A w \in boundary \cap Waiting : Drains(w)'
        /\ LogKept' /\ (Lost => Lost')
    BY <1>2, <2>1, Zenon DEF Drains, LogKept, Lost
  <2> QED
    BY <1>2, <1>7, <2>1, <2>2, WorkerData, SMTT(30), Z3T(30)
<1>8. CASE TailFails /\ pc # "drain"
  <2>1. pc \in {"predrain", "seal", "sealing"} /\ pc' \in {"barrier", "moved"} /\ pos' = pos
    BY <1>8 DEF TailFails
  <2>2. AllPeersAtLeast(Integrating)
    BY <1>1, <2>1, Zenon DEF Passed
  <2>3. \A w \in boundary \cap Waiting : Drains(w)'
    BY <1>4, <2>1, BoundaryHeld, Zenon DEF Drains
  <2>4. LogKept' /\ (Lost => Lost')
    BY <1>2, <1>3, <2>1, <2>2, Zenon DEF LogKept, Lost
  <2> QED
    BY <1>2, <2>1, <2>3, <2>4, WorkerData, SMTT(30), Z3T(30)
<1>9. CASE EndDrain
  <2>1. /\ log.reg # "none" /\ pos = cap
        /\ \/ pc = "drain" /\ pc' = "add" /\ pos' = pos
           \/ pc = "predrain" /\ pc' = "seal" /\ pos' = 0
    BY <1>9, Zenon DEF EndDrain
  <2>2. \A w \in boundary \cap Waiting : Has(Target, w)
    BY <1>1, <2>1, Zenon DEF Drains, Tailed
  <2>3. \A w \in boundary \cap Waiting : Drains(w)'
    BY <1>4, <2>2, Zenon DEF Drains
  <2>4. log.reg = "open" \/ AllPeersAtLeast(Integrating)
    BY <1>1, <2>1, Zenon DEF Types, Passed
  <2>5. LogKept' /\ (Lost => Lost')
    BY <1>2, <1>3, <2>1, <2>4, SMTT(30), Z3T(30) DEF LogKept, Lost
  <2> QED
    BY <1>2, <2>1, <2>3, <2>5, WorkerData, SMTT(30), Z3T(30)
<1>10. Snapshot => pc \in {"finalize", "snapshot"}
  BY DEF Snapshot
<1> QED
  BY <1>5, <1>6, <1>7, <1>8, <1>9, <1>10, SMTT(30), Z3T(30)

\* The steps that only move Raft on.
LEMMA StageStepsData ==
    ASSUME WritesInv, DataInv,
           \/ AddReplicaToShard \/ UpdateToIntegrating \/ waitForIntegrating
           \/ nextStateAfterIntegrating \/ DeleteReplicaFromShard \/ UpdateToReady
    PROVE  DataInv'
<1>1. /\ UNCHANGED <<sc, writeVars, view, reach, store, log, pos, cap, boundary>>
      /\ pc \in {"add", "joined", "barrier", "moved", "fence", "removed"}
      /\ pc' \in {"joined", "barrier", "snapshot", "fence", "finished", "removed"}
  BY Zenon DEF AddReplicaToShard, UpdateToIntegrating, waitForIntegrating,
         nextStateAfterIntegrating, DeleteReplicaFromShard, UpdateToReady, targetUnchanged
<1>2. AllPeersAtLeast(Integrating)' <=> AllPeersAtLeast(Integrating)
  BY <1>1, Zenon DEF AllPeersAtLeast, Nodes, Base
<1>3. \A w \in boundary : Has(Target, w)' <=> Has(Target, w)
  BY <1>1, Zenon DEF Has, Key
<1>4. \A w \in boundary' \cap Waiting : Drains(w)'
  BY <1>1, <1>3, BoundaryHeld, Zenon DEF Drains
<1>5. LogKept'
  BY <1>1, <1>2, Zenon DEF DataInv, LogKept
<1>6. Lost => Lost'
  BY <1>1 DEF Lost
<1> QED
  BY <1>1, <1>4, <1>5, <1>6, WorkerData, SMTT(30), Z3T(30)

\* The worker starts again at the stage Raft is in.
LEMMA RerunData ==
    ASSUME WritesInv, DataInv, Rerun
    PROVE  DataInv'
<1>1. /\ pc \notin {"capture", "copy", "copied", "aborted", "finished"}
      /\ pc' = CASE stage <= Added -> "finalize"
                 [] stage = Integrating -> "barrier"
                 [] stage > Integrating -> "fence"
      /\ UNCHANGED <<sc, writeVars, reach, store, log, pos, cap, boundary>>
  BY DEF Rerun
<1>2. Course /\ LogKept /\ stage \in 0 .. Ready /\ \A w \in boundary \cap Waiting : Drains(w)
  BY DEF WritesInv, Types, DataInv, AllDrain
<1>3. /\ pc' \in {"finalize", "barrier", "fence"}
      /\ pc' # "finalize" => stage > Added
  BY <1>1, <1>2
<1>4. pc' # "finalize" => pc \notin {"finalize", "drain"}
  BY <1>2, <1>3 DEF Course
<1>5. AllPeersAtLeast(Integrating)' <=> AllPeersAtLeast(Integrating)
  BY <1>1 DEF AllPeersAtLeast, Nodes, Base
<1>6. \A w \in boundary : Has(Target, w)' <=> Has(Target, w)
  BY <1>1 DEF Has, Key
<1>7. \A w \in boundary \cap Waiting : Drains(w)'
  BY <1>1, <1>2, <1>3, <1>4, <1>6, SMTT(30), Z3T(30) DEF Drains
<1>8. LogKept' /\ (Lost => Lost')
  BY <1>1, <1>2, <1>3, <1>4, <1>5, SMTT(30), Z3T(30) DEF LogKept, Lost
<1> QED
  BY <1>1, <1>3, <1>7, <1>8, WorkerData, Zenon

\* The change log is opened.
LEMMA CaptureData ==
    ASSUME WritesInv, DataInv, StartChangeCapture
    PROVE  DataInv'
<1>1. /\ pc = "capture" /\ pc' = "copy" /\ log'.entries = <<>> /\ Len(log'.entries) = 0
      /\ UNCHANGED <<sc, writeVars, store, boundary>>
  BY Zenon DEF StartChangeCapture, NoLog, targetUnchanged
<1>2. /\ Writes' = Writes /\ Nodes' = Nodes /\ Keys' = Keys /\ Waiting' = Waiting
      /\ Waiting \subseteq Writes /\ UNCHANGED <<phase, leg, ackers>>
  BY <1>1, Zenon DEF Writes, Nodes, Base, Keys, Waiting, writeVars
<1>3. Puts' /\ Contents' /\ Taken'
  BY <1>1, <1>2, Zenon DEF DataInv, Puts, Kind, Contents, Stored, Key, Taken, Has
<1>4. Copying'
  BY <1>1, <1>2, Zenon DEF DataInv, Copying, Has, Key
<1>5. Tailed' /\ AllCarried' /\ LogKept'
  BY <1>1 DEF Tailed, AllCarried, LogKept
<1>6. AllDrain'
  BY <1>1, <1>2 DEF DataInv, AllDrain
<1> QED
  BY <1>3, <1>4, <1>5, <1>6, SMTT(30), Z3T(30) DEF DataInv

\* The copy gives the target what the source has committed.
LEMMA CopyData ==
    ASSUME WritesInv, DataInv, CopyReplicaFiles
    PROVE  DataInv'
<1>1. /\ pc = "copy" /\ pc' = "copied"
      /\ store' = [store EXCEPT ![Target] = store[Source]]
      /\ UNCHANGED <<sc, writeVars, log, pos, boundary>>
  BY Zenon DEF CopyReplicaFiles, targetUnchanged
<1>2. /\ Writes' = Writes /\ Nodes' = Nodes /\ Keys' = Keys /\ Waiting' = Waiting
      /\ Waiting \subseteq Writes /\ UNCHANGED <<phase, leg, ackers>>
  BY <1>1, Zenon DEF Writes, Nodes, Base, Keys, Waiting, writeVars
<1>3. /\ Types /\ Course /\ Logged /\ Source \in Nodes /\ Target \in Nodes
      /\ \A i \in 1 .. Len(log.entries) : log.entries[i] \in Writes
  BY DataFacts, Zenon DEF WritesInv
<1>4. \A m \in Nodes : store'[m] = IF m = Target THEN store[Source] ELSE store[m]
  BY <1>1, <1>3, ZenonT(30) DEF Types
<1>5. \A u \in Waiting : leg[u][Source] = "done" => Has(Target, u)'
  BY <1>1, <1>2, <1>3, <1>4, SMTT(30), Z3T(30) DEF DataInv, Copying, Has, Key
<1>6. Puts'
  BY <1>1, <1>2, ZenonT(30) DEF DataInv, Puts, Kind
<1>7. Contents'
  BY <1>1, <1>2, <1>3, <1>4, SMTT(30), Z3T(30) DEF DataInv, Contents, Stored, Key
<1>8. Taken'
  <2>1. stage <= Added /\ stage \in 0 .. Ready
    BY <1>1, <1>3, Zenon DEF Course, Types
  <2>2. stage < Integrating
    BY <2>1
  <2>3. \A u \in Writes : leg[u][Target] = "off"
    BY <2>2, Zenon DEF WritesInv, Ordered
  <2> QED
    BY <1>2, <2>3, Zenon DEF Taken
<1>9. Tailed'
  BY <1>1, <1>2, <1>3, <1>5, SMTT(30), ZenonT(30) DEF Logged, Tailed
<1>10. Copying' /\ LogKept'
  BY <1>1, SMTT(30), Z3T(30) DEF Copying, LogKept
<1>11. AllCarried'
  BY <1>2, <1>5 DEF AllCarried, Carried
<1>12. AllDrain'
  BY <1>1, <1>2, Zenon DEF DataInv, AllDrain
<1> QED
  BY <1>6, <1>7, <1>8, <1>9, <1>10, <1>11, <1>12, SMTT(30), Z3T(30) DEF DataInv

\* A replayed entry is on the target, and takes nothing newer from it.
LEMMA TailData ==
    ASSUME WritesInv, DataInv, TailAndApply
    PROVE  DataInv'
<1> DEFINE e == log.entries[pos + 1]
<1>1. /\ pc \in {"drain", "predrain", "seal", "sealing", "tail"}
      /\ log.reg # "none" /\ pos < TailLimit
      /\ store' = [store EXCEPT ![Target][Key(e)] = Replayed(@, e)]
      /\ pos' = pos + 1
      /\ UNCHANGED <<sc, writeVars, reach, log, pc, cap, boundary>>
  BY ZenonT(30) DEF TailAndApply, targetUnchanged
<1>2. /\ Types /\ Logged /\ Writes = 1 .. Len(sc.writes) /\ Len(sc.writes) \in Nat
      /\ \A u \in Writes : Key(u) \in Keys
      /\ Target \in Nodes /\ Source \in Nodes /\ Len(log.entries) \in Nat
      /\ \A i \in 1 .. Len(log.entries) : log.entries[i] \in Writes
      /\ \A m \in Nodes, k \in Keys : store[m][k] \in 0 .. Len(sc.writes)
  BY DataFacts, ZenonT(30) DEF WritesInv
<1>3. pos \in Nat /\ pos + 1 \in 1 .. Len(log.entries)
  BY <1>1, <1>2, SMTT(30), Z3T(30) DEF TailLimit, Logged, Types
<1>4. PICK w \in Writes : w = e
  BY <1>2, <1>3, Zenon
<1>5. leg[w][Source] = "done"
  BY <1>2, <1>3, <1>4, Zenon DEF Logged
<1>6. \A i \in 1 .. Len(log.entries) : i <= pos + 1 => i <= pos \/ log.entries[i] = w
  BY <1>3, <1>4, SMTT(30), Z3T(30)
<1>7. phase[w] # "new" /\ Kind(w) = "PUT" /\ Key(w) \in Keys
  BY <1>2, <1>4, <1>5, SMTT(30), Z3T(30) DEF WritesInv, Ordered, DataInv, Puts
<1> DEFINE old == store[Target][Key(w)]
           x == IF old > w THEN old ELSE w
<1>8. x \in {old, w} /\ old <= x /\ w <= x /\ store' = [store EXCEPT ![Target][Key(w)] = x]
  <2>1. old \in Nat /\ w \in Nat
    BY <1>2, <1>4, <1>7, SMTT(30), Z3T(30)
  <2>2. Replayed(old, w) = x
    BY <1>7, <2>1, SMTT(30), Z3T(30) DEF Replayed, localIsNewer, Abs
  <2>3. store' = [store EXCEPT ![Target][Key(w)] = Replayed(old, w)]
    BY <1>1, <1>2, <1>4, <1>7, SMTT(30), Z3T(30) DEF Types
  <2> QED
    BY <2>1, <2>2, <2>3, SMTT(30), Z3T(30)
<1> HIDE DEF e, x
<1>9. /\ store'[Target][Key(w)] = x
      /\ \A m \in Nodes, k \in Keys : store'[m][k] = store[m][k] \/ (m = Target /\ k = Key(w))
  BY <1>2, <1>7, <1>8, SMTT(30), Z3T(30) DEF Types
<1>10. /\ Writes' = Writes /\ Nodes' = Nodes /\ Keys' = Keys /\ UNCHANGED <<phase, leg, ackers>>
       /\ \A u \in Writes : Key(u)' = Key(u)
       /\ Waiting' = Waiting /\ Waiting \subseteq Writes
  BY <1>1, Zenon DEF Writes, Nodes, Base, Keys, Key, Waiting, writeVars
<1>11. Has(Target, w)' /\ \A u \in Writes : Has(Target, u) => Has(Target, u)'
  <2>1. Has(Target, w)'
    BY <1>8, <1>9, <1>10, ZenonT(30) DEF Has
  <2>2. \A k \in Keys : store[Target][k] \in Nat /\ store'[Target][k] \in Nat
                       /\ store[Target][k] <= store'[Target][k]
    BY <1>2, <1>7, <1>8, <1>9, SMTT(30), Z3T(30)
  <2>3. \A u \in Writes : u \in Nat
    BY <1>2, SMTT(30), Z3T(30)
  <2> QED
    BY <1>2, <1>10, <2>1, <2>2, <2>3, SMTT(30), Z3T(30) DEF Has
<1>12. Puts'
  BY <1>1, <1>10, Zenon DEF DataInv, Puts, Kind
<1>13. Contents'
  <2> SUFFICES ASSUME NEW m \in Nodes, NEW k \in Keys
               PROVE  Stored(m, k)'
    BY <1>10, Zenon DEF Contents
  <2>1. Stored(m, k) /\ Stored(Target, Key(w))
    BY <1>2, <1>7, ZenonT(30) DEF DataInv, Contents
  <2>2. CASE store'[m][k] = store[m][k]
    BY <1>10, <2>1, <2>2, SMTT(30), Z3T(30) DEF Stored
  <2>3. CASE m = Target /\ k = Key(w) /\ x = w
    BY <1>4, <1>7, <1>9, <1>10, <2>3, SMTT(30), Z3T(30) DEF Stored
  <2> QED
    BY <1>8, <1>9, <2>2, <2>3, Zenon
<1>14. Taken'
  BY <1>10, <1>11, Zenon DEF DataInv, Taken
<1>15. Copying'
  BY <1>1, Zenon DEF Copying
<1>16. Tailed'
  BY <1>1, <1>2, <1>6, <1>10, <1>11, SMTT(30), Z3T(30) DEF DataInv, Tailed
<1>17. AllCarried'
  BY <1>1, <1>10, <1>11, ZenonT(30) DEF DataInv, AllCarried, Carried, InLog, Lost
<1>18. AllDrain'
  <2>1. boundary \subseteq Writes
    BY <1>2, Zenon DEF Types
  <2> QED
    BY <1>1, <1>10, <1>11, <2>1, SMTT(30), Z3T(30) DEF DataInv, AllDrain, Drains
<1>19. LogKept'
  BY <1>1, <1>10 DEF DataInv, LogKept, AllPeersAtLeast
<1> QED
  BY <1>12, <1>13, <1>14, <1>15, <1>16, <1>17, <1>18, <1>19, SMTT(30), Z3T(30) DEF DataInv

\* The log is dropped only when all of it is replayed.
LEMMA SealStepsData ==
    ASSUME WritesInv, DataInv, EnterFinalize \/ Seal \/ StopChangeCapture
    PROVE  DataInv'
<1>1. /\ UNCHANGED <<sc, writeVars, reach, store, pos, boundary>>
      /\ pc \in {"seal", "sealing", "tail"} /\ pc' \in {"sealing", "tail", "moved"}
  BY Zenon DEF EnterFinalize, Seal, StopChangeCapture, targetUnchanged
<1>2. /\ Writes' = Writes /\ Nodes' = Nodes /\ Keys' = Keys /\ Waiting' = Waiting
      /\ Waiting \subseteq Writes /\ UNCHANGED <<phase, leg, ackers>>
  BY <1>1, Zenon DEF Writes, Nodes, Base, Keys, Waiting, writeVars
<1>3. \A m \in Nodes, u \in Writes : Has(m, u)' <=> Has(m, u)
  BY <1>1, Zenon DEF Has, Key
<1>4. /\ Types /\ Passed /\ Target \in Nodes /\ pos \in Nat /\ Len(log.entries) \in Nat
      /\ \A i \in 1 .. Len(log.entries) : log.entries[i] \in Writes
  <2>1. Types /\ Passed /\ pos \in 0 .. Len(sc.writes)
    BY Zenon DEF WritesInv, Types
  <2>2. /\ Target \in Nodes /\ Len(sc.writes) \in Nat /\ Len(log.entries) \in Nat
        /\ \A i \in 1 .. Len(log.entries) : log.entries[i] \in Writes
    BY DataFacts, Zenon
  <2> QED
    BY <2>1, <2>2
<1>5. Puts' /\ Contents' /\ Taken'
  BY <1>1, <1>2, <1>3, <1>4, Zenon DEF DataInv, Puts, Kind, Contents, Stored, Key, Taken
<1>6. Copying'
  BY <1>1, Zenon DEF Copying
<1>7. AllDrain'
  <2>1. boundary \subseteq Writes
    BY <1>4 DEF Types
  <2>2. \A w \in boundary \cap Waiting : Has(Target, w)
    BY <1>1, BoundaryHeld, Zenon
  <2> QED
    BY <1>1, <1>2, <1>3, <1>4, <2>1, <2>2, SMTT(30), Z3T(30) DEF DataInv, AllDrain, Drains
<1>8. LogKept'
  BY <1>1, <1>2, <1>4, Zenon DEF Passed, LogKept, AllPeersAtLeast
<1>9. CASE EnterFinalize \/ Seal
  <2>1. log.reg # "none" /\ log'.entries = log.entries /\ log'.reg \in {log.reg, "sealed"}
    BY <1>4, <1>9, Zenon DEF EnterFinalize, Seal, Types
  <2>2. Tailed'
    BY <1>1, <1>2, <1>3, <1>4, <2>1, SMTT(30), Z3T(30) DEF DataInv, Tailed
  <2>3. AllCarried'
    BY <1>1, <1>2, <1>3, <1>4, <2>1, SMTT(30), Z3T(30) DEF DataInv, AllCarried, Carried, InLog, Lost
  <2> QED
    BY <1>5, <1>6, <1>7, <1>8, <2>2, <2>3, SMTT(30), Z3T(30) DEF DataInv
<1>10. CASE StopChangeCapture
  <2>1. /\ log'.reg = "none" /\ log'.entries = <<>> /\ Len(log'.entries) = 0
        /\ pos = Len(log.entries)
    BY <1>10, Zenon DEF StopChangeCapture, NoLog
  <2>2. Tailed'
    BY <2>1, SMTT(30), Z3T(30) DEF Tailed
  <2>3. \A u \in Waiting : InLog(u) => Has(Target, u)
    BY <1>4, <2>1, SMTT(30), Z3T(30) DEF DataInv, Tailed, InLog
  <2>4. Lost => Lost'
    BY <1>1, <2>1, Zenon DEF Lost
  <2>5. AllCarried'
    BY <1>1, <1>2, <1>3, <1>4, <2>1, <2>3, <2>4, ZenonT(30) DEF DataInv, AllCarried, Carried
  <2> QED
    BY <1>5, <1>6, <1>7, <1>8, <2>2, <2>5, Zenon DEF DataInv
<1> QED
  BY <1>9, <1>10

\* Every action keeps the invariant of the data.
LEMMA DataStep ==
    ASSUME WritesInv, DataInv, Next
    PROVE  DataInv'
<1>1. CASE TargetStep \/ Rerun
  BY <1>1, CaptureData, CopyData, TailData, FinalizingData, DrainStepsData, StageStepsData,
     SealStepsData, RerunData, SMTT(30), Z3T(30) DEF TargetStep
<1>2. ASSUME NEW n \in Nodes, NodeStep(n)
      PROVE  DataInv'
  BY <1>2, NodeStepData, Zenon DEF NodeStep
<1>3. ASSUME NEW w \in Writes, WriteStep(w)
      PROVE  DataInv'
  <2>1. Source \in Nodes
    BY DataFacts
  <2> QED
    BY <1>3, <2>1, WriteStepData, CommitData, SMTT(30), Z3T(30) DEF WriteStep
<1>4. ASSUME NEW w \in Writes, NEW n \in Nodes,
             Register(w, n) \/ Refuse(w, n) \/ Lose(w, n)
      PROVE  DataInv'
  BY <1>4, WriteStepData, ZenonT(30)
<1> QED
  BY <1>1, <1>2, <1>3, <1>4, SMTT(30), Z3T(30) DEF Next

\* And so does a step that changes nothing.
LEMMA DataStutter ==
    ASSUME WritesInv, DataInv, UNCHANGED vars
    PROVE  DataInv'
<1>1. UNCHANGED <<sc, phase, leg, ackers, store, reach, log, pc, pos, cap, boundary>>
  BY DEF vars
<1>2. Contents'
  BY <1>1, ContentsSame, SMTT(30), Z3T(30)
<1>3. AllPeersAtLeast(Integrating) => AllPeersAtLeast(Integrating)'
  BY <1>1 DEF AllPeersAtLeast, Nodes, Base
<1> QED
  BY <1>1, <1>2, <1>3, QuietData, SMTT(30), Z3T(30)

\* With puts only, a node that routes to the target reads nothing older than the
\* boundary of FINALIZING, whatever is lost, refused or run again and whatever
\* writes overlap with a write that itself waited for the older ones.
THEOREM TargetJoinsFresh == PutsOnly => (Spec => []JoinsFresh)
<1> SUFFICES ASSUME PutsOnly PROVE Spec => []JoinsFresh
  OBVIOUS
<1>1. Init => WritesInv /\ DataInv
  BY InitWrites, InitData, SMTT(30), Z3T(30)
<1>2. WritesInv /\ DataInv /\ [Next]_vars => WritesInv' /\ DataInv'
  BY WritesStep, WritesStutter, DataStep, DataStutter, SMTT(30), Z3T(30)
<1>3. WritesInv /\ DataInv => JoinsFresh
  <2> SUFFICES ASSUME WritesInv, DataInv, NEW n \in Nodes,
                      Target \in FilterOneShardReplicas(view[n]), NEW w \in boundary \cap Waiting
               PROVE  Holds(Target, w)
    BY ZenonT(30) DEF JoinsFresh
  <2>1. view[n] \in 0 .. Ready /\ view[n] <= stage /\ stage \in 0 .. Ready /\ w \in Writes /\ Course
    BY DEF WritesInv, Types, Reached
  <2>2. stage >= Integrating
    BY <2>1, Routing, SMTT(30), Z3T(30)
  <2>3. pc \notin {"finalize", "drain", "aborted"}
    BY <2>1, <2>2, SMTT(30), Z3T(30) DEF Course
  <2>4. Has(Target, w)
    BY <2>3, BoundaryHeld, Zenon
  <2> QED
    BY <2>1, <2>4, DataFacts, Zenon
<1> QED
  BY <1>1, <1>2, <1>3, PTL DEF Spec

\* With a log that is not lost after the drain, the target is current.
LEMMA Current == ASSUME WritesInv, DataInv, NoLateLoss PROVE TargetIsCurrent
<1> SUFFICES ASSUME pc \in {"moved", "fence", "removed", "finished"},
                    NEW w \in Waiting, phase[w] = "acked", leg[w][Target] \in {"off", "done"},
                    Source \in ackers[w] \/ leg[w][Target] = "done"
             PROVE  Holds(Target, w)
  BY Zenon DEF TargetIsCurrent
<1>1. /\ Logged /\ w \in Writes /\ Ordered(w) /\ Taken /\ Carried(w) /\ Target \in Nodes
      /\ "after" \notin sc.appendFails
  BY DataFacts, Zenon DEF WritesInv, DataInv, AllCarried, Types, NoLateLoss
<1>2. CASE leg[w][Target] = "done"
  BY <1>1, <1>2, DataFacts, Zenon DEF Taken
<1>3. CASE leg[w][Target] = "off" /\ Source \in ackers[w]
  <2>1. leg[w][Source] = "done"
    BY <1>1, <1>3, Zenon DEF Ordered
  <2>2. log.entries = <<>> /\ Len(log.entries) = 0
    BY <1>1, ZenonT(30) DEF Logged
  <2>3. ~InLog(w) /\ ~Lost
    BY <1>1, <2>2, SMTT(30), Z3T(30) DEF InLog, Lost
  <2>4. Has(Target, w)
    BY <1>1, <1>3, <2>1, <2>3, SMTT(30), Z3T(30) DEF Carried
  <2> QED
    BY <1>1, <2>4, DataFacts, Zenon
<1> QED
  BY <1>2, <1>3, Zenon

\* With puts only, and a log that is not lost after the drain of FINALIZING, the
\* target that has drained the log misses no write that the source or the target
\* acknowledged and whose older ones were over when it was sent, whatever newer
\* ones overlap with it: none is between the log and the routing, however the
\* nodes' views lag, messages are lost and the handler re-runs.
THEOREM TargetMissesNothing == PutsOnly /\ NoLateLoss => (Spec => []TargetIsCurrent)
<1> SUFFICES ASSUME PutsOnly, NoLateLoss PROVE Spec => []TargetIsCurrent
  OBVIOUS
<1>1. Init => WritesInv /\ DataInv
  BY InitWrites, InitData
<1>2. WritesInv /\ DataInv /\ [Next]_vars => WritesInv' /\ DataInv'
  BY WritesStep, WritesStutter, DataStep, DataStutter, Zenon
<1>3. WritesInv /\ DataInv => TargetIsCurrent
  BY Current
<1> QED
  BY <1>1, <1>2, <1>3, PTL DEF Spec

=============================================================================
