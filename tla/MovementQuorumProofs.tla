------------------------ MODULE MovementQuorumProofs ------------------------
(***************************************************************************)
(* What is proved of MovementWrites for quorums, for every number of       *)
(* replicas and puts: a QUORUM read meets every write that was sent when   *)
(* the older ones of its object were over and acknowledged at QUORUM or    *)
(* ALL, whatever the views that the write and the read are routed by.      *)
(***************************************************************************)
EXTENDS MovementWritesProofs

\* A write is sent to the replicas before the movement, to them and the target,
\* or, once the source is being removed, to all but the source.
Sent(w) ==
    phase[w] \notin {"new", "registered"} =>
        /\ Route(w) \in {Base, Nodes, Nodes \ {Source}}
        /\ Source \notin Route(w) => sc.type = "MOVE" /\ stage >= Dehydrating

\* As many nodes as the level asks for have the write.
Acknowledged(w) == phase[w] = "acked" => Cardinality(ackers[w]) >= Level(w)

\* The source is removed when every node has stopped sending to it.
Fenced ==
    /\ \A n \in Nodes : reach[n] <= view[n]
    /\ sc.type = "MOVE" /\ stage >= Removed => \A n \in Nodes : view[n] >= Dehydrating

\* A replica has what it committed, as long as it has its shard, of the writes
\* that waited for the older ones.
Kept(n) ==
    (n = Source /\ sc.type = "MOVE" => view[n] < Removed) =>
        \A w \in Waiting : leg[w][n] = "done" => Has(n, w)

QuorumInv ==
    /\ Fenced
    /\ \A w \in Writes : Sent(w) /\ Acknowledged(w)
    /\ \A n \in Base : Kept(n)
-----------------------------------------------------------------------------
(* The routes.                                                             *)

USE DEF Added, Integrating, Dehydrating, Removed, Ready

\* The nodes and how many they are.
LEMMA NodeFacts ==
    ASSUME sc \in Scenarios
    PROVE  /\ Source \in Base /\ Target \notin Base /\ Nodes = Base \cup {Target}
           /\ IsFiniteSet(Nodes) /\ IsFiniteSet(Base) /\ IsFiniteSet(Nodes \ {Source})
           /\ Cardinality(Base) \in Nat \ {0}
           /\ Cardinality(Nodes) = Cardinality(Base) + 1
           /\ Cardinality(Nodes \ {Source}) = Cardinality(Base)
<1>1. /\ IsFiniteSet(sc.peers) /\ Source \notin sc.peers /\ Target \notin sc.peers
      /\ Source # Target
  BY WritesConstants
<1>2. Base = sc.peers \cup {Source} /\ Nodes = Base \cup {Target}
  BY Zenon DEF Base, Nodes
<1>3. Source \in Base /\ Target \notin Base /\ Source \in Nodes
  BY <1>1, <1>2, Zenon
<1>4. Cardinality(sc.peers) \in Nat
  BY <1>1, FS_CardinalityType
<1>5. IsFiniteSet(Base) /\ Cardinality(Base) = Cardinality(sc.peers) + 1
  BY <1>1, <1>2, FS_AddElement
<1>6. IsFiniteSet(Nodes) /\ Cardinality(Nodes) = Cardinality(Base) + 1
  BY <1>2, <1>3, <1>5, FS_AddElement
<1>7. /\ IsFiniteSet(Nodes \ {Source})
      /\ Cardinality(Nodes \ {Source}) = Cardinality(Nodes) - 1
  BY <1>3, <1>6, FS_RemoveElement
<1> QED
  BY <1>2, <1>3, <1>4, <1>5, <1>6, <1>7

\* A view routes to the replicas before the movement, to all nodes from
\* INTEGRATING on, and not to the source of a MOVE from DEHYDRATING on.
LEMMA Routes ==
    ASSUME sc \in Scenarios, NEW v \in 0 .. Ready,
           sc.type = "COPY" => v \notin {Dehydrating, Removed}
    PROVE  /\ v < Integrating => FilterOneShardReplicas(v) = Base
           /\ v >= Integrating /\ ~(sc.type = "MOVE" /\ v >= Dehydrating) =>
                  FilterOneShardReplicas(v) = Nodes
           /\ v >= Dehydrating /\ sc.type = "MOVE" =>
                  FilterOneShardReplicas(v) = Nodes \ {Source}
<1>1. /\ Source \in Base /\ Target \notin Base /\ Nodes = Base \cup {Target}
      /\ Source # Target
  BY NodeFacts, Zenon
<1>2. v \in {0, 1, 2, 3, 4, 5} /\ sc.type \in {"COPY", "MOVE"}
  BY ScenarioFacts
<1>3. CASE v < Integrating
  <2>1. /\ StateAt(v) = "FINALIZING" /\ ShardReplicas(v) \in {Base, Base \cup {Target}}
        /\ v < Removed
    BY <1>1, <1>2, <1>3 DEF StateAt, ShardReplicas
  <2>2. Base \subseteq ShardReplicas(v) /\ ShardReplicas(v) \subseteq Base \cup {Target}
    BY <2>1, Zenon
  <2>3. FilterOneShardReplicas(v) = Base
    BY <1>1, <2>1, <2>2 DEF FilterOneShardReplicas
  <2> QED
    BY <1>2, <1>3, <2>3
<1>4. CASE v >= Integrating /\ ~(sc.type = "MOVE" /\ v >= Dehydrating)
  <2>1. v \in {2, 5} /\ (v = 5 => sc.type = "COPY")
    BY <1>2, <1>4
  <2>2. StateAt(v) \in {"INTEGRATING", "READY"} /\ ShardReplicas(v) = Nodes
    BY <1>1, <2>1 DEF StateAt, ShardReplicas
  <2>3. FilterOneShardReplicas(v) = Nodes
    BY <2>2 DEF FilterOneShardReplicas
  <2> QED
    BY <1>2, <1>4, <2>3
<1>5. CASE v >= Dehydrating /\ sc.type = "MOVE"
  <2>1. CASE v = 3
    <3>1. StateAt(v) = "DEHYDRATING" /\ ShardReplicas(v) = Nodes
      BY <1>1, <1>5, <2>1 DEF StateAt, ShardReplicas
    <3> QED
      BY <1>1, <1>5, <2>1, <3>1 DEF FilterOneShardReplicas
  <2>2. CASE v \in {4, 5}
    <3>1. StateAt(v) \in {"DEHYDRATING", "READY"} /\ ShardReplicas(v) = Nodes \ {Source}
      BY <1>1, <1>5, <2>2 DEF StateAt, ShardReplicas
    <3> QED
      BY <1>1, <1>5, <2>2, <3>1 DEF FilterOneShardReplicas
  <2> QED
    BY <1>2, <1>5, <2>1, <2>2
<1> QED
  BY <1>2, <1>3, <1>4, <1>5

\* What both invariants say of a node.
LEMMA ViewFacts ==
    ASSUME WritesInv, NEW n \in Nodes
    PROVE  /\ sc \in Scenarios /\ view[n] \in 0 .. Ready /\ stage \in 0 .. Ready
           /\ view[n] <= stage /\ sc.type \in {"COPY", "MOVE"}
           /\ sc.type = "COPY" => view[n] \notin {Dehydrating, Removed}
BY ScenarioFacts DEF WritesInv, Types, Reached

-----------------------------------------------------------------------------
(* Every step keeps the invariant.                                         *)

\* No write has been sent.
LEMMA InitQuorum == ASSUME Init PROVE QuorumInv
<1>1. Source \in Nodes
  BY ScenarioFacts DEF Init
<1>2. Fenced
  BY DEF Init, Fenced
<1>3. \A w \in Writes : Sent(w) /\ Acknowledged(w)
  BY Zenon DEF Init, Sent, Acknowledged
<1>4. \A n \in Base : Kept(n)
  BY Zenon DEF Init, Kept, Nodes, Waiting
<1> QED
  BY <1>2, <1>3, <1>4, Zenon DEF QuorumInv

\* A write that was sent is sent to nobody else, and what has acknowledged it
\* stays.
LEMMA SentStands ==
    ASSUME NEW w \in Writes, sc' = sc, stage \in Int, stage' \in Int, stage <= stage',
           Sent(w), Acknowledged(w),
           phase'[w] \notin {"new", "registered"} =>
               /\ phase[w] \notin {"new", "registered"}
               /\ \A n \in Nodes : leg'[w][n] = "off" <=> leg[w][n] = "off",
           phase'[w] = "acked" => phase[w] = "acked" /\ ackers'[w] = ackers[w]
    PROVE  Sent(w)' /\ Acknowledged(w)'
<1>1. Base' = Base /\ Nodes' = Nodes
  BY Zenon DEF Base, Nodes
<1>2. phase'[w] \notin {"new", "registered"} => Route(w)' = Route(w)
  BY <1>1, Zenon DEF Route
<1>3. Sent(w)'
  <2>1. stage >= Dehydrating => stage' >= Dehydrating
    OBVIOUS
  <2> QED
    BY <1>1, <1>2, <2>1, Zenon DEF Sent
<1>4. Acknowledged(w)'
  <2> SUFFICES ASSUME phase'[w] = "acked" PROVE Cardinality(ackers'[w]) >= Level(w)'
    BY Zenon DEF Acknowledged
  <2>1. phase'[w] \notin {"new", "registered"}
    BY Zenon
  <2>2. Level(w)' = Level(w)
    BY <1>2, <2>1, Zenon DEF Level
  <2> QED
    BY <2>2, Zenon DEF Acknowledged
<1> QED
  BY <1>3, <1>4

\* A replica keeps what it has committed when nothing is taken from its store.
LEMMA KeptStands ==
    ASSUME NEW n \in Base, Kept(n), sc' = sc, view[n] \in Int, view'[n] \in Int,
           view[n] <= view'[n],
           \A w \in Waiting : leg'[w][n] = "done" =>
               \/ Has(n, w)'
               \/ leg[w][n] = "done" /\ store'[n][Key(w)] = store[n][Key(w)]
    PROVE  Kept(n)'
<1>1. Waiting' = Waiting /\ \A w : Key(w)' = Key(w)
  BY Zenon DEF Waiting, Writes, Key
<1>2. view'[n] < Removed => view[n] < Removed
  OBVIOUS
<1> QED
  BY <1>1, <1>2, Zenon DEF Kept, Has

\* A step of the worker on the target: it touches no other store, and removes
\* the source once every node has reported DEHYDRATING.
LEMMA TargetQuorum ==
    ASSUME WritesInv, WritesInv', QuorumInv, TargetStep \/ Rerun
    PROVE  QuorumInv'
<1>1. UNCHANGED <<sc, phase, leg, ackers, view, reach>>
  BY Zenon
  DEF TargetStep, Rerun, targetUnchanged, writeVars, StartChangeCapture, CopyReplicaFiles,
      UpdateToFinalizing, Snapshot, TailAndApply, TailFails, EndDrain, AddReplicaToShard,
      UpdateToIntegrating, waitForIntegrating, EnterFinalize, Seal, StopChangeCapture,
      nextStateAfterIntegrating, DeleteReplicaFromShard, UpdateToReady
<1>2. Writes' = Writes /\ Base' = Base /\ Nodes' = Nodes /\ Target \notin Base
  BY <1>1, NodeFacts, Zenon DEF Writes, Base, Nodes, WritesInv, Types
<1>3. stage \in 0 .. Ready /\ stage' \in 0 .. Ready /\ Course /\ sc.type \in {"COPY", "MOVE"}
  BY ScenarioFacts DEF WritesInv, Types
<1>4. \/ stage' = stage
      \/ stage' = 1 /\ stage < 1
      \/ stage' = 2 /\ pc = "joined"
      \/ stage' = After(2) /\ pc = "moved"
      \/ stage' = 4 /\ stage < 4 /\ AllPeersAtLeast(Dehydrating)
      \/ stage' = 5 /\ pc = "removed"
  <2>1. \/ UNCHANGED stage \/ AddReplicaToShard \/ UpdateToIntegrating
        \/ nextStateAfterIntegrating \/ DeleteReplicaFromShard \/ UpdateToReady
    BY Zenon
    DEF TargetStep, Rerun, StartChangeCapture, CopyReplicaFiles, UpdateToFinalizing,
        Snapshot, TailAndApply, TailFails, EndDrain, waitForIntegrating, EnterFinalize,
        Seal, StopChangeCapture
  <2>2. AddReplicaToShard => stage' = stage \/ (stage' = 1 /\ stage < 1)
    BY Zenon DEF AddReplicaToShard
  <2>3. /\ UpdateToIntegrating => stage' = 2 /\ pc = "joined"
        /\ nextStateAfterIntegrating => stage' = After(2) /\ pc = "moved"
        /\ UpdateToReady => stage' = 5 /\ pc = "removed"
    BY Zenon DEF UpdateToIntegrating, nextStateAfterIntegrating, UpdateToReady
  <2>4. DeleteReplicaFromShard =>
            stage' = stage \/ (stage' = 4 /\ stage < 4 /\ AllPeersAtLeast(Dehydrating))
    BY Zenon DEF DeleteReplicaFromShard
  <2> QED
    BY <2>1, <2>2, <2>3, <2>4, Zenon
<1>5. /\ stage <= stage'
      /\ sc.type = "MOVE" /\ stage' >= Removed =>
             stage >= Removed \/ AllPeersAtLeast(Dehydrating)
  <2>1. (pc = "joined" => stage <= 1) /\ (pc = "moved" => stage = 2) /\ (pc = "removed" => stage = 4)
    BY <1>3, Zenon DEF Course
  <2>2. After(2) = IF sc.type = "COPY" THEN 5 ELSE 3
    BY DEF After
  <2> QED
    BY <1>3, <1>4, <2>1, <2>2
<1>6. Fenced'
  <2>1. \A n \in Nodes : view[n] \in 0 .. Ready /\ reach[n] \in {0, Integrating, Dehydrating}
    BY Zenon DEF WritesInv, Types
  <2>2. AllPeersAtLeast(Dehydrating) => \A n \in Nodes : view[n] >= Dehydrating
    <3>1. \A n \in Nodes : reach[n] <= view[n]
      BY Zenon DEF QuorumInv, Fenced
    <3> QED
      BY <2>1, <3>1 DEF AllPeersAtLeast
  <2> QED
    BY <1>1, <1>2, <1>5, <2>2, Zenon DEF QuorumInv, Fenced
<1>7. \A w \in Writes : Sent(w)' /\ Acknowledged(w)'
  BY <1>1, <1>3, <1>5, SentStands DEF QuorumInv
<1>8. \A n \in Base : Kept(n)'
  <2>1. \A n \in Base : store'[n] = store[n]
    <3>1. \/ UNCHANGED store
          \/ \E x : store' = [store EXCEPT ![Target] = x]
          \/ \E k, x : store' = [store EXCEPT ![Target][k] = x]
      BY DEF TargetStep, Rerun, targetUnchanged, StartChangeCapture, CopyReplicaFiles,
          UpdateToFinalizing, Snapshot, TailAndApply, TailFails, EndDrain,
          AddReplicaToShard, UpdateToIntegrating, waitForIntegrating, EnterFinalize, Seal,
          StopChangeCapture, nextStateAfterIntegrating, DeleteReplicaFromShard,
          UpdateToReady
    <3>2. \A n \in Base : n \in Nodes /\ n # Target
      BY <1>2, Zenon DEF Nodes
    <3>3. store \in [Nodes -> [Keys -> -Len(sc.writes) .. Len(sc.writes)]]
      BY Zenon DEF WritesInv, Types
    <3> QED
      BY <3>1, <3>2, <3>3, Zenon
  <2>2. \A n \in Base : n \in Nodes /\ view[n] \in Int
    <3>1. \A n \in Base : n \in Nodes
      BY Zenon DEF Nodes
    <3> QED
      BY <3>1, ViewFacts
  <2> SUFFICES ASSUME NEW n \in Base PROVE Kept(n)'
    OBVIOUS
  <2>3. view'[n] = view[n] /\ view[n] <= view'[n]
    BY <1>1, <2>2
  <2> QED
    BY <1>1, <2>1, <2>2, <2>3, KeptStands, Zenon DEF QuorumInv
<1> QED
  BY <1>2, <1>6, <1>7, <1>8, Zenon DEF QuorumInv

\* A node applies a command or reports it: the source that drops its shard is
\* read by nobody.
LEMMA NodeQuorum ==
    ASSUME WritesInv, WritesInv', QuorumInv, NEW n \in Nodes, NodeStep(n)
    PROVE  QuorumInv'
<1>1. UNCHANGED <<sc, phase, ackers, stage>>
  BY Zenon DEF NodeStep, Apply, ReportReached, writeVars
<1>2. /\ Writes' = Writes /\ Base' = Base /\ Nodes' = Nodes /\ Base \subseteq Nodes
      /\ Types /\ Types' /\ stage \in Int
  <2>1. stage \in Int
    BY ViewFacts
  <2> QED
    BY <1>1, <2>1, Zenon DEF Writes, Base, Nodes, WritesInv
<1>3. \A m \in Nodes : view[m] \in Int /\ view'[m] \in Int /\ view[m] <= view'[m]
  <2>1. \A m \in Nodes : view[m] \in 0 .. Ready /\ view'[m] \in 0 .. Ready
    BY <1>2, Zenon DEF Types
  <2>2. CASE ReportReached(n)
    BY <2>1, <2>2 DEF ReportReached
  <2>3. CASE Apply(n)
    <3>1. view' = [view EXCEPT ![n] = After(view[n])] /\ view[n] < After(view[n])
      BY <2>3, AfterFacts DEF Apply
    <3>2. \A m \in Nodes : view'[m] = view[m] \/ (m = n /\ view'[m] = After(view[n]))
      BY <1>2, <3>1, Zenon DEF Types
    <3> QED
      BY <2>1, <3>1, <3>2
  <2> QED
    BY <2>2, <2>3, Zenon DEF NodeStep
<1>4. \A m \in Nodes : reach'[m] <= view'[m]
  <2>1. \A m \in Nodes : reach[m] \in Int /\ reach[m] <= view[m]
    <3>1. \A m \in Nodes : reach[m] \in {0, Integrating, Dehydrating}
      BY <1>2, Zenon DEF Types
    <3> QED
      BY <3>1 DEF QuorumInv, Fenced
  <2>2. CASE ReportReached(n)
    <3>1. \A m \in Nodes : reach'[m] = reach[m] \/ (m = n /\ reach'[m] = view[n])
      BY <1>2, <2>2, Zenon DEF ReportReached, Types
    <3> QED
      BY <1>3, <2>1, <3>1
  <2>3. CASE Apply(n)
    BY <1>3, <2>1, <2>3 DEF Apply
  <2> QED
    BY <2>2, <2>3, Zenon DEF NodeStep
<1>5. Fenced'
  <2>1. \A m \in Nodes : view[m] >= Dehydrating => view'[m] >= Dehydrating
    BY <1>3
  <2> QED
    BY <1>1, <1>2, <1>4, <2>1, Zenon DEF QuorumInv, Fenced
<1>6. \A w \in Writes, m \in Nodes :
          /\ leg'[w][m] = leg[w][m]
             \/ (leg[w][m] \in {"asked", "prepared", "stuck"} /\ leg'[w][m] = "failed")
  <2>1. CASE UNCHANGED leg
    BY <2>1, Zenon
  <2>2. CASE leg' = [w \in Writes |-> [leg[w] EXCEPT ![n] =
                 IF @ \in {"asked", "prepared", "stuck"} THEN "failed" ELSE @]]
    BY <1>2, <2>2, Zenon DEF Types
  <2> QED
    BY <2>1, <2>2, Zenon DEF NodeStep, Apply, ReportReached, writeVars
<1>7. \A w \in Writes : Sent(w)' /\ Acknowledged(w)'
  <2> SUFFICES ASSUME NEW w \in Writes PROVE Sent(w)' /\ Acknowledged(w)'
    OBVIOUS
  <2>1. \A m \in Nodes : leg'[w][m] = "off" <=> leg[w][m] = "off"
    BY <1>6
  <2>2. stage <= stage' /\ stage' \in Int /\ Sent(w) /\ Acknowledged(w)
    BY <1>1, <1>2 DEF QuorumInv
  <2> QED
    BY <1>1, <1>2, <2>1, <2>2, SentStands, Zenon
<1>8. \A m \in Base : Kept(m)'
  <2> SUFFICES ASSUME NEW m \in Base PROVE Kept(m)'
    OBVIOUS
  <2>1. m \in Nodes /\ Kept(m)
    BY <1>2, Zenon DEF QuorumInv
  <2>2. CASE Apply(n) /\ n = Source /\ After(view[n]) = Removed /\ m = Source
    <3>1. view'[m] = Removed /\ sc.type = "MOVE"
      <4>1. view'[m] = Removed
        BY <1>2, <2>1, <2>2, Zenon DEF Apply, Types
      <4> QED
        BY <1>1, <1>2, <2>1, <4>1, ViewFacts, ScenarioFacts DEF Types, WritesInv, Reached
    <3>2. ~(view'[m] < Removed)
      BY <3>1
    <3> QED
      BY <1>1, <2>2, <3>1, <3>2, Zenon DEF Kept
  <2>3. CASE ~(Apply(n) /\ n = Source /\ After(view[n]) = Removed /\ m = Source)
    <3>1. store'[m] = store[m]
      <4>1. CASE UNCHANGED store
        BY <4>1, Zenon
      <4>2. CASE Apply(n) /\ n = Source /\ After(view[n]) = Removed
        <5>1. store' = [store EXCEPT ![n] = [k \in Keys |-> 0]] /\ m # n
          BY <2>3, <4>2, Zenon DEF Apply
        <5> QED
          BY <1>2, <2>1, <5>1, Zenon DEF Types
      <4> QED
        BY <4>1, <4>2, Zenon DEF NodeStep, Apply, ReportReached
    <3>2. \A w \in Waiting : leg'[w][m] = "done" => leg[w][m] = "done"
      BY <1>6, <2>1 DEF Waiting
    <3> QED
      BY <1>1, <1>3, <2>1, <3>1, <3>2, KeptStands, Zenon
  <2> QED
    BY <2>2, <2>3
<1> QED
  BY <1>2, <1>5, <1>7, <1>8, Zenon DEF QuorumInv

\* A step of a write, of which these facts are known.
LEMMA WriteQuorum ==
    ASSUME WritesInv, QuorumInv, NEW w \in Writes, UNCHANGED <<sc, movementVars>>,
           \A u \in Writes \ {w} :
               phase'[u] = phase[u] /\ leg'[u] = leg[u] /\ ackers'[u] = ackers[u],
           Sent(w)', Acknowledged(w)',
           \A n \in Nodes, u \in Waiting : leg'[u][n] = "done" =>
               \/ Has(n, u)'
               \/ leg[u][n] = "done" /\ store'[n][Key(u)] = store[n][Key(u)]
    PROVE  QuorumInv'
<1>1. /\ Writes' = Writes /\ Base' = Base /\ Nodes' = Nodes
      /\ UNCHANGED <<sc, stage, view, reach>>
  BY Zenon DEF Writes, Base, Nodes, movementVars
<1>2. Fenced'
  BY <1>1, Zenon DEF QuorumInv, Fenced
<1>3. stage \in Int /\ stage <= stage' /\ stage' \in Int
  BY <1>1 DEF WritesInv, Types
<1>4. \A u \in Writes : Sent(u)' /\ Acknowledged(u)'
  <2> SUFFICES ASSUME NEW u \in Writes, u # w PROVE Sent(u)' /\ Acknowledged(u)'
    OBVIOUS
  <2>1. Sent(u) /\ Acknowledged(u)
    BY Zenon DEF QuorumInv
  <2> QED
    BY <1>1, <1>3, <2>1, SentStands, Zenon
<1>5. \A n \in Base : Kept(n)'
  <2> SUFFICES ASSUME NEW n \in Base PROVE Kept(n)'
    OBVIOUS
  <2>1. n \in Nodes /\ Kept(n)
    BY Zenon DEF QuorumInv, Nodes
  <2>2. view[n] \in Int /\ view'[n] \in Int /\ view[n] <= view'[n]
    BY <1>1, <2>1, ViewFacts
  <2> QED
    BY <1>1, <2>1, <2>2, KeptStands, Zenon
<1> QED
  BY <1>1, <1>2, <1>4, <1>5, Zenon DEF QuorumInv

\* A step of a write, one of its legs or its coordinator.
LEMMA LegQuorum ==
    ASSUME WritesInv, DataInv, QuorumInv, NEW w \in Writes, NEW n \in Nodes,
           \/ Register(w, n) \/ Prepare(w, n) \/ Refuse(w, n) \/ Lose(w, n) \/ Commit(w, n)
           \/ StartCommit(w) \/ Abort(w)
    PROVE  QuorumInv'
<1>1. UNCHANGED <<sc, ackers, movementVars>>
  BY Zenon DEF Register, Prepare, Refuse, Lose, Commit, StartCommit, Abort
<1>2. Types /\ Ordered(w) /\ Sent(w) /\ Acknowledged(w) /\ stage \in Int /\ Writes' = Writes
  <2>1. stage \in Int
    BY ViewFacts
  <2> QED
    BY <1>1, <2>1, Zenon DEF WritesInv, QuorumInv, Writes
<1>3. \A u \in Writes \ {w} : phase'[u] = phase[u] /\ leg'[u] = leg[u] /\ ackers'[u] = ackers[u]
  BY <1>1, <1>2, Zenon DEF Register, Prepare, Refuse, Lose, Commit, StartCommit, Abort, Types
<1>4. \A m \in Nodes : /\ leg'[w][m] = "off" <=> leg[w][m] = "off"
                       /\ leg'[w][m] = "done" => leg[w][m] = "done" \/ (Commit(w, n) /\ m = n)
  <2>1. CASE Register(w, n) \/ StartCommit(w)
    BY <2>1, Zenon DEF Register, StartCommit
  <2>2. CASE Abort(w)
    <3>1. leg'[w] = [m \in Nodes |-> IF leg[w][m] = "prepared" THEN "failed" ELSE leg[w][m]]
      BY <1>2, <2>2, Zenon DEF Abort, Types
    <3>2. \A m \in Nodes : \/ leg'[w][m] = leg[w][m]
                           \/ leg[w][m] = "prepared" /\ leg'[w][m] = "failed"
      BY <3>1, Zenon
    <3> QED
      BY <3>2
  <2>3. CASE Prepare(w, n) \/ Refuse(w, n) \/ Lose(w, n) \/ Commit(w, n)
    <3>1. PICK a \in {"failed", "prepared", "stuck", "done"} :
              /\ leg' = [leg EXCEPT ![w][n] = a] /\ leg[w][n] \in {"asked", "prepared"}
              /\ a = "done" => Commit(w, n)
      BY <2>3 DEF Prepare, Refuse, Lose, Commit
    <3>2. \A m \in Nodes : leg'[w][m] = IF m = n THEN a ELSE leg[w][m]
      BY <1>2, <3>1, Zenon DEF Types
    <3> QED
      BY <3>1, <3>2
  <2> QED
    BY <2>1, <2>2, <2>3, Zenon
<1>5. /\ phase'[w] \notin {"new", "registered"} => phase[w] \notin {"new", "registered"}
      /\ phase'[w] = "acked" => phase[w] = "acked"
  <2>1. CASE Register(w, n)
    BY <1>2, <2>1 DEF Register, Types
  <2>2. CASE StartCommit(w) \/ Abort(w)
    BY <1>2, <2>2 DEF StartCommit, Abort, Types
  <2>3. CASE Prepare(w, n) \/ Refuse(w, n) \/ Lose(w, n) \/ Commit(w, n)
    BY <2>3, Zenon DEF Prepare, Refuse, Lose, Commit
  <2> QED
    BY <2>1, <2>2, <2>3, Zenon
<1>6. Sent(w)' /\ Acknowledged(w)'
  <2>1. stage' = stage /\ stage <= stage' /\ sc' = sc /\ ackers'[w] = ackers[w]
    BY <1>1, <1>2 DEF movementVars
  <2> QED
    BY <1>2, <1>4, <1>5, <2>1, SentStands, Zenon
<1>7. ASSUME NEW m \in Nodes, NEW u \in Waiting, leg'[u][m] = "done"
      PROVE  \/ Has(m, u)'
             \/ leg[u][m] = "done" /\ store'[m][Key(u)] = store[m][Key(u)]
  <2>1. Key(u)' = Key(u) /\ Key(u) \in Keys /\ u \in Writes
    BY <1>1, DataFacts, Zenon DEF Key
  <2>2. CASE ~Commit(w, n)
    <3>1. UNCHANGED store
      BY <2>2, Zenon DEF Register, Prepare, Refuse, Lose, StartCommit, Abort
    <3> QED
      BY <1>3, <1>4, <1>7, <2>1, <2>2, <3>1, Zenon
  <2>3. CASE Commit(w, n)
    <3>1. /\ store'[n][Key(w)] = w
          /\ \A i \in Nodes, k \in Keys : store'[i][k] = store[i][k] \/ (i = n /\ k = Key(w))
          /\ phase[u] # "new" /\ Key(u) = Key(w) => u <= w
      BY <2>3, CommitKeeps, Zenon
    <3>2. CASE store'[m][Key(u)] = store[m][Key(u)]
      <4>1. CASE u = w /\ m = n
        <5>1. w \in Nat /\ store'[m][Key(u)'] = w
          BY <2>1, <3>1, <4>1, DataFacts
        <5> QED
          BY <4>1, <5>1 DEF Has
      <4>2. CASE ~(u = w /\ m = n)
        BY <1>3, <1>4, <1>7, <2>1, <3>2, <4>2, Zenon
      <4> QED
        BY <4>1, <4>2
    <3>3. CASE m = n /\ Key(u) = Key(w)
      <4>1. w \in Nat /\ u \in Nat
        BY <2>1, DataFacts
      <4>2. u <= w
        <5> SUFFICES ASSUME u # w PROVE phase[u] # "new"
          BY <3>1, <3>3, <4>1
        <5>1. leg[u][m] = "done" /\ Ordered(u)
          BY <1>3, <1>7, <2>1, Zenon DEF WritesInv
        <5> QED
          BY <5>1 DEF Ordered
      <4>3. store'[m][Key(u)'] = w
        BY <2>1, <3>1, <3>3, Zenon
      <4> QED
        BY <4>1, <4>2, <4>3 DEF Has
    <3> QED
      BY <2>1, <3>1, <3>2, <3>3, Zenon
  <2> QED
    BY <2>2, <2>3
<1> QED
  BY <1>1, <1>3, <1>6, <1>7, WriteQuorum, Zenon

\* The coordinator sends the write on one of the routes.
LEMMA PushQuorum ==
    ASSUME WritesInv, QuorumInv, NEW w \in Writes, Push(w)
    PROVE  QuorumInv'
<1> DEFINE r == FilterOneShardReplicas(view[coord[w]])
<1>1. /\ phase' = [phase EXCEPT ![w] = "asked"]
      /\ leg' = [leg EXCEPT ![w] = [n \in Nodes |-> IF n \in r THEN "asked" ELSE "off"]]
      /\ UNCHANGED <<sc, ackers, store, movementVars>>
  BY Zenon DEF Push
<1>2. Types /\ coord[w] \in Nodes /\ sc \in Scenarios
  BY Zenon DEF WritesInv, Types
<1>3. /\ phase'[w] = "asked" /\ Base' = Base /\ Nodes' = Nodes /\ Writes' = Writes
      /\ leg'[w] = [n \in Nodes |-> IF n \in r THEN "asked" ELSE "off"]
      /\ \A u \in Writes \ {w} : phase'[u] = phase[u] /\ leg'[u] = leg[u]
  BY <1>1, <1>2, Zenon DEF Types, Base, Nodes, Writes
<1>4. /\ r \in {Base, Nodes, Nodes \ {Source}}
      /\ Source \notin r => sc.type = "MOVE" /\ stage >= Dehydrating
  <2>1. /\ view[coord[w]] \in 0 .. Ready /\ stage \in 0 .. Ready /\ view[coord[w]] <= stage
        /\ sc.type = "COPY" => view[coord[w]] \notin {Dehydrating, Removed}
    BY <1>2, ViewFacts, Zenon
  <2>2. Source \in Base /\ Source \in Nodes
    BY <1>2, NodeFacts, Zenon
  <2>3. /\ view[coord[w]] < Integrating => r = Base
        /\ view[coord[w]] >= Integrating /\ ~(sc.type = "MOVE" /\ view[coord[w]] >= Dehydrating)
               => r = Nodes
        /\ view[coord[w]] >= Dehydrating /\ sc.type = "MOVE" => r = Nodes \ {Source}
    BY <1>2, <2>1, Routes, Zenon
  <2> HIDE DEF r
  <2>4. CASE view[coord[w]] >= Dehydrating /\ sc.type = "MOVE"
    BY <2>1, <2>3, <2>4
  <2>5. CASE ~(view[coord[w]] >= Dehydrating /\ sc.type = "MOVE")
    BY <2>1, <2>2, <2>3, <2>5
  <2> QED
    BY <2>4, <2>5
<1>5. Route(w)' = r
  <2>1. r \subseteq Nodes
    BY <1>4, Zenon DEF Nodes
  <2> HIDE DEF r
  <2> QED
    BY <1>3, <2>1 DEF Route
<1>6. Sent(w)'
  <2>1. UNCHANGED <<sc, stage>>
    BY <1>1, Zenon DEF movementVars
  <2> QED
    BY <1>3, <1>4, <1>5, <2>1, Zenon DEF Sent
<1>7. Acknowledged(w)'
  BY <1>3 DEF Acknowledged
<1>8. \A n \in Nodes, u \in Writes : leg'[u][n] = "done" => leg[u][n] = "done"
  <2>1. \A n \in Nodes : leg'[w][n] # "done"
    BY <1>3
  <2> QED
    BY <1>3, <2>1, Zenon
<1>9. \A n \in Nodes, u \in Waiting : leg'[u][n] = "done" =>
          leg[u][n] = "done" /\ store'[n][Key(u)] = store[n][Key(u)]
  BY <1>1, <1>8, Zenon DEF Waiting
<1> QED
  BY <1>1, <1>3, <1>6, <1>7, <1>9, WriteQuorum, Zenon

\* The coordinator returns: at the level, or with an error.
LEMMA ReturnQuorum ==
    ASSUME WritesInv, QuorumInv, NEW w \in Writes, Return(w)
    PROVE  QuorumInv'
<1> DEFINE enough == Cardinality(Legs(w, "done")) >= Level(w)
<1>1. /\ phase[w] = "commit"
      /\ phase' = [phase EXCEPT ![w] = IF enough THEN "acked" ELSE "error"]
      /\ ackers' = [ackers EXCEPT ![w] = IF enough THEN Legs(w, "done") ELSE {}]
      /\ UNCHANGED <<sc, leg, store, movementVars>>
  BY Zenon DEF Return
<1>2. Types /\ Sent(w)
  BY Zenon DEF WritesInv, QuorumInv
<1>3. /\ \A u \in Writes \ {w} : phase'[u] = phase[u] /\ leg'[u] = leg[u] /\ ackers'[u] = ackers[u]
      /\ phase'[w] = IF enough THEN "acked" ELSE "error"
      /\ ackers'[w] = IF enough THEN Legs(w, "done") ELSE {}
  BY <1>1, <1>2, Zenon DEF Types
<1>4. /\ Base' = Base /\ Nodes' = Nodes /\ Writes' = Writes /\ UNCHANGED <<sc, stage>>
      /\ Route(w)' = Route(w) /\ Level(w)' = Level(w)
  BY <1>1, Zenon DEF Base, Nodes, Writes, movementVars, Route, Level
<1>5. Sent(w)'
  <2>1. phase[w] \notin {"new", "registered"}
    BY <1>1
  <2> QED
    BY <1>2, <1>4, <2>1, Zenon DEF Sent
<1>6. Acknowledged(w)'
  <2>1. phase'[w] = "acked" => enough
    BY <1>3
  <2> QED
    BY <1>3, <1>4, <2>1, Zenon DEF Acknowledged
<1> QED
  BY <1>1, <1>3, <1>5, <1>6, WriteQuorum, Zenon

\* Every step keeps the invariant of the quorums.
LEMMA QuorumStep ==
    ASSUME WritesInv, WritesInv', DataInv, QuorumInv, Next
    PROVE  QuorumInv'
<1>1. CASE TargetStep \/ Rerun
  BY <1>1, TargetQuorum, Zenon
<1>2. ASSUME NEW n \in Nodes, NodeStep(n) PROVE QuorumInv'
  BY <1>2, NodeQuorum, Zenon
<1>3. ASSUME NEW w \in Writes, WriteStep(w) PROVE QuorumInv'
  <2>1. Source \in Nodes
    BY DataFacts
  <2>2. CASE Push(w) \/ Return(w)
    BY <2>2, PushQuorum, ReturnQuorum, Zenon
  <2>3. CASE StartCommit(w) \/ Abort(w)
    BY <2>1, <2>3, LegQuorum, Zenon
  <2>4. ASSUME NEW n \in Nodes, Prepare(w, n) \/ Commit(w, n) PROVE QuorumInv'
    BY <2>4, LegQuorum, Zenon
  <2> QED
    BY <1>3, <2>2, <2>3, <2>4, Zenon DEF WriteStep
<1>4. ASSUME NEW w \in Writes, NEW n \in Nodes,
             Register(w, n) \/ Refuse(w, n) \/ Lose(w, n)
      PROVE  QuorumInv'
  BY <1>4, LegQuorum, Zenon
<1> QED
  BY <1>1, <1>2, <1>3, <1>4, Zenon DEF Next

\* And so does a step that changes nothing.
LEMMA QuorumStutter ==
    ASSUME WritesInv, QuorumInv, UNCHANGED vars
    PROVE  QuorumInv'
<1>1. UNCHANGED <<sc, phase, leg, ackers, store, stage, view, reach>>
  BY DEF vars
<1>2. Base' = Base /\ Nodes' = Nodes /\ Writes' = Writes
  BY <1>1, Zenon DEF Base, Nodes, Writes
<1>3. Fenced'
  BY <1>1, <1>2, Zenon DEF QuorumInv, Fenced
<1>4. ASSUME NEW w \in Writes PROVE Sent(w)' /\ Acknowledged(w)'
  <2>1. Route(w)' = Route(w) /\ Level(w)' = Level(w)
    BY <1>1, <1>2, Zenon DEF Route, Level
  <2> QED
    BY <1>1, <1>2, <2>1, Zenon DEF QuorumInv, Sent, Acknowledged
<1>5. ASSUME NEW n \in Base PROVE Kept(n)'
  BY <1>1, <1>2, Zenon DEF QuorumInv, Kept, Has, Key, Waiting
<1> QED
  BY <1>2, <1>3, <1>4, <1>5, Zenon DEF QuorumInv

-----------------------------------------------------------------------------
(* A quorum read.                                                          *)

\* Those that miss a write are not more than those without it.
LEMMA Misses ==
    ASSUME NEW w, NEW r, IsFiniteSet(r), NEW h \in SUBSET r, \A m \in h : Holds(m, w)
    PROVE  /\ Cardinality(h) \in Nat /\ Cardinality(r) \in Nat
           /\ Cardinality({m \in r : ~Holds(m, w)}) \in Nat
           /\ Cardinality({m \in r : ~Holds(m, w)}) <= Cardinality(r) - Cardinality(h)
<1> DEFINE x == {m \in r : ~Holds(m, w)}
<1>1. IsFiniteSet(h) /\ IsFiniteSet(r \ h)
  BY FS_Subset
<1>2. x \subseteq r \ h
  BY Zenon
<1>3. IsFiniteSet(x) /\ Cardinality(x) <= Cardinality(r \ h)
  BY <1>1, <1>2, FS_Subset
<1>4. Cardinality(r \ h) = Cardinality(r) - Cardinality(r \cap h)
  BY FS_Difference
<1>5. r \cap h = h
  OBVIOUS
<1>6. Cardinality(h) \in Nat /\ Cardinality(r) \in Nat /\ Cardinality(x) \in Nat
  BY <1>1, <1>3, FS_CardinalityType
<1> HIDE DEF x
<1>7. Cardinality(x) <= Cardinality(r) - Cardinality(h)
  BY <1>3, <1>4, <1>5
<1> QED
  BY <1>6, <1>7 DEF x

\* QUORUM and ALL ask for more than a half.
LEMMA Majority ==
    ASSUME NEW l \in {"QUORUM", "ALL"}, NEW c \in Nat \ {0}
    PROVE  ToInt(l, c) \in Nat /\ ToInt(l, c) >= c \div 2 + 1
<1>1. c \div 2 \in Nat /\ 2 * (c \div 2) <= c
  OBVIOUS
<1>2. CASE l = "QUORUM"
  BY <1>1, <1>2 DEF ToInt
<1>3. CASE l = "ALL"
  BY <1>1, <1>3 DEF ToInt
<1> QED
  BY <1>2, <1>3

\* A node that acknowledged a write and that some view reads from has the write.
LEMMA AckerHolds ==
    ASSUME WritesInv, DataInv, QuorumInv, NEW w \in Waiting, NEW n \in Nodes,
           NEW m \in ackers[w], m \in FilterOneShardReplicas(view[n])
    PROVE  Holds(m, w)
<1>1. /\ w \in Writes /\ m \in Nodes /\ leg[w][m] = "done" /\ sc \in Scenarios
  BY DataFacts, Zenon DEF WritesInv, Types, Ordered
<1>2. CASE m = Target
  BY <1>1, <1>2, DataFacts, Zenon DEF DataInv, Taken
<1>3. CASE m \in Base
  <2>1. m = Source /\ sc.type = "MOVE" => view[m] < Removed
    <3> SUFFICES ASSUME m = Source, sc.type = "MOVE" PROVE view[m] < Removed
      OBVIOUS
    <3>1. /\ view[n] \in 0 .. Ready /\ stage \in 0 .. Ready
          /\ view[m] \in 0 .. Ready /\ view[m] <= stage
      BY <1>1, ViewFacts, Zenon
    <3>2. view[n] >= Dehydrating => FilterOneShardReplicas(view[n]) = Nodes \ {Source}
      <4>1. sc.type = "COPY" => view[n] \notin {Dehydrating, Removed}
        BY ViewFacts, Zenon
      <4> QED
        BY <1>1, <3>1, <4>1, Routes, Zenon
    <3>3. ~(view[n] >= Dehydrating)
      BY <3>2, Zenon
    <3>4. stage >= Removed => view[n] >= Dehydrating
      BY Zenon DEF QuorumInv, Fenced
    <3> QED
      BY <3>1, <3>3, <3>4
  <2>2. Has(m, w)
    BY <1>1, <1>3, <2>1, Zenon DEF QuorumInv, Kept
  <2> QED
    BY <1>1, <2>2, DataFacts, Zenon
<1> QED
  BY <1>1, <1>2, <1>3, NodeFacts, Zenon

\* A read that leaves the source out is made when the target has caught up.
LEMMA TargetHolds ==
    ASSUME WritesInv, DataInv, NoLateLoss, NEW w \in Waiting, phase[w] = "acked",
           Source \in ackers[w], Target \notin Route(w), stage >= Dehydrating
    PROVE  Holds(Target, w)
<1>1. TargetIsCurrent
  BY Current
<1>2. pc \in {"fence", "removed", "finished"}
  <2>1. pc \in Places /\ stage \in 0 .. Ready /\ Course
    BY Zenon DEF WritesInv, Types
  <2> QED
    BY <2>1 DEF Course, Places
<1>3. Target \in Nodes /\ leg[w][Target] = "off"
  BY DataFacts, Zenon DEF Route
<1>4. pc \in {"moved", "fence", "removed", "finished"} /\ leg[w][Target] \in {"off", "done"}
  BY <1>2, <1>3
<1> QED
  BY <1>1, <1>4, Zenon DEF TargetIsCurrent

\* Of the nodes that a view reads from, all that acknowledged a write have it,
\* except the target or the source where the write was sent to both; a source
\* that is not read any more is made up for by the target.
LEMMA Holders ==
    ASSUME WritesInv, DataInv, QuorumInv, NoLateLoss, NEW w \in Waiting, NEW n \in Nodes,
           phase[w] = "acked"
    PROVE  LET r == FilterOneShardReplicas(view[n])
               a == Cardinality(ackers[w])
           IN  /\ r \in {Base, Nodes, Nodes \ {Source}}
               /\ Route(w) = Nodes \ {Source} => r # Base
               /\ a \in Nat
               /\ \E h \in SUBSET r : /\ \A m \in h : Holds(m, w)
                                      /\ Cardinality(h) \in Nat
                                      /\ \/ Cardinality(h) >= a
                                         \/ /\ Route(w) = Nodes /\ r # Nodes
                                            /\ Cardinality(h) >= a - 1
<1> DEFINE r == FilterOneShardReplicas(view[n])
           A == ackers[w]
<1>1. /\ sc \in Scenarios /\ view[n] \in 0 .. Ready /\ stage \in 0 .. Ready
      /\ view[n] <= stage /\ sc.type \in {"COPY", "MOVE"}
      /\ sc.type = "COPY" => view[n] \notin {Dehydrating, Removed}
  BY ViewFacts, Zenon
<1>2. /\ Source \in Base /\ Target \notin Base /\ Nodes = Base \cup {Target}
      /\ IsFiniteSet(Nodes) /\ Source # Target
  BY <1>1, NodeFacts, Zenon
<1>3. /\ view[n] < Integrating => r = Base
      /\ view[n] >= Integrating /\ ~(sc.type = "MOVE" /\ view[n] >= Dehydrating) => r = Nodes
      /\ view[n] >= Dehydrating /\ sc.type = "MOVE" => r = Nodes \ {Source}
  BY <1>1, Routes, Zenon
<1>4. A \subseteq Route(w)
  <2>1. A \subseteq Nodes /\ \A m \in A : leg[w][m] = "done"
    BY DataFacts, Zenon DEF WritesInv, Types, Ordered
  <2> QED
    BY <2>1 DEF Route
<1>5. IsFiniteSet(A) /\ Cardinality(A) \in Nat
  <2>1. A \subseteq Nodes
    BY DataFacts, Zenon DEF WritesInv, Types
  <2> QED
    BY <1>2, <2>1, FS_Subset, FS_CardinalityType
<1>6. \A m \in A : m \in r => Holds(m, w)
  BY AckerHolds, Zenon
<1>7. /\ Route(w) \in {Base, Nodes, Nodes \ {Source}}
      /\ Source \notin Route(w) => sc.type = "MOVE" /\ stage >= Dehydrating
  <2>1. w \in Writes /\ phase[w] \notin {"new", "registered"}
    BY DataFacts, Zenon
  <2> QED
    BY <2>1, Zenon DEF QuorumInv, Sent
<1> HIDE DEF r, A
<1>8. r \in {Base, Nodes, Nodes \ {Source}} /\ (r = Base => view[n] < Integrating)
  BY <1>1, <1>2, <1>3
<1>9. Route(w) = Nodes \ {Source} => r # Base
  <2> SUFFICES ASSUME Route(w) = Nodes \ {Source} PROVE view[n] >= Integrating
    BY <1>1, <1>8
  <2>1. stage >= Dehydrating
    BY <1>7
  <2>2. pc \in {"fence", "removed", "finished"}
    <3>1. pc \in Places /\ Course
      BY Zenon DEF WritesInv, Types
    <3> QED
      BY <1>1, <2>1, <3>1 DEF Course, Places
  <2>3. reach[n] >= Integrating
    BY <2>2 DEF WritesInv, Passed, AllPeersAtLeast
  <2> QED
    BY <2>3, Zenon DEF WritesInv, Reached
<1>10. CASE A \subseteq r
  <2>1. A \in SUBSET r /\ Cardinality(A) >= Cardinality(A) /\ \A m \in A : Holds(m, w)
    BY <1>5, <1>6, <1>10
  <2> QED
    BY <1>5, <1>8, <1>9, <2>1, Zenon DEF r, A
<1>11. CASE Route(w) = Nodes /\ r # Nodes
  <2>1. PICK x \in {Source, Target} : Nodes \ {x} \subseteq r
    BY <1>2, <1>8, <1>11
  <2>2. A \ {x} \subseteq r /\ A \ {x} \in SUBSET r /\ \A m \in A \ {x} : Holds(m, w)
    BY <1>4, <1>6, <1>11, <2>1
  <2>3. Cardinality(A \ {x}) \in Nat /\ Cardinality(A \ {x}) >= Cardinality(A) - 1
    <3>1. CASE x \in A
      <4>1. IsFiniteSet(A \ {x}) /\ Cardinality(A \ {x}) = Cardinality(A) - 1
        BY <1>5, <3>1, FS_RemoveElement
      <4>2. Cardinality(A \ {x}) \in Nat
        BY <4>1, FS_CardinalityType
      <4> QED
        BY <1>5, <4>1, <4>2
    <3>2. CASE x \notin A
      <4>1. A \ {x} = A
        BY <3>2
      <4> QED
        BY <1>5, <4>1
    <3> QED
      BY <3>1, <3>2
  <2> QED
    BY <1>5, <1>8, <1>9, <1>11, <2>2, <2>3, Zenon DEF r, A
<1>12. CASE ~(A \subseteq r) /\ ~(Route(w) = Nodes /\ r # Nodes)
  <2>1. Route(w) = Base /\ r = Nodes \ {Source} /\ Source \in A /\ Target \notin A
    BY <1>2, <1>4, <1>7, <1>8, <1>9, <1>12
  <2>2. stage >= Dehydrating
    BY <1>1, <1>2, <1>3, <2>1
  <2>3. Holds(Target, w)
    BY <1>2, <2>1, <2>2, TargetHolds, Zenon DEF A
  <2> DEFINE h == (A \ {Source}) \cup {Target}
  <2>4. h \in SUBSET r /\ \A m \in h : Holds(m, w)
    <3>1. A \ {Source} \subseteq r /\ Target \in r
      BY <1>2, <1>4, <2>1
    <3> QED
      BY <1>6, <2>3, <3>1, Zenon
  <2>5. Cardinality(h) = Cardinality(A)
    <3>1. IsFiniteSet(A \ {Source}) /\ Cardinality(A \ {Source}) = Cardinality(A) - 1
      BY <1>5, <2>1, FS_RemoveElement
    <3>2. Target \notin A \ {Source}
      BY <2>1, Zenon
    <3>3. Cardinality(h) = Cardinality(A \ {Source}) + 1
      BY <3>1, <3>2, FS_AddElement, Zenon
    <3> QED
      BY <1>5, <3>1, <3>3
  <2>6. Cardinality(h) \in Nat /\ Cardinality(h) >= Cardinality(A)
    BY <1>5, <2>5
  <2> HIDE DEF h
  <2> QED
    BY <1>5, <1>8, <1>9, <2>4, <2>6, Zenon DEF r, A
<1> QED
  BY <1>10, <1>11, <1>12, Zenon

\* With puts only, and a log that is not lost after the drain of FINALIZING, a
\* QUORUM read through any node meets every write acknowledged at QUORUM or ALL
\* whose older ones were over when it was sent, whatever newer ones overlap: the
\* quorums of two routings, the one of the write and the one of the read,
\* overlap in a node that has the write, for every number of replicas.
THEOREM QuorumReadsSeeAcks == PutsOnly /\ NoLateLoss => (Spec => []QuorumReadSeesAck)
<1> SUFFICES ASSUME PutsOnly, NoLateLoss PROVE Spec => []QuorumReadSeesAck
  OBVIOUS
<1> DEFINE Inv == WritesInv /\ DataInv /\ QuorumInv
<1>1. Init => Inv
  BY InitWrites, InitData, InitQuorum, Zenon
<1>2. Inv /\ [Next]_vars => Inv'
  <2>1. WritesInv /\ DataInv /\ [Next]_vars => WritesInv' /\ DataInv'
    BY WritesStep, WritesStutter, DataStep, DataStutter, Zenon
  <2>2. Inv /\ [Next]_vars => QuorumInv'
    BY <2>1, QuorumStep, QuorumStutter, Zenon
  <2> QED
    BY <2>1, <2>2, Zenon
<1>3. Inv => QuorumReadSeesAck
  <2> SUFFICES ASSUME WritesInv, DataInv, QuorumInv, NEW w \in Waiting, NEW n \in Nodes,
                      phase[w] = "acked", sc.writes[w].level # "ONE"
               PROVE  LET r == FilterOneShardReplicas(view[n])
                      IN  Cardinality({m \in r : ~Holds(m, w)}) < ToInt("QUORUM", Cardinality(r))
    BY Zenon DEF QuorumReadSeesAck
  <2> DEFINE r == FilterOneShardReplicas(view[n])
             a == Cardinality(ackers[w])
             miss == Cardinality({m \in r : ~Holds(m, w)})
             b == Cardinality(Base)
             c == Cardinality(Route(w))
  <2>1. PICK h \in SUBSET r : /\ \A m \in h : Holds(m, w)
                              /\ Cardinality(h) \in Nat
                              /\ \/ Cardinality(h) >= a
                                 \/ Route(w) = Nodes /\ r # Nodes /\ Cardinality(h) >= a - 1
    BY Holders, Zenon
  <2>2. /\ r \in {Base, Nodes, Nodes \ {Source}} /\ a \in Nat
        /\ Route(w) = Nodes \ {Source} => r # Base
    BY Holders, Zenon
  <2>3. /\ IsFiniteSet(Nodes) /\ IsFiniteSet(Base) /\ IsFiniteSet(Nodes \ {Source})
        /\ b \in Nat \ {0} /\ Cardinality(Nodes) = b + 1 /\ Cardinality(Nodes \ {Source}) = b
    <3>1. sc \in Scenarios
      BY Zenon DEF WritesInv, Types
    <3> QED
      BY <3>1, NodeFacts, Zenon
  <2>4. Route(w) \in {Base, Nodes, Nodes \ {Source}}
    <3>1. phase[w] \notin {"new", "registered"} /\ w \in Writes
      BY DataFacts
    <3> QED
      BY <3>1, Zenon DEF QuorumInv, Sent
  <2>5. a >= Level(w)
    BY DataFacts, Zenon DEF QuorumInv, Acknowledged
  <2>6. sc.writes[w].level \in {"QUORUM", "ALL"}
    <3>1. sc \in Scenarios /\ sc \in ScenarioType
      BY WritesConstants, Zenon DEF WritesInv, Types
    <3>2. sc.writes \in Seq([key : STRING, kind : {"PUT", "DELETE"},
                             level : {"ONE", "QUORUM", "ALL"}, waits : BOOLEAN])
      BY <3>1 DEF ScenarioType
    <3>3. w \in 1 .. Len(sc.writes)
      BY DataFacts, Zenon
    <3>4. sc.writes[w] \in [key : STRING, kind : {"PUT", "DELETE"},
                            level : {"ONE", "QUORUM", "ALL"}, waits : BOOLEAN]
      BY <3>2, <3>3, Elements, Zenon
    <3> QED
      BY <3>4
  <2>7. miss \in Nat /\ miss <= Cardinality(r) - Cardinality(h)
    <3>1. IsFiniteSet(r)
      BY <2>2, <2>3, Zenon
    <3> HIDE DEF r
    <3> QED
      BY <2>1, <3>1, Misses, Zenon
  <2>8. /\ Route(w) = Nodes => c = b + 1
        /\ Route(w) # Nodes => c = b
        /\ r = Nodes => Cardinality(r) = b + 1
        /\ r # Nodes => Cardinality(r) = b
    BY <2>2, <2>3, <2>4, Zenon
  <2> HIDE DEF r, a, b, c, miss
  <2>9. c \in Nat \ {0} /\ a >= c \div 2 + 1
    <3>1. c \in Nat \ {0}
      BY <2>3, <2>8
    <3>2. ToInt(sc.writes[w].level, c) \in Nat /\ ToInt(sc.writes[w].level, c) >= c \div 2 + 1
      BY <2>6, <3>1, Majority, Zenon
    <3>3. a >= ToInt(sc.writes[w].level, c)
      BY <2>5, Zenon DEF Level, c
    <3> QED
      BY <2>2, <3>1, <3>2, <3>3
  <2>10. miss < Cardinality(r) \div 2 + 1
    <3>1. Cardinality(h) \in Nat
      BY <2>1
    <3>2. CASE r = Nodes
      BY <2>1, <2>2, <2>3, <2>7, <2>8, <2>9, <3>1, <3>2
    <3>3. CASE r # Nodes
      BY <2>1, <2>2, <2>3, <2>7, <2>8, <2>9, <3>1, <3>3
    <3> QED
      BY <3>2, <3>3
  <2>11. ToInt("QUORUM", Cardinality(r)) = Cardinality(r) \div 2 + 1
    BY DEF ToInt
  <2> QED
    BY <2>10, <2>11, Zenon DEF r, miss
<1> QED
  BY <1>1, <1>2, <1>3, PTL DEF Spec
=============================================================================
