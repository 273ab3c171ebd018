-------------------------- MODULE ReplicaSetProofs --------------------------
(***************************************************************************)
(* What a movement does to the replica set, for any nodes, requests,       *)
(* cancellations, deletions and faults, as long as no node is asked to     *)
(* take the shard twice: every replica holds the whole shard, enough of    *)
(* them are routed to, a cancelled movement leaves nothing behind unless   *)
(* the drop failed, and the movement is the one that MovementLifecycle     *)
(* promises.                                                               *)
(***************************************************************************)
EXTENDS ReplicaMovementProofs

\* No two requests of a scenario have the same target, and none has the source
\* of an earlier MOVE as its target.
TakenOnce ==
    \A s \in Scenarios : \A p, o \in DOMAIN s.reqs :
        p < o => /\ s.reqs[o].tgt # s.reqs[p].tgt
                 /\ s.reqs[p].type = "MOVE" => s.reqs[o].tgt # s.reqs[p].src

Ended == {"READY", "CANCELLED"}
Known(o) == o <= used

\* The operation is on its way.
Active(o) == ops[o] # Gone /\ ops[o].st \notin Ended

Flagged(c) == c.cancel \/ c.del \/ c.st = "CANCELLED"

\* Some node, or the leader, has had n as a replica.
Ever(n) == n \in replicas \/ \E m \in Nodes : n \in reps[m]

\* What was a replica and is none has been the source of a MOVE.
Left ==
    \A n \in Nodes : (n \in plan.holders \/ Ever(n)) /\ n \notin replicas =>
        \E q \in OpIds : Known(q) /\ Type(q) = "MOVE" /\ Src(q) = n

\* Operations under way do not share the source of a MOVE, and no MOVE takes
\* away what another one is adding.
Apart ==
    \A o, p \in OpIds : o # p /\ Active(o) =>
        /\ Active(p) /\ Src(o) = Src(p) => Type(p) = "COPY"
        /\ Known(p) /\ Type(p) = "MOVE" => Src(p) # Tgt(o)

\* The target is new to the replica set, and joins it with SetUnCancellable.
Member(o) ==
    Known(o) => /\ Src(o) # Tgt(o) /\ Tgt(o) \notin plan.holders
                /\ Ever(Tgt(o)) => ops[o] = Gone \/ ops[o].uncan

\* What a state says of the flags, of the replica set and of the directory.
StatusInv(o) ==
    LET s == ops[o]
    IN  s # Gone =>
        /\ s.del => s.cancel
        /\ s.uncan => s.st \in {"FINALIZING", "INTEGRATING", "DEHYDRATING", "READY"}
        /\ s.st \in {"INTEGRATING", "DEHYDRATING", "READY"} => s.uncan
        /\ s.st = "DEHYDRATING" => Type(o) = "MOVE"
        /\ Active(o) /\ s.uncan => Tgt(o) \in replicas
        /\ Active(o) => Src(o) \in replicas \/ s.st = "DEHYDRATING"
        /\ s.st = "FINALIZING" /\ ~s.cancel => shard[Tgt(o)] = "whole"
        /\ s.st = "CANCELLED" => shard[Tgt(o)] = "none" \/ "files" \in kept[o]

\* A copy knows less than the leader: its cancellation and its end stand, and
\* the target's own replica set is at least as recent as the copy.
CopyInv(o, c) ==
    /\ ops[o] # Gone => /\ Flagged(c) => ops[o].cancel \/ ops[o].st = "CANCELLED"
                        /\ c.st \in Ended => ops[o].st \in Ended
    /\ Flagged(c) /\ c.st # "READY" => Tgt(o) \notin replicas
    /\ c.st = "READY" => Tgt(o) \in reps[Tgt(o)] \/ Tgt(o) \notin replicas
    /\ Type(o) = "MOVE" => Src(o) \in reps[Tgt(o)] \/ Src(o) \notin replicas

\* The copy that a worker acts on.
Held(o) ==
    LET w == worker[o]
    IN  w.pc \notin {"idle", "leave"} =>
            CopyInv(o, w.copy) /\ (w.copy.st \notin Ended => ops[o] # Gone)

\* What the worker has done already.
Reached(o) ==
    LET w == worker[o]
    IN  /\ w.pc = "drain" /\ w.next = "exists" => ops[o].uncan
        /\ w.pc = "done" =>
               /\ w.next = "FINALIZING" /\ ~ops[o].cancel => shard[Tgt(o)] = "whole"
               /\ w.next = "INTEGRATING" => ops[o].uncan
               /\ w.next = "DEHYDRATING" => Type(o) = "MOVE"
               /\ w.next = "READY" /\ Type(o) = "MOVE" => Src(o) \notin replicas
        /\ w.pc = "notify" /\ ops[o] # Gone /\ ~ops[o].uncan /\ Flagged(w.copy) =>
               shard[Tgt(o)] = "none" \/ "files" \in kept[o]

CopiesInv(o) ==
    /\ seen[o] # Gone => CopyInv(o, seen[o])
    /\ \A n \in Nodes : consumer[n] # NoMsg /\ consumer[n].op = o =>
           CopyInv(o, consumer[n].copy)

SetInv(o) == Member(o) /\ StatusInv(o) /\ CopiesInv(o) /\ Held(o) /\ Reached(o)

\* A movement that has joined and keeps one replica more than there were: its
\* target is not routed to yet, or its source is no longer.
Busy ==
    {o \in OpIds : /\ Active(o) /\ ops[o].uncan
                   /\ ops[o].st = "DEHYDRATING" => Src(o) \in replicas}

\* f has a replica for each of the first holders, one of its own, and the targets
\* of the busy movements are left over.
Stands(f) ==
    /\ \A g, h \in plan.holders : f[g] = f[h] => g = h
    /\ \A o \in Busy, h \in plan.holders : f[h] # Tgt(o)

Counted == \E f \in [plan.holders -> replicas] : Stands(f)

ReplicaInv ==
    /\ MovementInv /\ ReplicaHoldsData /\ Left /\ Apart /\ Counted
    /\ \A o \in OpIds : SetInv(o)

-----------------------------------------------------------------------------
(* The requests and the sets they are counted with.                        *)

\* Different operations have different targets, and the target of a later one
\* is not the source of an earlier MOVE.
LEMMA Targets ==
    ASSUME TakenOnce, Types, NEW o \in OpIds, NEW p \in OpIds
    PROVE  /\ o # p => Tgt(o) # Tgt(p)
           /\ Type(o) \in {"COPY", "MOVE"}
           /\ p < o /\ Type(p) = "MOVE" => Tgt(o) # Src(p)
<1>1. plan \in Scenarios /\ o \in Nat /\ p \in Nat
  BY PlanFacts DEF Types
<1>2. plan.reqs[o] \in [src : Nodes, tgt : Nodes, type : {"COPY", "MOVE"}]
  <2>1. /\ plan.reqs \in Seq([src : Nodes, tgt : Nodes, type : {"COPY", "MOVE"}])
        /\ o \in 1 .. Len(plan.reqs)
    BY PlanFacts, Zenon
  <2> QED
    BY <2>1, Element, Zenon
<1>3. o # p => o < p \/ p < o
  BY <1>1
<1>4. ASSUME NEW i \in OpIds, NEW j \in OpIds, j < i
      PROVE  Tgt(i) # Tgt(j) /\ (Type(j) = "MOVE" => Tgt(i) # Src(j))
  BY <1>1, <1>4, Zenon DEF TakenOnce, OpIds, Tgt, Src, Type
<1> QED
  BY <1>2, <1>3, <1>4, Zenon DEF Type

\* The replicas that stand in do so when no more movements are busy.
LEMMA CountedStands ==
    ASSUME Counted, UNCHANGED <<plan, replicas>>, Busy' \subseteq Busy
    PROVE  Counted'
<1>1. PICK f \in [plan.holders -> replicas] : Stands(f)
  BY Zenon DEF Counted
<1>2. f \in [plan.holders -> replicas]'
  BY Zenon
<1>3. Stands(f)'
  BY <1>1, Zenon DEF Stands, Tgt
<1> QED
  BY <1>2, <1>3, Zenon DEF Counted

\* What is known of an operation.
LEMMA SetFacts ==
    ASSUME ReplicaInv, NEW o \in OpIds
    PROVE  /\ MovementInv /\ Types /\ Joined(ops[o]) /\ Place(o) /\ WorkerInv(o)
           /\ Member(o) /\ StatusInv(o) /\ CopiesInv(o) /\ Held(o) /\ Reached(o)
           /\ Tgt(o) \in Nodes /\ Src(o) \in Nodes
           /\ ops[o] \in Status \cup {Gone} /\ worker[o] \in Workers
           /\ ops[o] # Gone => ops[o] \in Status /\ Known(o)
           /\ worker[o].pc # "idle" => worker[o].copy \in Copies /\ Known(o)
           /\ ~Known(o) => Fresh(o)
<1>1. MovementInv /\ SetInv(o)
  BY Zenon DEF ReplicaInv
<1>2. used \in Nat /\ o \in Nat
  BY <1>1, PlanFacts DEF MovementInv, Types
<1>3. ~(o > used) <=> Known(o)
  BY <1>2 DEF Known
<1>4. ~Known(o) => Fresh(o)
  BY <1>1, <1>3, OpFacts, Zenon DEF OpInv
<1> QED
  BY <1>1, <1>3, <1>4, OpFacts, PlanFacts, Zenon DEF SetInv, WorkerInv

\* A state that has been left is not come back to.
LEMMA StateStands ==
    ASSUME NEW s \in Status, NEW t \in Status, Later(s, t)
    PROVE  /\ s.st \in Ended => t.st \in Ended
           /\ s.st = "DEHYDRATING" => t.st \in Ended \cup {"DEHYDRATING"}
<1>1. s.st \in States /\ t.st \in States /\ StateRank(s.st) <= StateRank(t.st)
  BY NotGone DEF Later
<1> QED
  BY <1>1 DEF StateRank, States, Ended

\* What a copy knows stands as the status moves on.
LEMMA CopyStands ==
    ASSUME NEW o \in OpIds, NEW c, CopyInv(o, c), UNCHANGED <<plan, replicas, reps>>,
           ops[o] \in Status \cup {Gone}, ops'[o] \in Status \cup {Gone},
           ops'[o] # Gone => ops[o] # Gone /\ Later(ops[o], ops'[o])
    PROVE  CopyInv(o, c)'
<1>1. CASE ops'[o] = Gone
  BY <1>1 DEF CopyInv, Src, Tgt, Type, Flagged
<1>2. CASE ops'[o] # Gone
  <2>1. ops[o] # Gone /\ (ops[o].st \in Ended => ops'[o].st \in Ended)
    BY <1>2, StateStands, Zenon
  <2>2. ops[o].cancel \/ ops[o].st = "CANCELLED" =>
            ops'[o].cancel \/ ops'[o].st = "CANCELLED"
    BY <1>2 DEF Later
  <2> QED
    BY <2>1, <2>2, Zenon DEF CopyInv, Src, Tgt, Type, Flagged
<1> QED
  BY <1>1, <1>2

-----------------------------------------------------------------------------
(* Steps of one operation that leave the replica sets alone.               *)

Local(o) ==
    /\ UNCHANGED <<plan, used, replicas, reps, seen, consumer>>
    /\ \A p \in OpIds \ {o} :
           ops'[p] = ops[p] /\ worker'[p] = worker[p] /\ kept'[p] = kept[p]
    /\ \A n \in Nodes \ {Tgt(o)} : shard'[n] = shard[n]
    /\ ops'[o] # Gone => ops[o] # Gone /\ ops'[o].uncan = ops[o].uncan

\* Another operation does not notice.
LEMMA LocalOthers ==
    ASSUME TakenOnce, ReplicaInv, NEW o \in OpIds, Local(o), NEW p \in OpIds, p # o
    PROVE  SetInv(p)'
<1>1. /\ Types /\ Member(p) /\ StatusInv(p) /\ CopiesInv(p) /\ Held(p) /\ Reached(p)
      /\ Tgt(p) \in Nodes
  BY SetFacts
<1>2. /\ ops'[p] = ops[p] /\ worker'[p] = worker[p] /\ kept'[p] = kept[p]
      /\ shard'[Tgt(p)] = shard[Tgt(p)]
  BY <1>1, Targets, Zenon DEF Local
<1>3. /\ UNCHANGED <<plan, used, replicas, reps, seen, consumer>>
      /\ Src(p)' = Src(p) /\ Tgt(p)' = Tgt(p) /\ Type(p)' = Type(p)
      /\ Known(p)' = Known(p) /\ Active(p)' = Active(p)
  BY <1>2, Zenon DEF Local, Src, Tgt, Type, Known, Active
<1>4. Member(p)'
  BY <1>1, <1>2, <1>3, Zenon DEF Member, Ever
<1>5. StatusInv(p)'
  BY <1>1, <1>2, <1>3, Zenon DEF StatusInv
<1>6. \A c : CopyInv(p, c)' <=> CopyInv(p, c)
  BY <1>2, <1>3, Zenon DEF CopyInv
<1>7. CopiesInv(p)'
  BY <1>1, <1>3, <1>6, Zenon DEF CopiesInv
<1>8. Held(p)'
  BY <1>1, <1>2, <1>6, Zenon DEF Held
<1>9. Reached(p)'
  BY <1>1, <1>2, <1>3, Zenon DEF Reached, Flagged
<1> QED
  BY <1>4, <1>5, <1>7, <1>8, <1>9, Zenon DEF SetInv

\* The step keeps the invariant when it does so for o.
LEMMA LocalStep ==
    ASSUME TakenOnce, ReplicaInv, NEW o \in OpIds, Local(o), Sound,
           StatusInv(o)', Held(o)', Reached(o)',
           Tgt(o) \in replicas => shard'[Tgt(o)] = "whole"
    PROVE  ReplicaInv'
<1>1. /\ MovementInv /\ Types /\ Member(o) /\ CopiesInv(o) /\ Tgt(o) \in Nodes
      /\ ops[o] \in Status \cup {Gone}
  BY SetFacts
<1>2. /\ UNCHANGED <<plan, used, replicas, reps, seen, consumer>>
      /\ OpIds' = OpIds /\ MovementInv' /\ Types'
  BY Zenon DEF Local, OpIds, Sound, MovementInv
<1>3. /\ ops'[o] \in Status \cup {Gone}
      /\ ops'[o] # Gone => ops[o] # Gone /\ Later(ops[o], ops'[o])
  BY <1>2, Zenon DEF Types, Local, Sound
<1>4. /\ \A p : Src(p)' = Src(p) /\ Tgt(p)' = Tgt(p) /\ Type(p)' = Type(p)
      /\ \A p : Known(p)' = Known(p)
  BY <1>2, Zenon DEF Src, Tgt, Type, Known
<1>5. \A p \in OpIds : Active(p)' => Active(p)
  <2>1. Active(o)' => Active(o)
    BY <1>1, <1>3, StateStands, Zenon DEF Active
  <2> QED
    BY <2>1, Zenon DEF Local, Active
<1>6. ReplicaHoldsData'
  BY <1>1, <1>2, Zenon DEF ReplicaHoldsData, ReplicaInv, Local, Types
<1>7. Left'
  BY <1>2, <1>4, Zenon DEF Left, Ever, ReplicaInv
<1>8. Apart'
  BY <1>2, <1>4, <1>5, Zenon DEF Apart, ReplicaInv
<1>9. Counted'
  <2>1. Busy' \subseteq Busy
    <3> SUFFICES ASSUME NEW p \in Busy' PROVE p \in Busy
      OBVIOUS
    <3>1. p \in OpIds /\ Active(p)' /\ Active(p) /\ ops'[p].uncan
      BY <1>2, <1>5, Zenon DEF Busy
    <3>2. CASE p # o
      BY <1>2, <1>4, <3>1, <3>2, Zenon DEF Busy, Local
    <3>3. CASE p = o
      <4>1. ops[o].uncan
        BY <3>1, <3>3, Zenon DEF Local, Active
      <4>2. ops[o].st = "DEHYDRATING" => ops'[o].st = "DEHYDRATING"
        BY <1>1, <1>3, <3>1, <3>3, StateStands, Zenon DEF Active
      <4> QED
        BY <1>2, <1>4, <3>1, <3>3, <4>1, <4>2, Zenon DEF Busy
    <3> QED
      BY <3>2, <3>3
  <2> QED
    BY <1>2, <2>1, CountedStands, Zenon DEF ReplicaInv
<1>10. SetInv(o)'
  <2>1. Member(o)'
    BY <1>1, <1>2, <1>4, Zenon DEF Member, Ever, Local
  <2>2. CopiesInv(o)'
    BY <1>1, <1>2, <1>3, CopyStands, Zenon DEF CopiesInv
  <2> QED
    BY <2>1, <2>2, Zenon DEF SetInv
<1> QED
  BY <1>2, <1>6, <1>7, <1>8, <1>9, <1>10, LocalOthers, Zenon DEF ReplicaInv

\* What a step of o's worker leaves alone here.
Inert(o) ==
    /\ UNCHANGED <<plan, used, replicas, reps, seen, consumer>>
    /\ \A p \in OpIds \ {o} : kept'[p] = kept[p]

\* Files that could not be dropped are still owed for.
Owes(o) == "files" \in kept[o] => "files" \in kept'[o]

\* The directory after the step fits the replica set and the status before it.
Fits(o) ==
    /\ Tgt(o) \in replicas => shard'[Tgt(o)] = "whole"
    /\ ops[o] # Gone /\ ops[o].st = "FINALIZING" /\ ~ops[o].cancel =>
           shard'[Tgt(o)] = "whole"
    /\ ops[o] # Gone /\ ops[o].st = "CANCELLED" =>
           shard'[Tgt(o)] = "none" \/ "files" \in kept'[o]

\* A directory left alone fits.
LEMMA FitsStill ==
    ASSUME ReplicaInv, NEW o \in OpIds, UNCHANGED shard, Owes(o)
    PROVE  Fits(o)
<1>1. StatusInv(o)
  BY SetFacts
<1> QED
  BY <1>1, Zenon DEF Fits, Owes, StatusInv, ReplicaInv, ReplicaHoldsData

\* Stopping a capture, or failing to, is no matter here.
LEMMA StopOwes ==
    ASSUME Types, NEW o \in OpIds, Stopped(o) \/ StillOpen(o)
    PROVE  Owes(o) /\ \A p \in OpIds \ {o} : kept'[p] = kept[p]
<1>1. kept \in [OpIds -> SUBSET {"log", "files"}]
  BY DEF Types
<1> QED
  BY <1>1 DEF Stopped, StillOpen, Owes

\* The status is as good as before when the directory fits it.
LEMMA StatusStands ==
    ASSUME ReplicaInv, NEW o \in OpIds, Inert(o), ops'[o] = ops[o], Fits(o)
    PROVE  StatusInv(o)'
<1>1. StatusInv(o)
  BY SetFacts
<1>2. Src(o)' = Src(o) /\ Tgt(o)' = Tgt(o) /\ Type(o)' = Type(o) /\ Active(o)' = Active(o)
  BY Zenon DEF Inert, Src, Tgt, Type, Active
<1> QED
  BY <1>1, <1>2, Zenon DEF StatusInv, Inert, Fits

\* The copy is as good as before when the operation is there still.
LEMMA HeldStands ==
    ASSUME ReplicaInv, NEW o \in OpIds, Inert(o), Sound,
           worker[o].pc \notin {"idle", "leave"}, worker'[o].copy = worker[o].copy,
           ops'[o] # Gone => ops[o] # Gone,
           ops'[o] = Gone => ops[o] = Gone \/ worker[o].copy.st \in Ended
    PROVE  Held(o)'
<1>1. Held(o) /\ ops[o] \in Status \cup {Gone}
  BY SetFacts
<1>2. /\ ops'[o] \in Status \cup {Gone}
      /\ ops'[o] # Gone => Later(ops[o], ops'[o])
  BY Zenon DEF Sound, MovementInv, Types, Inert, OpIds
<1>3. CopyInv(o, worker[o].copy)
  BY <1>1, Zenon DEF Held
<1>4. CopyInv(o, worker[o].copy)'
  <2> DEFINE c == worker[o].copy
  <2>1. CopyInv(o, c)
    BY <1>3
  <2> HIDE DEF c
  <2>2. UNCHANGED <<plan, replicas, reps>>
    BY Zenon DEF Inert
  <2>3. \A d : CopyInv(o, d) => CopyInv(o, d)'
    BY <1>1, <1>2, <2>2, CopyStands, Zenon
  <2> QED
    BY <2>1, <2>3 DEF c
<1> QED
  BY <1>1, <1>4, Zenon DEF Held

\* Places about which nothing is to be known.
Plain == {"idle", "begin", "try", "copying", "add", "remove", "cleanup", "drop",
          "purge", "leave"}

\* Nothing is asked of a worker in such a place.
LEMMA PlainReached ==
    ASSUME NEW o, worker'[o].pc \in Plain
    PROVE  Reached(o)'
BY DEF Reached, Plain

\* A step that changes nothing but o's worker.
LEMMA QuietStep ==
    ASSUME TakenOnce, ReplicaInv, NEW o \in OpIds, Inert(o), UNCHANGED <<ops, shard>>, Sound,
           Owes(o), Keeps(o), worker[o].pc # "idle",
           \/ worker'[o].pc \in {"idle", "leave"}
           \/ worker[o].pc # "leave" /\ worker'[o].copy = worker[o].copy,
           worker'[o].pc \in Plain \/ Reached(o)'
    PROVE  ReplicaInv'
<1>1. Types /\ Tgt(o) \in Nodes /\ StatusInv(o)
  BY SetFacts
<1>2. Local(o)
  BY <1>1, Zenon DEF Local, Inert, Keeps, Types
<1>3. Fits(o) /\ StatusInv(o)'
  BY FitsStill, StatusStands, Zenon
<1>4. Held(o)'
  <2>1. CASE worker'[o].pc \in {"idle", "leave"}
    BY <2>1, Zenon DEF Held
  <2>2. CASE worker'[o].pc \notin {"idle", "leave"}
    BY <2>2, HeldStands, Zenon
  <2> QED
    BY <2>1, <2>2, Zenon
<1>5. Reached(o)'
  BY PlainReached, Zenon
<1>6. Tgt(o) \in replicas => shard'[Tgt(o)] = "whole"
  BY Zenon DEF ReplicaInv, ReplicaHoldsData
<1> QED
  BY <1>2, <1>3, <1>4, <1>5, <1>6, LocalStep, Zenon

\* The steps of a worker that change nothing else.
LEMMA QuietKeeps ==
    ASSUME TakenOnce, ReplicaInv, Sound, NEW o \in OpIds,
           \/ Begin(o) \/ Interrupted(o) \/ processRegisteredOp(o)
           \/ StopCapture(o) \/ processCancelledOp(o) \/ Leave(o) \/ TimesOut(o)
           \/ NotifyFails(o)
    PROVE  ReplicaInv'
<1>1. MovementInv /\ Types
  BY SetFacts
<1>2. Inert(o) /\ Owes(o) /\ UNCHANGED <<ops, shard>> /\ worker[o].pc # "idle"
  <2>1. UNCHANGED kept \/ Stopped(o) \/ StillOpen(o)
    BY Zenon DEF Begin, Interrupted, processRegisteredOp, StopCapture, Leave, TimesOut,
       NotifyFails, processCancelledOp, StopChangeCapture
  <2>2. Owes(o) /\ \A p \in OpIds \ {o} : kept'[p] = kept[p]
    BY <1>1, <2>1, StopOwes, Zenon DEF Owes
  <2> QED
    BY <2>2 DEF Begin, Interrupted, processRegisteredOp, StopCapture, Leave, TimesOut,
       NotifyFails, processCancelledOp, Handles, Inert
<1>3. ASSUME NEW pc \in {"cleanup", "leave", "try", "drop", "purge"}, GoTo(o, pc),
             worker[o].pc # "leave"
      PROVE  ReplicaInv'
  <2>1. Keeps(o) /\ worker'[o].pc = pc /\ worker'[o].copy = worker[o].copy
    BY <1>1, <1>2, <1>3, GoToKeeps, Zenon DEF Pcs
  <2>2. worker'[o].pc \in Plain
    BY <2>1, Zenon DEF Plain
  <2> QED
    BY <1>2, <1>3, <2>1, <2>2, QuietStep, Zenon
<1>4. CASE Begin(o)
  <2>1. worker[o].pc # "leave" /\ \E pc \in {"cleanup", "leave", "try"} : GoTo(o, pc)
    BY <1>4 DEF Begin
  <2> QED
    BY <1>3, <2>1, Zenon
<1>5. CASE \/ Interrupted(o) \/ StopCapture(o) \/ TimesOut(o) \/ NotifyFails(o)
           \/ processCancelledOp(o)
  <2>1. /\ worker[o].pc # "leave"
        /\ \E pc \in {"cleanup", "leave", "drop", "purge"} : GoTo(o, pc)
    BY <1>5 DEF Interrupted, StopCapture, TimesOut, NotifyFails, processCancelledOp, Handles
  <2> QED
    BY <1>3, <2>1, Zenon
<1>6. CASE processRegisteredOp(o)
  <2>1. Done(o, "HYDRATING") /\ worker[o].pc = "try"
    BY <1>6, Zenon DEF processRegisteredOp, Handles
  <2>2. /\ Keeps(o) /\ worker'[o].pc = "done" /\ worker'[o].copy = worker[o].copy
        /\ worker'[o].next = "HYDRATING"
    BY <1>1, <1>2, <2>1, DoneKeeps, Zenon DEF Nexts
  <2>3. Reached(o)'
    BY <2>2, Zenon DEF Reached
  <2> QED
    BY <1>2, <2>1, <2>2, <2>3, QuietStep, Zenon
<1>7. CASE Leave(o)
  <2>1. Keeps(o) /\ worker'[o].pc = "idle"
    BY <1>1, <1>7, Zenon DEF Leave, Types, Workers, Keeps, Pcs, Nexts, Idle
  <2>2. worker'[o].pc \in Plain
    BY <2>1, Zenon DEF Plain
  <2> QED
    BY <1>2, <2>1, <2>2, QuietStep, Zenon
<1> QED
  BY <1>4, <1>5, <1>6, <1>7, Zenon

\* What an error does to the flags.
LEMMA RegisterErrorFlags ==
    ASSUME NEW s \in Status
    PROVE  /\ RegisterError(s).st = s.st /\ RegisterError(s).uncan = s.uncan
           /\ RegisterError(s).del => s.del
           /\ s.cancel => RegisterError(s).cancel
           /\ s.uncan => RegisterError(s).cancel = s.cancel
<1>1. s # Gone
  BY NotGone, Zenon
<1>2. CASE s.errs < MaxErrors
  BY <1>1, <1>2 DEF RegisterError, Status
<1>3. CASE ~(s.errs < MaxErrors)
  BY <1>1, <1>3, Zenon DEF RegisterError, TriggerCancellation, Status
<1> QED
  BY <1>2, <1>3

\* A status that changes its flags only is as good as before.
LEMMA FlagsStand ==
    ASSUME ReplicaInv, NEW o \in OpIds, Inert(o), ops[o] # Gone, ops'[o] # Gone,
           ops'[o].st = ops[o].st, ops'[o].uncan = ops[o].uncan,
           ops'[o].del => ops'[o].cancel, ops[o].cancel => ops'[o].cancel, Fits(o)
    PROVE  StatusInv(o)'
<1>1. StatusInv(o)
  BY SetFacts
<1>2. Src(o)' = Src(o) /\ Tgt(o)' = Tgt(o) /\ Type(o)' = Type(o) /\ Active(o)' = Active(o)
  BY Zenon DEF Inert, Src, Tgt, Type, Active
<1> QED
  BY <1>1, <1>2, Zenon DEF StatusInv, Inert, Fits

\* The commands of a user and of the cleaner.
LEMMA CommandKeeps ==
    ASSUME TakenOnce, ReplicaInv, Sound, NEW o \in OpIds,
           CancelReplication(o) \/ DeleteReplication(o) \/ Sweep(o)
    PROVE  ReplicaInv'
<1>1. /\ MovementInv /\ Types /\ StatusInv(o) /\ Held(o) /\ Reached(o) /\ Place(o)
      /\ ops[o] # Gone /\ ops[o] \in Status
  BY SetFacts DEF CancelReplication, DeleteReplication, Sweep
<1>2. /\ Inert(o) /\ UNCHANGED <<shard, kept, worker>> /\ ops' = [ops EXCEPT ![o] = ops'[o]]
      /\ Fits(o)
  <2>1. /\ Inert(o) /\ UNCHANGED <<shard, kept, worker>>
        /\ ops' = [ops EXCEPT ![o] = ops'[o]]
    BY <1>1 DEF CancelReplication, DeleteReplication, Sweep, Inert, Types
  <2> QED
    BY <2>1, FitsStill, Zenon DEF Owes
<1>3. CASE CancelReplication(o) \/ DeleteReplication(o)
  <2>1. /\ ops'[o].st = ops[o].st /\ ops'[o].uncan = ops[o].uncan
        /\ ops'[o].cancel /\ ops'[o] \in Status
    <3>1. CASE CancelReplication(o)
      BY <1>1, <3>1, Zenon DEF CancelReplication, TriggerCancellation, Status, Types
    <3>2. CASE DeleteReplication(o)
      BY <1>1, <3>2, Zenon DEF DeleteReplication, TriggerDeletion, Status, Types
    <3> QED
      BY <1>3, <3>1, <3>2
  <2>2. ops'[o] # Gone
    BY <2>1, NotGone, Zenon
  <2>3. StatusInv(o)'
    BY <1>1, <1>2, <2>1, <2>2, FlagsStand, Zenon
  <2>4. Reached(o)'
    BY <1>1, <1>2, <2>1, <2>2, Zenon DEF Reached, Inert, Src, Tgt, Type, Flagged
  <2>5. Held(o)'
    <3>1. CASE worker[o].pc \in {"idle", "leave"}
      BY <1>2, <3>1, Zenon DEF Held
    <3>2. CASE worker[o].pc \notin {"idle", "leave"}
      BY <1>1, <1>2, <2>2, <3>2, HeldStands, Zenon
    <3> QED
      BY <3>1, <3>2
  <2>6. Local(o)
    BY <1>1, <1>2, <2>1, Zenon DEF Local, Inert, Types
  <2>7. Tgt(o) \in replicas => shard'[Tgt(o)] = "whole"
    BY <1>2, Zenon DEF ReplicaInv, ReplicaHoldsData
  <2> QED
    BY <2>3, <2>4, <2>5, <2>6, <2>7, LocalStep, Zenon
<1>4. CASE Sweep(o)
  <2>1. ops[o].st \in Ended /\ ops'[o] = Gone
    BY <1>1, <1>4, Zenon DEF Sweep, Types, Ended
  <2>2. StatusInv(o)'
    BY <2>1, Zenon DEF StatusInv
  <2>3. worker[o].pc \notin {"idle", "leave"} => worker[o].copy.st \in Ended
    BY <1>1, <2>1, Zenon DEF Place
  <2>4. Held(o)'
    <3>1. CASE worker[o].pc \in {"idle", "leave"}
      BY <1>2, <3>1, Zenon DEF Held
    <3>2. CASE worker[o].pc \notin {"idle", "leave"}
      BY <1>1, <1>2, <2>1, <2>3, <3>2, HeldStands, Zenon
    <3> QED
      BY <3>1, <3>2
  <2>5. Reached(o)'
    <3>1. worker[o].pc # "drain"
      BY <1>1, <2>3, Zenon DEF Place, Ended
    <3>2. worker[o].pc # "done"
      BY <1>1, <2>3 DEF Place, Follows, Ended
    <3> QED
      BY <1>2, <2>1, <3>1, <3>2, Zenon DEF Reached
  <2>6. Local(o)
    BY <1>1, <1>2, <2>1, Zenon DEF Local, Inert, Types
  <2>7. Tgt(o) \in replicas => shard'[Tgt(o)] = "whole"
    BY <1>2, Zenon DEF ReplicaInv, ReplicaHoldsData
  <2> QED
    BY <2>2, <2>4, <2>5, <2>6, <2>7, LocalStep, Zenon
<1> QED
  BY <1>3, <1>4

-----------------------------------------------------------------------------
(* Steps of the handlers.                                                  *)

\* A worker whose copy is not of an ended operation has the leader's status.
LEMMA Working ==
    ASSUME ReplicaInv, NEW o \in OpIds, worker[o].pc \notin {"idle", "leave"},
           worker[o].copy.st \notin Ended
    PROVE  /\ ops[o] # Gone /\ ops[o] \in Status /\ ops[o].st = worker[o].copy.st
           /\ Active(o) /\ Known(o) /\ CopyInv(o, worker[o].copy)
<1>1. Held(o) /\ Place(o) /\ (ops[o] # Gone => ops[o] \in Status /\ Known(o))
  BY SetFacts
<1>2. ops[o] # Gone /\ CopyInv(o, worker[o].copy)
  BY <1>1, Zenon DEF Held
<1>3. ops[o].st = worker[o].copy.st
  BY <1>1, <1>2, Zenon DEF Place
<1> QED
  BY <1>1, <1>2, <1>3, Zenon DEF Active

\* The target of an operation that has not joined is no replica, for nobody.
LEMMA NotJoined ==
    ASSUME ReplicaInv, NEW o \in OpIds, ops[o] # Gone, ~ops[o].uncan
    PROVE  Tgt(o) \notin replicas /\ Tgt(o) \notin reps[Tgt(o)]
<1>1. Member(o) /\ Known(o) /\ Tgt(o) \in Nodes
  BY SetFacts
<1> QED
  BY <1>1, Zenon DEF Member, Ever

\* A step that changes o's worker and the directory of its target.
LEMMA ShardStep ==
    ASSUME TakenOnce, ReplicaInv, Sound, NEW o \in OpIds, Inert(o), UNCHANGED ops, Keeps(o),
           worker[o].pc \notin {"idle", "leave"}, worker'[o].copy = worker[o].copy,
           \A n \in Nodes \ {Tgt(o)} : shard'[n] = shard[n], Fits(o),
           worker'[o].pc \in Plain \/ Reached(o)'
    PROVE  ReplicaInv'
<1>1. Types
  BY SetFacts
<1>2. Local(o)
  BY <1>1, Zenon DEF Local, Inert, Keeps, Types
<1>3. StatusInv(o)'
  BY StatusStands, Zenon
<1>4. Held(o)'
  BY HeldStands, Zenon
<1>5. Reached(o)'
  BY PlainReached, Zenon
<1> QED
  BY <1>2, <1>3, <1>4, <1>5, LocalStep, Zenon DEF Fits

\* A failed handler whose directory fits.
LEMMA FailStep ==
    ASSUME TakenOnce, ReplicaInv, Sound, NEW o \in OpIds, HandlerFails(o), Inert(o),
           Fits(o), \A n \in Nodes \ {Tgt(o)} : shard'[n] = shard[n],
           worker[o].pc \notin {"idle", "leave"}
    PROVE  ReplicaInv'
<1>1. /\ MovementInv /\ Types /\ StatusInv(o) /\ ops[o] \in Status \cup {Gone}
      /\ ops[o] # Gone => ops[o] \in Status
  BY SetFacts
<1>2. CASE o \in marked
  <2>1. GoTo(o, "cleanup") /\ UNCHANGED ops
    BY <1>2 DEF HandlerFails
  <2>2. Keeps(o) /\ worker'[o].pc = "cleanup" /\ worker'[o].copy = worker[o].copy
    BY <1>1, <2>1, GoToKeeps, Zenon DEF Pcs
  <2>3. worker'[o].pc \in Plain
    BY <2>2, Zenon DEF Plain
  <2> QED
    BY <2>1, <2>2, <2>3, ShardStep, Zenon
<1>3. CASE o \notin marked
  <2>1. GoTo(o, "leave") /\ ops' = [ops EXCEPT ![o] = RegisterError(@)]
    BY <1>3 DEF HandlerFails
  <2>2. Keeps(o) /\ worker'[o].pc = "leave" /\ worker'[o].copy = worker[o].copy
    BY <1>1, <2>1, GoToKeeps, Zenon DEF Pcs
  <2>3. ops'[o] = RegisterError(ops[o])
    BY <1>1, <2>1, Zenon DEF Types
  <2>4. CASE ops[o] = Gone
    <3>1. UNCHANGED ops
      BY <1>1, <2>1, <2>4 DEF RegisterError, Types
    <3>2. worker'[o].pc \in Plain
      BY <2>2, Zenon DEF Plain
    <3> QED
      BY <2>2, <3>1, <3>2, ShardStep, Zenon
  <2>5. CASE ops[o] # Gone
    <3>1. /\ ops'[o].st = ops[o].st /\ ops'[o].uncan = ops[o].uncan /\ ops'[o] # Gone
          /\ ops'[o].del => ops[o].del
          /\ ops[o].cancel => ops'[o].cancel
      <4> DEFINE t == RegisterError(ops[o])
      <4>1. /\ t.st = ops[o].st /\ t.uncan = ops[o].uncan
            /\ t.del => ops[o].del
            /\ ops[o].cancel => t.cancel
        BY <1>1, <2>5, RegisterErrorFlags, Zenon
      <4>2. t # Gone
        BY <1>1, <2>5, RegisterErrorFacts, OpFacts, Zenon
      <4> QED
        BY <2>3, <4>1, <4>2, Zenon
    <3>2. StatusInv(o)'
      BY <1>1, <2>5, <3>1, FlagsStand, Zenon DEF StatusInv
    <3>3. Local(o)
      BY <1>1, <2>1, <2>2, <2>5, <3>1, Zenon DEF Local, Inert, Keeps, Types
    <3>4. Held(o)' /\ Reached(o)'
      BY <2>2, Zenon DEF Held, Reached
    <3>5. Tgt(o) \in replicas => shard'[Tgt(o)] = "whole"
      BY Zenon DEF Fits
    <3> QED
      BY <3>2, <3>3, <3>4, <3>5, LocalStep, Zenon
  <2> QED
    BY <2>4, <2>5
<1> QED
  BY <1>2, <1>3

\* A failed handler.
LEMMA FailKeeps ==
    ASSUME TakenOnce, ReplicaInv, Sound, NEW o \in OpIds, HandlerFails(o), Inert(o),
           Owes(o), UNCHANGED shard, worker[o].pc \notin {"idle", "leave"}
    PROVE  ReplicaInv'
<1>1. Fits(o) /\ \A n \in Nodes \ {Tgt(o)} : shard'[n] = shard[n]
  BY FitsStill, Zenon
<1> QED
  BY <1>1, FailStep, Zenon

\* Staging files keeps the invariant: the target is no replica yet.
LEMMA HydrateKeeps ==
    ASSUME TakenOnce, ReplicaInv, Sound, NEW o \in OpIds,
           StartHydrating(o) \/ EndHydrating(o)
    PROVE  ReplicaInv'
<1>1. /\ MovementInv /\ Types /\ Place(o) /\ StatusInv(o)
      /\ Tgt(o) \in Nodes /\ Src(o) \in Nodes
  BY SetFacts
<1>2. /\ worker[o].pc \notin {"idle", "leave"} /\ worker[o].copy.st = "HYDRATING"
  BY <1>1 DEF StartHydrating, EndHydrating, Handles, Place
<1>3. Inert(o) /\ Owes(o)
  <2>1. \/ UNCHANGED kept \/ Stopped(o) \/ StillOpen(o)
        \/ kept' = [kept EXCEPT ![o] = @ \ {"log"}]
    BY Zenon DEF StartHydrating, EndHydrating, StopChangeCapture
  <2>2. kept' = [kept EXCEPT ![o] = @ \ {"log"}] =>
            Owes(o) /\ \A p \in OpIds \ {o} : kept'[p] = kept[p]
    BY <1>1 DEF Owes, Types
  <2>3. Owes(o) /\ \A p \in OpIds \ {o} : kept'[p] = kept[p]
    BY <1>1, <2>1, <2>2, StopOwes, Zenon DEF Owes
  <2> QED
    BY <2>3, Zenon DEF StartHydrating, EndHydrating, Inert
<1>4. CASE HandlerFails(o) /\ UNCHANGED shard
  BY <1>2, <1>3, <1>4, FailKeeps, Zenon
<1>5. CASE ~(HandlerFails(o) /\ UNCHANGED shard)
  <2>1. ops[o] # Gone /\ ops[o] \in Status /\ ops[o].st = "HYDRATING" /\ Active(o)
    BY <1>2, Working, Zenon DEF Ended
  <2>2. ~ops[o].uncan
    BY <1>1, <2>1, Zenon DEF StatusInv
  <2>3. Tgt(o) \notin replicas
    BY <2>1, <2>2, NotJoined, Zenon
  <2>4. shard[Src(o)] = "whole" /\ Fits(o)
    BY <1>1, <2>1, <2>3, Zenon DEF StatusInv, ReplicaInv, ReplicaHoldsData, Fits
  <2>5. CASE StartHydrating(o)
    <3>1. /\ GoTo(o, "copying") /\ UNCHANGED ops
          /\ \A n \in Nodes \ {Tgt(o)} : shard'[n] = shard[n]
      BY <1>1, <1>5, <2>5, Zenon DEF StartHydrating, Types
    <3>2. Keeps(o) /\ worker'[o].pc = "copying" /\ worker'[o].copy = worker[o].copy
      BY <1>1, <1>2, <3>1, GoToKeeps, Zenon DEF Pcs
    <3>3. worker'[o].pc \in Plain
      BY <3>2, Zenon DEF Plain
    <3> QED
      BY <1>2, <1>3, <2>4, <3>1, <3>2, <3>3, ShardStep, Zenon
  <2>6. CASE EndHydrating(o)
    <3>1. /\ Done(o, "FINALIZING") /\ UNCHANGED ops
          /\ \A n \in Nodes \ {Tgt(o)} : shard'[n] = shard[n]
          /\ shard'[Tgt(o)] = shard[Src(o)]
      BY <1>1, <1>5, <2>6, Zenon DEF EndHydrating, Types
    <3>2. /\ Keeps(o) /\ worker'[o].copy = worker[o].copy
          /\ worker'[o].pc = "done" /\ worker'[o].next = "FINALIZING"
      BY <1>1, <1>2, <3>1, DoneKeeps, Zenon DEF Nexts
    <3>3. Reached(o)'
      BY <1>3, <2>4, <3>1, <3>2, Zenon DEF Reached, Inert, Tgt
    <3> QED
      BY <1>2, <1>3, <2>4, <3>1, <3>2, <3>3, ShardStep, Zenon
  <2> QED
    BY <2>5, <2>6
<1> QED
  BY <1>4, <1>5, Zenon

\* Loading the shard, draining into it, and the look at the local replica set.
LEMMA FinalizeKeeps ==
    ASSUME TakenOnce, ReplicaInv, Sound, NEW o \in OpIds,
           StartFinalizing(o) \/ DrainFinalizing(o)
    PROVE  ReplicaInv'
<1>1. /\ MovementInv /\ Types /\ Place(o) /\ StatusInv(o) /\ Reached(o)
      /\ Tgt(o) \in Nodes /\ worker[o] \in Workers
  BY SetFacts
<1>2. /\ worker[o].pc \notin {"idle", "leave"} /\ worker[o].copy.st = "FINALIZING"
  BY <1>1, Zenon DEF StartFinalizing, DrainFinalizing, Handles, Place
<1>3. Inert(o) /\ Owes(o)
  BY Zenon DEF StartFinalizing, DrainFinalizing, Inert, Owes
<1>4. /\ ops[o] # Gone /\ ops[o] \in Status /\ ops[o].st = "FINALIZING"
      /\ worker[o].copy \in Copies
  BY <1>2, Working, SetFacts, Zenon DEF Ended
<1>5. ASSUME shard' = [shard EXCEPT ![Tgt(o)] = Loaded(@)]
      PROVE  /\ \A n \in Nodes \ {Tgt(o)} : shard'[n] = shard[n]
             /\ Fits(o)
  <2>1. /\ \A n \in Nodes \ {Tgt(o)} : shard'[n] = shard[n]
        /\ shard'[Tgt(o)] = Loaded(shard[Tgt(o)])
    BY <1>1, <1>5, Zenon DEF Types
  <2>2. /\ Tgt(o) \in replicas => shard[Tgt(o)] = "whole"
        /\ ~ops[o].cancel => shard[Tgt(o)] = "whole"
    BY <1>1, <1>4, Zenon DEF StatusInv, ReplicaInv, ReplicaHoldsData
  <2> QED
    BY <1>4, <2>1, <2>2, Zenon DEF Loaded, Fits
<1>6. CASE StartFinalizing(o)
  <2>1. /\ UNCHANGED ops /\ shard' = [shard EXCEPT ![Tgt(o)] = Loaded(@)]
        /\ worker' = [worker EXCEPT ![o].pc = "drain",
               ![o].next = IF Tgt(o) \in reps[Tgt(o)] THEN "exists" ELSE ""]
    BY <1>6, Zenon DEF StartFinalizing
  <2>2. /\ Keeps(o) /\ worker'[o].pc = "drain" /\ worker'[o].copy = worker[o].copy
        /\ worker'[o].next = "exists" => Tgt(o) \in reps[Tgt(o)]
    BY <1>1, <1>4, <2>1, Zenon DEF Types, Workers, Keeps, Pcs, Nexts
  <2>3. Tgt(o) \in reps[Tgt(o)] => ops[o].uncan
    BY <1>4, NotJoined, Zenon
  <2>4. Reached(o)'
    BY <2>1, <2>2, <2>3, Zenon DEF Reached
  <2> QED
    BY <1>2, <1>3, <1>4, <1>5, <2>1, <2>2, <2>4, ShardStep, Zenon
<1>7. CASE DrainFinalizing(o)
  <2>1. CASE HandlerFails(o) /\ UNCHANGED shard
    BY <1>2, <1>3, <2>1, FailKeeps, Zenon
  <2>2. CASE ~(HandlerFails(o) /\ UNCHANGED shard)
    <3>1. /\ UNCHANGED ops /\ shard' = [shard EXCEPT ![Tgt(o)] = Loaded(@)]
          /\ worker[o].pc = "drain"
          /\ \/ worker[o].next = "exists" /\ Done(o, "INTEGRATING")
             \/ GoTo(o, "add")
      BY <1>7, <2>2, Zenon DEF DrainFinalizing
    <3>2. CASE worker[o].next = "exists" /\ Done(o, "INTEGRATING")
      <4>1. /\ Keeps(o) /\ worker'[o].copy = worker[o].copy
            /\ worker'[o].pc = "done" /\ worker'[o].next = "INTEGRATING"
        BY <1>1, <1>2, <3>2, DoneKeeps, Zenon DEF Nexts
      <4>2. Reached(o)'
        BY <1>1, <3>1, <3>2, <4>1, Zenon DEF Reached
      <4> QED
        BY <1>2, <1>3, <1>4, <1>5, <3>1, <4>1, <4>2, ShardStep, Zenon
    <3>3. CASE GoTo(o, "add")
      <4>1. Keeps(o) /\ worker'[o].pc = "add" /\ worker'[o].copy = worker[o].copy
        BY <1>1, <1>2, <3>3, GoToKeeps, Zenon DEF Pcs
      <4>2. worker'[o].pc \in Plain
        BY <4>1, Zenon DEF Plain
      <4> QED
        BY <1>2, <1>3, <1>4, <1>5, <3>1, <4>1, <4>2, ShardStep, Zenon
    <3> QED
      BY <3>1, <3>2, <3>3
  <2> QED
    BY <2>1, <2>2
<1> QED
  BY <1>6, <1>7

\* Draining and sealing, once the target has joined.
LEMMA IntegrateKeeps ==
    ASSUME TakenOnce, ReplicaInv, Sound, NEW o \in OpIds, processIntegratingOp(o)
    PROVE  ReplicaInv'
<1>1. /\ MovementInv /\ Types /\ StatusInv(o) /\ Tgt(o) \in Nodes
  BY SetFacts
<1>2. /\ worker[o].pc \notin {"idle", "leave"} /\ worker[o].copy.st = "INTEGRATING"
  BY DEF processIntegratingOp, Handles
<1>3. Inert(o) /\ UNCHANGED ops
  <2>1. \A p \in OpIds \ {o} : kept'[p] = kept[p]
    BY <1>1, StopOwes, Zenon DEF processIntegratingOp, StopChangeCapture
  <2> QED
    BY <2>1, Zenon DEF processIntegratingOp, Inert
<1>4. ops[o] # Gone /\ ops[o].st = "INTEGRATING" /\ Active(o)
  BY <1>2, Working, Zenon DEF Ended
<1>5. shard[Tgt(o)] = "whole"
  BY <1>1, <1>4, Zenon DEF StatusInv, ReplicaInv, ReplicaHoldsData
<1>6. shard'[Tgt(o)] = "whole" /\ \A n \in Nodes \ {Tgt(o)} : shard'[n] = shard[n]
  BY <1>1, <1>5, Zenon DEF processIntegratingOp, Types, Loaded
<1>7. Done(o, IF Type(o) = "MOVE" THEN "DEHYDRATING" ELSE "READY")
  BY Zenon DEF processIntegratingOp
<1>8. /\ Keeps(o) /\ worker'[o].copy = worker[o].copy /\ worker'[o].pc = "done"
      /\ worker'[o].next = IF Type(o) = "MOVE" THEN "DEHYDRATING" ELSE "READY"
  BY <1>1, <1>2, <1>7, DoneKeeps, Zenon DEF Nexts
<1>9. Reached(o)' /\ Fits(o)
  BY <1>3, <1>4, <1>6, <1>8, Zenon DEF Reached, Inert, Type, Fits
<1> QED
  BY <1>2, <1>3, <1>6, <1>8, <1>9, ShardStep, Zenon

\* A clean-up drops no replica: what its copy knows stands.
LEMMA DropKeeps ==
    ASSUME TakenOnce, ReplicaInv, Sound, NEW o \in OpIds, dropCancelledOpTargetShard(o)
    PROVE  ReplicaInv'
<1>1. /\ MovementInv /\ Types /\ StatusInv(o) /\ Held(o) /\ Place(o) /\ Joined(ops[o])
      /\ Tgt(o) \in Nodes
  BY SetFacts
<1>2. /\ worker[o].pc \in {"drop", "purge"} /\ worker[o].pc \notin {"idle", "leave"}
      /\ Dropped(o) \/ NotDropped(o)
  BY DEF dropCancelledOpTargetShard
<1>3. /\ \A n \in Nodes \ {Tgt(o)} : shard'[n] = shard[n]
      /\ \A p \in OpIds \ {o} : kept'[p] = kept[p]
      /\ ~MayDrop(o) => shard'[Tgt(o)] = shard[Tgt(o)]
      /\ MayDrop(o) => shard'[Tgt(o)] = "none" \/ "files" \in kept'[o]
      /\ NotDropped(o) => "files" \in kept'[o]
  <2>1. /\ kept \in [OpIds -> SUBSET {"log", "files"}] /\ shard \in [Nodes -> Contents]
    BY <1>1 DEF Types
  <2>2. CASE Dropped(o)
    BY <1>1, <2>1, <2>2 DEF Dropped, NotDropped
  <2>3. CASE NotDropped(o)
    BY <1>1, <2>1, <2>3 DEF NotDropped
  <2> QED
    BY <1>2, <2>2, <2>3
<1>4. Inert(o)
  BY <1>3, Zenon DEF dropCancelledOpTargetShard, Inert
<1>5. CopyInv(o, worker[o].copy)
  BY <1>1, <1>2, Zenon DEF Held
<1>6. MayDrop(o) => Flagged(worker[o].copy) /\ Tgt(o) \notin replicas
  BY <1>5, Zenon DEF MayDrop, Asked, CopyInv, Flagged
<1>7. ops[o] # Gone /\ ~ops[o].uncan /\ Flagged(worker[o].copy) => MayDrop(o)
  BY NotJoined, Zenon DEF MayDrop, Asked, Flagged
<1>8. Fits(o)
  <2>1. Tgt(o) \in replicas => shard'[Tgt(o)] = "whole"
    BY <1>3, <1>6, Zenon DEF ReplicaInv, ReplicaHoldsData
  <2>2. ops[o] # Gone /\ ops[o].st = "FINALIZING" /\ ~ops[o].cancel =>
            shard'[Tgt(o)] = "whole"
    BY <1>1, <1>3, <1>5, <1>6, Zenon DEF StatusInv, CopyInv
  <2>3. ops[o] # Gone /\ ops[o].st = "CANCELLED" => MayDrop(o)
    BY <1>1, <1>2, <1>7, Zenon DEF Place, Flagged, Joined
  <2> QED
    BY <1>3, <2>1, <2>2, <2>3, Zenon DEF Fits
<1>9. CASE HandlerFails(o)
  BY <1>2, <1>3, <1>4, <1>8, <1>9, FailStep, Zenon
<1>10. ASSUME NEW pc \in {"notify", "remove"}, GoTo(o, pc), UNCHANGED ops
       PROVE  ReplicaInv'
  <2>1. Keeps(o) /\ worker'[o].pc = pc /\ worker'[o].copy = worker[o].copy
    BY <1>1, <1>2, <1>10, GoToKeeps, Zenon DEF Pcs
  <2>2. Reached(o)'
    BY <1>3, <1>4, <1>7, <1>10, <2>1, Zenon DEF Reached, Inert, Tgt
  <2> QED
    BY <1>2, <1>3, <1>4, <1>8, <1>10, <2>1, <2>2, ShardStep, Zenon
<1> QED
  BY <1>9, <1>10, Zenon DEF dropCancelledOpTargetShard

\* A step that changes o's status and its worker, and takes the worker out of
\* every handler that has something to know.
LEMMA StatusStep ==
    ASSUME TakenOnce, ReplicaInv, Sound, NEW o \in OpIds, Inert(o), UNCHANGED shard, Keeps(o),
           ops' = [ops EXCEPT ![o] = ops'[o]],
           ops'[o] # Gone => ops[o] # Gone /\ ops'[o].uncan = ops[o].uncan,
           StatusInv(o)', Held(o)', Reached(o)'
    PROVE  ReplicaInv'
<1>1. Types
  BY SetFacts
<1>2. Local(o)
  BY <1>1, Zenon DEF Local, Inert, Keeps, Types
<1>3. Tgt(o) \in replicas => shard'[Tgt(o)] = "whole"
  BY Zenon DEF ReplicaInv, ReplicaHoldsData
<1> QED
  BY <1>2, <1>3, LocalStep, Zenon

\* Removing the operation, and telling the leader of a clean-up.
LEMMA EndKeeps ==
    ASSUME TakenOnce, ReplicaInv, Sound, NEW o \in OpIds,
           RemoveReplicaOp(o) \/ NotifyCancelled(o)
    PROVE  ReplicaInv'
<1>1. /\ MovementInv /\ Types /\ StatusInv(o) /\ Held(o) /\ Place(o) /\ Reached(o)
      /\ WorkerInv(o) /\ ops[o] \in Status \cup {Gone}
  BY SetFacts
<1>2. worker[o].pc \in {"remove", "notify"} /\ Inert(o) /\ UNCHANGED <<shard, kept>>
  BY DEF RemoveReplicaOp, NotifyCancelled, Inert
<1>3. CASE RemoveReplicaOp(o)
  <2>1. /\ worker[o].pc = "remove" /\ Done(o, "DELETED")
        /\ ops'[o] = Gone /\ ops' = [ops EXCEPT ![o] = ops'[o]]
    BY <1>1, <1>3, Zenon DEF RemoveReplicaOp, Types
  <2>2. /\ Keeps(o) /\ worker'[o].copy = worker[o].copy
        /\ worker'[o].pc = "done" /\ worker'[o].next = "DELETED"
    BY <1>1, <2>1, DoneKeeps, Zenon DEF Nexts
  <2>3. worker[o].copy.st \in Ended
    BY <1>1, <2>1, Zenon DEF Place, Ended
  <2>4. Held(o)'
    BY <1>2, <2>1, <2>2, <2>3, HeldStands, Zenon
  <2>5. StatusInv(o)' /\ Reached(o)'
    BY <2>1, <2>2, Zenon DEF StatusInv, Reached
  <2> QED
    BY <1>2, <2>1, <2>2, <2>4, <2>5, StatusStep, Zenon
<1>4. CASE NotifyCancelled(o)
  <2>1. /\ worker[o].pc = "notify" /\ GoTo(o, "leave")
        /\ ops'[o] = CancellationResult(o) /\ ops' = [ops EXCEPT ![o] = ops'[o]]
    BY <1>1, <1>4, Zenon DEF NotifyCancelled, Types
  <2>2. Keeps(o) /\ worker'[o].pc = "leave"
    BY <1>1, <2>1, GoToKeeps, Zenon DEF Pcs
  <2>3. Held(o)' /\ Reached(o)'
    BY <2>2, Zenon DEF Held, Reached
  <2>4. CASE CancellationResult(o) = Gone
    BY <1>2, <2>1, <2>2, <2>3, <2>4, StatusStep, Zenon DEF StatusInv
  <2>5. CASE CancellationResult(o) = ops[o]
    <3>1. StatusInv(o)'
      BY <1>2, <2>1, <2>5, StatusStands, FitsStill, Zenon DEF Owes
    <3> QED
      BY <1>2, <2>1, <2>2, <2>3, <2>5, <3>1, StatusStep, Zenon
  <2>6. CASE /\ CancellationResult(o) = CompleteCancellation(ops[o])
             /\ ops[o] # Gone /\ worker[o].copy.cancel /\ ~worker[o].copy.del
    <3>1. ops[o] \in Status /\ ~ops[o].uncan
      BY <1>1, <2>1, <2>6, Zenon DEF WorkerInv, CancelHeld
    <3>2. shard[Tgt(o)] = "none" \/ "files" \in kept[o]
      BY <1>1, <2>1, <2>6, <3>1, Zenon DEF Reached, Flagged
    <3>3. /\ ops'[o].st = "CANCELLED" /\ ops'[o].uncan = ops[o].uncan
          /\ ops'[o].del = FALSE
      BY <2>1, <2>6, <3>1, Zenon DEF CompleteCancellation, Status
    <3>4. StatusInv(o)'
      BY <1>2, <3>1, <3>2, <3>3, Zenon DEF StatusInv, Active, Ended, Inert, Tgt
    <3> QED
      BY <1>2, <2>1, <2>2, <2>3, <2>6, <3>3, <3>4, StatusStep, Zenon
  <2> QED
    BY <2>4, <2>5, <2>6, Zenon DEF CancellationResult
<1> QED
  BY <1>3, <1>4

\* What the leader's status is once it has been told of the next state.
LEMMA UpdateStatus ==
    ASSUME ReplicaInv, NEW o \in OpIds, worker[o].pc = "done", UpdateOpStatus(o),
           Inert(o), UNCHANGED shard
    PROVE  /\ StatusInv(o)' /\ ops' = [ops EXCEPT ![o] = ops'[o]]
           /\ ops[o] # Gone /\ ops'[o] # Gone /\ ops'[o].uncan = ops[o].uncan
           /\ <<ops[o].st, worker[o].next>> \in Follows
           /\ ops'[o].st = worker[o].next
<1>1. /\ MovementInv /\ Types /\ StatusInv(o) /\ Place(o) /\ Reached(o)
      /\ ops[o] # Gone /\ ops[o] \in Status
  BY SetFacts DEF UpdateOpStatus
<1>2. /\ Moves(o) /\ ops'[o] # Gone /\ ops'[o].st = worker[o].next
      /\ worker[o].next \in States \ {"CANCELLED"}
  BY <1>1, UpdateMoves, Zenon
<1>3. <<ops[o].st, worker[o].next>> \in Follows
  BY <1>1, Zenon DEF Place
<1>4. /\ ops[o].st \notin Ended
      /\ ops[o].st \in {"FINALIZING", "INTEGRATING", "DEHYDRATING"} =>
             worker[o].next \in {"INTEGRATING", "DEHYDRATING", "READY"}
      /\ worker[o].next \in {"DEHYDRATING", "READY"} =>
             ops[o].st \in {"INTEGRATING", "DEHYDRATING"}
      /\ ops[o].st = "DEHYDRATING" => worker[o].next = "READY"
  BY <1>3 DEF Follows, Ended
<1>5. /\ ops'[o].uncan = ops[o].uncan /\ ops'[o].cancel = ops[o].cancel
      /\ ops'[o].del = ops[o].del
  <2>1. ops'[o] = ChangeState(ops[o], worker[o].next)
    BY <1>1, Zenon DEF UpdateOpStatus, Types
  <2> QED
    BY <1>1, <2>1, Zenon DEF ChangeState, Status
<1>6. Src(o)' = Src(o) /\ Tgt(o)' = Tgt(o) /\ Type(o)' = Type(o) /\ Active(o)
      /\ (Active(o)' => worker[o].next \notin Ended)
  BY <1>1, <1>2, <1>4, Zenon DEF Inert, Src, Tgt, Type, Active
<1>7. StatusInv(o)'
  <2>1. /\ ops[o].del => ops[o].cancel
        /\ ops[o].uncan => worker[o].next \in {"INTEGRATING", "DEHYDRATING", "READY"}
        /\ worker[o].next \in {"INTEGRATING", "DEHYDRATING", "READY"} => ops[o].uncan
        /\ worker[o].next = "DEHYDRATING" => Type(o) = "MOVE"
        /\ ops[o].uncan => Tgt(o) \in replicas
        /\ Src(o) \in replicas \/ ops[o].st = "DEHYDRATING"
        /\ worker[o].next = "FINALIZING" /\ ~ops[o].cancel => shard[Tgt(o)] = "whole"
    BY <1>1, <1>4, <1>6 DEF StatusInv, Reached, Ended
  <2> QED
    BY <1>2, <1>4, <1>5, <1>6, <2>1, Zenon DEF StatusInv, Ended, Inert
<1> QED
  BY <1>1, <1>2, <1>3, <1>5, <1>7, Zenon DEF Moves

\* Reporting the next state, whether the answer arrives or not.
LEMMA TransitionKeeps ==
    ASSUME TakenOnce, ReplicaInv, Sound, NEW o \in OpIds, Transition(o)
    PROVE  ReplicaInv'
<1>1. /\ MovementInv /\ Types /\ Held(o) /\ worker[o] \in Workers /\ worker[o].pc = "done"
      /\ worker[o].copy \in Copies /\ Place(o)
  BY SetFacts, Zenon DEF Transition
<1>2. Inert(o) /\ Owes(o) /\ UNCHANGED shard
  BY Zenon DEF Transition, Inert, Owes
<1>3. ASSUME NEW pc \in {"cleanup", "leave"}, GoTo(o, pc), UNCHANGED ops
      PROVE  ReplicaInv'
  <2>1. Keeps(o) /\ worker'[o].pc = pc /\ worker'[o].copy = worker[o].copy
    BY <1>1, <1>3, GoToKeeps, Zenon DEF Pcs
  <2>2. worker'[o].pc \in Plain
    BY <2>1, Zenon DEF Plain
  <2> QED
    BY <1>1, <1>2, <1>3, <2>1, <2>2, QuietStep, Zenon
<1>4. ASSUME UpdateOpStatus(o),
             worker' = [worker EXCEPT
                 ![o].pc = IF worker[o].next = "READY" THEN "leave" ELSE "try",
                 ![o].copy.st = worker[o].next, ![o].next = ""]
      PROVE  ReplicaInv'
  <2>1. /\ StatusInv(o)' /\ ops' = [ops EXCEPT ![o] = ops'[o]]
        /\ ops[o] # Gone /\ ops'[o] # Gone /\ ops'[o].uncan = ops[o].uncan
        /\ <<ops[o].st, worker[o].next>> \in Follows
    BY <1>1, <1>2, <1>4, UpdateStatus, Zenon
  <2>2. /\ worker[o].next \in States \ {"CANCELLED"} /\ ops[o].st # "READY"
    BY <2>1 DEF Follows, States
  <2>3. worker'[o] = [worker[o] EXCEPT
            !.pc = IF worker[o].next = "READY" THEN "leave" ELSE "try",
            !.copy = [worker[o].copy EXCEPT !.st = worker[o].next], !.next = ""]
    BY <1>1, <1>4, Zenon DEF Types
  <2>4. [worker[o].copy EXCEPT !.st = worker[o].next] \in Copies
    BY <1>1, <2>2 DEF Copies
  <2>5. worker'[o] \in Workers
    BY <1>1, <2>3, <2>4, Zenon DEF Workers, Pcs, Nexts
  <2>6. /\ worker'[o].copy \in Copies /\ worker'[o].copy.st = worker[o].next
        /\ worker'[o].copy.cancel = worker[o].copy.cancel
        /\ worker'[o].copy.del = worker[o].copy.del
        /\ worker'[o].pc = IF worker[o].next = "READY" THEN "leave" ELSE "try"
    BY <1>1, <2>2, <2>3, <2>4 DEF Workers, Copies
  <2>7. Keeps(o)
    <3>1. worker' = [worker EXCEPT ![o] = worker'[o]]
      BY <1>1, <1>4, ZenonT(30) DEF Types
    <3> QED
      BY <2>5, <2>6, <3>1, Zenon DEF Keeps
  <2>8. Reached(o)'
    <3>1. worker'[o].pc \in Plain
      BY <2>6 DEF Plain
    <3> QED
      BY <3>1, PlainReached, Zenon
  <2>9. Held(o)'
    <3>1. CASE worker[o].next = "READY"
      BY <2>6, <3>1, Zenon DEF Held
    <3>2. CASE worker[o].next # "READY"
      <4>1. CopyInv(o, worker[o].copy) /\ worker[o].copy.st # "READY"
        BY <1>1, <2>1, <2>2, Zenon DEF Held, Place
      <4>2. Later(ops[o], ops'[o])
        BY <2>1, Zenon DEF Sound
      <4>3. worker'[o].copy.st \notin Ended
        BY <2>2, <2>6, <3>2, Zenon DEF Ended
      <4>4. Flagged(worker'[o].copy) => Flagged(worker[o].copy)
        BY <2>6, <4>3, Zenon DEF Flagged, Ended
      <4>5. CopyInv(o, worker[o].copy)'
        BY <1>2, <2>1, <4>1, <4>2, <4>3, <4>4, Zenon
        DEF CopyInv, Later, Inert, Ended, Src, Tgt, Type, Flagged
      <4> QED
        BY <2>1, <4>5, Zenon DEF Held
    <3> QED
      BY <3>1, <3>2
  <2> QED
    BY <1>2, <2>1, <2>7, <2>8, <2>9, StatusStep, Zenon
<1> QED
  BY <1>3, <1>4, Zenon DEF Transition

\* A step fails, or the answer to a transition is lost.
LEMMA FaultKeeps ==
    ASSUME TakenOnce, ReplicaInv, Sound, NEW o \in OpIds,
           \/ StepFails(o)
           \/ AnswerLost(o) /\ worker[o].pc = "done"
    PROVE  ReplicaInv'
<1>1. MovementInv
  BY SetFacts
<1>2. CASE StepFails(o)
  <2>1. HandlerFails(o) /\ Inert(o) /\ Owes(o) /\ UNCHANGED shard
    <3>1. UNCHANGED kept \/ Stopped(o) \/ StillOpen(o)
      BY <1>2, Zenon DEF StepFails
    <3>2. Owes(o) /\ \A p \in OpIds \ {o} : kept'[p] = kept[p]
      BY <3>1, StopOwes, SetFacts, Zenon DEF Owes
    <3> QED
      BY <1>2, <3>2, Zenon DEF StepFails, Inert
  <2>2. worker[o].pc \notin {"idle", "leave"}
    BY <1>2 DEF StepFails, Handles
  <2> QED
    BY <2>1, <2>2, FailKeeps, Zenon
<1>3. CASE AnswerLost(o) /\ worker[o].pc = "done"
  <2>1. UpdateOpStatus(o) /\ GoTo(o, "leave") /\ Inert(o) /\ UNCHANGED shard
    BY <1>3, Zenon DEF AnswerLost, Inert
  <2>2. Keeps(o) /\ worker'[o].pc = "leave"
    BY <1>1, <1>3, <2>1, GoToKeeps, Zenon DEF Pcs
  <2>3. Held(o)' /\ Reached(o)'
    BY <2>2, Zenon DEF Held, Reached
  <2> QED
    BY <1>3, <2>1, <2>2, <2>3, UpdateStatus, StatusStep, Zenon
<1> QED
  BY <1>2, <1>3

-----------------------------------------------------------------------------
(* Steps that change the replica set.                                      *)

\* A target joins: the other operations do not notice.
LEMMA JoinOthers ==
    ASSUME TakenOnce, ReplicaInv, NEW o \in OpIds, Active(o), ~ops[o].uncan,
           UNCHANGED <<plan, used, reps, seen, consumer, shard, kept>>,
           \A p \in OpIds \ {o} : ops'[p] = ops[p] /\ worker'[p] = worker[p],
           replicas' = replicas \cup {Tgt(o)}, NEW p \in OpIds, p # o
    PROVE  SetInv(p)'
<1>1. /\ Types /\ Member(p) /\ StatusInv(p) /\ CopiesInv(p) /\ Held(p) /\ Reached(p)
      /\ (worker[p].pc # "idle" => Known(p)) /\ (~Known(p) => Fresh(p))
  BY SetFacts, Zenon
<1>2. Tgt(p) # Tgt(o) /\ (Known(p) /\ Type(p) = "MOVE" => Src(p) # Tgt(o))
  BY <1>1, Targets, Zenon DEF ReplicaInv, Apart
<1>3. /\ ops'[p] = ops[p] /\ worker'[p] = worker[p]
      /\ Src(p)' = Src(p) /\ Tgt(p)' = Tgt(p) /\ Type(p)' = Type(p)
      /\ Known(p)' = Known(p) /\ Active(p)' = Active(p)
  BY Zenon DEF Src, Tgt, Type, Known, Active
<1>4. /\ Tgt(p) \in replicas' <=> Tgt(p) \in replicas
      /\ Src(p) \in replicas => Src(p) \in replicas'
      /\ Known(p) /\ Type(p) = "MOVE" => (Src(p) \in replicas' <=> Src(p) \in replicas)
  BY <1>2, Zenon
<1>5. Member(p)'
  BY <1>1, <1>3, <1>4, Zenon DEF Member, Ever
<1>6. StatusInv(p)'
  BY <1>1, <1>3, <1>4, ZenonT(40), SMTT(30) DEF StatusInv
<1>7. ASSUME NEW c, CopyInv(p, c), Known(p) PROVE CopyInv(p, c)'
  BY <1>3, <1>4, <1>7, Zenon DEF CopyInv, Flagged
<1>8. CopiesInv(p)'
  BY <1>1, <1>3, <1>7, Zenon DEF CopiesInv, Fresh
<1>9. Held(p)'
  BY <1>1, <1>3, <1>7, Zenon DEF Held
<1>10. Reached(p)'
  BY <1>1, <1>3, <1>4, Zenon DEF Reached, Flagged
<1> QED
  BY <1>5, <1>6, <1>8, <1>9, <1>10, Zenon DEF SetInv

\* o joins: the add of FINALIZING takes effect for the first time.
Joins(o) ==
    /\ worker[o].pc = "add" /\ CanJoin(o) /\ ~ops[o].uncan
    /\ UNCHANGED <<plan, used, reps, seen, consumer, shard, kept>>
    /\ replicas' = replicas \cup {Tgt(o)}
    /\ ops' = [ops EXCEPT ![o] = ops'[o]] /\ ops'[o] # Gone
    /\ ops'[o].st = ops[o].st /\ ops'[o].uncan /\ ~ops'[o].cancel /\ ~ops'[o].del
    /\ Keeps(o)
    /\ \/ worker'[o].pc = "leave"
       \/ /\ worker'[o].pc = "done" /\ worker'[o].next = "INTEGRATING"
          /\ worker'[o].copy = worker[o].copy

\* Joining keeps the invariant of o itself: no copy says that it is cancelled.
LEMMA JoinSelf ==
    ASSUME ReplicaInv, NEW o \in OpIds, Joins(o)
    PROVE  /\ SetInv(o)' /\ Active(o) /\ Active(o)'
           /\ Tgt(o) \notin replicas /\ shard[Tgt(o)] = "whole"
<1>1. /\ Types /\ Member(o) /\ StatusInv(o) /\ CopiesInv(o) /\ Held(o) /\ Place(o)
  BY SetFacts
<1>2. /\ worker[o].pc = "add" /\ ops[o] # Gone /\ ~ops[o].cancel /\ ~ops[o].uncan
  BY Zenon DEF Joins, CanJoin
<1>3. worker[o].copy.st = "FINALIZING"
  BY <1>1, <1>2, Zenon DEF Place
<1>4. ops[o].st = "FINALIZING" /\ Active(o) /\ Known(o)
  BY <1>2, <1>3, Working, Zenon DEF Ended
<1>5. Tgt(o) \notin replicas /\ shard[Tgt(o)] = "whole" /\ Src(o) # Tgt(o)
  BY <1>1, <1>2, <1>4, NotJoined, Zenon DEF StatusInv, Member
<1>6. /\ Src(o)' = Src(o) /\ Tgt(o)' = Tgt(o) /\ Type(o)' = Type(o) /\ Active(o)'
      /\ plan' = plan /\ reps' = reps /\ seen' = seen /\ consumer' = consumer
      /\ shard' = shard /\ used' = used
  BY <1>4, Zenon DEF Src, Tgt, Type, Active, Joins
<1>7. /\ Tgt(o) \in replicas'
      /\ Src(o) \in replicas' <=> Src(o) \in replicas
  BY <1>5, Zenon DEF Joins
<1>8. ASSUME NEW c, CopyInv(o, c) PROVE CopyInv(o, c)' /\ ~Flagged(c) /\ c.st \notin Ended
  <2>1. ~Flagged(c) /\ c.st \notin Ended
    BY <1>2, <1>4, <1>8, Zenon DEF CopyInv, Ended
  <2> QED
    BY <1>6, <1>7, <1>8, <2>1, Zenon DEF CopyInv, Ended, Flagged
<1>9. Member(o)'
  BY <1>1, <1>4, <1>6, Zenon DEF Member, Known, Joins
<1>10. StatusInv(o)'
  <2>1. Src(o) \in replicas
    BY <1>1, <1>2, <1>4, Zenon DEF StatusInv
  <2>2. ops'[o].st = "FINALIZING" /\ ops'[o].uncan /\ ~ops'[o].del
    BY <1>4, Zenon DEF Joins
  <2> QED
    BY <1>5, <1>6, <1>7, <2>1, <2>2, Zenon DEF StatusInv
<1>11. CopiesInv(o)'
  BY <1>1, <1>6, <1>8, Zenon DEF CopiesInv
<1>12. Held(o)'
  BY <1>1, <1>2, <1>8, Zenon DEF Held, Joins
<1>13. Reached(o)'
  BY Zenon DEF Reached, Joins
<1> QED
  BY <1>4, <1>5, <1>6, <1>9, <1>10, <1>11, <1>12, <1>13, Zenon DEF SetInv

\* Joining keeps the invariant: there is one replica more, and one movement more
\* that keeps one.
LEMMA JoinStep ==
    ASSUME TakenOnce, ReplicaInv, Sound, NEW o \in OpIds, Joins(o)
    PROVE  ReplicaInv'
<1>1. /\ SetInv(o)' /\ Active(o) /\ Active(o)'
      /\ Tgt(o) \notin replicas /\ shard[Tgt(o)] = "whole"
  BY JoinSelf
<1>2. Types /\ ~ops[o].uncan
  BY SetFacts, Zenon DEF Joins
<1>3. /\ UNCHANGED <<plan, used, reps, seen, consumer, shard, kept>> /\ OpIds' = OpIds
      /\ replicas' = replicas \cup {Tgt(o)} /\ MovementInv'
      /\ \A p \in OpIds \ {o} : ops'[p] = ops[p] /\ worker'[p] = worker[p]
  BY <1>2, Zenon DEF Joins, OpIds, Keeps, Types, Sound
<1>4. \A p \in OpIds : p # o => SetInv(p)'
  BY <1>1, <1>2, <1>3, JoinOthers, Zenon
<1>5. /\ \A p : Src(p)' = Src(p) /\ Tgt(p)' = Tgt(p) /\ Type(p)' = Type(p)
      /\ \A p : Known(p)' = Known(p)
      /\ \A p \in OpIds : Active(p)' <=> Active(p)
  BY <1>1, <1>3, Zenon DEF Src, Tgt, Type, Known, Active
<1>6. ReplicaHoldsData'
  BY <1>1, <1>3, Zenon DEF ReplicaHoldsData, ReplicaInv
<1>7. Left'
  BY <1>3, <1>5, Zenon DEF Left, Ever, ReplicaInv
<1>8. Apart'
  BY <1>3, <1>5, Zenon DEF Apart, ReplicaInv
<1>9. Counted'
  <2>1. Busy' \subseteq Busy \cup {o}
    <3> SUFFICES ASSUME NEW p \in Busy', p # o PROVE p \in Busy
      BY Zenon
    <3>1. /\ p \in OpIds /\ Active(p) /\ ops[p].uncan
          /\ ops[p].st = "DEHYDRATING" => Src(p) \in replicas'
      BY <1>3, <1>5, Zenon DEF Busy
    <3>2. ops[p].st = "DEHYDRATING" => Type(p) = "MOVE" /\ Known(p)
      BY <3>1, SetFacts, Zenon DEF StatusInv, Active
    <3>3. ops[p].st = "DEHYDRATING" => Src(p) # Tgt(o)
      BY <1>1, <3>1, <3>2, Zenon DEF ReplicaInv, Apart
    <3> QED
      BY <1>3, <3>1, <3>3, Zenon DEF Busy
  <2>2. PICK f \in [plan.holders -> replicas] : Stands(f)
    BY Zenon DEF Counted, ReplicaInv
  <2>3. f \in [plan.holders -> replicas \cup {Tgt(o)}] /\ \A h \in plan.holders : f[h] # Tgt(o)
    BY <1>1
  <2>4. f \in [plan.holders -> replicas]'
    BY <1>3, <2>3, Zenon
  <2>5. Stands(f)'
    BY <1>3, <1>5, <2>1, <2>2, <2>3, Zenon DEF Stands
  <2> QED
    BY <2>4, <2>5, Zenon DEF Counted
<1> QED
  BY <1>1, <1>3, <1>4, <1>6, <1>7, <1>8, <1>9, Zenon DEF ReplicaInv

\* What the add of FINALIZING makes of the status, when its answer is lost too.
LEMMA Added ==
    ASSUME ReplicaInv, NEW o \in OpIds, CanJoin(o),
           \/ ops'[o] = [ops[o] EXCEPT !.uncan = TRUE]
           \/ ops'[o] = RegisterError([ops[o] EXCEPT !.uncan = TRUE])
    PROVE  /\ ops[o] # Gone /\ ops[o] \in Status
           /\ ops[o].cancel = FALSE /\ ops[o].del = FALSE
           /\ ops'[o].st = ops[o].st /\ ops'[o].uncan
           /\ ~ops'[o].cancel /\ ~ops'[o].del /\ ops'[o] # Gone
<1> DEFINE t == [ops[o] EXCEPT !.uncan = TRUE]
<1>1. StatusInv(o) /\ (ops[o] # Gone => ops[o] \in Status)
  BY SetFacts
<1>2. /\ ops[o] # Gone /\ ops[o] \in Status /\ ops[o].st # "CANCELLED"
      /\ ops[o].cancel = FALSE /\ ops[o].del = FALSE
  BY <1>1 DEF CanJoin, StatusInv, Status
<1>3. /\ t \in Status /\ t.st = ops[o].st /\ t.uncan /\ ~t.cancel /\ ~t.del
  BY <1>2, Zenon DEF Status
<1>4. t # Gone
  BY <1>3, NotGone, Zenon
<1>5. CASE ops'[o] = t
  BY <1>2, <1>3, <1>4, <1>5, Zenon
<1>6. CASE ops'[o] = RegisterError(t)
  <2>1. Joined(t)
    BY <1>2, <1>3, Zenon DEF Joined
  <2> HIDE DEF t
  <2>2. /\ RegisterError(t).st = t.st /\ RegisterError(t).uncan = t.uncan
        /\ RegisterError(t).del => t.del
        /\ RegisterError(t).cancel = t.cancel
    BY <1>3, RegisterErrorFlags, Zenon
  <2>3. RegisterError(t) # Gone
    BY <1>3, <1>4, <2>1, RegisterErrorFacts, Zenon
  <2> QED
    BY <1>2, <1>3, <1>6, <2>2, <2>3, Zenon
<1> QED
  BY <1>5, <1>6, Zenon

\* The add of FINALIZING, whether its answer arrives or not, and for the first
\* time or again.
LEMMA AddKeeps ==
    ASSUME TakenOnce, ReplicaInv, Sound, NEW o \in OpIds,
           \/ ReplicationAddReplicaToShard(o)
           \/ AnswerLost(o) /\ worker[o].pc = "add"
    PROVE  ReplicaInv'
<1>1. /\ MovementInv /\ Types /\ StatusInv(o) /\ Joined(ops[o])
      /\ ops[o] # Gone => ops[o] \in Status
  BY SetFacts
<1>2. worker[o].pc = "add" /\ UNCHANGED <<plan, used, reps, seen, consumer, shard, kept>>
  BY Zenon DEF ReplicationAddReplicaToShard, AnswerLost
<1>3. CASE HandlerFails(o) /\ UNCHANGED replicas
  <2>1. Inert(o) /\ Owes(o)
    BY <1>2, <1>3, Zenon DEF Inert, Owes
  <2> QED
    BY <1>2, <1>3, <2>1, FailKeeps, Zenon
<1>4. CASE GoTo(o, "cleanup") /\ UNCHANGED <<ops, replicas>>
  <2>1. Keeps(o) /\ worker'[o].pc = "cleanup" /\ worker'[o].copy = worker[o].copy
    BY <1>1, <1>2, <1>4, GoToKeeps, Zenon DEF Pcs
  <2>2. Inert(o) /\ Owes(o) /\ worker'[o].pc \in Plain
    BY <1>2, <1>4, <2>1, Zenon DEF Inert, Owes, Plain
  <2> QED
    BY <1>2, <1>4, <2>1, <2>2, QuietStep, Zenon
<1>5. ASSUME CanJoin(o), replicas' = replicas \cup {Tgt(o)}, Keeps(o),
             ops' = [ops EXCEPT ![o] = ops'[o]],
             \/ /\ ops'[o] = [ops[o] EXCEPT !.uncan = TRUE]
                /\ worker'[o].pc = "done" /\ worker'[o].next = "INTEGRATING"
                /\ worker'[o].copy = worker[o].copy
             \/ /\ ops'[o] = RegisterError([ops[o] EXCEPT !.uncan = TRUE])
                /\ worker'[o].pc = "leave"
      PROVE  ReplicaInv'
  <2>1. /\ ops[o] # Gone /\ ops[o] \in Status
        /\ ops[o].cancel = FALSE /\ ops[o].del = FALSE
        /\ ops'[o].st = ops[o].st /\ ops'[o].uncan
        /\ ~ops'[o].cancel /\ ~ops'[o].del /\ ops'[o] # Gone
    BY <1>5, Added, Zenon
  <2>2. CASE ~ops[o].uncan
    <3>1. Joins(o)
      BY <1>2, <1>5, <2>1, <2>2, Zenon DEF Joins
    <3> QED
      BY <3>1, JoinStep, Zenon
  <2>3. CASE ops[o].uncan
    <3>1. Active(o)
      <4>1. Place(o) /\ (worker[o].pc = "add" => worker[o].copy.st = "FINALIZING")
        BY SetFacts, Zenon DEF Place
      <4> QED
        BY <1>2, <4>1, Working, Zenon DEF Ended
    <3>2. replicas' = replicas
      BY <1>1, <1>5, <2>1, <2>3, <3>1, Zenon DEF StatusInv
    <3>3. Inert(o) /\ Fits(o)
      BY <1>2, <3>2, FitsStill, Zenon DEF Inert, Owes
    <3>4. StatusInv(o)'
      BY <1>2, <2>1, <2>3, <3>3, FlagsStand, Zenon
    <3>5. Held(o)'
      <4>1. CASE worker'[o].pc = "leave"
        BY <4>1, Zenon DEF Held
      <4>2. CASE worker'[o].copy = worker[o].copy
        BY <1>2, <2>1, <3>3, <4>2, HeldStands, Zenon
      <4> QED
        BY <1>5, <4>1, <4>2, Zenon
    <3>6. Reached(o)'
      BY <1>5, <2>1, Zenon DEF Reached
    <3>7. ops'[o].uncan = ops[o].uncan
      <4>1. ops'[o] \in Status
        BY <1>2, <2>1, Zenon DEF Sound, MovementInv, Types, OpIds
      <4> QED
        BY <2>1, <2>3, <4>1, Zenon DEF Status
    <3> QED
      BY <1>2, <1>5, <2>1, <3>3, <3>4, <3>5, <3>6, <3>7, StatusStep, Zenon
  <2> QED
    BY <2>2, <2>3
<1>6. CASE ReplicationAddReplicaToShard(o)
  <2>1. CASE AddReplica(o) /\ Done(o, "INTEGRATING")
    <3>1. /\ Keeps(o) /\ worker'[o].copy = worker[o].copy
          /\ worker'[o].pc = "done" /\ worker'[o].next = "INTEGRATING"
      BY <1>1, <1>2, <2>1, DoneKeeps, Zenon DEF Nexts
    <3>2. /\ CanJoin(o) /\ replicas' = replicas \cup {Tgt(o)}
          /\ ops' = [ops EXCEPT ![o] = [ops[o] EXCEPT !.uncan = TRUE]]
      BY <2>1 DEF AddReplica
    <3>3. ops'[o] = [ops[o] EXCEPT !.uncan = TRUE] /\ ops' = [ops EXCEPT ![o] = ops'[o]]
      BY <1>1, <3>2, Zenon DEF Types
    <3> QED
      BY <1>5, <3>1, <3>2, <3>3, Zenon
  <2>2. CASE ~(AddReplica(o) /\ Done(o, "INTEGRATING"))
    BY <1>3, <1>4, <1>6, <2>2, Zenon DEF ReplicationAddReplicaToShard
  <2> QED
    BY <2>1, <2>2
<1>7. CASE AnswerLost(o)
  <2>1. Keeps(o) /\ worker'[o].pc = "leave"
    BY <1>1, <1>2, <1>7, GoToKeeps, Zenon DEF Pcs, AnswerLost
  <2>2. /\ CanJoin(o) /\ replicas' = replicas \cup {Tgt(o)}
        /\ ops' = [ops EXCEPT ![o] = RegisterError([ops[o] EXCEPT !.uncan = TRUE])]
    BY <1>2, <1>7, Zenon DEF AnswerLost
  <2>3. /\ ops'[o] = RegisterError([ops[o] EXCEPT !.uncan = TRUE])
        /\ ops' = [ops EXCEPT ![o] = ops'[o]]
    BY <1>1, <2>2, Zenon DEF Types
  <2> QED
    BY <1>5, <2>1, <2>2, <2>3, Zenon
<1> QED
  BY <1>6, <1>7, Zenon

\* o sheds its source.
Sheds(o) ==
    /\ worker[o].pc = "try" /\ worker[o].copy.st = "DEHYDRATING"
    /\ UNCHANGED <<plan, used, ops, reps, seen, consumer, shard, kept>>
    /\ replicas' = replicas \ {Src(o)}
    /\ Keeps(o) /\ worker'[o].pc = "done" /\ worker'[o].next = "READY"
    /\ worker'[o].copy = worker[o].copy

\* What is known of a movement that sheds its source.
LEMMA ShedFacts ==
    ASSUME ReplicaInv, NEW o \in OpIds, Sheds(o)
    PROVE  /\ ops[o] # Gone /\ ops[o].st = "DEHYDRATING" /\ ops[o].uncan
           /\ Active(o) /\ Known(o) /\ Type(o) = "MOVE"
           /\ Tgt(o) \in replicas' /\ Tgt(o) \in replicas
<1>1. StatusInv(o) /\ Member(o)
  BY SetFacts
<1>2. ops[o] # Gone /\ ops[o].st = "DEHYDRATING" /\ Active(o) /\ Known(o)
  BY Working, Zenon DEF Ended, Sheds
<1> QED
  BY <1>1, <1>2, Zenon DEF StatusInv, Member, Sheds

\* The invariant of any operation as the replica set loses o's source.
LEMMA ShedSet ==
    ASSUME TakenOnce, ReplicaInv, NEW o \in OpIds, Sheds(o), NEW p \in OpIds
    PROVE  SetInv(p)'
<1>1. /\ Types /\ Member(p) /\ StatusInv(p) /\ CopiesInv(p) /\ Held(p) /\ Reached(p)
  BY SetFacts
<1>2. /\ ops[o].st = "DEHYDRATING" /\ ops[o].uncan /\ ops[o] # Gone
      /\ Active(o) /\ Known(o) /\ Type(o) = "MOVE" /\ Tgt(o) \in replicas'
  BY ShedFacts
<1>3. /\ UNCHANGED <<plan, used, ops, reps, seen, consumer, shard, kept>>
      /\ replicas' = replicas \ {Src(o)}
      /\ Src(p)' = Src(p) /\ Tgt(p)' = Tgt(p) /\ Type(p)' = Type(p)
      /\ Known(p)' = Known(p) /\ Active(p)' = Active(p)
  BY Zenon DEF Sheds, Src, Tgt, Type, Known, Active
<1>4. CASE p # o
  <2>1. Active(p) => Tgt(p) # Src(o) /\ Src(p) # Src(o)
    BY <1>2, <1>4, Zenon DEF ReplicaInv, Apart
  <2>2. /\ Active(p) /\ Tgt(p) \in replicas => Tgt(p) \in replicas'
        /\ Active(p) /\ Src(p) \in replicas => Src(p) \in replicas'
    BY <1>3, <2>1, Zenon
  <2>3. StatusInv(p)'
    BY <1>1, <1>3, <2>2, Zenon DEF StatusInv
  <2>4. worker'[p] = worker[p]
    BY <1>1, <1>4, Zenon DEF Sheds, Keeps, Types
  <2>5. \A c : CopyInv(p, c) => CopyInv(p, c)'
    BY <1>3, Zenon DEF CopyInv, Flagged
  <2>6. CopiesInv(p)' /\ Held(p)'
    BY <1>1, <1>3, <2>4, <2>5, Zenon DEF CopiesInv, Held
  <2>7. Reached(p)'
    BY <1>1, <1>3, <2>4, Zenon DEF Reached, Flagged
  <2>8. Member(p)'
    BY <1>1, <1>3, Zenon DEF Member, Ever
  <2> QED
    BY <2>3, <2>6, <2>7, <2>8, Zenon DEF SetInv
<1>5. CASE p = o
  <2>1. StatusInv(o)'
    BY <1>1, <1>2, <1>3, <1>5, Zenon DEF StatusInv
  <2>2. \A c : CopyInv(p, c) => CopyInv(p, c)'
    BY <1>3, Zenon DEF CopyInv, Flagged
  <2>3. CopiesInv(p)' /\ Held(p)'
    BY <1>1, <1>2, <1>3, <1>5, <2>2, Zenon DEF CopiesInv, Held, Sheds
  <2>4. Reached(o)'
    BY <1>3, <1>5, Zenon DEF Reached, Sheds
  <2>5. Member(p)'
    BY <1>1, <1>3, Zenon DEF Member, Ever
  <2> QED
    BY <1>5, <2>1, <2>3, <2>4, <2>5, Zenon DEF SetInv
<1> QED
  BY <1>4, <1>5

\* Shedding keeps the invariant: there is one replica less, and one movement
\* less that keeps one.
LEMMA ShedStep ==
    ASSUME TakenOnce, ReplicaInv, Sound, NEW o \in OpIds, Sheds(o)
    PROVE  ReplicaInv'
<1>1. /\ ops[o] # Gone /\ ops[o].st = "DEHYDRATING" /\ ops[o].uncan
      /\ Active(o) /\ Known(o) /\ Type(o) = "MOVE"
  BY ShedFacts
<1>2. Types
  BY SetFacts
<1>3. /\ UNCHANGED <<plan, used, ops, reps, seen, consumer, shard, kept>> /\ OpIds' = OpIds
      /\ replicas' = replicas \ {Src(o)} /\ MovementInv'
  BY Zenon DEF Sheds, OpIds, Sound
<1>4. /\ \A p : Src(p)' = Src(p) /\ Tgt(p)' = Tgt(p) /\ Type(p)' = Type(p)
      /\ \A p : Known(p)' = Known(p)
      /\ \A p \in OpIds : Active(p)' <=> Active(p)
  BY <1>3, Zenon DEF Src, Tgt, Type, Known, Active
<1>5. ReplicaHoldsData'
  BY <1>3, Zenon DEF ReplicaHoldsData, ReplicaInv
<1>6. Left'
  <2> SUFFICES ASSUME NEW n \in Nodes, n \in plan.holders \/ Ever(n)', n \notin replicas'
               PROVE  \E q \in OpIds : Known(q) /\ Type(q) = "MOVE" /\ Src(q) = n
    BY <1>3, <1>4, Zenon DEF Left
  <2>1. CASE n = Src(o)
    BY <1>1, <2>1, Zenon
  <2>2. CASE n # Src(o)
    BY <1>3, <2>2, Zenon DEF Left, Ever, ReplicaInv
  <2> QED
    BY <2>1, <2>2
<1>7. Apart'
  BY <1>3, <1>4, Zenon DEF Apart, ReplicaInv
<1>8. Counted'
  <2>1. Busy' \subseteq Busy \ {o}
    BY <1>1, <1>3, <1>4, Zenon DEF Busy
  <2>2. PICK f \in [plan.holders -> replicas] : Stands(f)
    BY Zenon DEF Counted, ReplicaInv
  <2>3. CASE Src(o) \notin replicas
    <3>1. replicas' = replicas
      BY <1>3, <2>3, Zenon
    <3> QED
      BY <1>3, <2>1, <3>1, CountedStands, Zenon DEF ReplicaInv
  <2>4. CASE Src(o) \in replicas
    <3>1. o \in Busy /\ Tgt(o) \in replicas /\ Src(o) # Tgt(o)
      BY <1>1, <2>4, SetFacts, Zenon DEF Busy, StatusInv, Member
    <3> DEFINE g == [h \in plan.holders |-> IF f[h] = Src(o) THEN Tgt(o) ELSE f[h]]
    <3>2. g \in [plan.holders -> replicas \ {Src(o)}]
      BY <3>1
    <3>3. ASSUME NEW h \in plan.holders, NEW i \in plan.holders, g[h] = g[i] PROVE h = i
      <4>1. /\ \A p, q \in plan.holders : f[p] = f[q] => p = q
            /\ f[h] # Tgt(o) /\ f[i] # Tgt(o)
        BY <2>2, <3>1, Zenon DEF Stands
      <4> QED
        BY <3>3, <4>1
    <3>4. ASSUME NEW p \in Busy', NEW h \in plan.holders PROVE g[h] # Tgt(p)
      <4>1. p \in Busy /\ p # o /\ p \in OpIds
        BY <2>1, Zenon DEF Busy
      <4>2. Tgt(p) # Tgt(o) /\ f[h] # Tgt(p)
        BY <1>2, <2>2, <4>1, Targets, Zenon DEF Stands
      <4> QED
        BY <4>2
    <3> HIDE DEF g
    <3>5. PICK e : e = g
      OBVIOUS
    <3>6. e \in [plan.holders -> replicas]'
      BY <1>3, <3>2, <3>5, Zenon
    <3>7. Stands(e)'
      <4>1. \A h, i \in plan.holders : e[h] = e[i] => h = i
        BY <3>3, <3>5, Zenon
      <4>2. \A p \in Busy', h \in plan.holders : e[h] # Tgt(p)'
        BY <1>4, <3>4, <3>5, Zenon
      <4> QED
        BY <1>3, <4>1, <4>2, Zenon DEF Stands
    <3> QED
      BY <3>6, <3>7, Zenon DEF Counted
  <2> QED
    BY <2>3, <2>4
<1> QED
  BY <1>3, <1>5, <1>6, <1>7, <1>8, ShedSet, Zenon DEF ReplicaInv

\* DEHYDRATING: the source goes, is gone already, or must stay for now.
LEMMA DehydrateKeeps ==
    ASSUME TakenOnce, ReplicaInv, Sound, NEW o \in OpIds, processDehydratingOp(o)
    PROVE  ReplicaInv'
<1>1. MovementInv
  BY SetFacts
<1>2. /\ worker[o].pc = "try" /\ worker[o].copy.st = "DEHYDRATING"
      /\ UNCHANGED <<plan, used, reps, seen, shard, kept, consumer>>
  BY Zenon DEF processDehydratingOp, Handles
<1>3. CopyInv(o, worker[o].copy)
  BY <1>2, Working, Zenon DEF Ended
<1>4. ASSUME Done(o, "READY")
      PROVE  /\ Keeps(o) /\ worker'[o].copy = worker[o].copy
             /\ worker'[o].pc = "done" /\ worker'[o].next = "READY"
  BY <1>1, <1>2, <1>4, DoneKeeps, Zenon DEF Nexts
<1>5. CASE Src(o) \notin reps[Tgt(o)] /\ Done(o, "READY") /\ UNCHANGED <<ops, replicas>>
  <2>1. Inert(o) /\ Owes(o)
    BY <1>2, <1>5, Zenon DEF Inert, Owes
  <2>2. Reached(o)'
    BY <1>2, <1>3, <1>4, <1>5, Zenon DEF Reached, CopyInv, Type, Src
  <2> QED
    BY <1>2, <1>4, <1>5, <2>1, <2>2, QuietStep, Zenon
<1>6. CASE HandlerFails(o) /\ UNCHANGED replicas
  <2>1. Inert(o) /\ Owes(o)
    BY <1>2, <1>6, Zenon DEF Inert, Owes
  <2> QED
    BY <1>2, <1>6, <2>1, FailKeeps, Zenon
<1>7. CASE replicas' = replicas \ {Src(o)} /\ Done(o, "READY") /\ UNCHANGED ops
  <2>1. Sheds(o)
    BY <1>2, <1>4, <1>7, Zenon DEF Sheds
  <2> QED
    BY <2>1, ShedStep, Zenon
<1> QED
  BY <1>5, <1>6, <1>7, Zenon DEF processDehydratingOp

-----------------------------------------------------------------------------
(* Steps of the users and of a node.                                       *)

\* A step that changes what the nodes hold in memory only.
LEMMA NodeStep ==
    ASSUME ReplicaInv, Sound,
           UNCHANGED <<plan, ops, replicas, used, seen, reps, shard, kept>>,
           \A n \in Nodes : consumer'[n] # NoMsg =>
               \/ consumer'[n] = consumer[n]
               \/ seen[consumer'[n].op] # Gone /\ consumer'[n].copy = seen[consumer'[n].op],
           \A p \in OpIds :
               \/ worker'[p].pc = "idle"
               \/ /\ worker'[p].pc = worker[p].pc /\ worker'[p].copy = worker[p].copy
                  /\ worker'[p].next = worker[p].next
               \/ /\ worker'[p].pc = "begin" /\ ops[p] # Gone
                  /\ \E n \in Nodes : /\ consumer[n] # NoMsg /\ consumer[n].op = p
                                      /\ worker'[p].copy = consumer[n].copy
    PROVE  ReplicaInv'
<1>1. MovementInv' /\ OpIds' = OpIds
  BY Zenon DEF Sound, OpIds
<1>2. /\ \A p : Src(p)' = Src(p) /\ Tgt(p)' = Tgt(p) /\ Type(p)' = Type(p)
      /\ \A p : Known(p)' = Known(p)
      /\ \A p : Active(p)' <=> Active(p)
      /\ \A p : Ever(p)' = Ever(p)
  BY Zenon DEF Src, Tgt, Type, Known, Active, Ever
<1>3. ReplicaHoldsData' /\ Left' /\ Apart'
  <2>1. ReplicaHoldsData'
    BY Zenon DEF ReplicaInv, ReplicaHoldsData
  <2>2. Left'
    BY <1>1, <1>2, Zenon DEF ReplicaInv, Left
  <2>3. Apart'
    <3>1. Apart
      BY Zenon DEF ReplicaInv
    <3> SUFFICES ASSUME NEW o \in OpIds, NEW p \in OpIds, o # p, Active(o)
                 PROVE  /\ Active(p) /\ Src(o) = Src(p) => Type(p) = "COPY"
                        /\ Known(p) /\ Type(p) = "MOVE" => Src(p) # Tgt(o)
      BY <1>1, <1>2 DEF Apart
    <3> QED
      BY <3>1, Zenon DEF Apart
  <2> QED
    BY <2>1, <2>2, <2>3
<1>4. Counted'
  <2>1. Busy' = Busy
    BY <1>1, <1>2, Zenon DEF Busy
  <2> QED
    BY <1>1, <1>2, <2>1, CountedStands, Zenon DEF ReplicaInv
<1>5. ASSUME NEW p \in OpIds PROVE SetInv(p)'
  <2>1. Member(p) /\ StatusInv(p) /\ CopiesInv(p) /\ Held(p) /\ Reached(p)
    BY SetFacts
  <2>2. Member(p)' /\ StatusInv(p)'
    BY <1>2, <2>1, Zenon DEF Member, StatusInv
  <2>3. \A c : CopyInv(p, c)' <=> CopyInv(p, c)
    BY <1>2, Zenon DEF CopyInv, Flagged
  <2>4. CopiesInv(p)'
    <3>1. ASSUME NEW n \in Nodes, consumer'[n] # NoMsg, consumer'[n].op = p
          PROVE  CopyInv(p, consumer'[n].copy)
      BY <2>1, <3>1, Zenon DEF CopiesInv
    <3>2. \A n \in Nodes : consumer'[n] # NoMsg /\ consumer'[n].op = p =>
              CopyInv(p, consumer[n].copy)'
      BY <2>3, <3>1, Zenon
    <3> QED
      BY <2>1, <2>3, <3>2, Zenon DEF CopiesInv
  <2>5. Held(p)'
    BY <2>1, <2>3, Zenon DEF Held, CopiesInv
  <2>6. Reached(p)'
    BY <1>2, <2>1, Zenon DEF Reached, Flagged
  <2> QED
    BY <2>2, <2>4, <2>5, <2>6, Zenon DEF SetInv
<1> QED
  BY <1>1, <1>3, <1>4, <1>5, Zenon DEF ReplicaInv

\* Handing an operation to the consumer, starting a worker, and a restart.
LEMMA ConsumeKeeps ==
    ASSUME ReplicaInv, Sound, NEW o \in OpIds, Consume(o)
    PROVE  ReplicaInv'
<1>1. Types /\ Tgt(o) \in Nodes /\ seen[o] # Gone
  BY SetFacts, Zenon DEF Consume
<1>2. UNCHANGED <<plan, ops, replicas, used, seen, reps, shard, kept>>
  BY Zenon DEF Consume
<1>3. /\ \/ worker' = [worker EXCEPT ![o].stop = TRUE]
         \/ UNCHANGED worker
      /\ \/ UNCHANGED consumer
         \/ consumer' = [consumer EXCEPT ![Tgt(o)] = [op |-> o, copy |-> seen[o]]]
  BY Zenon DEF Consume
<1>4. ASSUME NEW p \in OpIds
      PROVE  /\ worker'[p].pc = worker[p].pc /\ worker'[p].copy = worker[p].copy
             /\ worker'[p].next = worker[p].next
  <2>1. worker \in [OpIds -> Workers] /\ worker[p] \in Workers
    BY <1>1, Zenon DEF Types
  <2>2. CASE worker' = [worker EXCEPT ![o].stop = TRUE]
    BY <2>1, <2>2 DEF Workers
  <2>3. CASE UNCHANGED worker
    BY <2>3, Zenon
  <2> QED
    BY <1>3, <2>2, <2>3, Zenon
<1>5. ASSUME NEW n \in Nodes
      PROVE  \/ consumer'[n] = consumer[n]
             \/ consumer'[n].op = o /\ consumer'[n].copy = seen[o]
  <2>1. CASE UNCHANGED consumer
    BY <2>1, Zenon
  <2>2. CASE consumer' = [consumer EXCEPT ![Tgt(o)] = [op |-> o, copy |-> seen[o]]]
    <3>1. consumer' = [consumer EXCEPT ![Tgt(o)] = [op |-> o, copy |-> seen[o]]]
          /\ DOMAIN consumer = Nodes
      BY <1>1, <2>2, Zenon DEF Types
    <3> QED
      BY <3>1
  <2> QED
    BY <1>3, <2>1, <2>2, Zenon
<1> QED
  BY <1>1, <1>2, <1>4, <1>5, NodeStep, Zenon

\* A worker that starts has the status of the leader.
LEMMA SpawnKeeps ==
    ASSUME ReplicaInv, Sound, NEW n \in Nodes, Spawn(n)
    PROVE  ReplicaInv'
<1> DEFINE o == consumer[n].op
           m == [Idle EXCEPT !.pc = "begin", !.copy = consumer[n].copy]
<1>1. /\ Types /\ consumer[n] # NoMsg /\ consumer[n] \in Messages
      /\ o \in OpIds /\ consumer[n].copy \in Copies
  BY DEF ReplicaInv, MovementInv, Spawn, Types, Messages
<1>2. /\ UNCHANGED <<plan, ops, replicas, used, seen, reps, shard, kept>>
      /\ consumer' = [consumer EXCEPT ![n] = NoMsg]
  BY DEF Spawn
<1>3. m.pc = "begin" /\ m.copy = consumer[n].copy
  BY Zenon DEF Idle
<1>4. \/ UNCHANGED worker
      \/ worker' = [worker EXCEPT ![o] = m] /\ ~ChangedAtLeader(o, consumer[n].copy)
  BY Zenon DEF Spawn
<1>5. ~ChangedAtLeader(o, consumer[n].copy) => ops[o] # Gone
  BY <1>1, NotGone, Zenon DEF ChangedAtLeader
<1> HIDE DEF m
<1>6. ASSUME NEW p \in OpIds
      PROVE  \/ worker'[p] = worker[p]
             \/ p = o /\ worker'[p] = m /\ ops[p] # Gone
  BY <1>1, <1>4, <1>5, Zenon DEF Types
<1>7. ASSUME NEW i \in Nodes, consumer'[i] # NoMsg PROVE consumer'[i] = consumer[i]
  BY <1>1, <1>2, <1>7, Zenon DEF Types
<1> QED
  BY <1>1, <1>2, <1>3, <1>6, <1>7, NodeStep, Zenon

\* A restart forgets workers and messages.
LEMMA CrashKeeps ==
    ASSUME ReplicaInv, Sound, NEW n \in Nodes, Crash(n)
    PROVE  ReplicaInv'
<1>1. Types
  BY Zenon DEF ReplicaInv, MovementInv
<1>2. /\ UNCHANGED <<plan, ops, replicas, used, seen, reps, shard, kept>>
      /\ worker' = [o \in OpIds |-> IF Tgt(o) = n THEN Idle ELSE worker[o]]
      /\ consumer' = [consumer EXCEPT ![n] = NoMsg]
  BY DEF Crash
<1>3. \A p \in OpIds : worker'[p] = worker[p] \/ worker'[p].pc = "idle"
  BY <1>2, Zenon DEF Idle
<1>4. \A i \in Nodes : consumer'[i] # NoMsg => consumer'[i] = consumer[i]
  BY <1>1, <1>2, Zenon DEF Types
<1> QED
  BY <1>2, <1>3, <1>4, NodeStep, Zenon

\* What catching up does to a directory: a replica keeps its shard, and so does
\* the target of an operation that has not joined.
LEMMA CatchUpShard ==
    ASSUME ReplicaInv, NEW n \in Nodes, CatchUp(n)
    PROVE  /\ \A i \in replicas : shard'[i] = "whole"
           /\ \A i \in Nodes : i \notin replicas /\ i \notin reps[i] => shard'[i] = shard[i]
<1>1. Types /\ ReplicaHoldsData
  BY Zenon DEF ReplicaInv, MovementInv
<1>2. /\ shard'[n] = IF n \in reps[n] /\ n \notin replicas THEN "none"
                     ELSE IF n \in replicas /\ shard[n] = "none" THEN "hollow"
                     ELSE shard[n]
      /\ \A i \in Nodes \ {n} : shard'[i] = shard[i]
  BY <1>1, Zenon DEF CatchUp, Types
<1>3. n \in replicas => shard'[n] = "whole"
  BY <1>1, <1>2, Zenon DEF ReplicaHoldsData
<1>4. n \notin replicas /\ n \notin reps[n] => shard'[n] = shard[n]
  BY <1>2, Zenon
<1> QED
  BY <1>1, <1>2, <1>3, <1>4, Zenon DEF ReplicaHoldsData, Types

\* A copy that is made now knows what the leader does.
LEMMA NewCopy ==
    ASSUME ReplicaInv, NEW n \in Nodes, CatchUp(n), NEW o \in OpIds, Tgt(o) = n,
           ops[o] # Gone
    PROVE  CopyInv(o, Copy(ops[o]))'
<1>1. /\ Types /\ StatusInv(o) /\ Joined(ops[o]) /\ ops[o] \in Status
  BY SetFacts, Zenon
<1>2. UNCHANGED <<plan, ops, replicas>> /\ reps'[n] = replicas
  BY <1>1, Zenon DEF CatchUp, Types
<1>3. Copy(ops[o]) = [st |-> ops[o].st, cancel |-> ops[o].cancel, del |-> ops[o].del]
  BY Zenon DEF Copy
<1> DEFINE c == Copy(ops[o])
<1>4. c.st = ops[o].st /\ c.cancel = ops[o].cancel /\ c.del = ops[o].del
  BY <1>3
<1>5. Flagged(c) => ops[o].cancel \/ ops[o].st = "CANCELLED"
  BY <1>1, <1>4, Zenon DEF Flagged, StatusInv
<1>6. Flagged(c) /\ c.st # "READY" => Tgt(o) \notin replicas
  BY <1>1, <1>4, <1>5, NotJoined, Zenon DEF Joined
<1>7. Src(o)' = Src(o) /\ Tgt(o)' = Tgt(o) /\ Type(o)' = Type(o) /\ c' = c
  BY <1>2, Zenon DEF Src, Tgt, Type
<1> HIDE DEF c
<1>8. CopyInv(o, c)'
  BY <1>2, <1>4, <1>5, <1>6, <1>7, Zenon DEF CopyInv, Flagged
<1> QED
  BY <1>8 DEF c

\* Catching up keeps the invariant.
LEMMA CatchUpKeeps ==
    ASSUME ReplicaInv, Sound, NEW n \in Nodes, CatchUp(n)
    PROVE  ReplicaInv'
<1>1. Types /\ MovementInv' /\ OpIds' = OpIds
  BY Zenon DEF ReplicaInv, MovementInv, Sound, CatchUp, OpIds
<1>2. /\ UNCHANGED <<plan, ops, replicas, used, kept, consumer, worker>>
      /\ seen' = [o \in OpIds |-> IF Tgt(o) = n THEN Copy(ops[o]) ELSE seen[o]]
      /\ \A i \in Nodes : reps'[i] = IF i = n THEN replicas ELSE reps[i]
  BY <1>1 DEF CatchUp, Types
<1>3. /\ \A p : Src(p)' = Src(p) /\ Tgt(p)' = Tgt(p) /\ Type(p)' = Type(p)
      /\ \A p : Known(p)' = Known(p)
      /\ \A p : Active(p)' <=> Active(p)
      /\ \A i : Ever(i)' => Ever(i)
  BY <1>2, Zenon DEF Src, Tgt, Type, Known, Active, Ever
<1>4. ReplicaHoldsData'
  BY <1>2, CatchUpShard, Zenon DEF ReplicaHoldsData
<1>5. Left' /\ Apart'
  <2>1. Left'
    BY <1>1, <1>2, <1>3, Zenon DEF ReplicaInv, Left
  <2>2. Apart'
    BY <1>1, <1>3, Zenon DEF ReplicaInv, Apart
  <2> QED
    BY <2>1, <2>2
<1>6. Counted'
  <2>1. Busy' = Busy
    BY <1>1, <1>2, <1>3, Zenon DEF Busy
  <2> QED
    BY <1>1, <1>2, <2>1, CountedStands, Zenon DEF ReplicaInv
<1>7. ASSUME NEW p \in OpIds PROVE SetInv(p)'
  <2>1. /\ Member(p) /\ StatusInv(p) /\ CopiesInv(p) /\ Held(p) /\ Reached(p)
        /\ Joined(ops[p]) /\ Place(p) /\ Tgt(p) \in Nodes
    BY SetFacts
  <2>2. Member(p)'
    BY <1>2, <1>3, <2>1, Zenon DEF Member
  <2>3. /\ Tgt(p) \in replicas => shard'[Tgt(p)] = "whole"
        /\ ops[p] # Gone /\ ~ops[p].uncan => shard'[Tgt(p)] = shard[Tgt(p)]
    BY <2>1, CatchUpShard, NotJoined, Zenon
  <2>4. Active(p) /\ ops[p].uncan => shard'[Tgt(p)] = "whole"
    BY <2>1, <2>3, Zenon DEF StatusInv, Active
  <2>5. StatusInv(p)'
    <3>1. /\ ops[p] # Gone /\ ops[p].st = "FINALIZING" /\ ~ops[p].cancel =>
                 shard'[Tgt(p)] = "whole"
      BY <2>1, <2>3, <2>4, Zenon DEF StatusInv, Active, Ended
    <3>2. ops[p] # Gone /\ ops[p].st = "CANCELLED" =>
              shard'[Tgt(p)] = "none" \/ "files" \in kept[p]
      BY <2>1, <2>3, Zenon DEF StatusInv, Joined
    <3> QED
      BY <1>2, <1>3, <2>1, <3>1, <3>2, Zenon DEF StatusInv
  <2>6. ASSUME NEW c, CopyInv(p, c) PROVE CopyInv(p, c)'
    BY <1>2, <1>3, <2>1, <2>6, Zenon DEF CopyInv, Flagged
  <2>7. CopiesInv(p)'
    <3>1. seen'[p] # Gone => CopyInv(p, seen[p])'
      <4>1. CASE Tgt(p) = n
        <5>1. seen'[p] = Copy(ops[p])
          BY <1>2, <4>1, Zenon
        <5>2. seen'[p] # Gone => ops[p] # Gone
          BY <5>1, Zenon DEF Copy
        <5>3. Copy(ops[p])' = Copy(ops[p])
          BY <1>2, Zenon
        <5> QED
          BY <4>1, <5>1, <5>2, <5>3, NewCopy, Zenon
      <4>2. CASE Tgt(p) # n
        <5>1. seen'[p] = seen[p]
          BY <1>2, <4>2, Zenon
        <5> QED
          BY <2>1, <2>6, <5>1, Zenon DEF CopiesInv
      <4> QED
        BY <4>1, <4>2
    <3> QED
      BY <1>2, <2>1, <2>6, <3>1, Zenon DEF CopiesInv
  <2>8. Held(p)'
    BY <1>2, <2>1, <2>6, Zenon DEF Held
  <2>9. Reached(p)'
    <3>1. worker[p].pc = "done" /\ worker[p].next = "FINALIZING" =>
              worker[p].copy.st \notin Ended
      BY <2>1 DEF Place, Follows, Ended
    <3>2. worker[p].pc = "done" /\ worker[p].next = "FINALIZING" /\ ~ops[p].cancel =>
              shard'[Tgt(p)] = "whole"
      BY <2>1, <2>3, <2>4, <3>1, Working, Zenon DEF Reached
    <3>3. worker[p].pc = "notify" /\ ops[p] # Gone /\ ~ops[p].uncan
              /\ Flagged(worker[p].copy) => shard'[Tgt(p)] = "none" \/ "files" \in kept[p]
      BY <2>1, <2>3, Zenon DEF Reached
    <3> QED
      BY <1>2, <1>3, <2>1, <3>2, <3>3, Zenon DEF Reached, Flagged
  <2> QED
    BY <2>2, <2>5, <2>7, <2>8, <2>9, Zenon DEF SetInv
<1> QED
  BY <1>1, <1>4, <1>5, <1>6, <1>7, Zenon DEF ReplicaInv

\* Admitting a request keeps the invariant: its target is new, and what is under
\* way already leaves its source and its target alone.
LEMMA ReplicateKeeps ==
    ASSUME TakenOnce, ReplicaInv, Sound, NEW o \in OpIds, Replicate(o)
    PROVE  ReplicaInv'
<1>1. Types /\ MovementInv' /\ OpIds' = OpIds /\ o \in Nat /\ used \in Nat
  BY PlanFacts, SMTT(30), ZenonT(30)
  DEF ReplicaInv, MovementInv, Types, Sound, Replicate, OpIds
<1>2. /\ UNCHANGED <<plan, replicas, seen, reps, shard, kept, consumer, worker>>
      /\ ops'[o] = NewShardReplicationStatus
      /\ \A p \in OpIds \ {o} : ops'[p] = ops[p]
      /\ Src(o) # Tgt(o) /\ Src(o) \in replicas /\ Tgt(o) \notin replicas
  BY <1>1, SMTT(30), ZenonT(30) DEF Replicate, Types, ValidateReplicationReplicateShard
<1>3. /\ ~Known(o) /\ Known(o)' /\ \A p \in OpIds \ {o} : Known(p)' <=> Known(p)
      /\ \A p \in OpIds : Known(p) => p < o
  <2>1. o = used + 1 /\ used' = o
    BY DEF Replicate
  <2>2. \A p \in OpIds : p \in Nat
    BY <1>1, PlanFacts, Zenon
  <2> QED
    BY <1>1, <2>1, <2>2 DEF Known
<1>4. Fresh(o)
  BY <1>3, SetFacts, Zenon
<1>5. /\ ops'[o].st = "REGISTERED" /\ ~ops'[o].uncan /\ ~ops'[o].del /\ ~ops'[o].cancel
  BY <1>2 DEF NewShardReplicationStatus
<1>6. /\ \A p : Src(p)' = Src(p) /\ Tgt(p)' = Tgt(p) /\ Type(p)' = Type(p)
      /\ \A p \in OpIds \ {o} : Active(p)' <=> Active(p)
      /\ ~Active(o) /\ \A i : Ever(i)' <=> Ever(i)
  BY <1>2, <1>4, Zenon DEF Src, Tgt, Type, Active, Ever, Fresh
<1>7. Tgt(o) \notin plan.holders /\ ~Ever(Tgt(o))
  <2> SUFFICES ASSUME Tgt(o) \in plan.holders \/ Ever(Tgt(o)) PROVE FALSE
    OBVIOUS
  <2>1. PICK q \in OpIds : Known(q) /\ Type(q) = "MOVE" /\ Src(q) = Tgt(o)
    BY <1>1, <1>2, PlanFacts, Zenon DEF ReplicaInv, Left
  <2> QED
    BY <1>1, <1>3, <2>1, Targets, Zenon
<1>8. ReplicaHoldsData' /\ Left'
  <2>1. \A p \in OpIds : Known(p) => Known(p)'
    BY <1>3, Zenon
  <2> QED
    BY <1>1, <1>2, <1>6, <2>1, Zenon DEF ReplicaInv, ReplicaHoldsData, Left
<1>9. Apart'
  <2>1. ASSUME NEW e \in OpIds, e # o, Active(e)
        PROVE  /\ Src(e) = Src(o) => Type(e) = "COPY" /\ Type(o) = "COPY"
               /\ Tgt(e) # Src(o)
    <3>1. ops[e] # Gone /\ ops[e].st \notin {"READY", "CANCELLED"}
      BY <2>1, Zenon DEF Active, Ended
    <3>2. /\ Src(e) = Src(o) => Compatible(o, e)
          /\ Tgt(e) = Src(o) => ops[e].st \in {"READY", "CANCELLED"}
      BY <3>1, Zenon DEF Replicate, validateReplicationAdmission
    <3>3. Type(e) \in {"COPY", "MOVE"} /\ Type(o) \in {"COPY", "MOVE"}
      BY <1>1, Targets, Zenon
    <3> QED
      BY <3>1, <3>2, <3>3, Zenon DEF Compatible
  <2>2. ASSUME NEW e \in OpIds, Known(e), Type(e) = "MOVE" PROVE Src(e) # Tgt(o)
    BY <1>1, <1>3, <2>2, Targets, Zenon
  <2> SUFFICES ASSUME NEW a \in OpIds, NEW b \in OpIds, a # b, Active(a)'
               PROVE  /\ Active(b)' /\ Src(a) = Src(b) => Type(b) = "COPY"
                      /\ Known(b)' /\ Type(b) = "MOVE" => Src(b) # Tgt(a)
    BY <1>1, <1>6 DEF Apart
  <2>3. CASE a = o
    BY <1>3, <1>6, <2>1, <2>2, <2>3, Zenon
  <2>4. CASE b = o
    BY <1>6, <2>1, <2>4, Zenon
  <2>5. CASE a # o /\ b # o
    BY <1>3, <1>6, <2>5, Zenon DEF ReplicaInv, Apart
  <2> QED
    BY <2>3, <2>4, <2>5
<1>10. Counted'
  <2>1. Busy' = Busy
    BY <1>1, <1>2, <1>5, <1>6, Zenon DEF Busy
  <2> QED
    BY <1>1, <1>2, <2>1, CountedStands, Zenon DEF ReplicaInv
<1>11. SetInv(o)'
  <2>1. Member(o)'
    BY <1>2, <1>6, <1>7, Zenon DEF Member
  <2>2. StatusInv(o)'
    BY <1>2, <1>5, <1>6, Zenon DEF StatusInv
  <2>3. CopiesInv(o)' /\ Held(o)' /\ Reached(o)'
    BY <1>2, <1>4, Zenon DEF Fresh, CopiesInv, Held, Reached
  <2> QED
    BY <2>1, <2>2, <2>3, Zenon DEF SetInv
<1>12. ASSUME NEW p \in OpIds, p # o PROVE SetInv(p)'
  <2>1. Member(p) /\ StatusInv(p) /\ CopiesInv(p) /\ Held(p) /\ Reached(p)
    BY SetFacts
  <2>2. ops'[p] = ops[p] /\ (Active(p)' <=> Active(p)) /\ (Known(p)' <=> Known(p))
    BY <1>2, <1>3, <1>6, <1>12, Zenon
  <2>3. Member(p)' /\ StatusInv(p)'
    BY <1>2, <1>6, <2>1, <2>2, Zenon DEF Member, StatusInv
  <2>4. \A c : CopyInv(p, c)' <=> CopyInv(p, c)
    BY <1>2, <1>6, <2>2, Zenon DEF CopyInv, Flagged
  <2>5. CopiesInv(p)' /\ Held(p)'
    BY <1>2, <2>1, <2>2, <2>4, Zenon DEF CopiesInv, Held
  <2>6. Reached(p)'
    BY <1>2, <1>6, <2>1, <2>2, Zenon DEF Reached, Flagged
  <2> QED
    BY <2>3, <2>5, <2>6, Zenon DEF SetInv
<1> QED
  BY <1>1, <1>8, <1>9, <1>10, <1>11, <1>12, Zenon DEF ReplicaInv

-----------------------------------------------------------------------------
(* The invariant and what it means.                                        *)

\* The first state has the invariant.
LEMMA InitReplicaInv == Init => ReplicaInv
<1> SUFFICES ASSUME Init PROVE ReplicaInv
  OBVIOUS
<1>1. MovementInv /\ Types
  BY InitInv DEF MovementInv
<1>2. \A o \in OpIds : ~Known(o)
  <2>1. \A o \in OpIds : o \in Nat \ {0}
    BY <1>1, PlanFacts, Zenon
  <2> QED
    BY <2>1 DEF Known, Init
<1>3. plan.holders \in SUBSET Nodes
  BY <1>1, PlanFacts
<1>4. ReplicaHoldsData /\ Left /\ Apart
  BY <1>3, Zenon DEF Init, ReplicaHoldsData, Left, Ever, Apart, Active
<1>5. Counted
  <2>1. Busy = {} /\ replicas = plan.holders
    BY Zenon DEF Busy, Active, Init
  <2> DEFINE f == [h \in plan.holders |-> h]
  <2>2. f \in [plan.holders -> replicas] /\ \A h \in plan.holders : f[h] = h
    BY <2>1, Zenon
  <2> HIDE DEF f
  <2> QED
    BY <2>1, <2>2, Zenon DEF Counted, Stands
<1>6. \A o \in OpIds : SetInv(o)
  BY <1>2, Zenon
  DEF Init, SetInv, Member, StatusInv, CopiesInv, Held, Reached, Idle
<1> QED
  BY <1>1, <1>4, <1>5, <1>6, Zenon DEF ReplicaInv

\* Every step keeps the invariant.
LEMMA NextKeeps ==
    ASSUME TakenOnce, ReplicaInv, Next
    PROVE  ReplicaInv'
<1>1. Sound
  BY NextSound, Zenon DEF ReplicaInv
<1>2. Appliers \subseteq Nodes /\ Participants \subseteq Nodes
  BY PlanFacts, Zenon DEF ReplicaInv, MovementInv, Appliers, Participants
<1>3. ASSUME NEW o \in OpIds, WorkerStep(o) PROVE ReplicaInv'
  BY <1>1, <1>3, QuietKeeps, HydrateKeeps, FinalizeKeeps, AddKeeps, IntegrateKeeps,
     DehydrateKeeps, DropKeeps, EndKeeps, TransitionKeeps, Zenon DEF WorkerStep
<1>4. ASSUME NEW o \in OpIds, StepFails(o) \/ TimesOut(o) \/ AnswerLost(o) \/ NotifyFails(o)
      PROVE  ReplicaInv'
  <2>1. AnswerLost(o) => worker[o].pc \in {"add", "done"}
    BY Zenon DEF AnswerLost
  <2> QED
    BY <1>1, <1>4, <2>1, FaultKeeps, QuietKeeps, AddKeeps, Zenon
<1> QED
  BY <1>1, <1>2, <1>3, <1>4, ReplicateKeeps, CommandKeeps, ConsumeKeeps, CatchUpKeeps,
     SpawnKeeps, CrashKeeps, Zenon DEF Next

\* A stuttering step keeps the invariant.
LEMMA StutterReplicaInv ==
    ASSUME ReplicaInv, UNCHANGED vars
    PROVE  ReplicaInv'
<1>1. MovementInv'
  BY StutterInv, Zenon DEF ReplicaInv
<1>2. OpIds' = OpIds
  BY Zenon DEF vars, OpIds
<1>3. Sound
  BY <1>1, NoneMoves, Zenon DEF Sound, vars, ReplicaInv
<1> QED
  BY <1>3, NodeStep, Zenon DEF vars

\* The invariant holds in every state of every movement.
THEOREM ReplicaInvariant == TakenOnce => (Spec => []ReplicaInv)
<1> SUFFICES ASSUME TakenOnce PROVE Spec => []ReplicaInv
  OBVIOUS
<1>1. ReplicaInv /\ [Next]_vars => ReplicaInv'
  BY NextKeeps, StutterReplicaInv, Zenon
<1> QED
  BY InitReplicaInv, <1>1, PTL DEF Spec

\* A node that the sharding state calls a replica holds the whole shard, with any
\* number of movements, cancellations, deletions, retries and restarts.
THEOREM MovementReplicaHoldsData == TakenOnce => (Spec => []ReplicaHoldsData)
<1> SUFFICES ASSUME TakenOnce PROVE Spec => []ReplicaHoldsData
  OBVIOUS
<1>1. ReplicaInv => ReplicaHoldsData
  BY DEF ReplicaInv
<1> QED
  BY ReplicaInvariant, <1>1, PTL

\* A movement that ends CANCELLED has left nothing on its target, unless its last
\* dropCancelledOpTargetShard failed.
THEOREM MovementCancelLeavesNoResidue == TakenOnce => (Spec => []CancelLeavesNoResidue)
<1> SUFFICES ASSUME TakenOnce PROVE Spec => []CancelLeavesNoResidue
  OBVIOUS
<1>1. ReplicaInv => CancelLeavesNoResidue
  BY Zenon DEF ReplicaInv, SetInv, StatusInv, CancelLeavesNoResidue
<1> QED
  BY ReplicaInvariant, <1>1, PTL

-----------------------------------------------------------------------------
(* The movement is the one that MovementLifecycle promises.                *)

Phases == [o \in OpIds |-> Phase(o)]

\* The phase of an operation, by cases.
PhaseOf(o) ==
    /\ ~Known(o) => Phase(o) = "new"
    /\ Known(o) /\ ops[o] = Gone => Phase(o) = "gone"
    /\ ops[o] # Gone /\ ops[o].st = "CANCELLED" => Phase(o) = "cancelled"
    /\ ops[o] # Gone /\ ops[o].st = "READY" => Phase(o) = "done"
    /\ Active(o) /\ ops[o].uncan => Phase(o) = "joined"
    /\ Active(o) /\ ~ops[o].uncan => Phase(o) = "pending"
    /\ ops[o] # Gone => Known(o)

\* The cases are the ones of Phase.
LEMMA PhaseFacts == ReplicaInv => \A o \in OpIds : PhaseOf(o)
<1> SUFFICES ASSUME ReplicaInv, NEW o \in OpIds PROVE PhaseOf(o)
  OBVIOUS
<1>1. /\ o \in Nat /\ used \in Nat /\ (ops[o] # Gone => Known(o))
  BY SetFacts, PlanFacts DEF Types
<1>2. (o <= used <=> Known(o)) /\ (o > used <=> ~Known(o))
  BY <1>1 DEF Known
<1>3. ~Known(o) => Phase(o) = "new"
  BY <1>2, Zenon DEF Phase
<1>4. Known(o) /\ ops[o] = Gone => Phase(o) = "gone"
  <2>1. Gone.st = "GONE"
    BY DEF Gone
  <2> QED
    BY <1>2, <2>1, Zenon DEF Phase
<1>5. ASSUME ops[o] # Gone
      PROVE  /\ ops[o].st = "CANCELLED" => Phase(o) = "cancelled"
             /\ ops[o].st = "READY" => Phase(o) = "done"
             /\ Active(o) /\ ops[o].uncan => Phase(o) = "joined"
             /\ Active(o) /\ ~ops[o].uncan => Phase(o) = "pending"
  BY <1>1, <1>2, <1>5, Zenon DEF Phase, Active, Ended
<1> QED
  BY <1>1, <1>3, <1>4, <1>5, Zenon DEF PhaseOf, Active

\* They are so after a step, too.
LEMMA PhaseFactsNext == ReplicaInv' => (\A o \in OpIds : PhaseOf(o))'
BY PhaseFacts, PTL

\* A step of the abstract movement, or none.
Promised == Lifecycle!Next \/ UNCHANGED Lifecycle!vars

\* The status of o is the only one that changes: the abstract movement takes o
\* from its phase to its next one, and leaves the others where they are.
LEMMA OnePhase ==
    ASSUME ReplicaInv, ReplicaInv', NEW o \in OpIds, plan' = plan,
           \A p \in OpIds \ {o} : ops'[p] = ops[p] /\ (Known(p)' <=> Known(p))
    PROVE  /\ Lifecycle!Moves(o, Phase(o), Phase(o)')
           /\ Phase(o)' = Phase(o) => Phases' = Phases
<1>1. OpIds' = OpIds
  BY Zenon DEF OpIds
<1>2. \A p \in OpIds : used \in Nat /\ used' \in Nat /\ p \in Nat
  <2>1. Types /\ Types'
    BY Zenon DEF ReplicaInv, MovementInv
  <2>2. \A p \in OpIds : p \in Nat
    BY <2>1, PlanFacts
  <2>3. used \in Nat /\ used' \in Nat
    BY <2>1, PlanFacts DEF Types
  <2> QED
    BY <2>2, <2>3
<1>3. ASSUME NEW p \in OpIds \ {o} PROVE Phase(p)' = Phase(p)
  <2>1. ops'[p] = ops[p] /\ (p > used' <=> p > used) /\ (p <= used' <=> p <= used)
    BY <1>2, <1>3 DEF Known
  <2> QED
    BY <2>1 DEF Phase
<1>4. Phases' = [Phases EXCEPT ![o] = Phase(o)'] /\ Phases[o] = Phase(o)
  BY <1>1, <1>3, Zenon DEF Phases
<1>5. Phase(o)' = Phase(o) => Phases' = Phases
  BY <1>1, <1>3, Zenon DEF Phases
<1> QED
  BY <1>4, <1>5, Zenon DEF Lifecycle!Moves, Phases

\* A step that changes neither the table nor the replica set is none.
LEMMA StutterRefines ==
    ASSUME UNCHANGED <<plan, ops, used, replicas>>
    PROVE  Promised
<1>1. OpIds' = OpIds
  BY Zenon DEF OpIds
<1>2. ASSUME NEW p \in OpIds PROVE Phase(p)' = Phase(p)
  BY DEF Phase
<1>3. [o \in OpIds |-> Phase(o)]' = [o \in OpIds |-> Phase(o)]
  BY <1>1, <1>2, Zenon
<1> QED
  BY <1>3, Zenon DEF Promised, Lifecycle!vars

\* The status of o changes and nothing else of the table: what has ended stays
\* so until it is removed, what has joined is not removed, and a MOVE is READY
\* once its source is out.
Settles(o) ==
    /\ UNCHANGED <<plan, used, replicas>>
    /\ ops' = [ops EXCEPT ![o] = ops'[o]]
    /\ ops'[o] # Gone => ops[o] # Gone /\ (ops'[o].uncan <=> ops[o].uncan)
    /\ ops'[o] # Gone /\ ops[o].st \in Ended => ops'[o].st = ops[o].st
    /\ ops'[o] = Gone /\ Active(o) => ~ops[o].uncan
    /\ Active(o) /\ ops'[o] # Gone /\ ops'[o].st = "READY" /\ Type(o) = "MOVE" =>
           Src(o) \notin replicas

\* Such a step forgets, cancels or ends the movement, or does not show.
LEMMA LocalRefines ==
    ASSUME ReplicaInv, ReplicaInv', NEW o \in OpIds, Settles(o)
    PROVE  Promised
<1> USE DEF Settles
<1>1. OpIds' = OpIds /\ o \in OpIds' /\ (Known(o)' <=> Known(o))
  BY Zenon DEF OpIds, Known
<1>2. \A p \in OpIds \ {o} : ops'[p] = ops[p] /\ (Known(p)' <=> Known(p))
  BY SetFacts, Zenon DEF Types, Known
<1>3. /\ Lifecycle!Moves(o, Phase(o), Phase(o)')
      /\ Phase(o)' = Phase(o) => Phases' = Phases
  BY <1>2, OnePhase, Zenon
<1>4. PhaseOf(o)
  BY PhaseFacts
<1>5. PhaseOf(o)'
  BY <1>1, PhaseFactsNext
<1>6. StatusInv(o) /\ StatusInv(o)'
  BY <1>1, Zenon DEF ReplicaInv, SetInv
<1>7. CASE Phase(o)' = Phase(o)
  BY <1>3, <1>7, Zenon DEF Promised, Lifecycle!vars, Phases
<1>8. CASE ops[o] # Gone /\ ops'[o] = Gone
  <2>1. Phase(o) \in {"pending", "done", "cancelled"} /\ Phase(o)' = "gone"
    BY <1>1, <1>4, <1>5, <1>8, Zenon DEF PhaseOf, Active, Ended
  <2>2. Lifecycle!Forget(o)
    BY <1>3, <2>1, Zenon DEF Lifecycle!Forget
  <2> QED
    BY <2>2, Zenon DEF Promised, Lifecycle!Next, Lifecycle!Ids, OpIds
<1>9. CASE ops'[o] # Gone /\ Active(o) /\ ops'[o].st = "CANCELLED"
  <2>1. Phase(o) = "pending" /\ Phase(o)' = "cancelled"
    BY <1>4, <1>5, <1>6, <1>9, Zenon DEF PhaseOf, StatusInv
  <2>2. Lifecycle!Cancel(o)
    BY <1>3, <2>1, Zenon DEF Lifecycle!Cancel
  <2> QED
    BY <2>2, Zenon DEF Promised, Lifecycle!Next, Lifecycle!Ids, OpIds
<1>10. CASE ops'[o] # Gone /\ Active(o) /\ ops'[o].st = "READY"
  <2>1. Phase(o) = "joined" /\ Phase(o)' = "done"
    BY <1>4, <1>5, <1>6, <1>10, Zenon DEF PhaseOf, StatusInv
  <2>2. Lifecycle!Finish(o)
    BY <1>3, <1>10, <2>1, Zenon DEF Lifecycle!Finish, Type, Src
  <2> QED
    BY <2>2, Zenon DEF Promised, Lifecycle!Next, Lifecycle!Ids, OpIds
<1>11. CASE ops'[o] # Gone /\ Active(o) /\ Active(o)'
  BY <1>4, <1>5, <1>7, <1>11, Zenon DEF PhaseOf
<1>12. CASE ops'[o] # Gone /\ ops[o] # Gone /\ ops[o].st \in Ended
  BY <1>4, <1>5, <1>7, <1>12, Zenon DEF PhaseOf, Ended
<1>13. CASE ops[o] = Gone /\ ops'[o] = Gone
  BY <1>1, <1>4, <1>5, <1>7, <1>13, Zenon DEF PhaseOf
<1> QED
  BY <1>8, <1>9, <1>10, <1>11, <1>12, <1>13, Zenon DEF Active, Ended

\* A failed handler does not show.
LEMMA FailRefines ==
    ASSUME ReplicaInv, ReplicaInv', NEW o \in OpIds, HandlerFails(o),
           UNCHANGED <<plan, used, replicas>>
    PROVE  Promised
<1>1. /\ Types /\ Joined(ops[o]) /\ ops[o] \in Status \cup {Gone}
      /\ ops[o] # Gone => ops[o] \in Status
  BY SetFacts
<1>2. CASE UNCHANGED ops
  BY <1>2, StutterRefines, Zenon
<1>3. CASE ops' = [ops EXCEPT ![o] = RegisterError(@)]
  <2>1. ops'[o] = RegisterError(ops[o]) /\ ops' = [ops EXCEPT ![o] = ops'[o]]
    BY <1>1, <1>3, Zenon DEF Types
  <2>2. /\ ops'[o] = Gone <=> ops[o] = Gone
        /\ ops[o] # Gone => ops'[o].st = ops[o].st /\ ops'[o].uncan = ops[o].uncan
    BY <1>1, <2>1, RegisterErrorFacts, RegisterErrorFlags, Zenon
  <2> QED
    <3>1. Settles(o)
      BY <2>1, <2>2, Zenon DEF Settles, Active, Ended
    <3> QED
      BY <3>1, LocalRefines, Zenon
<1> QED
  BY <1>2, <1>3, Zenon DEF HandlerFails

\* A command of a user does not show, and the cleaner forgets what has ended.
LEMMA CommandRefines ==
    ASSUME ReplicaInv, ReplicaInv', NEW o \in OpIds,
           CancelReplication(o) \/ DeleteReplication(o) \/ Sweep(o)
    PROVE  Promised
<1>1. Types /\ ops[o] # Gone /\ ops[o] \in Status
  BY SetFacts DEF CancelReplication, DeleteReplication, Sweep
<1>2. UNCHANGED <<plan, used, replicas>> /\ ops' = [ops EXCEPT ![o] = ops'[o]]
  BY <1>1 DEF CancelReplication, DeleteReplication, Sweep, Types
<1>3. CASE CancelReplication(o) \/ DeleteReplication(o)
  <2>1. ops'[o].st = ops[o].st /\ ops'[o].uncan = ops[o].uncan /\ ops'[o] \in Status
    <3>1. CASE CancelReplication(o)
      BY <1>1, <3>1, Zenon DEF CancelReplication, TriggerCancellation, Status, Types
    <3>2. CASE DeleteReplication(o)
      BY <1>1, <3>2, Zenon DEF DeleteReplication, TriggerDeletion, Status, Types
    <3> QED
      BY <1>3, <3>1, <3>2
  <2>2. ops'[o] # Gone
    BY <2>1, NotGone, Zenon
  <2> QED
    <3>1. Settles(o)
      BY <1>1, <1>2, <2>1, <2>2, Zenon DEF Settles, Active, Ended
    <3> QED
      BY <3>1, LocalRefines, Zenon
<1>4. CASE Sweep(o)
  <2>1. ops[o].st \in Ended /\ ops'[o] = Gone
    BY <1>1, <1>4, Zenon DEF Sweep, Types, Ended
  <2> QED
    <3>1. Settles(o)
      BY <1>1, <1>2, <2>1, Zenon DEF Settles, Active
    <3> QED
      BY <3>1, LocalRefines, Zenon
<1> QED
  BY <1>3, <1>4

\* Removing the operation forgets it, and what the leader is told of a clean-up
\* cancels or forgets one that has not joined.
LEMMA EndRefines ==
    ASSUME ReplicaInv, ReplicaInv', NEW o \in OpIds,
           RemoveReplicaOp(o) \/ NotifyCancelled(o)
    PROVE  Promised
<1>1. /\ Types /\ StatusInv(o) /\ Held(o) /\ Place(o) /\ WorkerInv(o) /\ Joined(ops[o])
      /\ ops[o] # Gone => ops[o] \in Status
  BY SetFacts
<1>2. UNCHANGED <<plan, used, replicas>> /\ worker[o].pc \in {"remove", "notify"}
  BY DEF RemoveReplicaOp, NotifyCancelled
<1>3. CopyInv(o, worker[o].copy)
  BY <1>1, <1>2, Zenon DEF Held
<1>4. CASE RemoveReplicaOp(o)
  <2>1. worker[o].pc = "remove" /\ ops'[o] = Gone /\ ops' = [ops EXCEPT ![o] = ops'[o]]
    BY <1>1, <1>4, Zenon DEF RemoveReplicaOp, Types
  <2>2. ~Active(o)
    BY <1>1, <1>3, <2>1, Zenon DEF Place, CopyInv, Active, Ended
  <2> QED
    <3>1. Settles(o)
      BY <1>2, <2>1, <2>2, Zenon DEF Settles
    <3> QED
      BY <3>1, LocalRefines, Zenon
<1>5. CASE NotifyCancelled(o)
  <2>1. /\ worker[o].pc = "notify"
        /\ ops'[o] = CancellationResult(o) /\ ops' = [ops EXCEPT ![o] = ops'[o]]
    BY <1>1, <1>5, Zenon DEF NotifyCancelled, Types
  <2>2. CASE CancellationResult(o) = ops[o]
    <3>1. Settles(o)
      BY <1>2, <2>1, <2>2, Zenon DEF Settles, Active, Ended
    <3> QED
      BY <3>1, LocalRefines, Zenon
  <2>3. CASE CancellationResult(o) = Gone /\ worker[o].copy.del
    <3>1. Active(o) => ~ops[o].uncan
      BY <1>1, <1>3, <2>3, Zenon DEF CopyInv, Flagged, Active, Ended, Joined
    <3> QED
      <4>1. Settles(o)
        BY <1>2, <2>1, <2>3, <3>1, Zenon DEF Settles
      <4> QED
        BY <4>1, LocalRefines, Zenon
  <2>4. CASE /\ CancellationResult(o) = CompleteCancellation(ops[o])
             /\ ops[o] # Gone /\ worker[o].copy.cancel /\ ~worker[o].copy.del
    <3>1. ops[o] \in Status /\ ~ops[o].uncan
      BY <1>1, <2>1, <2>4, Zenon DEF WorkerInv, CancelHeld
    <3>2. ops'[o].st = "CANCELLED" /\ ops'[o].uncan = ops[o].uncan
      BY <2>1, <2>4, <3>1, Zenon DEF CompleteCancellation, Status
    <3>3. ops[o].st \in Ended => ops[o].st = "CANCELLED"
      BY <1>1, <2>4, <3>1, Zenon DEF StatusInv, Ended
    <3> QED
      <4>1. Settles(o)
        BY <1>2, <2>1, <2>4, <3>1, <3>2, <3>3, Zenon DEF Settles
      <4> QED
        BY <4>1, LocalRefines, Zenon
  <2> QED
    BY <2>1, <2>2, <2>3, <2>4, Zenon DEF CancellationResult
<1> QED
  BY <1>4, <1>5

\* Reporting a state shows when it is READY, and then the movement is over.
LEMMA UpdateRefines ==
    ASSUME ReplicaInv, ReplicaInv', NEW o \in OpIds, worker[o].pc = "done",
           UpdateOpStatus(o), Inert(o), UNCHANGED shard
    PROVE  Promised
<1>1. /\ ops' = [ops EXCEPT ![o] = ops'[o]]
      /\ ops[o] # Gone /\ ops'[o] # Gone /\ ops'[o].uncan = ops[o].uncan
      /\ <<ops[o].st, worker[o].next>> \in Follows /\ ops'[o].st = worker[o].next
  BY UpdateStatus, Zenon
<1>2. Reached(o) /\ UNCHANGED <<plan, used, replicas>>
  BY SetFacts, Zenon DEF Inert
<1>3. ops[o].st \notin Ended
  BY <1>1 DEF Follows, Ended
<1>4. worker[o].next = "READY" /\ Type(o) = "MOVE" => Src(o) \notin replicas
  BY <1>2, Zenon DEF Reached
<1> QED
  <2>1. Settles(o)
    BY <1>1, <1>2, <1>3, <1>4, Zenon DEF Settles
  <2> QED
    BY <2>1, LocalRefines, Zenon

\* The target joins when the add of FINALIZING takes effect for the first time;
\* a second time, or a failure, does not show.
LEMMA AddRefines ==
    ASSUME ReplicaInv, ReplicaInv', NEW o \in OpIds,
           \/ ReplicationAddReplicaToShard(o)
           \/ AnswerLost(o) /\ worker[o].pc = "add"
    PROVE  Promised
<1>1. Types /\ StatusInv(o) /\ Place(o)
  BY SetFacts
<1>2. worker[o].pc = "add" /\ UNCHANGED <<plan, used>>
  BY Zenon DEF ReplicationAddReplicaToShard, AnswerLost
<1>3. CASE HandlerFails(o) /\ UNCHANGED replicas
  BY <1>2, <1>3, FailRefines, Zenon
<1>4. CASE UNCHANGED <<ops, replicas>>
  BY <1>2, <1>4, StutterRefines, Zenon
<1>5. ASSUME CanJoin(o), replicas' = replicas \cup {Tgt(o)},
             \/ ops' = [ops EXCEPT ![o] = [ops[o] EXCEPT !.uncan = TRUE]]
             \/ ops' = [ops EXCEPT ![o] = RegisterError([ops[o] EXCEPT !.uncan = TRUE])]
      PROVE  Promised
  <2>1. /\ \/ ops'[o] = [ops[o] EXCEPT !.uncan = TRUE]
           \/ ops'[o] = RegisterError([ops[o] EXCEPT !.uncan = TRUE])
        /\ ops' = [ops EXCEPT ![o] = ops'[o]]
    BY <1>1, <1>5, Zenon DEF Types
  <2>2. /\ ops[o] # Gone /\ ops'[o] # Gone
        /\ ops'[o].st = ops[o].st /\ ops'[o].uncan
    BY <1>5, <2>1, Added, Zenon
  <2>3. Active(o) /\ Active(o)' /\ OpIds' = OpIds
    <3>1. Active(o)
      BY <1>1, <1>2, Working, Zenon DEF Place, Ended
    <3> QED
      BY <1>2, <2>2, <3>1, Zenon DEF Active, OpIds
  <2>4. CASE ops[o].uncan
    <3>1. replicas' = replicas
      BY <1>1, <1>5, <2>2, <2>3, <2>4, Zenon DEF StatusInv
    <3>2. Settles(o)
      BY <1>2, <2>1, <2>2, <2>3, <2>4, <3>1, Zenon DEF Settles, Active, Ended
    <3> QED
      BY <3>2, LocalRefines, Zenon
  <2>5. CASE ~ops[o].uncan
    <3>1. PhaseOf(o) /\ PhaseOf(o)'
      BY <2>3, PhaseFacts, PhaseFactsNext, Zenon
    <3>2. Phase(o) = "pending" /\ Phase(o)' = "joined"
      BY <2>2, <2>3, <2>5, <3>1, Zenon DEF PhaseOf
    <3>3. \A p \in OpIds \ {o} : ops'[p] = ops[p] /\ (Known(p)' <=> Known(p))
      BY <1>1, <1>2, <2>1, Zenon DEF Types, Known
    <3>4. Lifecycle!Moves(o, "pending", "joined")
      BY <1>2, <3>2, <3>3, OnePhase, Zenon
    <3>5. Lifecycle!Join(o)
      BY <1>2, <1>5, <3>4, Zenon DEF Lifecycle!Join, Tgt
    <3> QED
      BY <3>5, Zenon DEF Promised, Lifecycle!Next, Lifecycle!Ids, OpIds
  <2> QED
    BY <2>4, <2>5
<1> QED
  BY <1>2, <1>3, <1>4, <1>5, Zenon
  DEF ReplicationAddReplicaToShard, AddReplica, AnswerLost

\* DEHYDRATING takes the source out once the target has joined.
LEMMA DehydrateRefines ==
    ASSUME ReplicaInv, ReplicaInv', NEW o \in OpIds, processDehydratingOp(o)
    PROVE  Promised
<1>1. MovementInv
  BY SetFacts
<1>2. /\ worker[o].pc = "try" /\ worker[o].copy.st = "DEHYDRATING"
      /\ UNCHANGED <<plan, used, reps, seen, shard, kept, consumer>>
  BY Zenon DEF processDehydratingOp, Handles
<1>3. CASE UNCHANGED <<ops, replicas>>
  BY <1>2, <1>3, StutterRefines, Zenon
<1>4. CASE HandlerFails(o) /\ UNCHANGED replicas
  BY <1>2, <1>4, FailRefines, Zenon
<1>5. CASE replicas' = replicas \ {Src(o)} /\ Done(o, "READY") /\ UNCHANGED ops
  <2>1. /\ Keeps(o) /\ worker'[o].copy = worker[o].copy
        /\ worker'[o].pc = "done" /\ worker'[o].next = "READY"
    BY <1>1, <1>2, <1>5, DoneKeeps, Zenon DEF Nexts
  <2>2. Sheds(o)
    BY <1>2, <1>5, <2>1, Zenon DEF Sheds
  <2>3. Active(o) /\ ops[o].uncan /\ Type(o) = "MOVE" /\ Tgt(o) \in replicas
    BY <2>2, ShedFacts, Zenon
  <2>4. Phase(o) = "joined"
    BY <2>3, PhaseFacts, Zenon DEF PhaseOf
  <2>5. OpIds' = OpIds /\ \A p \in OpIds : Phase(p)' = Phase(p)
    BY <1>2, <1>5 DEF OpIds, Phase
  <2>6. [p \in OpIds |-> Phase(p)]' = [p \in OpIds |-> Phase(p)]
    BY <2>5, Zenon
  <2>7. Lifecycle!Shed(o)
    BY <1>2, <1>5, <2>3, <2>4, <2>6, Zenon DEF Lifecycle!Shed, Type, Tgt, Src
  <2> QED
    BY <2>7, Zenon DEF Promised, Lifecycle!Next, Lifecycle!Ids, OpIds
<1> QED
  BY <1>3, <1>4, <1>5, Zenon DEF processDehydratingOp

\* An accepted request is admitted.
LEMMA ReplicateRefines ==
    ASSUME ReplicaInv, ReplicaInv', NEW o \in OpIds, Replicate(o)
    PROVE  Promised
<1>1. Types /\ o \in Nat /\ used \in Nat /\ \A p \in OpIds : p \in Nat
  <2>1. Types
    BY Zenon DEF ReplicaInv, MovementInv
  <2>2. o \in Nat /\ \A p \in OpIds : p \in Nat
    BY <2>1, PlanFacts
  <2>3. used \in Nat
    BY <2>1, PlanFacts DEF Types
  <2> QED
    BY <2>1, <2>2, <2>3, Zenon
<1>2. /\ UNCHANGED <<plan, replicas>> /\ o = used + 1 /\ used' = o
      /\ ops' = [ops EXCEPT ![o] = NewShardReplicationStatus]
      /\ Src(o) \in replicas /\ Tgt(o) \notin replicas
  BY Zenon DEF Replicate, ValidateReplicationReplicateShard
<1>3. ~Known(o) /\ Known(o)' /\ \A p \in OpIds \ {o} : Known(p)' <=> Known(p)
  BY <1>1, <1>2 DEF Known
<1>4. ops'[o] = NewShardReplicationStatus /\ \A p \in OpIds \ {o} : ops'[p] = ops[p]
  BY <1>1, <1>2, Zenon DEF Types
<1>5. OpIds' = OpIds
  BY <1>2, Zenon DEF OpIds
<1>6. Active(o)' /\ ~ops'[o].uncan
  <2>1. /\ NewShardReplicationStatus.st = "REGISTERED"
        /\ NewShardReplicationStatus.uncan = FALSE
    BY DEF NewShardReplicationStatus
  <2>2. Gone.st = "GONE"
    BY DEF Gone
  <2> QED
    BY <1>4, <2>1, <2>2 DEF Active, Ended
<1>7. Phase(o) = "new" /\ Phase(o)' = "pending"
  BY <1>3, <1>5, <1>6, PhaseFacts, PhaseFactsNext, Zenon DEF PhaseOf
<1>8. Lifecycle!Moves(o, "new", "pending")
  BY <1>2, <1>3, <1>4, <1>7, OnePhase, Zenon
<1>9. Lifecycle!Admit(o)
  BY <1>2, <1>8, Zenon DEF Lifecycle!Admit, Src, Tgt
<1> QED
  BY <1>9, Zenon DEF Promised, Lifecycle!Next, Lifecycle!Ids, OpIds

\* Every step is one that is promised, or none.
LEMMA NextRefines ==
    ASSUME ReplicaInv, ReplicaInv', Next
    PROVE  Promised
<1>1. ASSUME NEW o \in OpIds, WorkerStep(o) PROVE Promised
  <2>1. CASE UNCHANGED <<plan, ops, used, replicas>>
    BY <2>1, StutterRefines, Zenon
  <2>2. CASE \/ StartHydrating(o) \/ EndHydrating(o) \/ DrainFinalizing(o)
             \/ dropCancelledOpTargetShard(o)
    <3>1. UNCHANGED <<plan, used, replicas>> /\ (HandlerFails(o) \/ UNCHANGED ops)
      BY <2>2, Zenon
      DEF StartHydrating, EndHydrating, DrainFinalizing, dropCancelledOpTargetShard
    <3> QED
      BY <2>1, <3>1, FailRefines, Zenon
  <2>3. CASE Transition(o)
    <3>1. worker[o].pc = "done" /\ Inert(o) /\ UNCHANGED shard
      BY <2>3, Zenon DEF Transition, Inert
    <3>2. UpdateOpStatus(o) \/ UNCHANGED ops
      BY <2>3, Zenon DEF Transition
    <3> QED
      BY <2>1, <3>1, <3>2, UpdateRefines, Zenon DEF Inert
  <2>4. CASE \/ Begin(o) \/ Interrupted(o) \/ processRegisteredOp(o)
             \/ StartFinalizing(o) \/ processIntegratingOp(o) \/ processCancelledOp(o)
             \/ StopCapture(o) \/ Leave(o)
    <3>1. UNCHANGED <<plan, ops, used, replicas>>
      BY <2>4, Zenon
      DEF Begin, Interrupted, processRegisteredOp, StartFinalizing,
          processIntegratingOp, processCancelledOp, StopCapture, Leave
    <3> QED
      BY <2>1, <3>1
  <2> QED
    BY <1>1, <2>2, <2>3, <2>4, AddRefines, DehydrateRefines, EndRefines, Zenon
    DEF WorkerStep
<1>2. ASSUME NEW o \in OpIds, StepFails(o) \/ TimesOut(o) \/ AnswerLost(o) \/ NotifyFails(o)
      PROVE  Promised
  <2>1. CASE StepFails(o)
    BY <2>1, FailRefines, Zenon DEF StepFails
  <2>2. CASE AnswerLost(o) /\ worker[o].pc = "done"
    <3>1. UpdateOpStatus(o) /\ Inert(o) /\ UNCHANGED shard
      BY <2>2, Zenon DEF AnswerLost, Inert
    <3> QED
      BY <2>2, <3>1, UpdateRefines, Zenon
  <2>3. CASE TimesOut(o) \/ NotifyFails(o)
    BY <2>3, StutterRefines, Zenon DEF TimesOut, NotifyFails
  <2>4. AnswerLost(o) => worker[o].pc \in {"add", "done"}
    BY Zenon DEF AnswerLost
  <2> QED
    BY <1>2, <2>1, <2>2, <2>3, <2>4, AddRefines, Zenon
<1>3. ASSUME NEW o \in OpIds, Consume(o) PROVE Promised
  BY <1>3, StutterRefines, Zenon DEF Consume
<1>4. ASSUME NEW n, CatchUp(n) \/ Spawn(n) \/ Crash(n) PROVE Promised
  BY <1>4, StutterRefines, Zenon DEF CatchUp, Spawn, Crash
<1> QED
  BY <1>1, <1>2, <1>3, <1>4, ReplicateRefines, CommandRefines, Zenon DEF Next

\* With all its nodes, copies, retries and faults a movement is the one that
\* MovementLifecycle promises: admitted with its source in the replica set and
\* its target out, joined in one step, never cancelled after that, and over once
\* the source of a MOVE is out.
THEOREM MovementImplementsLifecycle == TakenOnce => (Spec => ImplementsLifecycle)
<1> SUFFICES ASSUME TakenOnce PROVE Spec => ImplementsLifecycle
  OBVIOUS
<1>1. Init => Lifecycle!Init
  <2> SUFFICES ASSUME Init PROVE Lifecycle!Init
    OBVIOUS
  <2>1. Types /\ plan \in ScenarioType
    BY InitInv, MovementConstants DEF MovementInv, Types
  <2>2. \A o \in OpIds : o > used
    <3>1. \A o \in OpIds : o \in Nat \ {0}
      BY <2>1, PlanFacts, Zenon
    <3> QED
      BY <3>1 DEF Init
  <2>3. \A o \in OpIds : Phase(o) = "new"
    <3>1. \A o \in OpIds : ~Known(o)
      BY <2>1, <2>2, PlanFacts DEF Known, Types
    <3> QED
      BY <3>1, InitReplicaInv, PhaseFacts, Zenon DEF PhaseOf
  <2>4. replicas # {}
    BY <2>1 DEF Init, ScenarioType
  <2> QED
    BY <2>3, <2>4, Zenon DEF Lifecycle!Init, Lifecycle!Ids, OpIds
<1>2. ReplicaInv /\ ReplicaInv' /\ [Next]_vars => [Lifecycle!Next]_(Lifecycle!vars)
  <2> SUFFICES ASSUME ReplicaInv, ReplicaInv', [Next]_vars PROVE Promised
    BY Zenon DEF Promised
  <2>1. CASE UNCHANGED vars
    BY <2>1, StutterRefines, Zenon DEF vars
  <2> QED
    BY <2>1, NextRefines, Zenon
<1> QED
  BY ReplicaInvariant, <1>1, <1>2, PTL DEF Spec, ImplementsLifecycle, Lifecycle!Spec
-----------------------------------------------------------------------------
(* The replicas that are routed to.                                        *)

INSTANCE FiniteSetTheorems

Routed == {n \in replicas : filterOneReplicaReadWrite(n)}

\* What is not routed to is the target of a busy movement, or the source of one,
\* and then its target is routed to.
LEMMA HiddenByBusy ==
    ASSUME TakenOnce, ReplicaInv, NEW n \in replicas \ Routed
    PROVE  \E o \in Busy : \/ Tgt(o) = n
                           \/ Src(o) = n /\ Tgt(o) \in Routed
<1> DEFINE live == {o \in OpIds : ops[o] # Gone /\ ops[o].st # "CANCELLED"}
           asTarget(m) == {ops[o].st : o \in {p \in live : Tgt(p) = m}}
<1>1. CASE \E o \in live : Src(o) = n /\ ops[o].st = "DEHYDRATING"
  <2>1. PICK o \in live : Src(o) = n /\ ops[o].st = "DEHYDRATING"
    BY <1>1
  <2>2. o \in OpIds /\ ops[o] # Gone /\ Active(o)
    BY <2>1, Zenon DEF Active, Ended
  <2>3. ops[o].uncan /\ Tgt(o) \in replicas /\ Src(o) # Tgt(o)
    BY <2>1, <2>2, SetFacts, Zenon DEF StatusInv, Member
  <2>4. o \in Busy
    BY <2>1, <2>2, <2>3, Zenon DEF Busy
  <2>5. ASSUME NEW p \in live, Src(p) = Tgt(o), ops[p].st = "DEHYDRATING" PROVE FALSE
    <3>1. p # o /\ p \in OpIds /\ Known(p) /\ Type(p) = "MOVE"
      BY <2>3, <2>5, SetFacts, Zenon DEF StatusInv
    <3> QED
      BY <2>2, <2>5, <3>1, Zenon DEF ReplicaInv, Apart
  <2>6. "DEHYDRATING" \in asTarget(Tgt(o))
    BY <2>1, Zenon
  <2>7. filterOneReplicaReadWrite(Tgt(o))
    BY <2>5, <2>6, Zenon DEF filterOneReplicaReadWrite
  <2> QED
    BY <2>1, <2>3, <2>4, <2>7, Zenon DEF Routed
<1>2. CASE ~\E o \in live : Src(o) = n /\ ops[o].st = "DEHYDRATING"
  <2>1. asTarget(n) # {} /\ asTarget(n) \cap {"READY", "DEHYDRATING", "INTEGRATING"} = {}
    BY <1>2, Zenon DEF filterOneReplicaReadWrite, Routed
  <2>2. PICK o \in live : Tgt(o) = n
    BY <2>1, Zenon
  <2>3. ops[o].st \notin {"READY", "DEHYDRATING", "INTEGRATING"}
    BY <2>1, <2>2, Zenon
  <2>4. o \in OpIds /\ ops[o] # Gone /\ Active(o)
    BY <2>2, <2>3, Zenon DEF Active, Ended
  <2>5. ops[o].uncan
    BY <2>2, <2>4, NotJoined, Zenon
  <2>6. o \in Busy
    BY <2>3, <2>4, <2>5, Zenon DEF Busy
  <2> QED
    BY <2>2, <2>6, Zenon
<1> QED
  BY <1>1, <1>2

\* Each of the first holders has a replica of its own that is routed to.
LEMMA RoutedStands ==
    ASSUME TakenOnce, ReplicaInv
    PROVE  \E g \in [plan.holders -> Routed] :
               \A h, i \in plan.holders : g[h] = g[i] => h = i
<1>1. PICK f \in [plan.holders -> replicas] : Stands(f)
  BY Zenon DEF ReplicaInv, Counted
<1> DEFINE Away(h) == {o \in Busy : Src(o) = f[h] /\ Tgt(o) \in Routed}
           mover(h) == CHOOSE o \in Away(h) : TRUE
           g == [h \in plan.holders |-> IF f[h] \in Routed THEN f[h] ELSE Tgt(mover(h))]
<1>2. ASSUME NEW h \in plan.holders, f[h] \notin Routed
      PROVE  /\ mover(h) \in Busy /\ mover(h) \in OpIds
             /\ Src(mover(h)) = f[h] /\ Tgt(mover(h)) \in Routed
  <2>1. f[h] \in replicas \ Routed /\ \A o \in Busy : f[h] # Tgt(o)
    BY <1>1, <1>2, Zenon DEF Stands
  <2>2. \E o \in Busy : Src(o) = f[h] /\ Tgt(o) \in Routed
    BY <2>1, HiddenByBusy, Zenon
  <2>3. \E o : o \in Away(h)
    BY <2>2, Zenon
  <2>4. mover(h) \in Away(h)
    BY <2>3, Zenon
  <2> QED
    BY <2>4, Zenon DEF Busy
<1>3. \A h \in plan.holders : g[h] \in Routed
  BY <1>2, Zenon
<1>4. ASSUME NEW h \in plan.holders, NEW i \in plan.holders, g[h] = g[i]
      PROVE  h = i
  <2>1. \A p, q \in plan.holders : f[p] = f[q] => p = q
    BY <1>1, Zenon DEF Stands
  <2>2. \A o \in Busy : f[h] # Tgt(o) /\ f[i] # Tgt(o)
    BY <1>1, Zenon DEF Stands
  <2>3. CASE f[h] \in Routed \/ f[i] \in Routed
    BY <1>2, <1>4, <2>1, <2>2, <2>3, Zenon
  <2>4. CASE f[h] \notin Routed /\ f[i] \notin Routed
    <3>1. Tgt(mover(h)) = Tgt(mover(i))
      BY <1>4, <2>4, Zenon
    <3>2. Types /\ mover(h) \in OpIds /\ mover(i) \in OpIds
      BY <1>2, <2>4, SetFacts, Zenon
    <3>3. mover(h) = mover(i)
      BY <3>1, <3>2, Targets, Zenon
    <3>4. f[h] = f[i]
      BY <1>2, <2>4, <3>3, Zenon
    <3> QED
      BY <2>1, <3>4, Zenon
  <2> QED
    BY <2>3, <2>4, Zenon
<1>5. g \in [plan.holders -> Routed]
  BY <1>3, Zenon
<1> HIDE DEF g
<1> QED
  BY <1>4, <1>5, Zenon

\* Reads and writes always find as many replicas as the replication factor.
THEOREM MovementEnoughReplicas == TakenOnce => (Spec => []EnoughReplicas)
<1> SUFFICES ASSUME TakenOnce PROVE Spec => []EnoughReplicas
  OBVIOUS
<1>1. ReplicaInv => EnoughReplicas
  <2> SUFFICES ASSUME ReplicaInv PROVE EnoughReplicas
    OBVIOUS
  <2>1. IsFiniteSet(Routed)
    <3>1. Routed \subseteq Nodes /\ IsFiniteSet(Nodes)
      BY MovementConstants DEF Routed, ReplicaInv, MovementInv, Types
    <3> QED
      BY <3>1, FS_Subset, Zenon
  <2>2. PICK g \in [plan.holders -> Routed] :
            \A h, i \in plan.holders : g[h] = g[i] => h = i
    BY RoutedStands, Zenon
  <2>3. g \in Injection(plan.holders, Routed)
    BY <2>2, Zenon DEF Injection, IsInjective
  <2>4. /\ IsFiniteSet(plan.holders)
        /\ Cardinality(plan.holders) <= Cardinality(Routed)
    BY <2>1, <2>3, FS_Injection, Zenon
  <2>5. Cardinality(plan.holders) \in Nat /\ Cardinality(Routed) \in Nat
    BY <2>1, <2>4, FS_CardinalityType, Zenon
  <2>6. Cardinality(Routed) >= Cardinality(plan.holders)
    BY <2>4, <2>5
  <2> QED
    BY <2>6, Zenon DEF EnoughReplicas, Routed
<1> QED
  BY ReplicaInvariant, <1>1, PTL

=============================================================================
