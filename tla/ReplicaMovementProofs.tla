----------------------- MODULE ReplicaMovementProofs -----------------------
(***************************************************************************)
(* For any nodes, requests, cancellations, deletions and faults: the table *)
(* is well-typed, a movement that has joined is never cancelled, a         *)
(* cancelled one has no change log unless stopping it failed, and no       *)
(* operation goes back to a state it has left.                             *)
(***************************************************************************)
EXTENDS ReplicaMovement, TLAPS

Status == [st : States, cancel : BOOLEAN, del : BOOLEAN, uncan : BOOLEAN,
           errs : 0 .. MaxErrors]
Copies == [st : States, cancel : BOOLEAN, del : BOOLEAN]
Pcs == {"idle", "begin", "try", "copying", "drain", "add", "done", "purge",
        "remove", "cleanup", "drop", "notify", "leave"}
Nexts == {"", "exists", "HYDRATING", "FINALIZING", "INTEGRATING", "DEHYDRATING",
          "READY", "DELETED"}
Workers == [pc : Pcs, copy : Copies \cup {Gone}, next : Nexts, stop : BOOLEAN]
Messages == [op : OpIds, copy : Copies]
Contents == {"none", "partial", "whole", "hollow"}

\* The types of all variables.
Types ==
    /\ plan \in Scenarios
    /\ ops \in [OpIds -> Status \cup {Gone}]
    /\ replicas \in SUBSET Nodes
    /\ used \in 0 .. Len(plan.reqs)
    /\ seen \in [OpIds -> Copies \cup {Gone}]
    /\ reps \in [Nodes -> SUBSET Nodes]
    /\ shard \in [Nodes -> Contents]
    /\ log \in SUBSET OpIds
    /\ kept \in [OpIds -> SUBSET {"log", "files"}]
    /\ consumer \in [Nodes -> Messages \cup {NoMsg}]
    /\ worker \in [OpIds -> Workers]
    /\ marked \in SUBSET OpIds
    /\ faults \in 0 .. plan.faults

\* A copy that says "cancelled, not deleted" is of an operation that was
\* cancellable then, and has stayed out of the replica set since.
CancelHeld(o, c) ==
    c.cancel /\ ~c.del /\ ops[o] # Gone =>
        ~ops[o].uncan /\ (ops[o].cancel \/ ops[o].st = "CANCELLED")

\* What the handler of a state may return.
Follows == {<<"REGISTERED", "HYDRATING">>, <<"HYDRATING", "FINALIZING">>,
            <<"FINALIZING", "INTEGRATING">>, <<"INTEGRATING", "DEHYDRATING">>,
            <<"INTEGRATING", "READY">>, <<"DEHYDRATING", "READY">>}

Joined(s) ==
    s # Gone /\ s.uncan =>
        s.st # "CANCELLED" /\ (s.cancel => s.st = "READY" /\ s.del)

Fresh(o) ==
    /\ ops[o] = Gone /\ seen[o] = Gone /\ worker[o].pc = "idle"
    /\ \A n \in Nodes : consumer[n] # NoMsg => consumer[n].op # o

\* There is a change log, and not because the last attempt to stop it failed.
Open(o) == o \in log /\ "log" \notin kept[o]

\* A worker acts on a copy whose state is the leader's, knows in which handler
\* it is, and has tried to stop the capture before it tells the leader; no
\* CANCELLED operation has an open change log.
Place(o) ==
    LET w == worker[o]
    IN  /\ w.pc \notin {"idle", "leave"} => ops[o] = Gone \/ ops[o].st = w.copy.st
        /\ w.pc = "try" => w.copy.st # "READY"
        /\ w.pc = "copying" => w.copy.st = "HYDRATING"
        /\ w.pc \in {"drain", "add"} => w.copy.st = "FINALIZING"
        /\ w.pc \in {"purge", "remove"} => w.copy.st = "CANCELLED"
        /\ w.pc = "done" => \/ w.next = "DELETED" /\ ops[o] = Gone
                            \/ <<w.copy.st, w.next>> \in Follows
        /\ w.pc \in {"drop", "notify"} => ~Open(o)
        /\ ops[o] # Gone /\ ops[o].st = "CANCELLED" => ~Open(o)

WorkerInv(o) ==
    /\ worker[o].pc # "idle" =>
           worker[o].copy \in Copies /\ CancelHeld(o, worker[o].copy)
    /\ Place(o)

OpInv(o) ==
    /\ o > used => Fresh(o)
    /\ Joined(ops[o])
    /\ seen[o] # Gone => CancelHeld(o, seen[o])
    /\ \A n \in Nodes : consumer[n] # NoMsg /\ consumer[n].op = o =>
           CancelHeld(o, consumer[n].copy)
    /\ WorkerInv(o)

MovementInv == Types /\ \A o \in OpIds : OpInv(o)

\* How a command may change a status: it never goes back, never becomes part of
\* the replica set once cancelled, and a cancellation is not taken back.
Later(s, t) ==
    t # Gone =>
        /\ s # Gone
        /\ StateRank(s.st) <= StateRank(t.st)
        /\ t.uncan /\ ~s.uncan => ~s.cancel /\ s.st # "CANCELLED"
        /\ s.cancel \/ s.st = "CANCELLED" => t.cancel \/ t.st = "CANCELLED"
        /\ Joined(t)

\* A step keeps the invariant and changes every status in that way only.
Sound ==
    /\ MovementInv'
    /\ \A o \in OpIds : ops[o] # Gone => Later(ops[o], ops'[o])

-----------------------------------------------------------------------------

\* A status or a copy is not the mark of an absent one.
LEMMA NotGone ==
    /\ \A s \in Status : s # Gone /\ s.st \in States
    /\ \A c \in Copies : c # Gone /\ c.st \in States
    /\ Gone.st \notin States
    /\ \A m \in Messages : m # NoMsg
BY MovementConstants DEF Status, Copies, Gone, States, Messages, NoMsg

\* An element of a sequence over S is in S.
LEMMA Element ==
    ASSUME NEW S, NEW q \in Seq(S), NEW i \in 1 .. Len(q) PROVE q[i] \in S
OBVIOUS

\* Facts about the requests of a scenario.
LEMMA PlanFacts ==
    ASSUME Types
    PROVE  /\ plan.reqs \in Seq([src : Nodes, tgt : Nodes, type : {"COPY", "MOVE"}])
           /\ plan.holders \in SUBSET Nodes /\ plan.faults \in Nat
           /\ OpIds = 1 .. Len(plan.reqs) /\ Len(plan.reqs) \in Nat
           /\ \A o \in OpIds : o \in Nat \ {0} /\ Src(o) \in Nodes /\ Tgt(o) \in Nodes
<1>1. plan \in ScenarioType
  BY MovementConstants DEF Types
<1>2. plan.reqs \in Seq([src : Nodes, tgt : Nodes, type : {"COPY", "MOVE"}])
  BY <1>1 DEF ScenarioType
<1>3. plan.holders \in SUBSET Nodes /\ plan.faults \in Nat
  BY <1>1 DEF ScenarioType
<1>4. OpIds = 1 .. Len(plan.reqs) /\ Len(plan.reqs) \in Nat
  BY <1>2 DEF OpIds
<1>5. ASSUME NEW o \in OpIds
      PROVE  o \in Nat \ {0} /\ Src(o) \in Nodes /\ Tgt(o) \in Nodes
  <2>1. plan.reqs[o] \in [src : Nodes, tgt : Nodes, type : {"COPY", "MOVE"}]
    BY <1>2, <1>4, Element, Zenon
  <2> QED
    BY <1>4, <2>1 DEF Src, Tgt
<1> QED
  BY <1>2, <1>3, <1>4, <1>5

\* The first state has the invariant.
LEMMA InitInv == Init => MovementInv
<1> SUFFICES ASSUME Init PROVE MovementInv
  OBVIOUS
<1>1. plan \in Scenarios /\ plan \in ScenarioType
  BY MovementConstants DEF Init
<1>2. /\ plan.holders \in SUBSET Nodes /\ plan.faults \in Nat
      /\ Len(plan.reqs) \in Nat
  BY <1>1 DEF ScenarioType
<1>3. Types
  <2>1. Idle \in Workers
    BY DEF Idle, Workers, Pcs, Nexts
  <2>2. shard \in [Nodes -> Contents] /\ reps \in [Nodes -> SUBSET Nodes]
    BY <1>2 DEF Init, Contents
  <2> QED
    BY <1>1, <1>2, <2>1, <2>2 DEF Init, Types
<1>4. ASSUME NEW o \in OpIds PROVE OpInv(o)
  BY <1>1, <1>2, Zenon
  DEF Init, OpInv, Fresh, Joined, WorkerInv, Place, Open, CancelHeld, Idle
<1> QED
  BY <1>3, <1>4 DEF MovementInv

\* An error is counted until there are too many, and then cancels what can be
\* cancelled.
LEMMA RegisterErrorFacts ==
    ASSUME NEW s \in Status \cup {Gone}, Joined(s)
    PROVE  /\ RegisterError(s) \in Status \cup {Gone}
           /\ RegisterError(s) = Gone <=> s = Gone
           /\ s # Gone => RegisterError(s).st = s.st
           /\ Later(s, RegisterError(s))
<1>1. CASE s = Gone
  BY <1>1 DEF RegisterError, Later
<1>2. CASE s # Gone
  <2>1. s \in Status /\ MaxErrors \in Nat
    BY <1>2, MovementConstants
  <2>2. RegisterError(s) \in Status /\ RegisterError(s).st = s.st
    <3>1. CASE s.errs < MaxErrors
      BY <1>2, <2>1, <3>1 DEF RegisterError, Status
    <3>2. CASE ~(s.errs < MaxErrors)
      BY <1>2, <2>1, <3>2, Zenon DEF RegisterError, TriggerCancellation, Status
    <3> QED
      BY <3>1, <3>2
  <2>3. StateRank(s.st) <= StateRank(s.st)
    BY <2>1 DEF StateRank, Status, States
  <2>4. Later(s, RegisterError(s))
    BY <1>2, <2>1, <2>2, <2>3 DEF RegisterError, TriggerCancellation, Status, Later, Joined
  <2> QED
    BY <1>2, <2>2, <2>4, NotGone
<1> QED
  BY <1>1, <1>2

\* A status left alone is a later one.
LEMMA LaterSame ==
    ASSUME NEW s \in Status \cup {Gone}, Joined(s)
    PROVE  Later(s, s)
BY DEF Later, Status, States, StateRank, Joined

\* A cancellation that a copy knows of stands as the status changes.
LEMMA CancelStands ==
    ASSUME NEW o \in OpIds, NEW c, CancelHeld(o, c), Later(ops[o], ops'[o])
    PROVE  c.cancel /\ ~c.del /\ ops'[o] # Gone =>
               ~ops'[o].uncan /\ (ops'[o].cancel \/ ops'[o].st = "CANCELLED")
BY DEF CancelHeld, Later

-----------------------------------------------------------------------------
(* Steps that change one operation only.                                   *)

\* What is known of an operation with a worker, or of any operation.
LEMMA OpFacts ==
    ASSUME MovementInv, NEW o \in OpIds
    PROVE  /\ OpInv(o) /\ WorkerInv(o) /\ Joined(ops[o]) /\ Types
           /\ ops[o] \in Status \cup {Gone} /\ worker[o] \in Workers
           /\ ops[o] # Gone => ops[o] \in Status /\ ops[o].st \in States
           /\ worker[o].pc # "idle" => worker[o].copy \in Copies
           /\ ops[o] # Gone \/ worker[o].pc # "idle" => ~(o > used)
BY NotGone DEF MovementInv, OpInv, WorkerInv, Types, Fresh

\* Only o and its worker change, and no other change log is opened.
OneOp(o) ==
    /\ UNCHANGED <<plan, used, seen, consumer>>
    /\ \A p \in OpIds \ {o} :
           ops'[p] = ops[p] /\ worker'[p] = worker[p] /\ (Open(p)' => Open(p))

\* Such a step is sound when it is for o.
LEMMA OneOpSound ==
    ASSUME MovementInv, NEW o \in OpIds, Types', OneOp(o),
           ops[o] # Gone \/ worker[o].pc # "idle",
           Later(ops[o], ops'[o]), WorkerInv(o)'
    PROVE  Sound
<1>0. OpIds' = OpIds
  BY DEF OneOp, Open, OpIds
<1>1. ASSUME NEW p \in OpIds, p # o PROVE OpInv(p)' /\ Later(ops[p], ops'[p])
  <2>1. OpInv(p) /\ ops[p] \in Status \cup {Gone}
    BY DEF MovementInv, Types
  <2>2. ops'[p] = ops[p] /\ worker'[p] = worker[p] /\ (Open(p)' => Open(p))
    BY <1>1, SMTT(30), Z3T(30) DEF OneOp, Open
  <2>3. OpInv(p)'
    BY <2>1, <2>2, SMTT(30), Z3T(30) DEF OneOp, Open, OpInv, Fresh, Joined, WorkerInv, Place, CancelHeld
  <2>4. Later(ops[p], ops'[p])
    BY <2>1, <2>2, LaterSame, SMTT(30), Z3T(30) DEF OpInv
  <2> QED
    BY <2>3, <2>4
<1>2. OpInv(o)'
  <2>1. OpInv(o) /\ ~(o > used)
    BY OpFacts
  <2>2. Joined(ops'[o])
    BY DEF Later, Joined
  <2>3. ASSUME NEW c, CancelHeld(o, c)
        PROVE  c.cancel /\ ~c.del /\ ops'[o] # Gone =>
                   ~ops'[o].uncan /\ (ops'[o].cancel \/ ops'[o].st = "CANCELLED")
    BY <2>3, CancelStands
  <2>4. seen'[o] # Gone => CancelHeld(o, seen[o])'
    BY <2>1, <2>3 DEF OneOp, Open, OpInv, CancelHeld
  <2>5. ASSUME NEW n \in Nodes, consumer'[n] # NoMsg, consumer'[n].op = o
        PROVE  CancelHeld(o, consumer[n].copy)'
    BY <2>1, <2>3, <2>5 DEF OneOp, Open, OpInv, CancelHeld
  <2> QED
    BY <2>1, <2>2, <2>4, <2>5 DEF OpInv, OneOp, Open
<1> QED
  BY <1>0, <1>1, <1>2 DEF Sound, MovementInv

\* A command of a user or of the cleaner changes a status, and no worker.
LEMMA CommandSound ==
    ASSUME MovementInv, NEW o \in OpIds, ops[o] # Gone,
           CancelReplication(o) \/ DeleteReplication(o) \/ Sweep(o)
    PROVE  Sound
<1>1. /\ OpInv(o) /\ WorkerInv(o) /\ Joined(ops[o]) /\ Types
      /\ ops[o] \in Status /\ ops[o].st \in States
  BY OpFacts
<1>2. UNCHANGED <<plan, replicas, used, seen, reps, shard, log, kept, consumer, worker,
                  marked, faults>>
  BY DEF CancelReplication, DeleteReplication, Sweep
<1>3. /\ ops'[o] = Gone \/ (ops'[o] \in Status /\ ops'[o].st = ops[o].st)
      /\ Later(ops[o], ops'[o])
      /\ ops' = [ops EXCEPT ![o] = ops'[o]]
  <2>0. StateRank(ops[o].st) <= StateRank(ops[o].st)
    BY <1>1 DEF StateRank, States
  <2>1. CASE CancelReplication(o)
    BY <1>1, <2>0, <2>1, Zenon
    DEF CancelReplication, TriggerCancellation, Status, Later, Joined, Types
  <2>2. CASE DeleteReplication(o)
    BY <1>1, <2>0, <2>2, Zenon
    DEF DeleteReplication, TriggerDeletion, Status, Later, Joined, Types
  <2>3. CASE Sweep(o)
    BY <1>1, <2>3 DEF Sweep, Later, Types
  <2> QED
    BY <2>1, <2>2, <2>3
<1>4. Types'
  BY <1>1, <1>2, <1>3, ZenonT(30) DEF Types, OpIds, Messages
<1>5. OneOp(o)
  BY <1>1, <1>2, <1>3, SMTT(30), Z3T(30) DEF OneOp, Open, Types
<1>6. WorkerInv(o)'
  <2>1. CancelHeld(o, worker[o].copy) => CancelHeld(o, worker[o].copy)'
    BY <1>2, <1>3, CancelStands DEF CancelHeld
  <2> QED
    BY <1>1, <1>2, <1>3, <2>1 DEF WorkerInv, Place, Open
<1> QED
  BY <1>3, <1>4, <1>5, <1>6, OneOpSound

-----------------------------------------------------------------------------
(* The steps of a worker.                                                  *)

\* What a step of o's worker leaves alone, and the types of what it changes.
Frame(o) ==
    /\ UNCHANGED <<plan, used, seen, reps, consumer>>
    /\ replicas' \in SUBSET Nodes /\ shard' \in [Nodes -> Contents]
    /\ log' \in SUBSET OpIds /\ kept' \in [OpIds -> SUBSET {"log", "files"}]
    /\ \A p \in OpIds \ {o} : Open(p)' => Open(p)
    /\ marked' \in SUBSET OpIds /\ faults' \in 0 .. plan.faults

\* The worker keeps the flags of its copy.
Keeps(o) ==
    /\ worker' = [worker EXCEPT ![o] = worker'[o]] /\ worker'[o] \in Workers
    /\ worker'[o].pc # "idle" =>
           /\ worker'[o].copy \in Copies
           /\ worker'[o].copy.cancel = worker[o].copy.cancel
           /\ worker'[o].copy.del = worker[o].copy.del

\* The status moves on.
Moves(o) ==
    /\ ops' = [ops EXCEPT ![o] = ops'[o]] /\ ops'[o] \in Status \cup {Gone}
    /\ Later(ops[o], ops'[o])

\* A step of a worker is sound when the worker is in its place after it.
LEMMA WorkerSound ==
    ASSUME MovementInv, NEW o \in OpIds, worker[o].pc # "idle",
           Frame(o), Keeps(o), Moves(o), Place(o)'
    PROVE  Sound
<1>1. /\ OpInv(o) /\ WorkerInv(o) /\ Types /\ plan' = plan /\ OpIds' = OpIds
  BY OpFacts DEF Frame, Open, OpIds
<1>2. Types'
  BY <1>1, SMTT(30), Z3T(30) DEF Types, Frame, Open, Keeps, Moves, Messages
<1>3. OneOp(o)
  BY <1>1 DEF OneOp, Open, Types, Frame, Keeps, Moves
<1>4. WorkerInv(o)'
  <2>1. CancelHeld(o, worker[o].copy)
    BY <1>1 DEF WorkerInv
  <2>2. worker'[o].pc # "idle" => CancelHeld(o, worker[o].copy)'
    BY <2>1, CancelStands, Zenon DEF CancelHeld, Keeps, Moves
  <2> QED
    BY <2>2 DEF WorkerInv, Keeps
<1> QED
  BY <1>2, <1>3, <1>4, OneOpSound DEF Moves

\* A step that leaves the table alone.
LEMMA QuietMoves ==
    ASSUME MovementInv, NEW o \in OpIds, UNCHANGED ops
    PROVE  Moves(o)
BY OpFacts, LaterSame DEF Moves, Types

\* Going to another place keeps the copy.
LEMMA GoToKeeps ==
    ASSUME MovementInv, NEW o \in OpIds, worker[o].pc # "idle",
           NEW pc \in Pcs, GoTo(o, pc)
    PROVE  Keeps(o) /\ worker'[o].pc = pc /\ worker'[o].copy = worker[o].copy
<1>1. worker \in [OpIds -> Workers] /\ worker[o].copy \in Copies
  BY OpFacts DEF Types
<1> QED
  BY <1>1 DEF Keeps, GoTo, Workers

\* So does being done with a handler.
LEMMA DoneKeeps ==
    ASSUME MovementInv, NEW o \in OpIds, worker[o].pc # "idle",
           NEW next \in Nexts, Done(o, next)
    PROVE  /\ Keeps(o) /\ worker'[o].copy = worker[o].copy
           /\ worker'[o].pc = "done" /\ worker'[o].next = next
<1>1. worker \in [OpIds -> Workers] /\ worker[o].copy \in Copies
  BY OpFacts DEF Types
<1> QED
  BY <1>1, Zenon DEF Keeps, Done, Workers, Pcs

\* A failed handler changes the status as RegisterError does, and ends.
LEMMA HandlerFailsFacts ==
    ASSUME MovementInv, NEW o \in OpIds, HandlerFails(o),
           worker[o].pc \notin {"idle", "leave"}
    PROVE  Keeps(o) /\ Moves(o) /\ ((Open(o)' => Open(o)) => Place(o)')
<1>1. /\ Types /\ WorkerInv(o) /\ Joined(ops[o]) /\ ops[o] \in Status \cup {Gone}
  BY OpFacts
<1>2. CASE o \in marked
  <2>1. GoTo(o, "cleanup") /\ UNCHANGED ops
    BY <1>2 DEF HandlerFails
  <2>2. /\ Keeps(o) /\ worker'[o].pc = "cleanup" /\ worker'[o].copy = worker[o].copy
    BY <2>1, GoToKeeps, SMTT(30), Z3T(30) DEF Pcs
  <2>3. (Open(o)' => Open(o)) => Place(o)'
    BY <1>1, <2>1, <2>2 DEF WorkerInv, Place, Open
  <2> QED
    BY <2>1, <2>2, <2>3, QuietMoves
<1>3. CASE o \notin marked
  <2>1. GoTo(o, "leave") /\ ops' = [ops EXCEPT ![o] = RegisterError(ops[o])]
    BY <1>3 DEF HandlerFails
  <2>2. Keeps(o) /\ worker'[o].pc = "leave"
    BY <2>1, GoToKeeps DEF Pcs
  <2>3. ops'[o] = RegisterError(ops[o])
    BY <1>1, <2>1 DEF Types
  <2>4. Moves(o)
    BY <1>1, <2>1, <2>3, RegisterErrorFacts, ZenonT(30) DEF Moves
  <2>5. (Open(o)' => Open(o)) => Place(o)'
    BY <1>1, <2>2, <2>3, RegisterErrorFacts DEF WorkerInv, Place, Open
  <2> QED
    BY <2>2, <2>4, <2>5
<1> QED
  BY <1>2, <1>3

\* Stopping the capture: it is stopped, or the attempt has failed.
LEMMA StopFacts ==
    ASSUME Types, NEW o \in OpIds, Stopped(o) \/ StillOpen(o)
    PROVE  /\ log' \in SUBSET OpIds /\ kept' \in [OpIds -> SUBSET {"log", "files"}]
           /\ ~Open(o)' /\ \A p \in OpIds \ {o} : Open(p)' => Open(p)
<1>1. /\ log \in SUBSET OpIds /\ kept \in [OpIds -> SUBSET {"log", "files"}]
  BY DEF Types
<1>2. CASE Stopped(o)
  BY <1>1, <1>2 DEF Stopped, Open
<1>3. CASE StillOpen(o)
  BY <1>1, <1>3 DEF StillOpen, Open
<1> QED
  BY <1>2, <1>3

\* The fault of a stop that fails is counted.
LEMMA StopCounts ==
    ASSUME Types, NEW o \in OpIds, StopChangeCapture(o)
    PROVE  (Stopped(o) \/ StillOpen(o)) /\ faults' \in 0 .. plan.faults
<1>1. plan.faults \in Nat /\ faults \in 0 .. plan.faults
  BY PlanFacts DEF Types
<1> QED
  BY <1>1 DEF StopChangeCapture, Fault

\* A drop, failed or not, changes the directory of the target at most.
LEMMA DropFacts ==
    ASSUME Types, NEW o \in OpIds, Dropped(o) \/ NotDropped(o), UNCHANGED log
    PROVE  /\ kept' \in [OpIds -> SUBSET {"log", "files"}]
           /\ shard' \in [Nodes -> Contents]
           /\ \A p \in OpIds : Open(p)' => Open(p)
<1>1. /\ kept \in [OpIds -> SUBSET {"log", "files"}] /\ shard \in [Nodes -> Contents]
      /\ Tgt(o) \in Nodes
  BY PlanFacts DEF Types
<1>2. shard' \in [Nodes -> Contents]
  BY <1>1 DEF Dropped, NotDropped, Contents
<1>3. CASE Dropped(o)
  BY <1>1, <1>2, <1>3 DEF Dropped, Open
<1>4. CASE NotDropped(o)
  BY <1>1, <1>2, <1>4 DEF NotDropped, Open
<1> QED
  BY <1>3, <1>4

\* The steps of a worker that leave the table alone are sound.
LEMMA QuietSound ==
    ASSUME MovementInv, NEW o \in OpIds,
           \/ Begin(o) \/ Interrupted(o) \/ processRegisteredOp(o)
           \/ StartFinalizing(o) \/ processIntegratingOp(o) \/ processCancelledOp(o)
           \/ StopCapture(o) \/ Leave(o)
    PROVE  Sound
<1>1. /\ Types /\ WorkerInv(o) /\ Place(o) /\ worker[o] \in Workers
      /\ Tgt(o) \in Nodes
  BY OpFacts, PlanFacts DEF WorkerInv
<1>2. worker[o].pc # "idle" /\ UNCHANGED ops
  BY Zenon DEF Begin, Interrupted, processRegisteredOp, StartFinalizing,
         processIntegratingOp, processCancelledOp, StopCapture, Leave,
         Handles
<1>3. Moves(o)
  BY <1>2, QuietMoves
<1>4. CASE Begin(o)
  <2>1. PICK pc \in {"cleanup", "leave", "try"} :
            GoTo(o, pc) /\ (pc = "try" => worker[o].copy.st # "READY")
    BY <1>4 DEF Begin
  <2>2. Keeps(o) /\ worker'[o].pc = pc /\ worker'[o].copy = worker[o].copy
    BY <1>2, <2>1, GoToKeeps DEF Pcs
  <2>3. Frame(o)
    BY <1>1, <1>4 DEF Begin, Frame, Open, Types
  <2>4. Place(o)'
    BY <1>1, <1>2, <1>4, <2>1, <2>2, Zenon DEF Place, Open, Begin
  <2> QED
    BY <1>2, <1>3, <2>2, <2>3, <2>4, WorkerSound
<1>5. CASE Interrupted(o)
  <2>1. PICK pc \in {"cleanup", "leave"} : GoTo(o, pc)
    BY <1>5 DEF Interrupted
  <2>2. Keeps(o) /\ worker'[o].pc = pc /\ worker'[o].copy = worker[o].copy
    BY <1>2, <2>1, GoToKeeps DEF Pcs
  <2>3. Frame(o) /\ (Open(o)' => Open(o))
    <3>1. CASE worker[o].pc = "copying"
      BY <1>1, <1>5, <3>1, StopFacts, StopCounts, Zenon DEF Interrupted, Frame, Types
    <3>2. CASE worker[o].pc # "copying"
      BY <1>1, <1>5, <3>2, Zenon DEF Interrupted, Frame, Open, Types
    <3> QED
      BY <3>1, <3>2
  <2>4. worker[o].pc \notin {"leave", "drop", "notify"}
    BY <1>5 DEF Interrupted
  <2>5. Place(o)'
    BY <1>1, <1>2, <2>2, <2>3, <2>4, Zenon DEF Place
  <2> QED
    BY <1>2, <1>3, <2>2, <2>3, <2>5, WorkerSound, SMTT(30), Z3T(30)
<1>6. CASE processRegisteredOp(o)
  <2>1. Done(o, "HYDRATING") /\ worker[o].copy.st = "REGISTERED" /\ worker[o].pc = "try"
    BY <1>6 DEF processRegisteredOp, Handles
  <2>2. /\ Keeps(o) /\ worker'[o].pc = "done" /\ worker'[o].copy = worker[o].copy
        /\ worker'[o].next = "HYDRATING"
    BY <1>2, <2>1, DoneKeeps, Zenon DEF Nexts
  <2>3. Frame(o)
    BY <1>1, <1>6, Zenon DEF processRegisteredOp, Frame, Open, Types
  <2>4. Place(o)'
    BY <1>1, <1>2, <1>6, <2>1, <2>2, Zenon DEF Place, Open, processRegisteredOp, Follows
  <2> QED
    BY <1>2, <1>3, <2>2, <2>3, <2>4, WorkerSound, SMTT(30), Z3T(30)
<1>7. CASE StartFinalizing(o)
  <2>1. /\ worker[o].copy.st = "FINALIZING" /\ worker[o].pc = "try"
        /\ worker[o].copy \in Copies
    BY <1>1, <1>7, Zenon DEF StartFinalizing, Handles, WorkerInv
  <2>2. Keeps(o) /\ worker'[o].pc = "drain" /\ worker'[o].copy = worker[o].copy
    BY <1>1, <1>7, <2>1, Zenon DEF StartFinalizing, Types, Workers, Keeps, Pcs, Nexts
  <2>3. Frame(o)
    BY <1>1, <1>7, Zenon DEF StartFinalizing, Frame, Open, Types, Loaded, Contents
  <2>4. Place(o)'
    BY <1>1, <1>2, <1>7, <2>1, <2>2, Zenon DEF Place, Open, StartFinalizing
  <2> QED
    BY <1>2, <1>3, <2>2, <2>3, <2>4, WorkerSound
<1>8. CASE processIntegratingOp(o)
  <2>1. worker[o].copy.st = "INTEGRATING" /\ worker[o].pc = "try"
    BY <1>8 DEF processIntegratingOp, Handles
  <2>2. PICK next \in {"DEHYDRATING", "READY"} : Done(o, next)
    BY <1>8, Zenon DEF processIntegratingOp
  <2>3. /\ Keeps(o) /\ worker'[o].pc = "done" /\ worker'[o].copy = worker[o].copy
        /\ worker'[o].next = next
    BY <1>2, <2>2, DoneKeeps, Zenon DEF Nexts
  <2>4. Frame(o) /\ ~Open(o)'
    <3>1. StopChangeCapture(o) /\ shard' \in [Nodes -> Contents]
      BY <1>1, <1>8, Zenon DEF processIntegratingOp, Types, Loaded, Contents
    <3> QED
      BY <1>1, <1>8, <3>1, StopFacts, StopCounts, Zenon DEF processIntegratingOp, Frame, Types
  <2>5. Place(o)'
    BY <1>1, <1>2, <2>1, <2>3, <2>4, Zenon DEF Place, Follows
  <2> QED
    BY <1>2, <1>3, <2>3, <2>4, <2>5, WorkerSound, Zenon
<1>9. CASE processCancelledOp(o)
  <2>1. GoTo(o, "purge") /\ worker[o].copy.st = "CANCELLED" /\ worker[o].pc = "try"
    BY <1>9 DEF processCancelledOp, Handles
  <2>2. Keeps(o) /\ worker'[o].pc = "purge" /\ worker'[o].copy = worker[o].copy
    BY <1>2, <2>1, GoToKeeps DEF Pcs
  <2>3. Frame(o) /\ ~Open(o)'
    BY <1>1, <1>9, StopFacts, StopCounts, Zenon DEF processCancelledOp, Frame, Types
  <2>4. Place(o)'
    BY <1>1, <1>2, <2>1, <2>2, <2>3, Zenon DEF Place
  <2> QED
    BY <1>2, <1>3, <2>2, <2>3, <2>4, WorkerSound, SMTT(30), Z3T(30)
<1>10. CASE StopCapture(o)
  <2>1. GoTo(o, "drop") /\ worker[o].pc = "cleanup"
    BY <1>10, Zenon DEF StopCapture
  <2>2. Keeps(o) /\ worker'[o].pc = "drop" /\ worker'[o].copy = worker[o].copy
    BY <1>2, <2>1, GoToKeeps DEF Pcs
  <2>3. Frame(o) /\ ~Open(o)'
    BY <1>1, <1>10, StopFacts, StopCounts, Zenon DEF StopCapture, Frame, Types
  <2>4. Place(o)'
    BY <1>1, <1>2, <2>1, <2>2, <2>3, SMTT(30), Z3T(30) DEF Place
  <2> QED
    BY <1>2, <1>3, <2>2, <2>3, <2>4, WorkerSound, Zenon
<1>11. CASE Leave(o)
  <2>1. Keeps(o) /\ worker'[o].pc = "idle"
    BY <1>1, <1>11, Zenon DEF Leave, Types, Workers, Keeps, Pcs, Nexts, Idle
  <2>2. Frame(o)
    BY <1>1, <1>11, Zenon DEF Leave, Frame, Open, Types
  <2>3. Place(o)'
    BY <1>1, <1>2, <1>11, <2>1, Zenon DEF Place, Open, Leave
  <2> QED
    BY <1>2, <1>3, <2>1, <2>2, <2>3, WorkerSound
<1> QED
  BY <1>4, <1>5, <1>6, <1>7, <1>8, <1>9, <1>10, <1>11, SMTT(30), Z3T(30)

\* The steps inside the handlers of HYDRATING, FINALIZING and DEHYDRATING.
LEMMA HandlerSound ==
    ASSUME MovementInv, NEW o \in OpIds,
           \/ StartHydrating(o) \/ EndHydrating(o) \/ DrainFinalizing(o)
           \/ processDehydratingOp(o)
    PROVE  Sound
<1>1. /\ Types /\ WorkerInv(o) /\ Place(o) /\ worker[o] \in Workers
      /\ Tgt(o) \in Nodes /\ Src(o) \in Nodes
  BY OpFacts, PlanFacts DEF WorkerInv
<1>2. worker[o].pc \notin {"idle", "leave"}
  BY DEF StartHydrating, EndHydrating, DrainFinalizing, processDehydratingOp, Handles
<1>3. Frame(o)
  <2>1. CASE StartHydrating(o)
    BY <1>1, <2>1 DEF StartHydrating, Frame, Open, Types, Contents
  <2>2. CASE EndHydrating(o)
    <3>1. shard' \in [Nodes -> Contents]
      BY <1>1, <2>2 DEF EndHydrating, Types, Contents
    <3>2. CASE shard[Tgt(o)] = "none"
      BY <1>1, <2>2, <3>1, <3>2, StopFacts, StopCounts, Zenon DEF EndHydrating, Frame, Types
    <3>3. CASE shard[Tgt(o)] # "none"
      BY <1>1, <2>2, <3>1, <3>3, Zenon DEF EndHydrating, Frame, Open, Types
    <3> QED
      BY <3>2, <3>3
  <2>3. CASE DrainFinalizing(o)
    BY <1>1, <2>3, Zenon DEF DrainFinalizing, Frame, Open, Types, Contents, Loaded
  <2>4. CASE processDehydratingOp(o)
    BY <1>1, <2>4, Zenon DEF processDehydratingOp, Frame, Open, Types
  <2> QED
    BY <2>1, <2>2, <2>3, <2>4
<1>4. CASE HandlerFails(o) /\ (Open(o)' => Open(o))
  BY <1>2, <1>3, <1>4, HandlerFailsFacts, WorkerSound, Zenon
<1>6. EndHydrating(o) /\ shard[Tgt(o)] = "none" => ~Open(o)'
  BY <1>1, StopFacts, StopCounts, Zenon DEF EndHydrating
<1>5. CASE ~(HandlerFails(o) /\ (Open(o)' => Open(o)))
  <2>1. UNCHANGED ops
    BY <1>5, <1>6
    DEF StartHydrating, EndHydrating, DrainFinalizing, processDehydratingOp, Open
  <2>2. Moves(o)
    BY <2>1, QuietMoves
  <2>3. Keeps(o) /\ Place(o)'
    <3>1. CASE StartHydrating(o)
      <4>1. GoTo(o, "copying") /\ worker[o].copy.st = "HYDRATING" /\ worker[o].pc = "try"
        BY <1>5, <3>1, Zenon DEF StartHydrating, Handles, Open
      <4>2. Keeps(o) /\ worker'[o].pc = "copying" /\ worker'[o].copy = worker[o].copy
        BY <1>2, <4>1, GoToKeeps, SMTT(30), Z3T(30) DEF Pcs
      <4> QED
        BY <1>1, <2>1, <4>1, <4>2, Zenon DEF Place, Open
    <3>2. CASE EndHydrating(o)
      <4>1. Done(o, "FINALIZING") /\ worker[o].pc = "copying" /\ UNCHANGED <<log, kept>>
        BY <1>5, <1>6, <3>2 DEF EndHydrating
      <4>2. /\ Keeps(o) /\ worker'[o].copy = worker[o].copy
            /\ worker'[o].pc = "done" /\ worker'[o].next = "FINALIZING"
        BY <1>2, <4>1, DoneKeeps, Zenon DEF Nexts
      <4> QED
        BY <1>1, <2>1, <4>1, <4>2 DEF Place, Open, Follows
    <3>3. CASE DrainFinalizing(o)
      <4>1. /\ Done(o, "INTEGRATING") \/ GoTo(o, "add")
            /\ worker[o].pc = "drain" /\ UNCHANGED <<log, kept>>
        BY <1>5, <3>3, SMTT(30), Z3T(30) DEF DrainFinalizing, Open
      <4>2. CASE Done(o, "INTEGRATING")
        <5>1. /\ Keeps(o) /\ worker'[o].copy = worker[o].copy
              /\ worker'[o].pc = "done" /\ worker'[o].next = "INTEGRATING"
          BY <1>2, <4>2, DoneKeeps, ZenonT(30) DEF Nexts
        <5> QED
          BY <1>1, <2>1, <4>1, <5>1 DEF Place, Open, Follows
      <4>3. CASE GoTo(o, "add")
        <5>1. Keeps(o) /\ worker'[o].pc = "add" /\ worker'[o].copy = worker[o].copy
          BY <1>2, <4>3, GoToKeeps, Zenon DEF Pcs
        <5> QED
          BY <1>1, <2>1, <4>1, <5>1, Zenon DEF Place, Open
      <4> QED
        BY <4>1, <4>2, <4>3, Zenon
    <3>4. CASE processDehydratingOp(o)
      <4>1. /\ Done(o, "READY") /\ worker[o].copy.st = "DEHYDRATING"
            /\ worker[o].pc = "try" /\ UNCHANGED <<log, kept>>
        BY <1>5, <3>4, Zenon DEF processDehydratingOp, Handles, Open
      <4>2. /\ Keeps(o) /\ worker'[o].copy = worker[o].copy
            /\ worker'[o].pc = "done" /\ worker'[o].next = "READY"
        BY <1>2, <4>1, DoneKeeps, Zenon DEF Nexts
      <4> QED
        BY <1>1, <2>1, <4>1, <4>2, Zenon DEF Place, Open, Follows
    <3> QED
      BY <3>1, <3>2, <3>3, <3>4, Zenon
  <2> QED
    BY <1>2, <1>3, <2>2, <2>3, WorkerSound
<1> QED
  BY <1>4, <1>5, Zenon

\* SetUnCancellable refuses a cancelled operation: joining moves the status on.
LEMMA AddMoves ==
    ASSUME MovementInv, NEW o \in OpIds, CanJoin(o)
    PROVE  LET t == [ops[o] EXCEPT !.uncan = TRUE]
           IN  t \in Status /\ t.st = ops[o].st /\ Later(ops[o], t)
<1>1. ops[o] # Gone /\ ops[o] \in Status /\ ops[o].st \in States
  BY OpFacts DEF CanJoin
<1>2. StateRank(ops[o].st) <= StateRank(ops[o].st)
  BY <1>1 DEF StateRank, States
<1> QED
  BY <1>1, <1>2, Zenon DEF CanJoin, Status, Later, Joined

\* The add of FINALIZING is sound.
LEMMA AddSound ==
    ASSUME MovementInv, NEW o \in OpIds, ReplicationAddReplicaToShard(o)
    PROVE  Sound
<1>1. /\ Types /\ WorkerInv(o) /\ Place(o) /\ worker[o].pc = "add"
      /\ Tgt(o) \in Nodes
  BY OpFacts, PlanFacts DEF WorkerInv, ReplicationAddReplicaToShard
<1>2. Frame(o) /\ UNCHANGED <<log, kept>>
  BY <1>1, SMTT(30), Z3T(30) DEF ReplicationAddReplicaToShard, AddReplica, Frame, Open, Types
<1>3. CASE AddReplica(o) /\ Done(o, "INTEGRATING")
  <2>1. CanJoin(o) /\ ops' = [ops EXCEPT ![o] = [ops[o] EXCEPT !.uncan = TRUE]]
    BY <1>3 DEF AddReplica
  <2>2. ops'[o] = [ops[o] EXCEPT !.uncan = TRUE]
    BY <1>1, <2>1 DEF Types
  <2>3. Moves(o) /\ ops'[o].st = ops[o].st /\ ops[o] # Gone
    BY <2>1, <2>2, AddMoves, Zenon DEF Moves, CanJoin
  <2>4. /\ Keeps(o) /\ worker'[o].copy = worker[o].copy
        /\ worker'[o].pc = "done" /\ worker'[o].next = "INTEGRATING"
    BY <1>1, <1>3, DoneKeeps, ZenonT(30) DEF Nexts
  <2>5. Place(o)'
    BY <1>1, <1>2, <2>3, <2>4 DEF Place, Open, Follows
  <2> QED
    BY <1>1, <1>2, <2>3, <2>4, <2>5, WorkerSound
<1>4. CASE HandlerFails(o)
  <2>1. Open(o)' => Open(o)
    BY <1>2, Zenon DEF Open
  <2> QED
    BY <1>1, <1>2, <1>4, <2>1, HandlerFailsFacts, WorkerSound, Zenon
<1>5. CASE GoTo(o, "cleanup") /\ UNCHANGED ops
  <2>1. Keeps(o) /\ worker'[o].pc = "cleanup" /\ worker'[o].copy = worker[o].copy
    BY <1>1, <1>5, GoToKeeps, SMTT(30), Z3T(30) DEF Pcs
  <2>2. Place(o)'
    BY <1>1, <1>2, <1>5, <2>1 DEF Place, Open
  <2> QED
    BY <1>1, <1>2, <1>5, <2>1, <2>2, QuietMoves, WorkerSound, Zenon
<1> QED
  BY <1>3, <1>4, <1>5, SMTT(30), Z3T(30) DEF ReplicationAddReplicaToShard

\* What a handler returned is the state after the leader's, which is not
\* terminal.
LEMMA UpdateMoves ==
    ASSUME MovementInv, NEW o \in OpIds, worker[o].pc = "done", UpdateOpStatus(o)
    PROVE  /\ Moves(o)
           /\ ops'[o] # Gone /\ ops'[o].st = worker[o].next
           /\ worker[o].next \in States \ {"CANCELLED"}
<1>1. /\ Types /\ Place(o) /\ Joined(ops[o]) /\ ops[o] # Gone /\ ops[o] \in Status
  BY OpFacts DEF WorkerInv, UpdateOpStatus
<1>2. <<ops[o].st, worker[o].next>> \in Follows
  BY <1>1 DEF Place, Open
<1>3. /\ worker[o].next \in States \ {"CANCELLED"}
      /\ ops[o].st \notin {"READY", "CANCELLED"}
      /\ StateRank(ops[o].st) <= StateRank(worker[o].next)
  BY <1>2 DEF Follows, StateRank, States
<1>4. ops'[o] = ChangeState(ops[o], worker[o].next)
  BY <1>1 DEF UpdateOpStatus, Types
<1>5. ops'[o] \in Status /\ ops'[o].st = worker[o].next
  <2>1. 0 \in 0 .. MaxErrors
    BY MovementConstants
  <2> QED
    BY <1>1, <1>3, <1>4, <2>1, ZenonT(30) DEF ChangeState, Status
<1>6. Later(ops[o], ops'[o])
  BY <1>1, <1>3, <1>4, <1>5 DEF Later, Joined, ChangeState, Status
<1> QED
  BY <1>3, <1>4, <1>5, <1>6, NotGone, Zenon DEF Moves, UpdateOpStatus

\* Reporting the next state is sound.
LEMMA TransitionSound ==
    ASSUME MovementInv, NEW o \in OpIds, Transition(o)
    PROVE  Sound
<1>1. /\ Types /\ WorkerInv(o) /\ Place(o) /\ worker[o].pc = "done"
      /\ worker[o] \in Workers /\ worker[o].copy \in Copies
  BY OpFacts, Zenon DEF WorkerInv, Transition
<1>2. Frame(o) /\ UNCHANGED <<log, kept>>
  BY <1>1, ZenonT(30) DEF Transition, Frame, Open, Types
<1>3. ASSUME NEW pc \in {"cleanup", "leave"}, GoTo(o, pc), UNCHANGED ops
      PROVE  Sound
  <2>1. Keeps(o) /\ worker'[o].pc = pc /\ worker'[o].copy = worker[o].copy
    BY <1>1, <1>3, GoToKeeps, Zenon DEF Pcs
  <2>2. Place(o)'
    BY <1>1, <1>2, <1>3, <2>1, Zenon DEF Place, Open
  <2> QED
    BY <1>1, <1>2, <1>3, <2>1, <2>2, QuietMoves, WorkerSound, Zenon
<1>4. ASSUME UpdateOpStatus(o),
             worker' = [worker EXCEPT
                 ![o].pc = IF worker[o].next = "READY" THEN "leave" ELSE "try",
                 ![o].copy.st = worker[o].next, ![o].next = ""]
      PROVE  Sound
  <2>1. /\ Moves(o) /\ ops'[o] # Gone /\ ops'[o].st = worker[o].next
        /\ worker[o].next \in States \ {"CANCELLED"}
    BY <1>1, <1>4, UpdateMoves, Zenon
  <2>2. worker'[o] = [worker[o] EXCEPT
            !.pc = IF worker[o].next = "READY" THEN "leave" ELSE "try",
            !.copy = [worker[o].copy EXCEPT !.st = worker[o].next], !.next = ""]
    BY <1>1, <1>4, Zenon DEF Types
  <2>3. [worker[o].copy EXCEPT !.st = worker[o].next] \in Copies
    BY <1>1, <2>1 DEF Copies
  <2>4. worker'[o] \in Workers
    BY <1>1, <2>2, <2>3, Zenon DEF Workers, Pcs, Nexts
  <2>5. /\ worker'[o].copy \in Copies /\ worker'[o].copy.st = worker[o].next
        /\ worker'[o].copy.cancel = worker[o].copy.cancel
        /\ worker'[o].copy.del = worker[o].copy.del
        /\ worker'[o].pc = IF worker[o].next = "READY" THEN "leave" ELSE "try"
    BY <1>1, <2>1, <2>2, <2>3 DEF Workers, Copies
  <2>6. worker' = [worker EXCEPT ![o] = worker'[o]]
    BY <1>1, <1>4, ZenonT(30) DEF Types
  <2>7. Keeps(o)
    BY <2>4, <2>5, <2>6 DEF Keeps
  <2>8. Place(o)'
    BY <1>2, <2>1, <2>5 DEF Place, Open
  <2> QED
    BY <1>1, <1>2, <2>1, <2>7, <2>8, WorkerSound
<1> QED
  BY <1>3, <1>4, Zenon DEF Transition

\* The drop is sound, failed or not.
LEMMA DropSound ==
    ASSUME MovementInv, NEW o \in OpIds, dropCancelledOpTargetShard(o)
    PROVE  Sound
<1>1. /\ Types /\ Place(o) /\ worker[o].pc \in {"drop", "purge"} /\ plan.faults \in Nat
  BY OpFacts, PlanFacts DEF WorkerInv, dropCancelledOpTargetShard
<1>2. Frame(o) /\ (Open(o)' => Open(o))
  <2>1. /\ Dropped(o) \/ NotDropped(o)
        /\ UNCHANGED <<plan, replicas, used, seen, reps, log, consumer, marked>>
    BY Zenon DEF dropCancelledOpTargetShard
  <2>2. faults' \in 0 .. plan.faults
    BY <1>1 DEF dropCancelledOpTargetShard, Fault, Types
  <2> QED
    BY <1>1, <2>1, <2>2, DropFacts, Zenon DEF Frame, Types
<1>3. CASE HandlerFails(o)
  BY <1>1, <1>2, <1>3, HandlerFailsFacts, WorkerSound, SMTT(30), Z3T(30)
<1>4. ASSUME NEW pc \in {"notify", "remove"}, GoTo(o, pc), UNCHANGED ops,
             worker[o].pc = IF pc = "notify" THEN "drop" ELSE "purge"
      PROVE  Sound
  <2>1. Keeps(o) /\ worker'[o].pc = pc /\ worker'[o].copy = worker[o].copy
    BY <1>1, <1>4, GoToKeeps, SMTT(30), Z3T(30) DEF Pcs
  <2>2. Place(o)'
    BY <1>1, <1>2, <1>4, <2>1, SMTT(30), Z3T(30) DEF Place
  <2> QED
    BY <1>1, <1>2, <1>4, <2>1, <2>2, QuietMoves, WorkerSound, SMTT(30), Z3T(30)
<1> QED
  BY <1>1, <1>3, <1>4, SMTT(30), Z3T(30) DEF dropCancelledOpTargetShard

\* Removing the operation, and telling the leader of a clean-up.
LEMMA EndSound ==
    ASSUME MovementInv, NEW o \in OpIds,
           RemoveReplicaOp(o) \/ NotifyCancelled(o)
    PROVE  Sound
<1>1. /\ Types /\ WorkerInv(o) /\ Place(o) /\ Joined(ops[o])
      /\ ops[o] \in Status \cup {Gone} /\ worker[o].pc # "idle"
  BY OpFacts DEF WorkerInv, RemoveReplicaOp, NotifyCancelled
<1>2. CASE RemoveReplicaOp(o)
  <2>1. Frame(o)
    BY <1>1, <1>2 DEF RemoveReplicaOp, Frame, Open, Types
  <2>2. Moves(o) /\ ops'[o] = Gone
    BY <1>1, <1>2, Zenon DEF RemoveReplicaOp, Moves, Later, Types
  <2>3. /\ Keeps(o) /\ worker'[o].pc = "done" /\ worker'[o].next = "DELETED"
    BY <1>1, <1>2, DoneKeeps, ZenonT(30) DEF Nexts, RemoveReplicaOp
  <2>4. Place(o)'
    BY <2>2, <2>3, SMTT(30), Z3T(30) DEF Place, Open
  <2> QED
    BY <1>1, <2>1, <2>2, <2>3, <2>4, WorkerSound, SMTT(30), Z3T(30)
<1>3. CASE NotifyCancelled(o)
  <2>1. Frame(o) /\ UNCHANGED <<log, kept>> /\ ~Open(o)
    BY <1>1, <1>3 DEF NotifyCancelled, Frame, Open, Types, Place
  <2>2. ops'[o] = CancellationResult(o) /\ ops' = [ops EXCEPT ![o] = ops'[o]]
    BY <1>1, <1>3 DEF NotifyCancelled, Types
  <2>3. Moves(o)
    <3>1. CASE CancellationResult(o) = Gone
      BY <2>2, <3>1 DEF Moves, Later
    <3>2. CASE CancellationResult(o) = ops[o]
      BY <1>1, <2>2, <3>2, LaterSame, Zenon DEF Moves
    <3>3. CASE /\ CancellationResult(o) = CompleteCancellation(ops[o])
               /\ ops[o] # Gone /\ worker[o].copy.cancel /\ ~worker[o].copy.del
      <4>1. ops[o] \in Status /\ ~ops[o].uncan
        BY <1>1, <3>3 DEF WorkerInv, CancelHeld
      <4>2. ops'[o] \in Status /\ ops'[o].st = "CANCELLED" /\ ~ops'[o].uncan
        <5>1. 0 \in 0 .. MaxErrors
          BY MovementConstants
        <5>2. /\ CompleteCancellation(ops[o]) \in Status
              /\ CompleteCancellation(ops[o]).st = "CANCELLED"
              /\ CompleteCancellation(ops[o]).uncan = ops[o].uncan
          BY <4>1, <5>1, Zenon DEF CompleteCancellation, Status, States
        <5> QED
          BY <2>2, <3>3, <4>1, <5>2
      <4>3. StateRank(ops[o].st) <= StateRank("CANCELLED")
        BY <4>1, SMTT(30), Z3T(30) DEF StateRank, Status, States
      <4> QED
        BY <2>2, <3>3, <4>2, <4>3, SMTT(30), Z3T(30) DEF Moves, Later, Joined
    <3> QED
      BY <3>1, <3>2, <3>3, Zenon DEF CancellationResult
  <2>4. Keeps(o) /\ worker'[o].pc = "leave"
    BY <1>1, <1>3, GoToKeeps, Zenon DEF Pcs, NotifyCancelled
  <2>5. Place(o)'
    BY <2>1, <2>4 DEF Place, Open
  <2> QED
    BY <1>1, <2>1, <2>3, <2>4, <2>5, WorkerSound, SMTT(30), Z3T(30)
<1> QED
  BY <1>2, <1>3

-----------------------------------------------------------------------------
(* Faults of a worker.                                                     *)

\* A failed step, a timeout, a lost answer and a failed notification are sound.
LEMMA FaultSound ==
    ASSUME MovementInv, NEW o \in OpIds,
           StepFails(o) \/ TimesOut(o) \/ AnswerLost(o) \/ NotifyFails(o)
    PROVE  Sound
<1>1. /\ Types /\ WorkerInv(o) /\ Place(o) /\ Joined(ops[o])
      /\ ops[o] \in Status \cup {Gone} /\ Tgt(o) \in Nodes /\ plan.faults \in Nat
  BY OpFacts, PlanFacts DEF WorkerInv
<1>2. worker[o].pc \notin {"idle", "leave"}
  BY DEF StepFails, TimesOut, AnswerLost, NotifyFails, Handles
<1>3. faults' \in 0 .. plan.faults
  BY <1>1 DEF StepFails, TimesOut, AnswerLost, NotifyFails, Fault, Types
<1>4. Frame(o) /\ (Open(o)' => Open(o))
  <2>1. Stopped(o) \/ StillOpen(o) \/ UNCHANGED <<log, kept>>
    BY Zenon DEF StepFails, TimesOut, AnswerLost, NotifyFails
  <2>2. /\ log' \in SUBSET OpIds /\ kept' \in [OpIds -> SUBSET {"log", "files"}]
        /\ \A p \in OpIds : Open(p)' => Open(p)
    BY <1>1, <2>1, StopFacts, Zenon DEF Open, Types
  <2>3. /\ UNCHANGED <<plan, used, seen, reps, shard, consumer>>
        /\ replicas' \in SUBSET Nodes /\ marked' \in SUBSET OpIds
    BY <1>1, SMTT(30), Z3T(30) DEF StepFails, TimesOut, AnswerLost, NotifyFails, Types
  <2> QED
    BY <1>1, <1>3, <2>2, <2>3, Zenon DEF Frame, Types
<1>5. CASE StepFails(o)
  <2>1. HandlerFails(o)
    BY <1>5, Zenon DEF StepFails
  <2> QED
    BY <1>2, <1>4, <2>1, HandlerFailsFacts, WorkerSound, Zenon
<1>6. CASE TimesOut(o) \/ NotifyFails(o)
  <2>1. GoTo(o, "leave") /\ UNCHANGED ops
    BY <1>6 DEF TimesOut, NotifyFails
  <2>2. Keeps(o) /\ worker'[o].pc = "leave"
    BY <1>2, <2>1, GoToKeeps, SMTT(30), Z3T(30) DEF Pcs
  <2>3. Place(o)'
    BY <1>1, <1>4, <2>1, <2>2 DEF Place
  <2> QED
    BY <1>2, <1>4, <2>1, <2>2, <2>3, QuietMoves, WorkerSound, SMTT(30), Z3T(30)
<1>7. CASE AnswerLost(o)
  <2>1. Keeps(o) /\ worker'[o].pc = "leave"
    BY <1>2, <1>7, GoToKeeps, SMTT(30), Z3T(30) DEF Pcs, AnswerLost
  <2>2. CASE /\ worker[o].pc = "add" /\ CanJoin(o)
             /\ ops' = [ops EXCEPT ![o] = RegisterError([ops[o] EXCEPT !.uncan = TRUE])]
    <3> DEFINE t == [ops[o] EXCEPT !.uncan = TRUE]
    <3>1. t \in Status /\ t.st = ops[o].st /\ Later(ops[o], t) /\ ops[o] # Gone /\ t # Gone
      BY <2>2, AddMoves, NotGone DEF CanJoin
    <3>2. Joined(t) /\ t.uncan /\ ops[o].cancel = FALSE /\ ops[o].st # "CANCELLED"
      BY <1>1, <2>2, <3>1 DEF Later, CanJoin, Status
    <3>3. ops'[o] = RegisterError(t)
      BY <1>1, <2>2, Zenon DEF Types
    <3> HIDE DEF t
    <3>4. /\ RegisterError(t) \in Status \cup {Gone} /\ RegisterError(t).st = t.st
          /\ Later(t, RegisterError(t)) /\ RegisterError(t) # Gone
      BY <3>1, <3>2, RegisterErrorFacts, SMTT(30), Z3T(30)
    <3>5. Later(ops[o], ops'[o])
      BY <3>1, <3>2, <3>3, <3>4 DEF Later
    <3>6. Moves(o)
      BY <2>2, <3>3, <3>4, <3>5, ZenonT(30) DEF Moves, t
    <3>7. Place(o)'
      BY <2>1, <3>1, <3>2, <3>3, <3>4, ZenonT(30) DEF Place, Open
    <3> QED
      BY <1>2, <1>4, <2>1, <3>6, <3>7, WorkerSound
  <2>3. CASE worker[o].pc = "done" /\ UpdateOpStatus(o)
    <3>1. /\ Moves(o) /\ ops'[o] # Gone /\ ops'[o].st # "CANCELLED"
      BY <2>3, UpdateMoves, Zenon
    <3>2. Place(o)'
      BY <2>1, <3>1, SMTT(30), Z3T(30) DEF Place, Open
    <3> QED
      BY <1>2, <1>4, <2>1, <3>1, <3>2, WorkerSound, Zenon
  <2> QED
    BY <1>7, <2>2, <2>3 DEF AnswerLost
<1> QED
  BY <1>5, <1>6, <1>7, ZenonT(30)

-----------------------------------------------------------------------------
(* Steps of the users and of a node.                                       *)

\* A step that leaves the table alone moves no status.
LEMMA NoneMoves ==
    ASSUME MovementInv, UNCHANGED ops, NEW o \in OpIds
    PROVE  Later(ops[o], ops'[o])
BY OpFacts, LaterSame

\* The invariant of an operation that nothing touches.
LEMMA OpInvSame ==
    ASSUME NEW p, OpInv(p), ops'[p] = ops[p], seen'[p] = seen[p], worker'[p] = worker[p],
           UNCHANGED <<consumer, log, kept>>, p > used' => p > used
    PROVE  OpInv(p)'
<1>1. \A c : CancelHeld(p, c)' <=> CancelHeld(p, c)
  BY DEF CancelHeld
<1>2. Fresh(p)' <=> Fresh(p)
  BY DEF Fresh
<1>3. Place(p)' <=> Place(p)
  BY Zenon DEF Place, Open
<1>4. WorkerInv(p)'
  BY <1>1, <1>3 DEF OpInv, WorkerInv
<1> QED
  BY <1>1, <1>2, <1>4 DEF OpInv

\* A new operation is sound: its id is one that nothing refers to yet.
LEMMA ReplicateSound ==
    ASSUME MovementInv, NEW o \in OpIds, Replicate(o)
    PROVE  Sound
<1>1. Types /\ Fresh(o) /\ used \in Nat /\ o = used + 1
  BY PlanFacts, SMTT(30), Z3T(30) DEF MovementInv, OpInv, Replicate, Types
<1>2. /\ UNCHANGED <<plan, replicas, seen, reps, shard, log, kept, consumer, worker,
                     marked, faults>>
      /\ OpIds' = OpIds /\ used' = o
  BY DEF Replicate, OpIds
<1>3. /\ NewShardReplicationStatus \in Status
      /\ ops' = [ops EXCEPT ![o] = NewShardReplicationStatus]
  <2>1. 0 \in 0 .. MaxErrors
    BY MovementConstants, SMTT(30), Z3T(30)
  <2> QED
    BY <2>1 DEF Replicate, NewShardReplicationStatus, Status, States
<1>4. Types'
  BY <1>1, <1>2, <1>3, PlanFacts, SMTT(30), Z3T(30) DEF Types, Messages
<1>5. ASSUME NEW p \in OpIds PROVE OpInv(p)' /\ (ops[p] # Gone => Later(ops[p], ops'[p]))
  <2>1. CASE p = o
    <3>1. ops'[o] = NewShardReplicationStatus
      BY <1>1, <1>3, Zenon DEF Types
    <3>2. /\ ops'[o].st = "REGISTERED" /\ ops'[o].uncan = FALSE
      BY <3>1, SMTT(30), Z3T(30) DEF NewShardReplicationStatus
    <3>3. /\ ops[o] = Gone /\ seen'[o] = Gone /\ worker'[o].pc = "idle" /\ ~(o > used')
          /\ \A n \in Nodes : consumer'[n] # NoMsg => consumer'[n].op # o
      BY <1>1, <1>2, SMTT(30), Z3T(30) DEF Fresh
    <3>4. Joined(ops[o])'
      BY <3>2, Zenon DEF Joined
    <3>5. Place(o)'
      BY <3>2, <3>3, Zenon DEF Place, Open
    <3>6. WorkerInv(o)'
      BY <3>3, <3>5, Zenon DEF WorkerInv
    <3> QED
      BY <2>1, <3>3, <3>4, <3>6, Zenon DEF OpInv
  <2>2. CASE p # o
    <3>1. ops'[p] = ops[p] /\ OpInv(p)
      BY <1>1, <1>3, <2>2, Zenon DEF Types, MovementInv
    <3>2. p > used' => p > used
      BY <1>1, <1>2, PlanFacts, SMTT(30), Z3T(30)
    <3>3. OpInv(p)'
      BY <1>2, <3>1, <3>2, OpInvSame
    <3>4. Later(ops[p], ops'[p])
      BY <3>1, OpFacts, LaterSame, Zenon
    <3> QED
      BY <3>3, <3>4
  <2> QED
    BY <2>1, <2>2
<1> QED
  BY <1>2, <1>4, <1>5, ZenonT(30) DEF Sound, MovementInv

\* A status as a node copies it is one that CancelHeld is true of.
LEMMA CopyHeld ==
    ASSUME MovementInv, NEW o \in OpIds
    PROVE  /\ Copy(ops[o]) \in Copies \cup {Gone}
           /\ Copy(ops[o]) # Gone => ops[o] # Gone /\ CancelHeld(o, Copy(ops[o]))
<1>1. ops[o] \in Status \cup {Gone} /\ Joined(ops[o])
  BY OpFacts
<1>2. CASE ops[o] = Gone
  BY <1>2, Zenon DEF Copy
<1>3. CASE ops[o] # Gone
  <2>1. ops[o] \in Status
    BY <1>1, <1>3, Zenon
  <2>2. Copy(ops[o]) = [st |-> ops[o].st, cancel |-> ops[o].cancel, del |-> ops[o].del]
    BY <1>3 DEF Copy
  <2>3. Copy(ops[o]) \in Copies
    BY <2>1, <2>2, SMTT(30), Z3T(30) DEF Copies, Status
  <2> QED
    BY <1>1, <1>3, <2>2, <2>3 DEF Joined, CancelHeld
<1> QED
  BY <1>2, <1>3

\* Catching up is sound.
LEMMA CatchUpSound ==
    ASSUME MovementInv, NEW n \in Nodes, CatchUp(n)
    PROVE  Sound
<1>1. Types
  BY Zenon DEF MovementInv
<1>2. /\ UNCHANGED <<plan, ops, replicas, used, log, kept, consumer, worker, marked,
                   faults>>
      /\ OpIds' = OpIds
      /\ seen' = [o \in OpIds |-> IF Tgt(o) = n THEN Copy(ops[o]) ELSE seen[o]]
  BY DEF CatchUp, OpIds
<1>3. seen' \in [OpIds -> Copies \cup {Gone}]
  BY <1>1, <1>2, CopyHeld DEF Types
<1>4. reps' \in [Nodes -> SUBSET Nodes] /\ shard' \in [Nodes -> Contents]
  BY <1>1 DEF CatchUp, Types, Contents
<1>5. Types'
  BY <1>1, <1>2, <1>3, <1>4, Zenon DEF Types, Messages
<1>6. ASSUME NEW o \in OpIds PROVE OpInv(o)'
  <2>1. OpInv(o) /\ seen'[o] \in {Copy(ops[o]), seen[o]}
    BY <1>2 DEF MovementInv
  <2>2. o > used => Fresh(o)'
    BY <1>2, <2>1, Zenon DEF OpInv, Fresh, Copy
  <2>3. seen'[o] # Gone => CancelHeld(o, seen[o])'
    BY <1>2, <2>1, CopyHeld, Zenon DEF OpInv, CancelHeld
  <2> QED
    BY <1>2, <2>1, <2>2, <2>3, ZenonT(30) DEF OpInv, WorkerInv, Place, Open, CancelHeld
<1> QED
  BY <1>2, <1>5, <1>6, NoneMoves DEF Sound, MovementInv

\* Handing an operation to the consumer is sound.
LEMMA ConsumeSound ==
    ASSUME MovementInv, NEW o \in OpIds, Consume(o)
    PROVE  Sound
<1>1. /\ Types /\ OpInv(o) /\ seen[o] # Gone /\ seen[o] \in Copies /\ Tgt(o) \in Nodes
      /\ CancelHeld(o, seen[o]) /\ ~(o > used)
  BY PlanFacts DEF MovementInv, Consume, Types, OpInv, Fresh
<1>2. /\ UNCHANGED <<plan, ops, replicas, used, seen, reps, shard, log, kept, faults>>
      /\ OpIds' = OpIds /\ marked' \in SUBSET OpIds
  BY <1>1 DEF Consume, OpIds, Types
<1>3. CASE worker' = [worker EXCEPT ![o].stop = TRUE] /\ UNCHANGED consumer
  <2>1. worker' \in [OpIds -> Workers]
    BY <1>1, <1>3, ZenonT(30) DEF Types, Workers
  <2>2. ASSUME NEW p \in OpIds
        PROVE  /\ worker'[p].pc = worker[p].pc /\ worker'[p].copy = worker[p].copy
               /\ worker'[p].next = worker[p].next
    BY <1>1, <1>3 DEF Types, Workers
  <2>3. Types'
    BY <1>1, <1>2, <1>3, <2>1 DEF Types, Messages
  <2>4. ASSUME NEW p \in OpIds PROVE OpInv(p)'
    <3>1. OpInv(p)
      BY DEF MovementInv
    <3> QED
      BY <1>2, <1>3, <2>2, <3>1 DEF OpInv, Fresh, WorkerInv, Place, Open, CancelHeld
  <2> QED
    BY <1>2, <2>3, <2>4, NoneMoves DEF Sound, MovementInv
<1>4. CASE /\ consumer' = [consumer EXCEPT ![Tgt(o)] = [op |-> o, copy |-> seen[o]]]
           /\ UNCHANGED worker
  <2>1. [op |-> o, copy |-> seen[o]] \in Messages
    BY <1>1 DEF Messages
  <2>2. Types'
    BY <1>1, <1>2, <1>4, <2>1 DEF Types, Messages
  <2>3. ASSUME NEW p \in OpIds PROVE OpInv(p)'
    <3>1. OpInv(p)
      BY DEF MovementInv
    <3>2. ASSUME NEW n \in Nodes, consumer'[n] # NoMsg, consumer'[n].op = p
          PROVE  ~(p > used) /\ CancelHeld(p, consumer[n].copy)'
      <4>1. CASE n = Tgt(o)
        <5>1. consumer'[n].op = o /\ consumer'[n].copy = seen[o]
          BY <1>1, <1>4, <4>1, Zenon DEF Types
        <5> QED
          BY <1>1, <1>2, <3>2, <5>1, Zenon DEF CancelHeld
      <4>2. CASE n # Tgt(o)
        <5>1. consumer'[n] = consumer[n]
          BY <1>1, <1>4, <4>2, Zenon DEF Types
        <5> QED
          BY <1>2, <3>1, <3>2, <5>1, Zenon DEF OpInv, Fresh, CancelHeld
      <4> QED
        BY <4>1, <4>2
    <3>3. p > used' => Fresh(p)'
      BY <1>2, <1>4, <3>1, <3>2 DEF OpInv, Fresh
    <3> QED
      BY <1>2, <1>4, <3>1, <3>2, <3>3, ZenonT(30) DEF OpInv, WorkerInv, Place, Open, CancelHeld
  <2> QED
    BY <1>2, <2>2, <2>3, NoneMoves DEF Sound, MovementInv
<1> QED
  BY <1>3, <1>4 DEF Consume

\* Starting a worker is sound: the state of its message is the leader's.
LEMMA SpawnSound ==
    ASSUME MovementInv, NEW n \in Nodes, Spawn(n)
    PROVE  Sound
<1> DEFINE o == consumer[n].op
           m == [Idle EXCEPT !.pc = "begin", !.copy = consumer[n].copy]
<1>1. /\ Types /\ consumer[n] # NoMsg /\ consumer[n] \in Messages
      /\ o \in OpIds /\ consumer[n].copy \in Copies
  BY DEF MovementInv, Spawn, Types, Messages
<1>2. /\ UNCHANGED <<plan, ops, replicas, used, seen, reps, shard, log, kept, marked, faults>>
      /\ OpIds' = OpIds /\ consumer' = [consumer EXCEPT ![n] = NoMsg]
  BY DEF Spawn, OpIds
<1>3. /\ m \in Workers /\ m.pc = "begin" /\ m.copy = consumer[n].copy
  BY <1>1, Zenon DEF Idle, Workers, Pcs, Nexts
<1>4. \/ UNCHANGED worker
      \/ /\ worker' = [worker EXCEPT ![o] = m]
         /\ ~ChangedAtLeader(o, consumer[n].copy)
  BY SMTT(30), Z3T(30) DEF Spawn
<1> HIDE DEF m
<1>5. Types'
  BY <1>1, <1>2, <1>3, <1>4 DEF Types, Messages
<1>6. ASSUME NEW p \in OpIds PROVE OpInv(p)'
  <2>1. OpInv(p)
    BY DEF MovementInv
  <2>2. ASSUME NEW i \in Nodes, consumer'[i] # NoMsg PROVE consumer'[i] = consumer[i]
    BY <1>1, <1>2, <2>2, Zenon DEF Types
  <2>3. CASE worker'[p] = worker[p]
    BY <1>2, <2>1, <2>2, <2>3, ZenonT(30) DEF OpInv, Fresh, WorkerInv, Place, Open, CancelHeld
  <2>4. CASE worker'[p] # worker[p]
    <3>1. p = o /\ worker'[p] = m /\ ops[p].st = consumer[n].copy.st
      BY <1>1, <1>4, <2>4, Zenon DEF Types, ChangedAtLeader
    <3>2. ops[p] # Gone /\ ~(p > used) /\ CancelHeld(p, consumer[n].copy)
      BY <1>1, <2>1, <3>1, NotGone, Zenon DEF OpInv, Fresh
    <3>3. WorkerInv(p)'
      BY <1>1, <1>2, <1>3, <2>1, <3>1, <3>2, ZenonT(30) DEF OpInv, WorkerInv, Place, Open, CancelHeld
    <3> QED
      BY <1>2, <2>1, <2>2, <3>2, <3>3, Zenon DEF OpInv, CancelHeld
  <2> QED
    BY <2>3, <2>4
<1> QED
  BY <1>2, <1>5, <1>6, NoneMoves DEF Sound, MovementInv

\* A restart is sound: it forgets workers and messages, and loses logs.
LEMMA CrashSound ==
    ASSUME MovementInv, NEW n \in Nodes, Crash(n)
    PROVE  Sound
<1>1. Types /\ plan.faults \in Nat
  BY PlanFacts DEF MovementInv
<1>2. /\ UNCHANGED <<plan, ops, replicas, used, seen, reps, shard, kept>> /\ OpIds' = OpIds
      /\ worker' = [o \in OpIds |-> IF Tgt(o) = n THEN Idle ELSE worker[o]]
      /\ consumer' = [consumer EXCEPT ![n] = NoMsg]
      /\ log' \subseteq log /\ marked' \subseteq marked
  BY DEF Crash, OpIds
<1>3. Idle \in Workers /\ Idle.pc = "idle"
  BY DEF Idle, Workers, Pcs, Nexts
<1>4. faults' \in 0 .. plan.faults
  BY <1>1 DEF Crash, Fault, Types
<1>5. Types'
  BY <1>1, <1>2, <1>3, <1>4, Zenon DEF Types, Messages
<1>6. ASSUME NEW p \in OpIds PROVE OpInv(p)'
  <2>1. OpInv(p)
    BY DEF MovementInv
  <2>2. ASSUME NEW i \in Nodes, consumer'[i] # NoMsg PROVE consumer'[i] = consumer[i]
    BY <1>1, <1>2, <2>2 DEF Types
  <2>3. worker'[p] = worker[p] \/ worker'[p].pc = "idle"
    BY <1>2, <1>3, Zenon
  <2> QED
    BY <1>2, <2>1, <2>2, <2>3, ZenonT(30) DEF OpInv, Fresh, WorkerInv, Place, Open, CancelHeld
<1> QED
  BY <1>2, <1>5, <1>6, NoneMoves, SMTT(30), Z3T(30) DEF Sound, MovementInv

\* Every step of the movement is sound.
LEMMA NextSound ==
    ASSUME MovementInv, Next
    PROVE  Sound
<1>1. Appliers \subseteq Nodes /\ Participants \subseteq Nodes
  BY PlanFacts, Zenon DEF MovementInv, Appliers, Participants
<1>2. ASSUME NEW o \in OpIds, CancelReplication(o) \/ DeleteReplication(o) \/ Sweep(o)
      PROVE  Sound
  BY <1>2, CommandSound, Zenon DEF CancelReplication, DeleteReplication, Sweep
<1>3. ASSUME NEW o \in OpIds, WorkerStep(o) PROVE Sound
  BY <1>3, QuietSound, HandlerSound, AddSound, TransitionSound, DropSound, EndSound, Zenon
  DEF WorkerStep
<1> QED
  BY <1>1, <1>2, <1>3, ReplicateSound, ConsumeSound, FaultSound, CatchUpSound,
     SpawnSound, CrashSound DEF Next

\* A stuttering step keeps the invariant.
LEMMA StutterInv ==
    ASSUME MovementInv, UNCHANGED vars
    PROVE  MovementInv'
<1>1. OpIds' = OpIds /\ Messages' = Messages
  BY DEF vars, OpIds, Messages
<1>2. Types'
  BY <1>1 DEF vars, MovementInv, Types
<1>3. \A p \in OpIds : OpInv(p)'
  BY OpInvSame DEF vars, MovementInv
<1> QED
  BY <1>1, <1>2, <1>3 DEF MovementInv

\* The invariant holds in every state of every movement.
THEOREM MovementInvariant == Spec => []MovementInv
<1>1. MovementInv /\ [Next]_vars => MovementInv'
  BY NextSound, StutterInv DEF Sound
<1> QED
  BY InitInv, <1>1, PTL DEF Spec

\* For any nodes and requests the table, the copies and the workers have the
\* types of ShardReplicationOpStatus: no handler works on a copy that is absent,
\* and no operation counts more errors than MaxErrors.
THEOREM MovementTypeCorrect == Spec => []TypeOK
<1>1. MovementInv => TypeOK
  <2> SUFFICES ASSUME MovementInv PROVE TypeOK
    OBVIOUS
  <2>1. Types
    BY DEF MovementInv
  <2>2. \A n \in Nodes : consumer[n] = NoMsg \/ consumer[n].copy \in Copies
    BY <2>1, Zenon DEF Types, Messages
  <2>3. \A o \in OpIds : InFlight(o) => worker[o].copy \in Copies
    BY OpFacts DEF InFlight
  <2> QED
    BY <2>1, <2>2, <2>3, Zenon DEF TypeOK, Types, Status, Copies, Contents
<1> QED
  BY MovementInvariant, <1>1, PTL

\* A movement whose target has joined is never CANCELLED nor about to be, with
\* any number of retries, restarts, lost answers and concurrent cancellations.
THEOREM MovementJoinStands == Spec => []JoinStands
<1>1. MovementInv => JoinStands
  BY Zenon DEF MovementInv, OpInv, JoinStands, Joined
<1> QED
  BY MovementInvariant, <1>1, PTL

\* A CANCELLED operation has a change log on its source only when its last
\* StopChangeCapture failed, with any retries, restarts and failed clean-ups.
THEOREM MovementCaptureStops == Spec => []CaptureStops
<1>1. MovementInv => CaptureStops
  BY Zenon DEF MovementInv, OpInv, WorkerInv, Place, Open, CaptureStops
<1> QED
  BY MovementInvariant, <1>1, PTL

\* No retry, stale dispatch or lost answer takes an operation back to a state
\* it has left.
THEOREM MovementNeverGoesBack == Spec => NeverGoesBack
<1>1. MovementInv /\ [Next]_vars =>
          [\A o \in OpIds : ops[o] # Gone /\ ops'[o] # Gone =>
               StateRank(ops[o].st) <= StateRank(ops'[o].st)]_vars
  BY NextSound DEF Sound, Later
<1> QED
  BY MovementInvariant, <1>1, PTL DEF Spec, NeverGoesBack
=============================================================================
