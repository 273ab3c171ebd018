------------------------- MODULE MovementLifecycle -------------------------
(***************************************************************************)
(* What a replica movement promises, without nodes, workers or faults: a   *)
(* request is admitted, its target joins the replica set in one step, a    *)
(* MOVE then sheds its source, and the movement is done.  Until it joins   *)
(* it can be cancelled; from then on it cannot.                            *)
(***************************************************************************)
EXTENDS Naturals, Sequences

VARIABLES
    reqs,      \* the requests, in the order of their ids
    phase,     \* id -> "new", "pending", "joined", "done", "cancelled", "gone"
    replicas   \* the replica set of the shard

vars == <<reqs, phase, replicas>>

Ids == DOMAIN reqs

Init ==
    /\ phase = [o \in Ids |-> "new"]
    /\ replicas # {}

Moves(o, from, to) == phase[o] = from /\ phase' = [phase EXCEPT ![o] = to]

Admit(o) ==
    /\ Moves(o, "new", "pending")
    /\ reqs[o].src \in replicas /\ reqs[o].tgt \notin replicas
    /\ UNCHANGED <<reqs, replicas>>

Join(o) ==
    /\ Moves(o, "pending", "joined")
    /\ replicas' = replicas \cup {reqs[o].tgt}
    /\ UNCHANGED reqs

\* Only a MOVE that has joined takes a node out, and never the last one.
Shed(o) ==
    /\ phase[o] = "joined" /\ reqs[o].type = "MOVE"
    /\ reqs[o].tgt \in replicas
    /\ replicas' = replicas \ {reqs[o].src}
    /\ UNCHANGED <<reqs, phase>>

\* The source of a MOVE that is done is out, or another movement is bringing it
\* back.
Finish(o) ==
    /\ Moves(o, "joined", "done")
    /\ reqs[o].type = "MOVE" /\ reqs[o].src \in replicas =>
           \E p \in Ids : reqs[p].tgt = reqs[o].src /\ phase[p] # "new"
    /\ UNCHANGED <<reqs, replicas>>

Cancel(o) ==
    /\ Moves(o, "pending", "cancelled")
    /\ UNCHANGED <<reqs, replicas>>

Forget(o) ==
    /\ \E from \in {"pending", "done", "cancelled"} : Moves(o, from, "gone")
    /\ UNCHANGED <<reqs, replicas>>

Next == \E o \in Ids : \/ Admit(o) \/ Join(o) \/ Shed(o) \/ Finish(o)
                       \/ Cancel(o) \/ Forget(o)

Spec == Init /\ [][Next]_vars

=============================================================================
