---------------------------- MODULE TaskLifecycle ----------------------------
(***************************************************************************)
(* What the task framework promises of a task, units and nodes forgotten:  *)
(* a submission gets a version larger than any before it, moves forward    *)
(* along STARTED -> PREPARING -> SWAPPING -> FINISHED (PREPARING is        *)
(* visited by barrier tasks only), may end early in FAILED or CANCELLED,   *)
(* and once ended only disappears or is replaced by a newer submission.    *)
(***************************************************************************)
EXTENDS Naturals

CONSTANTS Keys, Absent

VARIABLES
    life,           \* key -> Absent, or the version, kind and status of its task
    top             \* the largest version handed out

Active == {"STARTED", "PREPARING", "SWAPPING"}
Ended == {"FINISHED", "FAILED", "CANCELLED"}

Init == /\ life = [k \in Keys |-> Absent]
        /\ top = 0

Begin(k) ==
    /\ life[k] # Absent => life[k].status # "STARTED"
    /\ top' > top
    /\ \E barrier \in BOOLEAN :
          life' = [life EXCEPT ![k] = [version |-> top', barrier |-> barrier,
                                       status |-> "STARTED"]]

Move(k, from, to) ==
    /\ life[k] # Absent
    /\ life[k].status = from
    /\ life' = [life EXCEPT ![k].status = to]
    /\ UNCHANGED top

WorkDone(k) ==
    \/ Move(k, "STARTED", "PREPARING") /\ life[k].barrier
    \/ Move(k, "STARTED", "SWAPPING") /\ ~life[k].barrier

BarrierLifts(k) == Move(k, "PREPARING", "SWAPPING")

Finish(k) == Move(k, "SWAPPING", "FINISHED")

Abort(k) == \E from \in Active, to \in {"FAILED", "CANCELLED"} : Move(k, from, to)

Forget == /\ life' \in [Keys -> {Absent} \cup {life[k] : k \in Keys}]
          /\ \A k \in Keys : life'[k] \in {Absent, life[k]}
          /\ UNCHANGED top

Next == \/ \E k \in Keys : \/ Begin(k) \/ WorkDone(k) \/ BarrierLifts(k)
                           \/ Finish(k) \/ Abort(k)
        \/ Forget

Spec == Init /\ [][Next]_<<life, top>>
=============================================================================
