---------------------------- MODULE MCTaskManager ----------------------------
(* TaskManager on small instances. *)
EXTENDS TaskManager, TLC

Symmetry == Permutations(Nodes) \cup Permutations(UnitIds)
                \cup Permutations(TaskIds) \cup Permutations(Scopes)

\* One payload: the run is about what happens to a task, not between tasks.
OnePayload == {[collection |-> "A", scope |-> Scopes]}

\* Payloads beside each other; two tasks on the same one overlap.
MeetingPayloads == {[collection |-> "A", scope |-> {s}] : s \in Scopes}
=============================================================================
