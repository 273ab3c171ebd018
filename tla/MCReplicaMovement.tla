------------------------- MODULE MCReplicaMovement -------------------------
(***************************************************************************)
(* Instances of ReplicaMovement for TLC.                                   *)
(***************************************************************************)
EXTENDS ReplicaMovement

CONSTANTS n1, n2, n3

Request(src, tgt, type) == [src |-> src, tgt |-> tgt, type |-> type]
Scenario(holders, reqs, cancels, deletes, faultBound) ==
    [holders |-> holders, reqs |-> reqs, cancels |-> cancels, deletes |-> deletes,
     faults |-> faultBound, stalls |-> {}]

\* One movement, cancelled and deleted at will.
Single(type) == Scenario({n1}, <<Request(n1, n2, type)>>, {1}, {1}, 2)
\* A target asked for again after a cancellation.
Again ==
    Scenario({n1}, <<Request(n1, n2, "COPY"), Request(n1, n2, "MOVE")>>, {1}, {2}, 1)
\* The target of one is the source of the next.
Chain == Scenario({n1}, <<Request(n1, n2, "MOVE"), Request(n2, n3, "COPY")>>, {}, {}, 0)
\* The source of one is the target of the next.
Return ==
    Scenario({n1, n3}, <<Request(n1, n2, "MOVE"), Request(n3, n1, "COPY")>>, {}, {}, 1)

\* The cancelled movement is deleted when the target is asked for again.
DeleteFirst == Scenario({n1}, Again.reqs, {1}, {1}, 0)

SafetyScenarios == {Single("MOVE"), Again, Chain, Return}
DeleteScenarios == {DeleteFirst}
\* A node gives up its report of a state.
Silent(st) == [Single("MOVE") EXCEPT !.faults = 1, !.stalls = {st}]

LivenessScenarios ==
    {Single("COPY"), Single("MOVE"), Silent("INTEGRATING"), Silent("DEHYDRATING")}
=============================================================================
