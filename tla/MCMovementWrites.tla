-------------------------- MODULE MCMovementWrites --------------------------
(***************************************************************************)
(* Instances of MovementWrites for TLC.                                    *)
(***************************************************************************)
EXTENDS MovementWrites

W(key, kind, level) == [key |-> key, kind |-> kind, level |-> level, waits |-> TRUE]
Overlapping(key, kind, level) == [W(key, kind, level) EXCEPT !.waits = FALSE]
Scenario(peers, via, type, writes, refusals, reruns, appendFails) ==
    [peers |-> peers, via |-> via, type |-> type, writes |-> writes, refusals |-> refusals,
     reruns |-> reruns, appendFails |-> appendFails, silent |-> {}]

\* A single replica: every write of the source-only view must reach the target.
Alone == Scenario({}, {"s", "t"}, "MOVE", <<W("a", "PUT", "ONE"), W("a", "PUT", "ONE")>>, 0, 1, {})
\* Two objects written at once.
Pair == Scenario({}, {"s", "t"}, "COPY", <<W("a", "PUT", "ONE"), W("b", "PUT", "QUORUM")>>, 0, 0, {})
\* An object is written again before its write is over, and a message is lost.
Overlap == Scenario({}, {"t"}, "MOVE",
                    <<W("a", "PUT", "ONE"), Overlapping("a", "PUT", "ONE")>>, 1, 0, {})
\* Two replicas, a prepare refused or a message lost, and a log that fails before
\* it is drained.
Two == Scenario({"p"}, {"s", "t", "p"}, "MOVE", <<W("a", "PUT", "QUORUM")>>, 1, 0, {"before"})
\* Three replicas: a quorum that the source is part of leaves one peer out.
Three == Scenario({"p", "q"}, {"p"}, "MOVE", <<W("a", "PUT", "QUORUM")>>, 0, 0, {})
\* A node gives up a report.
Silent == {[Scenario({}, {"s"}, "MOVE", <<W("a", "PUT", "ONE")>>, 0, 0, {}) EXCEPT !.silent = {r}] :
              r \in {<<"s", Integrating>>, <<"s", Dehydrating>>}}
\* An object is deleted while its replay is under way.
Delete == Scenario({}, {"s", "t"}, "MOVE", <<W("a", "PUT", "ONE"), W("a", "DELETE", "ONE")>>, 0, 0, {})
\* An append fails after the drain of FINALIZING.
LostLog == Scenario({}, {"s", "t"}, "MOVE", <<W("a", "PUT", "ONE")>>, 0, 0, {"after"})

WriteScenarios == {Alone, Pair, Overlap, Two, Three} \cup Silent
DeleteScenarios == {Delete}
LostLogScenarios == {LostLog}
=============================================================================
