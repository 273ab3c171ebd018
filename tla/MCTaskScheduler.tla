---------------------------- MODULE MCTaskScheduler ----------------------------
(* Instances of TaskScheduler: two nodes with one unit each, and n3, which owns none. *)
EXTENDS TaskScheduler, TLC

CONSTANTS n1, n2, n3, u1, u2, g1, g2, c1, p1

TwoOwners == u1 :> n1 @@ u2 :> n2
OneGroup == u1 :> g1 @@ u2 :> g1
TwoGroups == u1 :> g1 @@ u2 :> g2
Retokenize == [collection |-> c1, scope |-> {p1}]

\* No fault at all.
Quiet(barrier) ==
    [nodes |-> {n1, n2}, groupOf |-> OneGroup, barrier |-> barrier, fails |-> {},
     rerunFails |-> FALSE, cancel |-> FALSE, stale |-> FALSE,
     maxCrashes |-> 0, maxTimeouts |-> 0]

\* Units and preparations fail, beside a node without units.
Cutover(nodes, barrier, crashBound, timeoutBound) ==
    [Quiet(barrier) EXCEPT !.nodes = nodes, !.fails = {"work", "prep"}, !.cancel = TRUE,
        !.maxCrashes = crashBound, !.maxTimeouts = timeoutBound]
\* Units, swaps, flips and sweeps fail, and the task may be force-terminated.
Faults(barrier, crashBound, timeoutBound) ==
    [Quiet(barrier) EXCEPT !.groupOf = TwoGroups, !.fails = {"work", "swap", "flip", "cleanup"},
        !.cancel = TRUE, !.stale = TRUE, !.maxCrashes = crashBound,
        !.maxTimeouts = timeoutBound]
SafetySetups ==
    UNION {{Cutover({n1, n2, n3}, b, 1, 0), Cutover({n1, n2, n3}, b, 0, 1),
            Cutover({n1, n2}, b, 1, 1), Faults(b, 2, 0), Faults(b, 1, 1)} : b \in BOOLEAN}

\* Some phases fail and the user cancels; a node crashes or a write is lost.
Failing(phases, crashBound, timeoutBound) ==
    [Quiet(TRUE) EXCEPT !.fails = phases, !.cancel = TRUE,
        !.maxCrashes = crashBound, !.maxTimeouts = timeoutBound]
\* A stale-detection leader ends the task, too.
Ending(phases, crashBound, timeoutBound) ==
    [Failing(phases, crashBound, timeoutBound) EXCEPT !.stale = TRUE]
\* Only crashes and lost writes.
Unlucky(barrier, crashBound, timeoutBound) ==
    [Quiet(barrier) EXCEPT !.maxCrashes = crashBound, !.maxTimeouts = timeoutBound]
LivenessSetups ==
    {Failing({"prep", "flip"}, 1, 0), Failing({"prep", "flip"}, 0, 1),
     Ending({"work", "swap"}, 1, 0), Ending({"swap", "cleanup"}, 0, 0),
     Unlucky(TRUE, 2, 0), Unlucky(TRUE, 1, 1), Unlucky(FALSE, 2, 1)}

SwapFails == [Quiet(TRUE) EXCEPT !.fails = {"swap"}]
SwapFailureSetups == {SwapFails}
SwapRerunSetups == {[SwapFails EXCEPT !.rerunFails = TRUE, !.maxCrashes = 1]}
=============================================================================
