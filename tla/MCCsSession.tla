----------------------------- MODULE MCCsSession -----------------------------
(* The sessions that CsSession is checked for.                               *)
EXTENDS CsSession

\* A reliable throughput test whose timer may fire.
Timed ==
  [reliable |-> TRUE, latencyTest |-> FALSE, executionTime |-> TRUE,
   interrupts |-> FALSE, slowNetwork |-> FALSE]

ReliableSessions == {Timed}

\* A latency test: interrupted over a slow network, or in best effort.
FaultySessions ==
  {[Timed EXCEPT !.latencyTest = TRUE, !.interrupts = TRUE, !.slowNetwork = TRUE],
   [Timed EXCEPT !.latencyTest = TRUE, !.reliable = FALSE]}

\* The violated claims: a timer that fires in a latency test, and no timer.
LatencySessions == {[Timed EXCEPT !.latencyTest = TRUE]}

UntimedSessions == {[Timed EXCEPT !.executionTime = FALSE]}
=============================================================================
