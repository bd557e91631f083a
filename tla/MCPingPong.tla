------------------------------ MODULE MCPingPong ------------------------------
(* The plans that PingPong is checked for.  Each execution is of one.         *)
EXTENDS PingPong

Base ==
  [port |-> "cpp", semaphore |-> "binary", dataSize |-> "DATA", numIter |-> 7,
   latencyCount |-> 2, samplesPerBatch |-> 1,
   numSubscribers |-> 2, latencyTest |-> TRUE, reliable |-> TRUE,
   noPayload |-> FALSE, coarseClock |-> FALSE, clockSkew |-> FALSE,
   executionTime |-> TRUE]

\* Latency tests with the semaphore of the C++11 infrastructure.
SparePlans ==
  {[Base EXCEPT !.semaphore = "counting", !.clockSkew = TRUE],
   [Base EXCEPT !.semaphore = "counting", !.numIter = 5, !.latencyCount = 1],
   [Base EXCEPT !.semaphore = "counting", !.reliable = FALSE, !.numIter = 6]}

\* Data of the size of an INITIALIZE or a FINISHED sample.
ControlSizePlans ==
  {[Base EXCEPT !.dataSize = "INITIALIZE", !.reliable = FALSE, !.numIter = 4],
   [Base EXCEPT !.dataSize = "FINISHED", !.latencyTest = FALSE, !.numIter = 4],
   [Base EXCEPT !.port = "cs", !.dataSize = "INITIALIZE"],
   [Base EXCEPT !.semaphore = "counting", !.dataSize = "INITIALIZE", !.numIter = 2]}

\* Latency tests of both ports, reliable and not, with a coarse clock, a skewed
\* one and no payload; throughput tests in batches that do not divide numIter.
AllPlans ==
  SparePlans \cup ControlSizePlans \cup
  {[Base EXCEPT !.clockSkew = TRUE],
   [Base EXCEPT !.noPayload = TRUE, !.numIter = 5, !.latencyCount = 1],
   [Base EXCEPT !.port = "cs", !.coarseClock = TRUE],
   [Base EXCEPT !.port = "cs", !.reliable = FALSE, !.numIter = 6],
   [Base EXCEPT !.reliable = FALSE, !.numIter = 6, !.numSubscribers = 1,
                !.clockSkew = TRUE],
   [Base EXCEPT !.port = "cs", !.latencyTest = FALSE, !.numIter = 13,
                !.samplesPerBatch = 2, !.executionTime = FALSE],
   [Base EXCEPT !.latencyTest = FALSE, !.numIter = 17, !.latencyCount = 3,
                !.samplesPerBatch = 2, !.noPayload = TRUE],
   [Base EXCEPT !.latencyTest = FALSE, !.numIter = 15, !.latencyCount = 1,
                !.samplesPerBatch = 4]}

\* Reliable latency tests of C# whose last pong is ignored, or skewed, and one of
\* C++ whose pongs have the size of an INITIALIZE sample.
UnansweredPlans ==
  {[Base EXCEPT !.port = "cs", !.numIter = 5, !.noPayload = TRUE],
   [Base EXCEPT !.port = "cs", !.numIter = 3, !.clockSkew = TRUE],
   [Base EXCEPT !.dataSize = "INITIALIZE", !.numIter = 3]}
=============================================================================
