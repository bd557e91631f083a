--------------------------- MODULE MCModernSession ---------------------------
(* The sessions that ModernSession is checked for.                           *)
EXTENDS ModernSession

\* A reliable throughput test read by listeners.
Plain ==
  [reliable |-> TRUE, latencyTest |-> FALSE, executionTime |-> FALSE,
   createFails |-> FALSE, pubReadThread |-> FALSE, subReadThread |-> FALSE,
   useCft |-> FALSE, clockSkew |-> FALSE, tornSize |-> FALSE, slowNetwork |-> FALSE,
   dataSize |-> "DATA", numIter |-> 1, samplesPerBatch |-> 1,
   latencyCount |-> 1, announcementSampleCount |-> 1, maxLosses |-> 0]

\* Two publishers and two subscribers: a throughput test with read threads at the
\* subscribers, a latency test, and one with data of the size of an INITIALIZE sample
\* on a slow network.
SmallSessions ==
  {[Plain EXCEPT !.subReadThread = TRUE],
   [Plain EXCEPT !.latencyTest = TRUE],
   [Plain EXCEPT !.latencyTest = TRUE, !.dataSize = "INITIALIZE", !.slowNetwork = TRUE,
                 !.announcementSampleCount = 2]}

\* Latency tests in which the timer may fire or an object is not created, or which
\* lose a sample and a pong and have a bad clock, or whose subscribers filter.
LatencyTests ==
  {[Plain EXCEPT !.latencyTest = TRUE, !.numIter = 4, !.latencyCount = 2],
   [Plain EXCEPT !.latencyTest = TRUE, !.numIter = 2, !.executionTime = TRUE,
                 !.createFails = TRUE],
   [Plain EXCEPT !.latencyTest = TRUE, !.reliable = FALSE, !.maxLosses = 1,
                 !.clockSkew = TRUE],
   [Plain EXCEPT !.latencyTest = TRUE, !.useCft = TRUE]}

\* Throughput tests with pings: in batches, in a row when the size of the list of
\* subscribers is read while it changes, and taken by a read thread.
ThroughputTests ==
  {[Plain EXCEPT !.numIter = 5, !.samplesPerBatch = 2],
   [Plain EXCEPT !.numIter = 3, !.tornSize = TRUE],
   [Plain EXCEPT !.numIter = 2, !.pubReadThread = TRUE]}

PingSessions == LatencyTests \cup ThroughputTests

\* A read thread takes the pongs.
ReadThreadSessions == {[Plain EXCEPT !.numIter = 2, !.pubReadThread = TRUE]}

\* Every subscriber answers every ping.
FilteredSessions == {[Plain EXCEPT !.latencyTest = TRUE, !.numIter = 4, !.useCft = TRUE]}

\* One sample, and a FINISHED that two subscribers acknowledge.
PlainSessions == {Plain}
=============================================================================
