---------------------------- MODULE MCCppSession ----------------------------
(* The sessions that CppSession is checked for.                              *)
EXTENDS CppSession

Base ==
  [reliable |-> TRUE, latencyTest |-> FALSE, executionTime |-> FALSE,
   createFails |-> FALSE, shortTest |-> FALSE, tornSize |-> FALSE,
   slowNetwork |-> FALSE, countingSemaphore |-> FALSE, dataSize |-> "DATA",
   announcementSampleCount |-> 1, maxLosses |-> 0]

\* A reliable throughput test; reliable latency tests, one on a slow network with a
\* timer whose endpoints may not be created, one with the semaphore of the C++11
\* infrastructure, one with data of the size of an INITIALIZE sample; a best-effort
\* latency test that loses a sample.
Sessions ==
  {[Base EXCEPT !.announcementSampleCount = 2],
   [Base EXCEPT !.latencyTest = TRUE, !.executionTime = TRUE, !.createFails = TRUE,
                !.slowNetwork = TRUE],
   [Base EXCEPT !.latencyTest = TRUE, !.countingSemaphore = TRUE],
   [Base EXCEPT !.latencyTest = TRUE, !.dataSize = "INITIALIZE"],
   [Base EXCEPT !.reliable = FALSE, !.latencyTest = TRUE, !.maxLosses = 1]}

\* A short reliable test.
ShortSession == {[Base EXCEPT !.shortTest = TRUE, !.announcementSampleCount = 2]}

\* The size of the list of subscribers is read while it changes.
TornSession == {[Base EXCEPT !.tornSize = TRUE, !.announcementSampleCount = 2]}

\* Data has the size of a FINISHED sample.
FinishedSizeSession == {[Base EXCEPT !.dataSize = "FINISHED"]}
=============================================================================
