--------------------------- MODULE MCCppReadThread ---------------------------
(* The readers that CppReadThread is checked for.  Each execution is of one.  *)
EXTENDS CppReadThread

\* Two samples without data; a zero-copy stream on the C++11 infrastructure whose
\* last sample is not consistent; Cert, where every sample has data; zero-copy
\* Cert with an odd sample, one without data and an unblock that may fail; packets.
AllReaders ==
  {[reader |-> "plain", maxSamples |-> 4, invalid |-> {2, 4}, odd |-> {},
   finished |-> {}, infrastructure |-> "os", unblockFails |-> FALSE],
   [reader |-> "flat", maxSamples |-> 3, invalid |-> {2}, odd |-> {3},
   finished |-> {}, infrastructure |-> "cpp11", unblockFails |-> FALSE],
   [reader |-> "cert", maxSamples |-> 4, invalid |-> {}, odd |-> {},
   finished |-> {}, infrastructure |-> "os", unblockFails |-> FALSE],
   [reader |-> "certZCopy", maxSamples |-> 4, invalid |-> {4}, odd |-> {2},
   finished |-> {}, infrastructure |-> "os", unblockFails |-> TRUE],
   [reader |-> "raw", maxSamples |-> 4, invalid |-> {}, odd |-> {},
   finished |-> {}, infrastructure |-> "os", unblockFails |-> FALSE]}

\* The dynamic reader, which unblock does not reach.
DynamicReader ==
  {[reader |-> "dynamic", maxSamples |-> 3, invalid |-> {2}, odd |-> {},
   finished |-> {}, infrastructure |-> "os", unblockFails |-> FALSE]}

\* A zero-copy sample overwritten by its publisher before it is looked at.
OverwrittenSample ==
  {[reader |-> "flat", maxSamples |-> 2, invalid |-> {}, odd |-> {1},
   finished |-> {2}, infrastructure |-> "os", unblockFails |-> FALSE]}
=============================================================================
