-------------------------- MODULE MCThroughputStats --------------------------
(* The tests that ThroughputStats is checked for.  Each execution is of one.  *)
EXTENDS ThroughputStats

\* Losses, with and without content filters; and sequence numbers that wrap
\* around without a loss.
AllTests ==
  {[numPublishers |-> 2, numIter |-> 3, lossy |-> TRUE, useCft |-> FALSE,
    seqWord |-> 8, word |-> 64],
   [numPublishers |-> 2, numIter |-> 2, lossy |-> TRUE, useCft |-> TRUE,
    seqWord |-> 8, word |-> 64],
   [numPublishers |-> 2, numIter |-> 4, lossy |-> FALSE, useCft |-> FALSE,
    seqWord |-> 3, word |-> 64]}

\* One publisher whose samples may be lost.
LossyTest ==
  {[numPublishers |-> 1, numIter |-> 3, lossy |-> TRUE, useCft |-> FALSE,
    seqWord |-> 8, word |-> 64]}
=============================================================================
