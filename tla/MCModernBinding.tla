---------------------------- MODULE MCModernBinding ----------------------------
(* The command lines that ModernBinding is checked for.                       *)
EXTENDS ModernBinding

Base ==
  [role |-> "pub", pid |-> 0, type |-> "typed", transport |-> "xml",
   mask |-> {"udpv4", "shmem"}, profileSizes |-> <<>>, messageSizeMax |-> 0,
   segment |-> 121634816, sendQueueSize |-> 2, windowSet |-> TRUE, receiveQueueSize |-> 0,
   instances |-> 1, instancesSet |-> FALSE, writeInstance |-> -1, durability |-> Volatile,
   dataLen |-> 100, batchSize |-> 0, batchSet |-> FALSE, pubRate |-> FALSE,
   turbo |-> FALSE, async |-> FALSE, latencyTest |-> FALSE, bestEffort |-> FALSE,
   noDirect |-> FALSE, checkConsistency |-> FALSE, wan |-> FALSE, address |-> FALSE,
   sends |-> 2, filters |-> {<<>>}]

Roles(c) == {[c EXCEPT !.role = r] : r \in {"pub", "sub"}}

\* Types of data and queues: no large FlatData over shared memory with one sample
\* (MCModernBindingSegment.cfg).
Types ==
  UNION {Roles([Base EXCEPT !.type = t, !.dataLen = n, !.sendQueueSize = q,
                            !.checkConsistency = (q = 5 /\ t = "zerocopy")]) :
           t \in {"typed", "dynamic", "flat", "zerocopy"}, n \in {100, 65537, 1000000},
           q \in {2, 5}}
  \cup
  UNION {Roles([Base EXCEPT !.type = t, !.dataLen = n, !.sendQueueSize = 1,
                            !.transport = "udpv4"]) :
           t \in {"typed", "flat"}, n \in {100, 1000000}}

\* Transports, the sizes of their messages, and samples at the limits.
Lengths == {64952, 64953, 64969, 64970, 1000000, 2097152}

Transports ==
  {[Base EXCEPT !.transport = "xml", !.mask = k, !.type = t, !.dataLen = n,
                !.profileSizes = z, !.segment = s] :
     k \in {{}, {"shmem"}, {"udpv4"}, {"udpv4", "shmem"}, {"udpv4", "udpv6", "shmem"}},
     t \in {"typed", "flat"}, n \in Lengths,
     z \in {<<>>, [x \in {"udpv4"} |-> 1500], [x \in {"shmem"} |-> 1000000]},
     s \in {1048576, 121634816}}
  \cup
  {[Base EXCEPT !.transport = t, !.mask = {"shmem"}, !.dataLen = n,
                !.messageSizeMax = m, !.address = a, !.wan = w] :
     t \in {"shmem", "udpv4"} \cup Plugins, n \in Lengths, m \in {0, 1500, 65536},
     a, w \in BOOLEAN}

\* Reliability, durability and how the samples get to the readers.
Policies ==
  UNION {Roles([Base EXCEPT !.bestEffort = b, !.durability = d, !.noDirect = n,
                            !.windowSet = n]) :
           b, n \in BOOLEAN, d \in Volatile .. Persistent}

\* Batches, turbo mode, the rate, latency tests.
Modes ==
  UNION {Roles([Base EXCEPT !.batchSize = b, !.batchSet = g, !.dataLen = n,
                            !.pubRate = r, !.turbo = t, !.latencyTest = l]) :
           b \in {150, 400}, n \in {100, 65000}, g, r, t, l \in BOOLEAN}
  \cup
  {[Base EXCEPT !.pid = 1],
   [Base EXCEPT !.pid = 1, !.latencyTest = TRUE],
   [Base EXCEPT !.dataLen = 27],
   [Base EXCEPT !.turbo = TRUE, !.async = TRUE],
   [Base EXCEPT !.type = "flat", !.batchSize = 400, !.batchSet = TRUE],
   [Base EXCEPT !.type = "flat", !.batchSize = 400],
   [Base EXCEPT !.type = "zerocopy", !.transport = "udpv4"],
   [Base EXCEPT !.checkConsistency = TRUE],
   [Base EXCEPT !.type = "zerocopy", !.role = "sub", !.bestEffort = TRUE],
   [Base EXCEPT !.receiveQueueSize = 100, !.role = "sub"],
   [Base EXCEPT !.writeInstance = 2]}

\* Instances and filters: one publisher writes past the first byte of the key.
Filters == {<<>>, <<0>>, <<1>>, <<0, 1>>, <<255, 257>>, <<256>>, <<1, 256>>, <<258, 511>>}

Instances ==
  {[Base EXCEPT !.type = t, !.instances = 259, !.instancesSet = TRUE, !.sends = 260,
                !.filters = Filters] : t \in {"typed", "flat"}}
  \cup
  UNION {Roles([Base EXCEPT !.type = t, !.instances = n, !.instancesSet = (n > 1),
                            !.writeInstance = w, !.filters = Filters]) :
           t \in {"typed", "dynamic", "flat"}, n \in {1, 3}, w \in {-1, 0}}
  \cup
  {[Base EXCEPT !.instances = 3, !.instancesSet = TRUE, !.writeInstance = w,
                !.filters = Filters] : w \in {1, 2}}

AllCommands == Types \cup Transports \cup Policies \cup Modes \cup Instances

DurableCommands == {[Base EXCEPT !.durability = d, !.segment = s] :
                      d \in Volatile .. Persistent, s \in {1048576, 121634816}}

SegmentCommands == {[Base EXCEPT !.type = "flat", !.dataLen = 1000000, !.sendQueueSize = q] :
                      q \in 1 .. 12}
=============================================================================
