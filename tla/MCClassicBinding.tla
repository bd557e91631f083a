--------------------------- MODULE MCClassicBinding ---------------------------
(* The command lines that ClassicBinding is checked for.                      *)
EXTENDS ClassicBinding

Base ==
  [port |-> "pro", role |-> "pub", pid |-> 0, type |-> "typed", sendQueueSize |-> 2,
   windowSet |-> TRUE, receiveQueueSize |-> 0, instances |-> 1, instancesSet |-> FALSE,
   writeInstance |-> -1, durability |-> Volatile, dataLen |-> 100,
   batchSize |-> 0, batchSet |-> FALSE, pubRate |-> FALSE, turbo |-> FALSE,
   async |-> FALSE, latencyTest |-> FALSE, bestEffort |-> FALSE, noDirect |-> FALSE,
   keyed |-> FALSE, fastQueue |-> FALSE, unbounded |-> FALSE,
   capture |-> FALSE, space |-> MaxSampleSize, sends |-> 2, filters |-> {<<>>},
   transport |-> {}, mask |-> {"udpv4", "shmem"}, profileSizes |-> <<>>,
   messageSizeMax |-> 0, segment |-> 1024 * MegaByte, wan |-> FALSE,
   freePort |-> FALSE, address |-> "none", server |-> FALSE, wanId |-> FALSE,
   nic |-> FALSE]

Roles(c) == {[c EXCEPT !.role = r] : r \in {"pub", "sub"}}

\* Ports and types of data; small, medium and large samples over memory or not.
Types ==
  UNION {Roles([Base EXCEPT !.port = p, !.dataLen = n, !.unbounded = (n > 65470),
                            !.sendQueueSize = q]) :
           p \in {"pro", "micro", "micro24"}, n \in {100, 65536, 1000000}, q \in {1, 5}}
  \cup
  UNION {Roles([Base EXCEPT !.type = t, !.dataLen = n, !.mask = s, !.sendQueueSize = q]) :
           t \in {"dynamic", "flat", "zerocopy"}, n \in {100, 1000000},
           s \in {{"udpv4"}, {"udpv4", "shmem"}}, q \in {1, 5}}

\* Reliability, durability and how the samples get to the readers.
Policies ==
  UNION {Roles([Base EXCEPT !.port = p, !.bestEffort = b, !.durability = d,
                            !.noDirect = n, !.windowSet = n]) :
           p \in {"pro", "micro"}, b, n \in BOOLEAN, d \in Volatile .. Persistent}

\* Batches, turbo mode, the rate, latency tests, the fast queue, the capture.
Modes ==
  UNION {Roles([Base EXCEPT !.batchSize = b, !.batchSet = g, !.dataLen = n,
                            !.pubRate = r, !.turbo = t, !.latencyTest = l]) :
           b \in {150, 400}, n \in {100, 65000}, g, r, t, l \in BOOLEAN}
  \cup
  {[Base EXCEPT !.pid = 1],
   [Base EXCEPT !.turbo = TRUE, !.async = TRUE],
   [Base EXCEPT !.type = "flat", !.batchSize = 400, !.batchSet = TRUE],
   [Base EXCEPT !.type = "flat", !.batchSize = 400],
   [Base EXCEPT !.fastQueue = TRUE, !.bestEffort = TRUE, !.capture = TRUE],
   [Base EXCEPT !.fastQueue = TRUE],
   [Base EXCEPT !.port = "micro", !.type = "dynamic"],
   [Base EXCEPT !.port = "micro", !.transport = {"shmem"}, !.latencyTest = TRUE],
   [Base EXCEPT !.port = "micro24", !.transport = {"shmem"}],
   [Base EXCEPT !.receiveQueueSize = 100, !.role = "sub"],
   [Base EXCEPT !.receiveQueueSize = 100, !.writeInstance = 2]}

\* Instances and filters: one publisher writes past the first byte of the key.
Filters == {<<>>, <<0>>, <<1>>, <<0, 1>>, <<255, 257>>, <<256>>, <<1, 256>>, <<258, 511>>}

Instances ==
  {[Base EXCEPT !.instances = 259, !.instancesSet = TRUE, !.keyed = TRUE, !.sends = 260,
                !.filters = Filters]}
  \cup
  UNION {Roles([Base EXCEPT !.port = p, !.instances = n, !.instancesSet = (n > 1),
                            !.writeInstance = w, !.keyed = TRUE, !.filters = Filters]) :
           p \in {"pro", "micro"}, n \in {1, 3}, w \in {-1, 0, 1, 2}}
  \cup
  {[Base EXCEPT !.type = t, !.instances = n, !.instancesSet = TRUE, !.keyed = TRUE,
                !.sendQueueSize = 3, !.sends = 4, !.filters = {<<>>, <<1>>}] :
     t \in {"flat", "zerocopy", "dynamic"}, n \in {2, 3}}

\* Transports and the size of their messages: samples around the limit, sizes of
\* the command line and of the profile, and systems with little shared memory.
Transports ==
  {[Base EXCEPT !.transport = t, !.mask = m, !.type = y, !.dataLen = n, !.nic = TRUE,
                !.messageSizeMax = z, !.sendQueueSize = 1, !.sends = 0] :
     t \in {{}, {"shmem"}, {"udpv4"}, {"tcp"}},
     m \in {{}, {"udpv4"}, {"udpv4", "shmem"}, {"shmem"}, {"udpv4_wan"}},
     y \in {"typed", "flat", "zerocopy"},
     n \in {8900, 64952, 64953, 64969, 64970, 300000}, z \in {0, 9500}}
  \cup
  {[Base EXCEPT !.transport = t, !.dataLen = n, !.segment = s, !.sends = 0] :
     t \in {{}, {"shmem"}}, n \in {100, 3000000}, s \in {0, 2 * MegaByte, 4 * MegaByte}}
  \cup
  {[Base EXCEPT !.mask = m, !.profileSizes = f, !.dataLen = n, !.sends = 0] :
     m \in {{"shmem"}, {"udpv4", "udpv6", "shmem"}}, n \in {8900, 70000},
     f \in {[shmem |-> 9500], [udpv6 |-> 9500], [shmem |-> 100000]}}
  \cup
  {[Base EXCEPT !.transport = {t}, !.wan = w, !.freePort = f, !.address = a,
                !.server = f, !.wanId = w, !.sends = 0] :
     t \in {"tls", "dtls", "wan", "udpv4_wan", "udpv6"}, w, f \in BOOLEAN,
     a \in {"none", "host", "host:port"}}

AllCommands == Types \cup Policies \cup Modes \cup Instances \cup Transports

KeyedCommands == {[Base EXCEPT !.instances = n, !.instancesSet = TRUE, !.keyed = TRUE] :
                    n \in {1, 2, 3}}
=============================================================================
