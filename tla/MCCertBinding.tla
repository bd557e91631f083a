---------------------------- MODULE MCCertBinding ----------------------------
(* The command lines that CertBinding is checked for.                         *)
EXTENDS CertBinding

Base ==
  [zerocopy |-> FALSE, keyed |-> FALSE, instances |-> 1, instancesSet |-> FALSE,
   writeInstance |-> -1, sendQueueSize |-> 50, durability |-> Volatile, dataLen |-> 100,
   peers |-> 0, bestEffort |-> FALSE, shmem |-> FALSE, dynamic |-> FALSE,
   fails |-> FALSE, sends |-> 2]

\* Instances and queues, up to one sample for each instance.
Instances ==
  {[Base EXCEPT !.zerocopy = z, !.keyed = TRUE, !.instances = n, !.instancesSet = (n > 1),
                !.writeInstance = w, !.sendQueueSize = q] :
     z \in BOOLEAN, n \in {1, 3}, w \in {-1, 0, 1}, q \in {4, 50}}

Policies ==
  {[Base EXCEPT !.bestEffort = b, !.durability = d, !.dataLen = n, !.zerocopy = z] :
     b, z \in BOOLEAN, d \in Volatile .. Persistent, n \in {100, 1000000}}

\* Refused command lines, and failures.
Refused ==
  {[Base EXCEPT !.writeInstance = 2], [Base EXCEPT !.peers = 1024],
   [Base EXCEPT !.shmem = TRUE], [Base EXCEPT !.dynamic = TRUE]}
Failing == {[Base EXCEPT !.fails = TRUE, !.zerocopy = z] : z \in BOOLEAN}

AllCommands == Instances \cup Policies \cup Refused \cup Failing

DurableCommands == {[Base EXCEPT !.durability = TransientLocal]}
=============================================================================
