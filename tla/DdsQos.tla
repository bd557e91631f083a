-------------------------------- MODULE DdsQos --------------------------------
(***************************************************************************)
(* What the bindings need of the middleware: which QoS an entity may have, *)
(* and which writers and readers match.  The middleware is not part of the *)
(* repository; the rules are the ones the code works around or relies on   *)
(* (it sets the high watermark apart from the low one, it keeps            *)
(* max_samples in step with max_samples_per_instance, it gives writers and *)
(* readers of a topic the same reliability and durability).                *)
(***************************************************************************)
EXTENDS Integers

Topics == {"Throughput", "Latency", "Announcement"}

\* DDS_LENGTH_UNLIMITED, as a number that compares as larger than every limit.
Unlimited == 2147483647

\* DDS_DurabilityQosPolicyKind, as -durability has it.
Volatile == 0
TransientLocal == 1
Transient == 2
Persistent == 3

Smaller(a, b) == IF a <= b THEN a ELSE b
Larger(a, b) == IF a >= b THEN a ELSE b

\* Resource limits that create_datawriter and create_datareader accept.
LimitsConsistent(q) ==
  /\ q.initialSamples <= q.maxSamples
  /\ q.maxPerInstance <= q.maxSamples
  /\ q.initialInstances <= q.maxInstances
  /\ q.maxInstances > 0 /\ q.maxPerInstance > 0
  /\ q.keepLast => q.depth <= q.maxPerInstance

WriterConsistent(q) ==
  /\ LimitsConsistent(q)
  /\ q.low < q.high
  /\ q.minWindow <= q.maxWindow
  /\ q.heartbeats <= q.maxSamples

ReaderConsistent(q) ==
  /\ LimitsConsistent(q)
  /\ q.maxPerWriter <= q.maxSamples

\* The writer offers at least what the reader requests.
Compatible(writer, reader) ==
  /\ reader.reliable => writer.reliable
  /\ writer.durability >= reader.durability
=============================================================================
