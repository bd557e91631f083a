----------------------------- MODULE ModernBinding -----------------------------
(***************************************************************************)
(* RTIDDSImpl of the modern C++ port, in one process: Run checks the       *)
(* command line and picks the type, initialize sets up the transport and   *)
(* the participant, the endpoints are created with their QoS, the          *)
(* publisher registers its instances and writes, and the destructor        *)
(* releases the middleware.  A call of the middleware that fails throws:   *)
(* main catches what it throws, but a destructor that throws ends the      *)
(* process, in "aborted".                                                  *)
(*                                                                         *)
(* The QoS are those that the middleware checks (DdsQos); sizes are in     *)
(* bytes.  NotRaised, FirstHandle and GrowsWithOthers are mistakes that    *)
(* the code does not make.                                                 *)
(***************************************************************************)
EXTENDS DdsQos, Sequences, FiniteSets

CONSTANT Commands  \* the command lines: each execution is of one

Builtin == {"shmem", "udpv4", "udpv6"}
Plugins == {"tcp", "tls", "dtls", "wan"}

MaxCftValue == 65535

OneByDefault(c) == c.instancesSet \/ c.instances = 1

IsCommand(c) ==
  /\ c.role \in {"pub", "sub"} /\ c.pid \in Nat
  /\ c.type \in {"typed", "dynamic", "flat", "zerocopy"}
  /\ c.transport \in Builtin \cup Plugins \cup {"xml"} /\ c.mask \subseteq Builtin
  /\ \A t \in DOMAIN c.profileSizes : c.profileSizes[t] \in Nat \ {0}
  /\ c.messageSizeMax \in Nat /\ c.segment \in Nat  \* the largest segment there is
  /\ c.sendQueueSize \in 1 .. Unlimited /\ c.receiveQueueSize \in 0 .. Unlimited
  /\ c.instances \in 1 .. Unlimited - 1 /\ OneByDefault(c)
  /\ c.writeInstance \in Nat \cup {-1}
  /\ c.durability \in Volatile .. Persistent
  /\ c.dataLen \in Nat /\ c.batchSize \in Nat /\ c.sends \in Nat
  /\ {c.instancesSet, c.batchSet, c.pubRate, c.turbo, c.async, c.latencyTest,
      c.bestEffort, c.noDirect, c.windowSet, c.checkConsistency,
      c.wan, c.address} \subseteq BOOLEAN
  /\ \A f \in c.filters : f \in Seq(0 .. MaxCftValue - 1) /\ Len(f) <= 2

ASSUME CommandAssumption == \A c \in Commands : IsCommand(c)

VARIABLES
  cmd,        \* the command line of this execution: it does not change
  pc,         \* where the main thread is
  step,       \* endpoints of the script, or samples of the phase, done
  batchSize,  \* -batchSize; 0 and less is no batching, and why
  turbo,      \* -enableTurboMode
  sizes,      \* message_size_max of the transports
  minimum,    \* minimumMessageSizeMax
  large,      \* _isLargeData
  maxInst,    \* _InstanceMaxCountReader
  queueSize,  \* _sendQueueSize
  participant,\* whether _participant exists
  writers,    \* the QoS of the writers that exist, by topic
  readers,    \* the QoS of the readers that exist, by topic
  handles,    \* _instance_handles of the throughput writer: the key of each
  counter,    \* _instance_counter
  lastSize,   \* _last_message_size of a dynamic publisher
  payload,    \* what bin_data of its sample holds
  sent        \* the last sample written, and the filters it passed

optionVars == <<batchSize, turbo, sizes, minimum, large, maxInst, queueSize>>
entityVars == <<participant, writers, readers>>
dataVars == <<handles, counter, lastSize, payload, sent>>
vars == <<cmd, pc, step, optionVars, entityVars, dataVars>>

Flat == cmd.type \in {"flat", "zerocopy"}
ZeroCopy == cmd.type = "zerocopy"
Sqs == cmd.sendQueueSize

KeySize == 4
OverheadBytes == 28                \* OVERHEAD_BYTES
MaxSampleSize == 2147482620        \* MAX_PERFTEST_SAMPLE_SIZE
FlatSampleSize == 10485760         \* RTI_FLATDATA_MAX_SIZE
DefaultMessageSizeMax == 65536
MessageOverheadBytes == 567
FlatHeader == 17                   \* further bytes of header of a FlatData sample
NotSet == Unlimited                \* MESSAGE_SIZE_MAX_NOT_SET
NoSample == [handle |-> -1]

-----------------------------------------------------------------------------
(* The command line.                                                        *)

\* perftest_cpp::validate_input, which runs before there is a binding.
RunRefused ==
  \/ cmd.latencyTest /\ cmd.pid # 0
  \/ ZeroCopy /\ cmd.transport \notin {"shmem", "xml"}
  \/ cmd.checkConsistency /\ ~ZeroCopy
  \/ cmd.role = "sub" /\ ZeroCopy /\ cmd.bestEffort /\ ~cmd.checkConsistency

InputRefused ==
  \/ cmd.writeInstance > cmd.instances
  \/ batchSize > 0 /\ cmd.latencyTest /\ cmd.batchSet

DataSizeRefused(isLarge) ==
  \/ cmd.dataLen < OverheadBytes
  \/ batchSize > 0 /\ isLarge /\ cmd.batchSet
  \/ batchSize >= 2 * cmd.dataLen /\ batchSize > 0 /\ Flat /\ cmd.batchSet
  \/ cmd.turbo /\ cmd.async

\* Setting the parameter marks it as given, which the last test looks at.
AdjustedBatchSize(isLarge) ==
  LET split == IF isLarge THEN -2
               ELSE IF batchSize >= 2 * cmd.dataLen THEN batchSize
               ELSE IF cmd.batchSet THEN -1 ELSE 0
      flat == IF Flat THEN -3 ELSE split
  IN  IF batchSize <= 0 THEN batchSize
      ELSE IF cmd.pubRate /\ (cmd.batchSet \/ flat # batchSize) THEN -4
      ELSE flat

-----------------------------------------------------------------------------
(* The transport, and the size of its messages.                             *)

\* The mask of the QoS: -transport, or the profile.
Mask == IF cmd.transport \in Builtin THEN {cmd.transport} ELSE cmd.mask
Plugged == IF cmd.transport \in Plugins THEN {cmd.transport} ELSE {}

\* A plugin is used instead of the builtin transports, whose sizes count all the
\* same; TLS looks at the size of TCP.
Enabled == IF Plugged # {} THEN Plugged ELSE Mask
Considered == Mask \cup Plugged

SizeOf(t) ==
  IF cmd.messageSizeMax > 0 THEN cmd.messageSizeMax
  ELSE IF t \in DOMAIN cmd.profileSizes THEN cmd.profileSizes[t]
  ELSE DefaultMessageSizeMax

MinimumOf(f) ==
  LET given == {f[t] : t \in DOMAIN f} \cup {NotSet}
  IN  CHOOSE n \in given : \A k \in given : n <= k

\* What a plugin needs to reach peers behind a router.
TransportRefused ==
  /\ cmd.transport = "wan" \/ (cmd.transport \in {"tcp", "tls"} /\ cmd.wan)
  /\ ~cmd.address

\* Only when all there is is shared memory its messages grow with the data.
GrowsWithOthers == "shmem" \in Mask
Grows == Mask = {"shmem"}

\* message_size_max of shared memory, unless it is given: room for a sample, if
\* the system has a segment of that size.
ShmemGiven == cmd.messageSizeMax > 0 \/ "shmem" \in DOMAIN cmd.profileSizes

ShmemSize(least) ==
  LET sample == cmd.dataLen + MessageOverheadBytes
      wanted == IF ~Grows \/ sample <= least THEN least
                ELSE IF Flat THEN sample + FlatHeader ELSE sample
  IN  Smaller(wanted, cmd.segment)

-----------------------------------------------------------------------------
(* The QoS of a writer: configure_reader_qos.                               *)

InSegments ==
  Flat /\ large /\ Plugged = {} /\ Mask \in {{"shmem"}, {"udpv4", "shmem"}}

WriterInitialSamples ==
  IF Flat /\ large
    THEN Smaller(Sqs, (MaxSampleSize - FlatSampleSize) \div FlatSampleSize)
  ELSE Sqs

WriterMaxSamples(topic) ==
  IF InSegments THEN WriterInitialSamples
  ELSE IF topic = "Throughput" /\ batchSize <= 0 /\ ~turbo THEN Sqs
  ELSE Unlimited

Heartbeats(topic) ==
  IF InSegments THEN Larger(1, WriterMaxSamples(topic) \div 10)
  ELSE IF topic = "Announcement" THEN 1000
  ELSE IF cmd.dataLen > DefaultMessageSizeMax THEN Sqs
  ELSE Sqs \div 10

\* The test for equal watermarks compares the high one with itself.
NotRaised(high) == high
Raised(high) == high + 1

LowWatermark(topic) ==
  IF InSegments THEN WriterMaxSamples(topic) \div 10
  ELSE IF topic = "Throughput" THEN Sqs \div 10 ELSE 10

HighWatermark(topic) ==
  IF InSegments THEN (WriterMaxSamples(topic) * 9) \div 10
  ELSE IF topic = "Throughput" THEN Raised((Sqs * 9) \div 10) ELSE 100

Window(topic) ==
  IF topic = "Throughput" \/ (topic = "Latency" /\ cmd.windowSet) THEN Sqs
  ELSE Unlimited

\* -durability, by the code.
DurabilityKind ==
  CASE cmd.durability = Volatile -> Volatile
    [] cmd.durability = Transient -> TransientLocal
    [] OTHER -> Persistent

\* Pongs are durable only when they go through the persistence service.
DurableLatency == cmd.noDirect /\ cmd.durability \in {Transient, Persistent}

WriterDurability(topic) ==
  CASE topic = "Announcement" -> TransientLocal
    [] topic = "Throughput" \/ (topic = "Latency" /\ DurableLatency) -> DurabilityKind
    [] OTHER -> Volatile

Reliable(topic) == topic = "Announcement" \/ ~cmd.bestEffort

WriterQos(topic) ==
  [reliable |-> Reliable(topic), durability |-> WriterDurability(topic),
   initialSamples |-> WriterInitialSamples, maxSamples |-> WriterMaxSamples(topic),
   maxPerInstance |-> WriterMaxSamples(topic),
   initialInstances |-> cmd.instances + 1,   \* one more, for MAX_CFT_VALUE
   maxInstances |-> cmd.instances + 1, keepLast |-> FALSE, depth |-> 1,
   low |-> LowWatermark(topic), high |-> HighWatermark(topic),
   minWindow |-> Window(topic), maxWindow |-> Window(topic),
   heartbeats |-> Heartbeats(topic)]

-----------------------------------------------------------------------------
(* The QoS of a reader: configure_writer_qos.                               *)

ReaderDurability(topic) ==
  CASE topic = "Announcement" -> TransientLocal
    [] topic = "Throughput" \/ (topic = "Latency" /\ DurableLatency) -> DurabilityKind
    [] OTHER -> Volatile

ReaderInitialSamples(topic) ==
  LET asked == IF cmd.receiveQueueSize > 0 THEN cmd.receiveQueueSize
               ELSE IF topic = "Throughput" THEN 128 ELSE 100
  IN  IF Flat /\ large THEN Smaller(MaxSampleSize \div FlatSampleSize, asked) ELSE asked

\* Large FlatData samples are all allocated at the start, but for the references
\* of zero copy.
ReaderMaxSamples(topic) ==
  IF Flat /\ large /\ ~ZeroCopy THEN ReaderInitialSamples(topic)
  ELSE IF topic = "Throughput" THEN 10000 ELSE 100

\* Every reader that is created takes one more instance than the one before.
NextMaxInst == IF maxInst = Unlimited THEN maxInst ELSE maxInst + 1

ReaderQos(topic) ==
  [reliable |-> Reliable(topic), durability |-> ReaderDurability(topic),
   initialSamples |-> ReaderInitialSamples(topic),
   maxSamples |-> ReaderMaxSamples(topic), maxPerInstance |-> ReaderMaxSamples(topic),
   maxPerWriter |-> ReaderMaxSamples(topic),
   initialInstances |-> cmd.instances + 1, maxInstances |-> NextMaxInst,
   keepLast |-> FALSE, depth |-> 1]

-----------------------------------------------------------------------------
(* The content filter, and the key of a sample.                             *)

Byte(n, c) == (n \div (256 ^ c)) % 256
KeyOf(n) == [c \in 0 .. KeySize - 1 |-> Byte(n, c)]

\* The filter compares the bytes of a key from the most significant one, key[3].
NotBelow(key, low) ==
  \E c \in 0 .. KeySize - 1 :
    /\ \A d \in c + 1 .. KeySize - 1 : low[d] <= key[d]
    /\ IF c = 0 THEN low[c] <= key[c] ELSE low[c] < key[c]

\* The condition of create_cft; without -cft the topic is not filtered.
Passes(filter, key) ==
  \/ filter = <<>>
  \/ key = KeyOf(MaxCftValue)
  \/ Len(filter) = 1 /\ key = KeyOf(filter[1])
  \/ Len(filter) = 2 /\ NotBelow(key, KeyOf(filter[1])) /\ NotBelow(KeyOf(filter[2]), key)

\* The instance a publisher writes next.  RTIFlatDataPublisher looks at
\* -writeInstance also when there is one instance.
OneInstance == cmd.instances = 1 /\ ~Flat

NextInstance ==
  IF OneInstance THEN 0
  ELSE IF cmd.writeInstance = -1 THEN counter % cmd.instances
  ELSE cmd.writeInstance

\* The handle it writes with: the last one is of MAX_CFT_VALUE.
FirstHandle(wild, number) == number
HandleIndex(wild, number) == IF wild THEN cmd.instances ELSE number

-----------------------------------------------------------------------------
(* Run and initialize.                                                      *)

Init ==
  /\ cmd \in Commands
  /\ pc = "start" /\ step = 0
  /\ batchSize = cmd.batchSize /\ turbo = cmd.turbo
  /\ sizes = [t \in Mask \cup Plugged |-> SizeOf(t)]
  /\ minimum = NotSet /\ large = FALSE /\ maxInst = Unlimited /\ queueSize = 0
  /\ participant = FALSE /\ writers = <<>> /\ readers = <<>>
  /\ handles = <<>> /\ counter = 0
  /\ lastSize = "none" /\ payload = "none" /\ sent = NoSample

Goto(from, to) == /\ pc = from
                  /\ pc' = to

\* Where a step that succeeded, or not, leads.
Then(ok, from, to) == Goto(from, IF ok THEN to ELSE "destroy")

\* Run creates the binding of the type once its own checks are done.
Run ==
  /\ Goto("start", IF RunRefused THEN "gone" ELSE "input")
  /\ UNCHANGED <<step, optionVars, entityVars, dataVars>>

ValidateInput ==
  /\ Then(~InputRefused, "input", "transport")
  /\ maxInst' = IF cmd.instancesSet THEN cmd.instances ELSE maxInst
  /\ batchSize' = IF cmd.latencyTest /\ batchSize > 0 /\ ~InputRefused THEN 0
                  ELSE batchSize
  /\ UNCHANGED <<step, turbo, sizes, minimum, large, queueSize, entityVars, dataVars>>

\* With a plugin the builtin transports are switched off.
ConfigureTransport ==
  LET least == IF cmd.messageSizeMax > 0 THEN cmd.messageSizeMax ELSE MinimumOf(sizes)
      shmem == ShmemSize(least)
  IN  /\ Then(~TransportRefused, "transport", "sizes")
      /\ IF Plugged = {} /\ "shmem" \in Mask /\ ~ShmemGiven
           THEN /\ sizes' = [sizes EXCEPT !["shmem"] = shmem]
                /\ minimum' = shmem
         ELSE /\ sizes' = sizes
              /\ minimum' = least
      /\ UNCHANGED <<step, batchSize, turbo, large, maxInst, queueSize, entityVars,
                     dataVars>>

DataSizeCalculations ==
  LET most == minimum - MessageOverheadBytes - (IF Flat THEN FlatHeader ELSE 0)
      isLarge == cmd.dataLen > most
  IN  /\ Then(~DataSizeRefused(isLarge), "sizes", "participant")
      /\ large' = isLarge
      /\ IF DataSizeRefused(isLarge) THEN UNCHANGED <<batchSize, turbo>>
         ELSE /\ batchSize' = AdjustedBatchSize(isLarge)
              /\ turbo' = (turbo /\ ~isLarge)
      /\ UNCHANGED <<step, sizes, minimum, maxInst, queueSize, entityVars, dataVars>>

CreateParticipant ==
  \E ok \in BOOLEAN :
    /\ Then(ok, "participant", "publisher")
    /\ participant' = ok
    /\ UNCHANGED <<step, optionVars, writers, readers, dataVars>>

CreatePublisherAndSubscriber ==
  \E ok \in BOOLEAN :
    /\ Then(ok, "publisher", "endpoints")
    /\ UNCHANGED <<step, optionVars, entityVars, dataVars>>

-----------------------------------------------------------------------------
(* create_writer and create_reader, in the order of the test.               *)

Script ==
  IF cmd.role = "pub"
    THEN <<<<"writer", "Throughput">>>>
         \o (IF cmd.pid = 0 THEN <<<<"reader", "Latency">>>> ELSE <<>>)
         \o <<<<"reader", "Announcement">>>>
    ELSE <<<<"writer", "Latency">>, <<"reader", "Throughput">>, <<"writer", "Announcement">>>>

Asked(kind, topic) ==
  /\ pc = "endpoints" /\ step < Len(Script)
  /\ Script[step + 1] = <<kind, topic>>

Put(f, x, y) == [z \in (DOMAIN f) \cup {x} |-> IF z = x THEN y ELSE f[z]]

\* The constructor of the publisher registers the instances, and the wildcard last.
RegisteredHandles ==
  [i \in 0 .. cmd.instances |->
     KeyOf(IF i = cmd.instances THEN MaxCftValue ELSE i)]

QueueSizeAfter(topic) ==
  IF Flat /\ large THEN WriterInitialSamples
  ELSE IF topic = "Throughput" THEN Sqs ELSE queueSize

CreateWriter(topic) ==
  \E ok \in BOOLEAN :
    /\ Asked("writer", topic)
    /\ IF ok THEN /\ step' = step + 1
                  /\ pc' = "endpoints"
                  /\ writers' = Put(writers, topic, WriterQos(topic))
                  /\ handles' = IF topic = "Throughput" THEN RegisteredHandles ELSE handles
       ELSE /\ pc' = "destroy"
            /\ UNCHANGED <<step, writers, handles>>
    /\ queueSize' = QueueSizeAfter(topic)
    /\ UNCHANGED <<batchSize, turbo, sizes, minimum, large, maxInst, participant,
                   readers, counter, lastSize, payload, sent>>

CreateReader(topic) ==
  \E ok \in BOOLEAN :
    /\ Asked("reader", topic)
    /\ maxInst' = NextMaxInst
    /\ IF ok THEN /\ step' = step + 1
                  /\ pc' = "endpoints"
                  /\ readers' = Put(readers, topic, ReaderQos(topic))
       ELSE /\ pc' = "destroy"
            /\ UNCHANGED <<step, readers>>
    /\ UNCHANGED <<batchSize, turbo, sizes, minimum, large, queueSize, participant,
                   writers, dataVars>>

EndpointsCreated ==
  /\ step = Len(Script)
  /\ Goto("endpoints", IF cmd.role = "pub" THEN "burst" ELSE "destroy")
  /\ step' = 0
  /\ UNCHANGED <<optionVars, entityVars, dataVars>>

-----------------------------------------------------------------------------
(* RTIPublisher, RTIFlatDataPublisher and RTIDynamicDataPublisher: send.    *)

\* get_initial_burst_size: the samples that fill the send queue, which is one of
\* batches when there are batches.
InitialBurstSize ==
  IF batchSize > 0 THEN Larger(Sqs * (batchSize \div cmd.dataLen), queueSize) ELSE queueSize

Burst == Larger(InitialBurstSize, cmd.instances)

\* A dynamic publisher keeps its sample, and fills bin_data when the size changes.
FillsPayload(size) == cmd.type # "dynamic" \/ size # lastSize

Write(wild, number, size) ==
  /\ payload' = IF FillsPayload(size) THEN size ELSE payload
  /\ lastSize' = size
  /\ LET key == KeyOf(IF wild THEN MaxCftValue ELSE number)
     IN  sent' = [key |-> key, handle |-> HandleIndex(wild, number), wild |-> wild,
                  number |-> number, size |-> size, carries |-> payload',
                  reaches |-> {f \in cmd.filters : Passes(f, key)}]
  /\ UNCHANGED <<optionVars, entityVars, handles>>

\* A step of a phase of n samples.
Turn(phase, n, next) ==
  /\ pc = phase
  /\ step < n
  /\ IF step + 1 = n THEN pc' = next /\ step' = 0
     ELSE pc' = phase /\ step' = step + 1

SendInitialize ==
  /\ Turn("burst", Burst, IF cmd.sends = 0 THEN "finish" ELSE "data")
  /\ Write(TRUE, 0, "initialize")
  /\ UNCHANGED counter

SendData ==
  /\ Turn("data", cmd.sends, "finish")
  /\ Write(FALSE, NextInstance, "data")
  /\ counter' = IF ~OneInstance /\ cmd.writeInstance = -1 THEN counter + 1 ELSE counter

SendFinished ==
  /\ Turn("finish", 1, "destroy")
  /\ Write(TRUE, 0, "finished")
  /\ UNCHANGED counter

-----------------------------------------------------------------------------
(* The destructor: shutdown.                                                *)

\* Closing the participant closes what it contains.  There is none when a step
\* before its creation failed: close throws, out of a destructor.
Destroy ==
  /\ Goto("destroy", IF participant THEN "gone" ELSE "aborted")
  /\ participant' = FALSE
  /\ writers' = <<>> /\ readers' = <<>>
  /\ UNCHANGED <<step, optionVars, dataVars>>

Terminated == pc \in {"gone", "aborted"} /\ UNCHANGED vars

Next ==
  /\ \/ Run \/ ValidateInput \/ ConfigureTransport \/ DataSizeCalculations
     \/ CreateParticipant \/ CreatePublisherAndSubscriber
     \/ \E t \in Topics : CreateWriter(t) \/ CreateReader(t)
     \/ EndpointsCreated
     \/ SendInitialize \/ SendData \/ SendFinished
     \/ Destroy \/ Terminated
  /\ UNCHANGED cmd

Spec == Init /\ [][Next]_vars

-----------------------------------------------------------------------------
(* Properties.                                                              *)

\* The middleware accepts the QoS that configure_reader_qos composes for a writer
\* and configure_writer_qos for a reader: limits that start at most where they
\* end, watermarks apart, instances that grow with every reader.
QosConsistent ==
  /\ \A t \in DOMAIN writers : WriterConsistent(writers[t])
  /\ \A t \in DOMAIN readers : ReaderConsistent(readers[t])

\* A sample is written under the handle of its own key, carries a payload of the
\* size that was asked for, and passes the filters of the instance it is meant
\* for and no other; the messages that start and end the test pass all of them.
SentAsAsked ==
  sent.handle # NoSample.handle =>
    /\ handles[sent.handle] = sent.key
    /\ sent.carries = sent.size
    /\ \A f \in cmd.filters :
         f \in sent.reaches <=>
           \/ sent.wild \/ f = <<>>
           \/ f[1] <= sent.number /\ sent.number <= f[Len(f)]

\* A sample that the endpoints are not configured for as large fits in one message
\* of every transport it may travel over: _isLargeData is computed from a minimum
\* that configureShmemTransport may have raised or lowered after the others.
SmallFitsMessage ==
  pc \in {"endpoints", "burst", "data", "finish"} /\ ~large =>
    \A t \in Enabled :
      cmd.dataLen + MessageOverheadBytes + (IF Flat THEN FlatHeader ELSE 0) <= sizes[t]

\* The throughput writer has the durability that -durability is documented to ask
\* for: 0 volatile, 1 transient local, 2 transient, 3 persistent.
DurabilityAsAsked ==
  "Throughput" \in DOMAIN writers => writers["Throughput"].durability = cmd.durability

\* ~perftest_cpp catches what the middleware throws and the test ends.
DestructorReturns == pc # "aborted"
=============================================================================
