---------------------------- MODULE ClassicBinding ----------------------------
(***************************************************************************)
(* RTIDDSImpl, the binding of the classic C++ port to Connext Pro and      *)
(* Connext Micro, in one process: it validates the command line, creates   *)
(* the participant, the endpoints the test asks for and the instances the  *)
(* publisher writes, writes samples under a content filter, and releases   *)
(* everything in shutdown, after the test or after a step that failed.     *)
(*                                                                         *)
(* Of the QoS, the model keeps what the middleware checks when it creates  *)
(* or matches an endpoint (DdsQos), and the sizes that the test uses.      *)
(* Values that a Pro endpoint takes from perftest_qos_profiles.xml are     *)
(* those of the file.  Sizes are in bytes; ClassicTransport says how large a *)
(* message may be.                                                         *)
(*                                                                         *)
(* NotApart, DurableWhenDirect, NoSpareInstance, TopByteOnly and           *)
(* SingleLoans are mistakes that the code does not make.                   *)
(***************************************************************************)
EXTENDS ClassicTransport, Sequences, FiniteSets

CONSTANT Commands  \* the command lines: each execution is of one

MaxCftValue == 65535

OneByDefault(c) == c.instancesSet \/ c.instances = 1

IsCommand(c) ==
  /\ c.port \in {"pro", "micro", "micro24"} /\ c.role \in {"pub", "sub"} /\ c.pid \in Nat
  /\ c.type \in {"typed", "dynamic", "flat", "zerocopy"}
  /\ c.type \in {"flat", "zerocopy"} => c.port = "pro"
  /\ c.sendQueueSize \in 1 .. Unlimited /\ c.receiveQueueSize \in 0 .. Unlimited
  /\ c.instances \in 1 .. Unlimited - 1 /\ OneByDefault(c)
  /\ c.writeInstance \in Nat \cup {-1}
  /\ c.durability \in Volatile .. Persistent
  /\ c.dataLen \in Nat /\ c.batchSize \in Nat /\ IsTransport(c)
  /\ c.space \in Nat /\ c.sends \in Nat
  /\ {c.instancesSet, c.batchSet, c.pubRate, c.turbo, c.async, c.latencyTest,
      c.bestEffort, c.noDirect, c.keyed, c.fastQueue, c.unbounded,
      c.windowSet, c.capture} \subseteq BOOLEAN
  /\ \A f \in c.filters : f \in Seq(0 .. MaxCftValue - 1) /\ Len(f) <= 2

ASSUME CommandAssumption == \A c \in Commands : IsCommand(c)

VARIABLES
  cmd,        \* the command line of this execution: it does not change
  pc,         \* where the main thread is in the binding
  step,       \* endpoints of the script that exist
  batchSize,  \* -batchSize; 0 and less is no batching, and why
  turbo,      \* -enableTurboMode
  transport,  \* the transports as they are configured
  large,      \* _isLargeData
  maxInst,    \* _instanceMaxCountReader
  queueSize,  \* _sendQueueSize
  alive,      \* DDS entities and other resources that have to be released
  registry,   \* components in the registry of Connext Micro
  writers,    \* the QoS of the writers that exist, by topic
  readers,    \* the QoS of the readers that exist, by topic
  handles,    \* _instance_handles of the throughput writer: the key of each
  loans,      \* FlatData samples the application holds, or lost
  unacked,    \* samples in the send queue of the throughput writer
  counter,    \* _instance_counter
  lastSize,   \* _lastMessageSize of a dynamic publisher
  payload,    \* what bin_data of its sample holds
  sent,       \* the last sample written, and whom it reached
  known       \* keys that an unfiltered subscriber has got samples of

optionVars == <<batchSize, turbo, transport, large, maxInst, queueSize>>
entityVars == <<alive, registry, writers, readers>>
dataVars == <<handles, loans, unacked, counter, lastSize, payload, sent, known>>
vars == <<cmd, pc, step, optionVars, entityVars, dataVars>>

Pro == cmd.port = "pro"
Flat == cmd.type \in {"flat", "zerocopy"}
ZeroCopy == cmd.type = "zerocopy"

KeySize == 4
MaxSampleSize == 2147482620        \* MAX_PERFTEST_SAMPLE_SIZE
FlatSampleSize == 10485760         \* RTI_FLATDATA_MAX_SIZE
MaxBoundedSeqSize == IF Pro THEN 65470 ELSE 65448
NoSample == [handle |-> -1]

-----------------------------------------------------------------------------
(* The command line.                                                        *)

\* perftest_cpp::validate_input turns batching off for Micro, which marks
\* -batchSize as given.
BatchGiven == cmd.batchSet \/ ~Pro

InputRefused ==
  \/ cmd.writeInstance > cmd.instances
  \/ batchSize > 0 /\ cmd.latencyTest /\ BatchGiven
  \/ cmd.fastQueue /\ (~cmd.bestEffort \/ cmd.keyed)

\* _maxUnfragmentedRTPSPayloadSize
MaxPayload ==
  transport.minimum - MessageOverhead(cmd) - (IF Flat THEN FlatHeader ELSE 0)
IsLarge == cmd.dataLen > MaxPayload

DataSizeRefused ==
  \/ batchSize > 0 /\ IsLarge /\ BatchGiven
  \/ batchSize >= 2 * cmd.dataLen /\ batchSize > 0 /\ Flat /\ BatchGiven
  \/ cmd.turbo /\ cmd.async

\* Setting the parameter marks it as given, which the last test looks at.
AdjustedBatchSize ==
  LET split == IF IsLarge THEN -2
               ELSE IF batchSize >= 2 * cmd.dataLen THEN batchSize
               ELSE IF BatchGiven THEN -1 ELSE 0
      flat == IF Flat THEN -3 ELSE split
  IN  IF batchSize <= 0 THEN batchSize
      ELSE IF cmd.pubRate /\ (BatchGiven \/ flat # batchSize) THEN -4
      ELSE flat

-----------------------------------------------------------------------------
(* The QoS of a writer: configure_writer_qos.                               *)

Sqs == cmd.sendQueueSize

\* FlatData samples are allocated at their maximum size: no more than fit in the
\* space there is.  The difference is unsigned: with less space than one sample
\* needs it is a very large number.
FlatSamples(space, most) ==
  IF space < FlatSampleSize THEN most
  ELSE Smaller(most, Larger(1, (space - FlatSampleSize) \div FlatSampleSize))

\* With shared memory the limits follow from the samples that fit.
InSegments == Flat /\ large /\ transport.kind \in {{"shmem"}, {"udpv4", "shmem"}}

WriterInitialSamples == IF Flat /\ large THEN FlatSamples(cmd.space, Sqs) ELSE Sqs

WriterMaxSamples(topic) ==
  IF InSegments THEN 2 * WriterInitialSamples
  ELSE IF ~Pro THEN (IF topic = "Throughput" THEN Sqs ELSE 1)
  ELSE IF topic = "Throughput" /\ batchSize <= 0 /\ ~turbo THEN Sqs
  ELSE Unlimited

TopicHeartbeats(topic) ==
  CASE topic = "Throughput" \/ (topic = "Latency" /\ Pro) ->
         IF cmd.dataLen > DefaultMessageSizeMax THEN Sqs ELSE Sqs \div 10
    [] OTHER -> IF Pro THEN 1000 ELSE 1

Heartbeats(topic) ==
  IF InSegments THEN Larger(1, WriterMaxSamples(topic) \div 10)
  ELSE TopicHeartbeats(topic)

NotApart(low, high) == high
Apart(low, high) == IF low = high THEN low + 1 ELSE high

LowWatermark(topic) ==
  IF InSegments THEN WriterMaxSamples(topic) \div 10
  ELSE IF topic = "Throughput" THEN Sqs \div 10 ELSE 10

HighWatermark(topic) ==
  IF InSegments
    THEN Apart(LowWatermark(topic), (WriterMaxSamples(topic) * 9) \div 10)
  ELSE IF topic = "Throughput" THEN Apart(LowWatermark(topic), (Sqs * 9) \div 10)
  ELSE 100

Window(topic) ==
  IF topic = "Throughput" \/ (topic = "Latency" /\ cmd.windowSet) THEN Sqs
  ELSE Unlimited

\* Only the announcements are reliable whatever the command line says.
WriterReliable(topic) == topic = "Announcement" \/ ~cmd.bestEffort

\* Pongs are durable only when they go through the persistence service.
DurableLatency == cmd.noDirect /\ cmd.durability \in {Transient, Persistent}

WriterDurability(topic) ==
  CASE topic = "Announcement" -> TransientLocal
    [] topic = "Throughput" \/ (topic = "Latency" /\ DurableLatency) -> cmd.durability
    [] OTHER -> Volatile

WriterInstances == cmd.instances + 1   \* one more, for MAX_CFT_VALUE

\* Samples a FlatData writer can lend, when they are not large.
SingleLoans == Sqs + 1
LoanMaximum == 2 * Sqs + 1

WriterQos(topic) ==
  [reliable |-> WriterReliable(topic), durability |-> WriterDurability(topic),
   initialSamples |-> IF Pro THEN WriterInitialSamples ELSE 1,
   maxSamples |-> WriterMaxSamples(topic), maxPerInstance |-> WriterMaxSamples(topic),
   initialInstances |-> WriterInstances, maxInstances |-> WriterInstances,
   keepLast |-> ~Pro /\ (topic # "Throughput" \/ cmd.port = "micro24"),
   depth |-> IF topic = "Throughput" THEN Sqs ELSE 1,
   low |-> LowWatermark(topic), high |-> HighWatermark(topic),
   minWindow |-> Window(topic), maxWindow |-> Window(topic),
   heartbeats |-> Heartbeats(topic)]

\* What configure_writer_qos leaves in _sendQueueSize, for the initial burst.
QueueSizeAfter(topic) ==
  IF Flat /\ large THEN WriterInitialSamples
  ELSE IF topic = "Throughput" THEN Sqs ELSE queueSize
-----------------------------------------------------------------------------
(* The QoS of a reader: configure_reader_qos.                               *)

\* Durability follows the writer of the topic; on Micro no reader asks for the
\* history of the announcements, and none is reliable by default.
ReaderReliable(topic) ==
  IF topic = "Announcement" THEN Pro ELSE ~cmd.bestEffort

DurableWhenDirect(topic) ==
  IF topic = "Announcement" THEN TransientLocal ELSE cmd.durability

ReaderDurability(topic) ==
  CASE topic = "Throughput" -> cmd.durability
    [] topic = "Latency" -> IF DurableLatency THEN cmd.durability ELSE Volatile
    [] OTHER -> IF Pro THEN TransientLocal ELSE Volatile

\* max_samples of the profile, or of Micro, which has no initial_samples.
ProfileMaxSamples(topic) ==
  IF Pro THEN (IF topic = "Throughput" THEN 10000 ELSE 100)
  ELSE IF cmd.dataLen > MaxBoundedSeqSize THEN 50
  ELSE IF topic = "Throughput" THEN 5000 ELSE 1000

ReaderInitialSamples(topic) ==
  LET asked == IF cmd.receiveQueueSize > 0 THEN cmd.receiveQueueSize
               ELSE IF topic = "Throughput" THEN 128 ELSE 100
  IN  IF ~Pro THEN 1
      ELSE IF Flat /\ large THEN FlatSamples(MaxSampleSize, asked) ELSE asked

\* Large FlatData samples are all allocated at the start, but for the references
\* of zero copy.
ReaderMaxSamples(topic) ==
  IF Flat /\ large /\ ~ZeroCopy THEN ReaderInitialSamples(topic)
  ELSE ProfileMaxSamples(topic)

ReaderMaxPerInstance(topic) ==
  IF ~Pro /\ topic # "Throughput" THEN 1 ELSE ReaderMaxSamples(topic)

ReaderMaxPerWriter(topic) == ReaderMaxSamples(topic)

\* Every reader that is created takes one more instance than the one before; the
\* first has the one that MAX_CFT_VALUE needs.
NoSpareInstance == maxInst
NextMaxInst == IF maxInst = Unlimited THEN maxInst ELSE maxInst + 1

ReaderQos(topic) ==
  [reliable |-> ReaderReliable(topic), durability |-> ReaderDurability(topic),
   initialSamples |-> ReaderInitialSamples(topic),
   maxSamples |-> ReaderMaxSamples(topic),
   maxPerInstance |-> ReaderMaxPerInstance(topic),
   maxPerWriter |-> ReaderMaxPerWriter(topic),
   initialInstances |-> IF Pro THEN cmd.instances + 1 ELSE 1,
   maxInstances |-> NextMaxInst,
   keepLast |-> ~Pro /\ (topic # "Throughput" \/ cmd.port = "micro24"),
   depth |-> IF topic = "Throughput" THEN ReaderMaxSamples(topic) ELSE 1]

\* Micro 2.4 has no unbounded sequences.
ReaderRefused == cmd.unbounded /\ ~Flat /\ cmd.port = "micro24"

-----------------------------------------------------------------------------
(* The content filter, and the key of a sample.                             *)

Byte(n, c) == (n \div (256 ^ c)) % 256
KeyOf(n) == [c \in 0 .. KeySize - 1 |-> Byte(n, c)]

\* The filter compares the bytes of a key from the most significant one, key[3].
TopByteOnly(key, low) == low[KeySize - 1] <= key[KeySize - 1]
Above(key, low) ==
  \E c \in 0 .. KeySize - 1 :
    /\ \A d \in c + 1 .. KeySize - 1 : low[d] <= key[d]
    /\ IF c = 0 THEN low[c] <= key[c] ELSE low[c] < key[c]

\* The condition of create_cft; without -cft the topic is not filtered.
Passes(filter, key) ==
  \/ filter = <<>>
  \/ key = KeyOf(MaxCftValue)
  \/ Len(filter) = 1 /\ key = KeyOf(filter[1])
  \/ Len(filter) = 2 /\ Above(key, KeyOf(filter[1])) /\ Above(KeyOf(filter[2]), key)

\* The instance a publisher writes next.
NextInstance ==
  IF cmd.instances = 1 THEN 0
  ELSE IF cmd.writeInstance = -1 THEN counter % cmd.instances
  ELSE cmd.writeInstance

\* The handle it writes with: the last one is of MAX_CFT_VALUE.
HandleIndex(wild, number) == IF wild THEN cmd.instances ELSE number
-----------------------------------------------------------------------------
(* initialize.  A call of the middleware may fail at every step; the destructor *)
(* of the binding then runs shutdown.                                          *)

Init ==
  /\ cmd \in Commands
  /\ pc = "start" /\ step = 0
  /\ batchSize = (IF Pro THEN cmd.batchSize ELSE 0)
  /\ turbo = cmd.turbo /\ transport = NoTransport /\ large = FALSE
  /\ queueSize = 0
  /\ maxInst = (IF Pro THEN Unlimited ELSE 1)
  /\ alive = {} /\ registry = {} /\ writers = <<>> /\ readers = <<>>
  /\ handles = <<>> /\ loans = 0 /\ unacked = 0 /\ counter = 0
  /\ lastSize = "none" /\ payload = "none" /\ sent = NoSample /\ known = {}

\* Entities of which there is one: endpoints have a topic too.
The(kinds) == kinds \X {""}
ParticipantLives == <<"participant", "">> \in alive

Goto(from, to) == /\ pc = from
                  /\ pc' = to

\* Where a step that succeeded, or not, leads.
Then(ok, from, to) == Goto(from, IF ok THEN to ELSE "shutdown")

\* The capture is enabled first; the factory brings _udp in the registry.
Start ==
  \E ok \in BOOLEAN :
    /\ ok \/ cmd.capture
    /\ Then(ok, "start", "input")
    /\ alive' = IF ok THEN The({"factory"}) \cup (IF cmd.capture THEN The({"capture"}) ELSE {})
                ELSE {}
    /\ registry' = IF ok /\ ~Pro THEN {"_udp"} ELSE {}
    /\ UNCHANGED <<step, optionVars, writers, readers, dataVars>>

ValidateInput ==
  /\ Then(~InputRefused, "input", "history")
  /\ maxInst' = IF cmd.instancesSet THEN cmd.instances ELSE maxInst
  /\ batchSize' = IF cmd.latencyTest /\ batchSize > 0 /\ ~InputRefused THEN 0
                  ELSE batchSize
  /\ alive' = IF cmd.latencyTest /\ ~InputRefused THEN alive \cup The({"semaphore"})
              ELSE alive
  /\ UNCHANGED <<step, turbo, transport, large, queueSize, registry, writers, readers,
                 dataVars>>

\* Registers the first n of the components: a failure leaves the ones before it.
Registers(components, n, before) ==
  registry' = before \cup {components[i] : i \in 1 .. n}

RegisterHistories ==
  \E n \in (IF Pro THEN {2} ELSE 0 .. 2) :
    /\ Then(n = 2, "history", "transport")
    /\ IF Pro THEN UNCHANGED registry ELSE Registers(<<"wh", "rh">>, n, registry)
    /\ UNCHANGED <<step, optionVars, alive, writers, readers, dataVars>>

TransportComponents ==
  IF KindOf(cmd) = {"shmem"} THEN <<"dpde", "_shmem">> ELSE <<"_udp", "dpde">>

\* The default _udp of Micro makes place for the transport that was asked for.  On
\* Pro a property that cannot be added fails too.
ConfigureTransport ==
  \E n \in 0 .. 2 :
    /\ n > 0 => ~TransportRefused(cmd)
    /\ Then(n = 2, "transport", "sizes")
    /\ transport' = IF n = 2 THEN ConfiguredTransport(cmd) ELSE transport
    /\ IF Pro \/ TransportRefused(cmd) THEN UNCHANGED registry
       ELSE Registers(TransportComponents, n, registry \ {"_udp"})
    /\ UNCHANGED <<step, batchSize, turbo, large, maxInst, queueSize, alive, writers,
                   readers, dataVars>>

DataSizeCalculations ==
  /\ Then(~DataSizeRefused, "sizes", "participant")
  /\ large' = IsLarge
  /\ IF DataSizeRefused THEN UNCHANGED <<batchSize, turbo>>
     ELSE /\ batchSize' = AdjustedBatchSize
          /\ turbo' = (turbo /\ ~IsLarge)
  /\ UNCHANGED <<step, transport, maxInst, queueSize, entityVars, dataVars>>

\* Pro: an error of shared memory, or of the start of the capture, fails with a
\* participant that exists.
CreateParticipant ==
  \E ok, made \in BOOLEAN :
    /\ ok => made
    /\ made => (ok \/ Pro)
    /\ Then(ok, "participant", "types")
    /\ alive' = IF made THEN alive \cup The({"participant"}) ELSE alive
    /\ UNCHANGED <<step, optionVars, registry, writers, readers, dataVars>>

\* Also the FastMemory plugin.  Micro has no dynamic data.
RegisterTypes ==
  \E ok \in BOOLEAN :
    /\ cmd.type = "dynamic" /\ ~Pro => ~ok
    /\ ok \/ cmd.fastQueue \/ cmd.type = "dynamic"
    /\ Then(ok, "types", "publisher")
    /\ UNCHANGED <<step, optionVars, entityVars, dataVars>>

CreatePublisher ==
  \E ok \in BOOLEAN :
    /\ Then(ok, "publisher", "subscriber")
    /\ alive' = IF ok THEN alive \cup The({"publisher"}) ELSE alive
    /\ UNCHANGED <<step, optionVars, registry, writers, readers, dataVars>>

CreateSubscriber ==
  \E ok \in BOOLEAN :
    /\ Then(ok, "subscriber", "endpoints")
    /\ alive' = IF ok THEN alive \cup The({"subscriber"}) ELSE alive
    /\ UNCHANGED <<step, optionVars, registry, writers, readers, dataVars>>

-----------------------------------------------------------------------------
(* The endpoints, in the order Publisher and Subscriber ask for them; only the *)
(* first publisher gets pongs.                                                *)

Script ==
  IF cmd.role = "pub"
    THEN <<<<"writer", "Throughput">>>>
         \o (IF cmd.pid = 0 THEN <<<<"reader", "Latency">>>> ELSE <<>>)
         \o <<<<"reader", "Announcement">>>>
    ELSE <<<<"writer", "Latency">>, <<"reader", "Throughput">>, <<"writer", "Announcement">>>>

Asked(kind, topic) ==
  /\ pc = "endpoints" /\ step < Len(Script)
  /\ Script[step + 1] = <<kind, topic>>

Put(f, x, y) == [z \in (DOMAIN f) \cup {x} |-> IF z = x THEN y ELSE f[z]]

\* The constructor of the publisher registers the instances, and the wildcard
\* last.  A FlatData publisher borrows a sample for each and returns the last.
RegisteredHandles ==
  [i \in 0 .. cmd.instances |->
     KeyOf(IF i = cmd.instances THEN MaxCftValue ELSE i)]

LostLoans == IF Flat THEN cmd.instances ELSE 0

CreateWriter(topic) ==
  \E ok \in BOOLEAN :
    /\ Asked("writer", topic)
    /\ IF ok THEN /\ step' = step + 1
                  /\ pc' = "endpoints"
                  /\ alive' = alive \cup {<<"writer", topic>>}
                  /\ writers' = Put(writers, topic, WriterQos(topic))
                  /\ handles' = IF topic = "Throughput" THEN RegisteredHandles ELSE handles
                  /\ loans' = IF topic = "Throughput" THEN LostLoans ELSE loans
       ELSE /\ pc' = "shutdown"
            /\ UNCHANGED <<step, alive, writers, handles, loans>>
    /\ queueSize' = QueueSizeAfter(topic)
    /\ UNCHANGED <<batchSize, turbo, transport, large, maxInst, registry, readers, unacked,
                   counter, lastSize, payload, sent, known>>

CreateReader(topic) ==
  \E ok \in BOOLEAN :
    /\ Asked("reader", topic)
    /\ ok => ~ReaderRefused
    /\ maxInst' = NextMaxInst
    /\ IF ok THEN /\ step' = step + 1
                  /\ pc' = "endpoints"
                  /\ alive' = alive \cup {<<"reader", topic>>}
                  /\ readers' = Put(readers, topic, ReaderQos(topic))
       ELSE /\ pc' = "shutdown"
            /\ UNCHANGED <<step, alive, readers>>
    /\ UNCHANGED <<batchSize, turbo, transport, large, queueSize, registry, writers, dataVars>>

\* get_initial_burst_size: the samples that fill the send queue, which is one of
\* batches when there are batches.
InitialBurstSize ==
  IF batchSize > 0 THEN Larger(Sqs * (batchSize \div cmd.dataLen), queueSize) ELSE queueSize

Burst == Larger(InitialBurstSize, cmd.instances)

\* A subscriber has nothing to write here, and ends when the test does.
EndpointsCreated ==
  /\ step = Len(Script)
  /\ Goto("endpoints", IF cmd.role = "pub" THEN "burst" ELSE "shutdown")
  /\ step' = 0
  /\ UNCHANGED <<optionVars, entityVars, dataVars>>
-----------------------------------------------------------------------------
(* RTIPublisher, RTIFlatDataPublisher and RTIDynamicDataPublisher: send.    *)

HasRoom == unacked < Sqs

\* FlatData samples a writer can still lend.
Lendable == LoanMaximum - loans - unacked

\* A dynamic publisher keeps its sample, and fills bin_data when the size changes.
FillsPayload(size) == cmd.type # "dynamic" \/ size # lastSize

Write(wild, number, size) ==
  /\ HasRoom
  /\ payload' = IF FillsPayload(size) THEN size ELSE payload
  /\ lastSize' = size
  /\ LET key == KeyOf(IF wild THEN MaxCftValue ELSE number)
     IN  /\ sent' = [key |-> key, handle |-> HandleIndex(wild, number), wild |-> wild,
                     number |-> number, size |-> size, carries |-> payload',
                     reaches |-> {f \in cmd.filters : Passes(f, key)}]
         /\ known' = known \cup {key}
  /\ unacked' = unacked + 1
  /\ UNCHANGED <<optionVars, entityVars, handles, loans>>

\* A step of a phase of n samples.
Turn(phase, n, next) ==
  /\ pc = phase
  /\ step < n
  /\ IF step + 1 = n THEN pc' = next /\ step' = 0
     ELSE pc' = phase /\ step' = step + 1

SendInitialize ==
  /\ Turn("burst", Burst, IF cmd.sends = 0 THEN "finish" ELSE "data")
  /\ Write(TRUE, 0, "initialize")
  /\ UNCHANGED counter

SendData ==
  /\ Turn("data", cmd.sends, "finish")
  /\ Write(FALSE, NextInstance, "data")
  /\ counter' = IF cmd.instances > 1 /\ cmd.writeInstance = -1 THEN counter + 1
                ELSE counter

SendFinished ==
  /\ Turn("finish", 1, "shutdown")
  /\ Write(TRUE, 0, "finished")
  /\ UNCHANGED counter

\* The subscribers acknowledge what they have got.
Acknowledge ==
  /\ unacked > 0
  /\ unacked' = 0
  /\ UNCHANGED <<pc, step, optionVars, entityVars, handles, loans, counter, lastSize,
                 payload, sent, known>>

-----------------------------------------------------------------------------
(* shutdown.                                                                *)

Endpoints == ({"writer"} \X Topics) \cup ({"reader"} \X Topics)
Contained == Endpoints \cup The({"publisher", "subscriber"})

\* _reader is the reader of samples or of pongs; its listener goes with it.
DeleteReader ==
  /\ Goto("shutdown", "contained")
  /\ alive' = IF ParticipantLives
                THEN alive \ {<<"reader", "Throughput">>, <<"reader", "Latency">>}
              ELSE alive
  /\ UNCHANGED <<step, optionVars, registry, writers, readers, dataVars>>

DeletedWithParticipant == Contained

DeleteContained ==
  /\ Goto("contained", "delete")
  /\ alive' = IF ParticipantLives THEN alive \ DeletedWithParticipant ELSE alive
  /\ UNCHANGED <<step, optionVars, registry, writers, readers, dataVars>>

\* A participant that still contains entities is not deleted.
DeleteParticipant ==
  /\ Goto("delete", "semaphore")
  /\ alive' = IF alive \cap Contained = {} THEN alive \ The({"participant"}) ELSE alive
  /\ UNCHANGED <<step, optionVars, registry, writers, readers, dataVars>>

DeleteSemaphore ==
  /\ Goto("semaphore", "registry")
  /\ alive' = alive \ The({"semaphore"})
  /\ UNCHANGED <<step, optionVars, registry, writers, readers, dataVars>>

\* Components in use by a participant stay.
Unregister ==
  /\ Goto("registry", "factory")
  /\ registry' = IF ParticipantLives THEN registry
                 ELSE registry \ {"dpde", "rh", "wh", "_shmem", "_udp"}
  /\ UNCHANGED <<step, optionVars, alive, writers, readers, dataVars>>

\* The factory is finalized, and the capture disabled, without participants only.
FinalizeFactory ==
  /\ Goto("factory", "gone")
  /\ alive' = IF ParticipantLives THEN alive ELSE alive \ The({"factory", "capture"})
  /\ UNCHANGED <<step, optionVars, registry, writers, readers, dataVars>>

Terminated == pc = "gone" /\ UNCHANGED vars

Shutdown ==
  \/ DeleteReader \/ DeleteContained \/ DeleteParticipant
  \/ DeleteSemaphore \/ Unregister \/ FinalizeFactory

Next ==
  /\ \/ Start \/ ValidateInput \/ RegisterHistories \/ ConfigureTransport
     \/ DataSizeCalculations \/ CreateParticipant \/ RegisterTypes
     \/ CreatePublisher \/ CreateSubscriber
     \/ \E t \in Topics : CreateWriter(t) \/ CreateReader(t)
     \/ EndpointsCreated
     \/ SendInitialize \/ SendData \/ SendFinished \/ Acknowledge
     \/ Shutdown \/ Terminated
  /\ UNCHANGED cmd

Spec == Init /\ [][Next]_vars

-----------------------------------------------------------------------------
(* Properties.                                                              *)

\* The middleware accepts the QoS of every endpoint that configure_writer_qos and
\* configure_reader_qos compose, whatever options and earlier endpoints they took
\* it from: limits that start at most where they end, watermarks apart, instances
\* that grow with every reader.
QosConsistent ==
  /\ \A t \in DOMAIN writers : WriterConsistent(writers[t])
  /\ \A t \in DOMAIN readers : ReaderConsistent(readers[t])

\* A writer matches the reader of its topic in a process with the same options:
\* otherwise Publisher or Subscriber waits for its peers for ever.
EndpointsMatch ==
  /\ \A t \in DOMAIN writers : Compatible(writers[t], ReaderQos(t))
  /\ \A t \in DOMAIN readers : Compatible(WriterQos(t), readers[t])

\* The reader of the samples has place for every instance that a publisher with
\* the same options registers, the wildcard included.
InstancesFit ==
  "Throughput" \in DOMAIN readers =>
    readers["Throughput"].maxInstances >= cmd.instances + 1

\* A sample is written under the handle of its own key, carries a payload of the
\* size that was asked for, and passes the filters of the instance it is meant
\* for and no other; the messages that start and end the test pass all of them.
SentAsAsked ==
  sent.handle # NoSample.handle =>
    /\ handles[sent.handle] = sent.key
    /\ sent.carries = sent.size
    /\ \A f \in cmd.filters :
         f \in sent.reaches <=>
           \/ sent.wild \/ f = <<>>
           \/ f[1] <= sent.number /\ sent.number <= f[Len(f)]

\* While the send queue has room a FlatData writer can lend a sample: send does
\* not run into "Out of resources for writer loaned samples".  This takes that there
\* are not many more instances than samples: each instance keeps a loan.
LoansSuffice ==
  /\ Flat /\ ~large /\ cmd.instances <= Sqs + 1
  /\ pc \in {"burst", "data", "finish"} /\ HasRoom
  => Lendable > 0

\* The samples of the test fit the transports it was given, one by one and a
\* send window of them.
TransportFits ==
  transport # NoTransport /\ pc # "sizes" =>
    SmallFits(cmd, transport, large) /\ QueueHoldsWindow(cmd, transport)

\* Once the initial burst is sent, the subscribers know all instances.
BurstRegistersInstances ==
  pc = "data" => \A i \in 0 .. cmd.instances - 1 : KeyOf(i) \in known
=============================================================================
