-------------------------- MODULE ModernBindingProofs --------------------------
(***************************************************************************)
(* TLAPS proofs about ModernBinding, for every command line and every      *)
(* profile: a sample that is not large fits in one message of each         *)
(* transport that is enabled; the middleware accepts the QoS of every      *)
(* endpoint; a sample is of the instance and of the size that were asked   *)
(* for.  QueuesWithinProfiles, SegmentsHoldTwo and KeysApart are named     *)
(* where they are needed.                                                  *)
(***************************************************************************)
EXTENDS ModernBinding, SequenceTheorems, WellFoundedInduction, TLAPS

\* Places from which the size of a message, or _isLargeData, is settled.
SizesSettled ==
  pc \in {"sizes", "participant", "publisher", "endpoints", "burst", "data", "finish"}
LargeSettled ==
  pc \in {"participant", "publisher", "endpoints", "burst", "data", "finish"}

Header == IF Flat THEN FlatHeader ELSE 0

\* minimumMessageSizeMax is a bound of the transports in use once
\* configureShmemTransport is done with it, and _isLargeData compares with it.
SizesInv ==
  /\ cmd \in Commands
  /\ pc \in {"start", "input", "transport"} => sizes = [t \in Considered |-> SizeOf(t)]
  /\ SizesSettled =>
       /\ minimum \in Nat
       /\ \A t \in Enabled : sizes[t] \in Nat /\ minimum <= sizes[t]
  /\ LargeSettled /\ ~large => cmd.dataLen + MessageOverheadBytes + Header <= minimum

\* A set of natural numbers has a smallest one.
LEMMA SmallestExists ==
  ASSUME NEW S \in SUBSET Nat, S # {}
  PROVE  \E n \in S : \A k \in S : n <= k
<1>1. PICK n \in S : \A k \in S : ~(<<k, n>> \in OpToRel(<, Nat))
  BY NatLessThanWellFounded, WFMin
<1>2. \A k \in S : ~(k < n)
  BY <1>1 DEF OpToRel
<1> QED BY <1>2

\* What MinimumOf returns for the sizes of some transports.
LEMMA MinimumBounds ==
  ASSUME NEW T, NEW f \in [T -> Nat]
  PROVE  MinimumOf(f) \in Nat /\ \A t \in T : MinimumOf(f) <= f[t]
<1> DEFINE given == {f[t] : t \in T} \cup {NotSet}
<1>1. given \in SUBSET Nat /\ given # {} /\ \A t \in T : f[t] \in given
  BY DEF NotSet, Unlimited
<1>2. \E n \in given : \A k \in given : n <= k
  BY <1>1, SmallestExists
<1>3. MinimumOf(f) = CHOOSE n \in given : \A k \in given : n <= k
  BY DEF MinimumOf
<1>4. MinimumOf(f) \in given /\ \A k \in given : MinimumOf(f) <= k
  BY <1>2, <1>3
<1> QED BY <1>1, <1>4

\* What a command line says of the sizes of messages.
LEMMA SizeFacts ==
  ASSUME cmd \in Commands
  PROVE  /\ cmd.dataLen \in Nat /\ cmd.messageSizeMax \in Nat /\ cmd.segment \in Nat
         /\ cmd.mask \subseteq Builtin /\ \A t : SizeOf(t) \in Nat
<1>1. IsCommand(cmd)
  BY CommandAssumption
<1> QED BY <1>1 DEF IsCommand, SizeOf, DefaultMessageSizeMax

\* What is enabled has been considered, and a plugin excludes the builtin ones.
LEMMA EnabledConsidered ==
  /\ Enabled \subseteq Considered
  /\ Plugged = {} => Enabled = Mask /\ Considered = Mask
BY DEF Enabled, Considered

\* The size of shared memory stays below the others, unless there are no others.
LEMMA ShmemBounds ==
  ASSUME cmd \in Commands, NEW least \in Nat
  PROVE  /\ ShmemSize(least) \in Nat
         /\ ~Grows => ShmemSize(least) <= least
BY SizeFacts DEF ShmemSize, Smaller, MessageOverheadBytes, FlatHeader

LEMMA InitSizes == Init => SizesInv
BY DEF Init, SizesInv, Considered, SizesSettled, LargeSettled

\* configureTransport settles the minimum.
LEMMA TransportSizes ==
  ASSUME SizesInv, ConfigureTransport, UNCHANGED cmd
  PROVE  SizesInv'
<1> DEFINE least == IF cmd.messageSizeMax > 0 THEN cmd.messageSizeMax ELSE MinimumOf(sizes)
<1>1. cmd \in Commands /\ pc = "transport" /\ pc' \in {"sizes", "destroy"} /\ cmd' = cmd
  BY DEF SizesInv, ConfigureTransport, Then, Goto
<1>2. sizes = [t \in Considered |-> SizeOf(t)]
  BY <1>1 DEF SizesInv
<1>3. sizes \in [Considered -> Nat]
  BY <1>1, <1>2, SizeFacts
<1>4. least \in Nat /\ \A t \in Considered : least <= sizes[t]
  <2>1. CASE cmd.messageSizeMax > 0
    BY <2>1, <1>1, <1>2, SizeFacts DEF SizeOf
  <2>2. CASE ~(cmd.messageSizeMax > 0)
    BY <2>2, <1>3, MinimumBounds
  <2> QED BY <2>1, <2>2
<1>5. Enabled' = Enabled /\ Considered' = Considered
  BY <1>1 DEF Enabled, Considered, Plugged, Mask
<1>6. minimum' \in Nat /\ \A t \in Enabled : sizes'[t] \in Nat /\ minimum' <= sizes'[t]
  <2>1. CASE Plugged = {} /\ "shmem" \in Mask /\ ~ShmemGiven
    <3>1. /\ sizes' = [sizes EXCEPT !["shmem"] = ShmemSize(least)]
          /\ minimum' = ShmemSize(least)
      BY <2>1 DEF ConfigureTransport
    <3>2. Enabled = Mask /\ Considered = Mask
      BY <2>1, EnabledConsidered
    <3>3. ShmemSize(least) \in Nat /\ (~Grows => ShmemSize(least) <= least)
      BY <1>1, <1>4, ShmemBounds
    <3>4. sizes'["shmem"] = ShmemSize(least)
      BY <3>1, <3>2, <2>1, <1>3
    <3>5. ASSUME NEW t \in Mask, t # "shmem"
          PROVE  sizes'[t] \in Nat /\ ShmemSize(least) <= sizes'[t]
      <4>1. ~Grows
        BY <3>5 DEF Grows
      <4>2. sizes'[t] = sizes[t] /\ sizes[t] \in Nat /\ least <= sizes[t]
        BY <3>5, <3>1, <3>2, <1>3, <1>4
      <4> QED BY <4>1, <4>2, <3>3, <1>4
    <3> QED BY <3>1, <3>2, <3>3, <3>4, <3>5
  <2>2. CASE ~(Plugged = {} /\ "shmem" \in Mask /\ ~ShmemGiven)
    <3>1. sizes' = sizes /\ minimum' = least
      BY <2>2 DEF ConfigureTransport
    <3> QED BY <3>1, <1>3, <1>4, EnabledConsidered
  <2> QED BY <2>1, <2>2
<1> QED BY <1>1, <1>5, <1>6 DEF SizesInv, SizesSettled, LargeSettled

\* _isLargeData is the comparison with that minimum.
LEMMA LargeIsBeyondMinimum ==
  ASSUME SizesInv, DataSizeCalculations, UNCHANGED cmd
  PROVE  SizesInv'
<1>1. /\ cmd \in Commands /\ pc = "sizes" /\ pc' \in {"participant", "destroy"}
      /\ cmd' = cmd /\ sizes' = sizes /\ minimum' = minimum
  BY DEF SizesInv, DataSizeCalculations, Then, Goto
<1>2. large' = (cmd.dataLen > minimum - MessageOverheadBytes - Header)
  BY DEF DataSizeCalculations, Header
<1>3. minimum \in Nat /\ \A t \in Enabled : sizes[t] \in Nat /\ minimum <= sizes[t]
  BY <1>1 DEF SizesInv, SizesSettled
<1>4. Header \in Nat /\ MessageOverheadBytes \in Nat /\ cmd.dataLen \in Nat
  BY <1>1, SizeFacts DEF Header, FlatHeader, MessageOverheadBytes
<1>5. ~large' => cmd.dataLen + MessageOverheadBytes + Header <= minimum
  <2>1. ~large' => ~(cmd.dataLen > minimum - MessageOverheadBytes - Header)
    BY <1>2, Zenon
  <2> QED BY <2>1, <1>3, <1>4
<1>6. Enabled' = Enabled /\ Header' = Header
  BY <1>1 DEF Enabled, Plugged, Mask, Header, Flat
<1> QED BY <1>1, <1>3, <1>5, <1>6 DEF SizesInv, SizesSettled, LargeSettled

\* The other steps leave the sizes alone and do not go back.
LEMMA SizesKept ==
  ASSUME SizesInv, cmd' = cmd, sizes' = sizes,
         \/ pc \in {"start", "input"} /\ pc' \in {"input", "transport", "gone", "destroy"}
         \/ /\ LargeSettled /\ minimum' = minimum /\ large' = large
            /\ pc' \in {"participant", "publisher", "endpoints", "burst", "data", "finish",
                        "destroy"}
         \/ pc' \in {"gone", "aborted"}
  PROVE  SizesInv'
<1>1. /\ Enabled' = Enabled /\ Header' = Header /\ Considered' = Considered
      /\ \A t : SizeOf(t)' = SizeOf(t)
  BY DEF Enabled, Considered, Plugged, Mask, Header, Flat, SizeOf
<1> QED BY <1>1 DEF SizesInv, SizesSettled, LargeSettled

LEMMA NextSizes ==
  ASSUME SizesInv, [Next]_vars
  PROVE  SizesInv'
<1>1. CASE UNCHANGED vars
  <2>1. UNCHANGED <<cmd, pc, sizes, minimum, large>>
    BY <1>1 DEF vars, optionVars
  <2> QED BY <2>1 DEF SizesInv, SizesSettled, LargeSettled, Enabled, Considered, Plugged,
                     Mask, Header, Flat, SizeOf
<1>2. CASE Next
  <2>1. cmd' = cmd
    BY <1>2 DEF Next
  <2>2. CASE Run \/ ValidateInput
    BY <2>1, <2>2, SizesKept DEF Run, ValidateInput, Then, Goto, optionVars
  <2>3. CASE ConfigureTransport
    BY <2>1, <2>3, TransportSizes
  <2>4. CASE DataSizeCalculations
    BY <2>1, <2>4, LargeIsBeyondMinimum
  <2>5. CASE CreateParticipant \/ CreatePublisherAndSubscriber
    BY <2>1, <2>5, SizesKept
       DEF CreateParticipant, CreatePublisherAndSubscriber, Then, Goto, optionVars,
           LargeSettled
  <2>6. ASSUME NEW t \in Topics, CreateWriter(t) \/ CreateReader(t)
        PROVE  SizesInv'
    BY <2>1, <2>6, SizesKept DEF CreateWriter, CreateReader, Asked, LargeSettled
  <2>7. CASE EndpointsCreated
    BY <2>1, <2>7, SizesKept DEF EndpointsCreated, Goto, optionVars, LargeSettled
  <2>8. CASE SendInitialize \/ SendData \/ SendFinished
    <3>1. /\ pc \in {"burst", "data", "finish"}
          /\ pc' \in {"burst", "data", "finish", "destroy"}
      BY <2>8 DEF SendInitialize, SendData, SendFinished, Turn
    <3>2. UNCHANGED optionVars
      BY <2>8 DEF SendInitialize, SendData, SendFinished, Write
    <3> QED BY <2>1, <3>1, <3>2, SizesKept DEF optionVars, LargeSettled
  <2>9. CASE Destroy \/ Terminated
    <3>1. sizes' = sizes /\ pc' \in {"gone", "aborted"}
      BY <2>9 DEF Destroy, Terminated, Goto, optionVars, vars
    <3> QED BY <2>1, <3>1, SizesKept
  <2> QED BY <1>2, <2>2, <2>3, <2>4, <2>5, <2>6, <2>7, <2>8, <2>9 DEF Next
<1> QED BY <1>1, <1>2

\* SmallFitsMessage, for every command line: what data_size_related_calculations
\* takes for small is within what configureShmemTransport leaves to each transport.
THEOREM SmallSamplesFit == Spec => []SmallFitsMessage
<1>1. SizesInv => SmallFitsMessage
  <2> SUFFICES ASSUME SizesInv, pc \in {"endpoints", "burst", "data", "finish"}, ~large,
                      NEW t \in Enabled
               PROVE  cmd.dataLen + MessageOverheadBytes + Header <= sizes[t]
    BY DEF SmallFitsMessage, Header
  <2>1. minimum \in Nat /\ sizes[t] \in Nat /\ minimum <= sizes[t]
    BY DEF SizesInv, SizesSettled
  <2>2. cmd.dataLen + MessageOverheadBytes + Header <= minimum
    BY DEF SizesInv, LargeSettled
  <2>3. Header \in Nat /\ MessageOverheadBytes \in Nat /\ cmd.dataLen \in Nat
    BY SizeFacts DEF SizesInv, Header, FlatHeader, MessageOverheadBytes
  <2> QED BY <2>1, <2>2, <2>3
<1> QED BY <1>1, InitSizes, NextSizes, PTL DEF Spec

-----------------------------------------------------------------------------
(* Instances.                                                               *)

Counted == {"transport", "sizes", "participant", "publisher", "endpoints"}

\* Once -instances is read, a reader has place for as many, and one more than the
\* readers before it.
InstanceInv ==
  /\ cmd \in Commands
  /\ maxInst \in 1 .. Unlimited
  /\ pc \in Counted => maxInst >= cmd.instances

LEMMA InstanceFacts ==
  ASSUME NEW c \in Commands
  PROVE  /\ c.instances \in 1 .. Unlimited - 1 /\ Unlimited \in Nat \ {0}
         /\ ~c.instancesSet => c.instances = 1
<1>1. IsCommand(c)
  BY CommandAssumption
<1>2. c.instances \in 1 .. Unlimited - 1
  BY <1>1 DEF IsCommand
<1>3. Unlimited \in Nat \ {0}
  BY SMT DEF Unlimited
<1>4. OneByDefault(c)
  BY <1>1, SMT DEF IsCommand
<1>5. ~c.instancesSet => c.instances = 1
  BY <1>4, Zenon DEF OneByDefault
<1> QED BY <1>2, <1>3, <1>5, Zenon

LEMMA InitInstances == Init => InstanceInv
<1> SUFFICES ASSUME Init PROVE InstanceInv
  OBVIOUS
<1>1. cmd \in Commands /\ pc = "start" /\ maxInst = Unlimited
  BY DEF Init
<1> QED BY <1>1, InstanceFacts DEF InstanceInv, Counted

\* The steps that keep the limit.
LEMMA InstancesKept ==
  ASSUME InstanceInv, cmd' = cmd, maxInst' = maxInst, pc' \in Counted => pc \in Counted
  PROVE  InstanceInv'
BY DEF InstanceInv

LEMMA InputInstances ==
  ASSUME InstanceInv, ValidateInput, cmd' = cmd
  PROVE  InstanceInv'
<1>1. maxInst' = IF cmd.instancesSet THEN cmd.instances ELSE maxInst
  BY DEF ValidateInput
<1>2. maxInst' \in 1 .. Unlimited /\ maxInst' >= cmd.instances
  BY <1>1, InstanceFacts DEF InstanceInv
<1> QED BY <1>2 DEF InstanceInv

LEMMA ReaderInstances ==
  ASSUME InstanceInv, NEW t \in Topics, CreateReader(t), cmd' = cmd
  PROVE  InstanceInv'
<1>1. /\ maxInst \in 1 .. Unlimited /\ maxInst >= cmd.instances
      /\ cmd.instances \in 1 .. Unlimited - 1 /\ Unlimited \in Nat \ {0}
  BY InstanceFacts DEF InstanceInv, CreateReader, Asked, Counted
<1>2. NextMaxInst \in 1 .. Unlimited /\ NextMaxInst >= cmd.instances
  BY <1>1 DEF NextMaxInst
<1> QED BY <1>2 DEF InstanceInv, CreateReader

LEMMA NextInstances ==
  ASSUME InstanceInv, [Next]_vars
  PROVE  InstanceInv'
<1> USE DEF optionVars, Counted
<1>1. CASE UNCHANGED vars
  BY <1>1, InstancesKept DEF vars
<1>2. CASE Next
  <2>1. cmd' = cmd
    BY <1>2 DEF Next
  <2>2. CASE ValidateInput
    BY <2>1, <2>2, InputInstances
  <2>3. CASE Run \/ ConfigureTransport \/ DataSizeCalculations
    BY <2>1, <2>3, InstancesKept
       DEF Run, ConfigureTransport, DataSizeCalculations, Then, Goto
  <2>4. CASE CreateParticipant \/ CreatePublisherAndSubscriber \/ EndpointsCreated
    BY <2>1, <2>4, InstancesKept
       DEF CreateParticipant, CreatePublisherAndSubscriber, EndpointsCreated, Then, Goto
  <2>5. ASSUME NEW t \in Topics, CreateWriter(t)
        PROVE  InstanceInv'
    BY <2>1, <2>5, InstancesKept DEF CreateWriter, Asked
  <2>6. ASSUME NEW t \in Topics, CreateReader(t)
        PROVE  InstanceInv'
    BY <2>1, <2>6, ReaderInstances
  <2>7. CASE SendInitialize \/ SendData \/ SendFinished
    BY <2>1, <2>7, InstancesKept DEF SendInitialize, SendData, SendFinished, Turn, Write
  <2>8. CASE Destroy \/ Terminated
    BY <2>1, <2>8, InstancesKept DEF Destroy, Terminated, Goto, vars
  <2> QED BY <1>2, <2>2, <2>3, <2>4, <2>5, <2>6, <2>7, <2>8 DEF Next
<1> QED BY <1>1, <1>2

-----------------------------------------------------------------------------
(* QoS.                                                                     *)

\* What a command line says of queues.
LEMMA QueueFacts ==
  ASSUME NEW c \in Commands
  PROVE  /\ c.sendQueueSize \in 1 .. Unlimited /\ c.receiveQueueSize \in 0 .. Unlimited
         /\ Unlimited \in Nat /\ Unlimited > 65535
<1>1. IsCommand(c)
  BY CommandAssumption
<1>2. Unlimited \in Nat /\ Unlimited > 65535
  BY SMT DEF Unlimited
<1> QED BY <1>1, <1>2 DEF IsCommand

\* A tenth and nine tenths of a size.
LEMMA Tenths ==
  ASSUME NEW n \in Nat
  PROVE  /\ n \div 10 \in 0 .. n /\ (n * 9) \div 10 \in Nat
         /\ n \div 10 <= (n * 9) \div 10
         /\ n > 0 => Larger(1, n \div 10) <= n
BY SMT DEF Larger

\* -receiveQueueSize is initial_samples of every reader, whose max_samples is 100 in
\* the profiles of the pongs and of the announcements.
QueuesWithinProfiles == \A c \in Commands : c.receiveQueueSize <= 100

\* The watermarks of a FlatData writer are apart in a queue of more than one sample.
SegmentsHoldTwo ==
  \A c \in Commands : c.type \in {"flat", "zerocopy"} => c.sendQueueSize > 1

\* The QoS of a writer, from any options and whatever came before.
LEMMA WriterQosConsistent ==
  ASSUME SegmentsHoldTwo, cmd \in Commands, NEW t \in Topics
  PROVE  WriterConsistent(WriterQos(t))
<1> DEFINE initial == WriterInitialSamples
           most == WriterMaxSamples(t)
           beats == Heartbeats(t)
<1>1. /\ Sqs \in 1 .. Unlimited /\ Unlimited \in Nat /\ Unlimited > 65535
      /\ cmd.instances \in Nat \ {0}
  BY QueueFacts, InstanceFacts DEF Sqs
<1>2. initial \in 1 .. Sqs /\ (InSegments => initial > 1)
  <2> DEFINE fit == (MaxSampleSize - FlatSampleSize) \div FlatSampleSize
  <2>1. fit \in Nat /\ fit > 1
    BY SMT DEF MaxSampleSize, FlatSampleSize
  <2>2. initial \in {Sqs, Smaller(Sqs, fit)}
    BY DEF WriterInitialSamples
  <2>3. InSegments => Sqs > 1
    BY DEF InSegments, Flat, Sqs, SegmentsHoldTwo
  <2> HIDE DEF fit, initial
  <2> QED BY <2>1, <2>2, <2>3, <1>1 DEF Smaller
<1>3. /\ most \in Nat \ {0} /\ initial <= most
      /\ InSegments => most = initial
      /\ InSegments \/ t # "Throughput" \/ most >= Sqs
  <2>1. CASE InSegments
    BY <2>1, <1>1, <1>2 DEF WriterMaxSamples
  <2>2. CASE ~InSegments
    BY <2>2, <1>1, <1>2 DEF WriterMaxSamples
  <2> QED BY <2>1, <2>2
<1>4. LowWatermark(t) < HighWatermark(t)
  <2>1. CASE InSegments
    <3>1. /\ LowWatermark(t) = most \div 10
          /\ HighWatermark(t) = (most * 9) \div 10
      BY <2>1 DEF LowWatermark, HighWatermark
    <3>2. most \in Nat /\ most > 1
      BY <2>1, <1>2, <1>3
    <3>3. \A n \in Nat : n > 1 => n \div 10 < (n * 9) \div 10
      BY SMT
    <3> HIDE DEF most
    <3> QED BY <3>1, <3>2, <3>3
  <2>2. CASE ~InSegments
    BY <2>2, <1>1, Tenths DEF LowWatermark, HighWatermark, Raised
  <2> QED BY <2>1, <2>2
<1>5. beats <= most
  <2>1. CASE InSegments
    BY <2>1, <1>3, Tenths DEF Heartbeats
  <2>2. CASE ~InSegments /\ t # "Announcement"
    <3>1. beats \in {Sqs, Sqs \div 10}
      BY <2>2 DEF Heartbeats
    <3>2. Sqs <= most
      BY <2>2, <1>1, <1>3 DEF WriterMaxSamples
    <3>3. Sqs \in Nat /\ most \in Nat
      BY <1>1, <1>3
    <3>4. Sqs \div 10 \in 0 .. Sqs
      BY <3>3, Tenths
    <3> HIDE DEF beats, most
    <3> QED BY <3>1, <3>2, <3>3, <3>4
  <2>3. CASE ~InSegments /\ t = "Announcement"
    <3>1. beats = 1000
      BY <2>3, Zenon DEF Heartbeats
    <3>2. most = Unlimited
      BY <2>3 DEF WriterMaxSamples
    <3> HIDE DEF beats, most
    <3> QED BY <3>1, <3>2, <1>1
  <2> QED BY <2>1, <2>2, <2>3
<1>6. Window(t) \in Nat
  BY <1>1 DEF Window
<1> DEFINE q == WriterQos(t)
<1>7. /\ q.initialSamples = initial /\ q.maxSamples = most /\ q.maxPerInstance = most
      /\ q.initialInstances = cmd.instances + 1 /\ q.maxInstances = cmd.instances + 1
      /\ q.depth = 1 /\ q.low = LowWatermark(t) /\ q.high = HighWatermark(t)
      /\ q.minWindow = Window(t) /\ q.maxWindow = Window(t) /\ q.heartbeats = beats
  BY DEF WriterQos
<1> HIDE DEF q, initial, most, beats
<1>8. LimitsConsistent(q)
  <2>1. most \in Nat \ {0} /\ initial <= most
    BY <1>3
  <2>2. q.initialSamples <= q.maxSamples /\ q.maxPerInstance <= q.maxSamples
    BY <2>1, <1>7
  <2>3. q.initialInstances <= q.maxInstances /\ q.maxInstances > 0
    BY <1>1, <1>7
  <2>4. q.maxPerInstance > 0 /\ q.depth <= q.maxPerInstance
    BY <2>1, <1>7
  <2> QED BY <2>2, <2>3, <2>4 DEF LimitsConsistent
<1>9. WriterConsistent(q)
  BY <1>3, <1>4, <1>5, <1>6, <1>7, <1>8 DEF WriterConsistent
<1> QED BY <1>9 DEF q

\* The QoS of a reader that has place for the instances.
LEMMA ReaderQosConsistent ==
  ASSUME QueuesWithinProfiles, cmd \in Commands, NEW t \in Topics,
         maxInst \in 1 .. Unlimited, maxInst >= cmd.instances
  PROVE  ReaderConsistent(ReaderQos(t))
<1> DEFINE initial == ReaderInitialSamples(t)
           most == ReaderMaxSamples(t)
<1>1. /\ cmd.receiveQueueSize \in 0 .. 100
      /\ cmd.instances \in 1 .. Unlimited - 1 /\ Unlimited \in Nat \ {0}
  <2>1. cmd.receiveQueueSize \in Nat /\ cmd.receiveQueueSize <= 100
    <3>1. cmd.receiveQueueSize \in 0 .. Unlimited /\ Unlimited \in Nat
      BY QueueFacts
    <3> QED BY <3>1 DEF QueuesWithinProfiles
  <2> QED BY <2>1, InstanceFacts
<1>2. initial \in 1 .. 128 /\ (t # "Throughput" => initial <= 100)
  <2> DEFINE asked == IF cmd.receiveQueueSize > 0 THEN cmd.receiveQueueSize
                      ELSE IF t = "Throughput" THEN 128 ELSE 100
             fit == MaxSampleSize \div FlatSampleSize
  <2>1. asked \in 1 .. 128 /\ (t # "Throughput" => asked <= 100)
    BY <1>1
  <2>2. fit \in Nat \ {0}
    BY SMT DEF MaxSampleSize, FlatSampleSize
  <2>3. initial \in {Smaller(fit, asked), asked}
    BY DEF ReaderInitialSamples
  <2> HIDE DEF asked, fit, initial
  <2> QED BY <2>1, <2>2, <2>3 DEF Smaller
<1>3. most \in Nat \ {0} /\ initial <= most
  <2>1. most \in {initial, IF t = "Throughput" THEN 10000 ELSE 100}
    BY DEF ReaderMaxSamples
  <2> HIDE DEF initial, most
  <2> QED BY <1>2, <2>1
<1>4. NextMaxInst \in 1 .. Unlimited /\ cmd.instances + 1 <= NextMaxInst
  BY <1>1 DEF NextMaxInst
<1> DEFINE q == ReaderQos(t)
<1>5. /\ q.initialSamples = initial /\ q.maxSamples = most /\ q.maxPerInstance = most
      /\ q.maxPerWriter = most /\ q.initialInstances = cmd.instances + 1
      /\ q.maxInstances = NextMaxInst /\ q.depth = 1
  BY DEF ReaderQos
<1> HIDE DEF q, initial, most
<1>6. LimitsConsistent(q)
  <2>1. most \in Nat \ {0} /\ initial <= most
    BY <1>3
  <2>2. q.initialSamples <= q.maxSamples /\ q.maxPerInstance <= q.maxSamples
    BY <2>1, <1>5
  <2>3. q.initialInstances <= q.maxInstances /\ q.maxInstances > 0
    BY <1>1, <1>4, <1>5
  <2>4. q.maxPerInstance > 0 /\ q.depth <= q.maxPerInstance
    BY <2>1, <1>5
  <2> QED BY <2>2, <2>3, <2>4 DEF LimitsConsistent
<1>7. q.maxPerWriter <= q.maxSamples
  BY <1>3, <1>5
<1>8. ReaderConsistent(q)
  BY <1>6, <1>7 DEF ReaderConsistent
<1> QED BY <1>8 DEF q

LEMMA InitQos == Init => QosConsistent
BY DEF Init, QosConsistent

LEMMA WriterQosKept ==
  ASSUME SegmentsHoldTwo, QosConsistent, cmd \in Commands, NEW t \in Topics,
         CreateWriter(t)
  PROVE  QosConsistent'
<1>1. readers' = readers /\ writers' \in {writers, Put(writers, t, WriterQos(t))}
  BY DEF CreateWriter
<1>2. CASE writers' = writers
  BY <1>1, <1>2 DEF QosConsistent
<1>3. CASE writers' = Put(writers, t, WriterQos(t))
  <2>1. WriterConsistent(WriterQos(t))
    BY WriterQosConsistent
  <2>2. /\ DOMAIN writers' = (DOMAIN writers) \cup {t} /\ writers'[t] = WriterQos(t)
        /\ \A u \in DOMAIN writers : u # t => writers'[u] = writers[u]
    BY <1>3 DEF Put
  <2> QED BY <1>1, <2>1, <2>2 DEF QosConsistent
<1> QED BY <1>1, <1>2, <1>3

LEMMA ReaderQosKept ==
  ASSUME QueuesWithinProfiles, QosConsistent, InstanceInv, NEW t \in Topics,
         CreateReader(t)
  PROVE  QosConsistent'
<1>1. writers' = writers /\ readers' \in {readers, Put(readers, t, ReaderQos(t))}
  BY DEF CreateReader
<1>2. CASE readers' = readers
  BY <1>1, <1>2 DEF QosConsistent
<1>3. CASE readers' = Put(readers, t, ReaderQos(t))
  <2>1. ReaderConsistent(ReaderQos(t))
    <3>1. cmd \in Commands /\ maxInst \in 1 .. Unlimited /\ maxInst >= cmd.instances
      BY DEF InstanceInv, CreateReader, Asked, Counted
    <3> QED BY <3>1, ReaderQosConsistent
  <2>2. /\ DOMAIN readers' = (DOMAIN readers) \cup {t} /\ readers'[t] = ReaderQos(t)
        /\ \A u \in DOMAIN readers : u # t => readers'[u] = readers[u]
    BY <1>3 DEF Put
  <2> QED BY <1>1, <2>1, <2>2 DEF QosConsistent
<1> QED BY <1>1, <1>2, <1>3

LEMMA NextQos ==
  ASSUME QueuesWithinProfiles, SegmentsHoldTwo, QosConsistent, InstanceInv, [Next]_vars
  PROVE  QosConsistent'
<1> USE DEF entityVars
<1>1. CASE UNCHANGED vars
  BY <1>1 DEF vars, QosConsistent
<1>2. CASE Next
  <2>1. cmd \in Commands
    BY DEF InstanceInv
  <2>2. CASE \/ Run \/ ValidateInput \/ ConfigureTransport \/ DataSizeCalculations
             \/ CreateParticipant \/ CreatePublisherAndSubscriber \/ EndpointsCreated
    <3>1. UNCHANGED <<writers, readers>>
      BY <2>2 DEF Run, ValidateInput, ConfigureTransport, DataSizeCalculations,
                  CreateParticipant, CreatePublisherAndSubscriber, EndpointsCreated
    <3> QED BY <3>1 DEF QosConsistent
  <2>3. ASSUME NEW t \in Topics, CreateWriter(t)
        PROVE  QosConsistent'
    BY <2>1, <2>3, WriterQosKept
  <2>4. ASSUME NEW t \in Topics, CreateReader(t)
        PROVE  QosConsistent'
    BY <2>4, ReaderQosKept
  <2>5. CASE SendInitialize \/ SendData \/ SendFinished
    <3>1. UNCHANGED <<writers, readers>>
      BY <2>5 DEF SendInitialize, SendData, SendFinished, Write
    <3> QED BY <3>1 DEF QosConsistent
  <2>6. CASE Destroy
    BY <2>6 DEF Destroy, QosConsistent
  <2>7. CASE Terminated
    BY <2>7 DEF Terminated, vars, QosConsistent
  <2> QED BY <1>2, <2>2, <2>3, <2>4, <2>5, <2>6, <2>7 DEF Next
<1> QED BY <1>1, <1>2

\* QosConsistent, for every command line with queues that the profiles hold and that
\* leave the watermarks apart: the middleware refuses no endpoint for its QoS.
THEOREM QosAlwaysConsistent ==
  QueuesWithinProfiles /\ SegmentsHoldTwo => (Spec => []QosConsistent)
<1> SUFFICES ASSUME QueuesWithinProfiles, SegmentsHoldTwo PROVE Spec => []QosConsistent
  OBVIOUS
<1> QED BY InitInstances, NextInstances, InitQos, NextQos, PTL DEF Spec

-----------------------------------------------------------------------------
(* Keys.                                                                    *)

LEMMA MaxCftFacts == MaxCftValue \in Nat /\ MaxCftValue <= 65535 /\ MaxCftValue > 0
BY DEF MaxCftValue

\* The key of a number of two bytes.
LEMMA KeyBytes ==
  ASSUME NEW n \in 0 .. MaxCftValue
  PROVE  /\ KeyOf(n)[0] = n % 256 /\ KeyOf(n)[0] \in 0 .. 255
         /\ KeyOf(n)[1] = n \div 256 /\ KeyOf(n)[1] \in 0 .. 255
         /\ KeyOf(n)[2] = 0 /\ KeyOf(n)[3] = 0
         /\ n = 256 * KeyOf(n)[1] + KeyOf(n)[0]
<1>1. n \in Nat /\ n <= 65535
  BY MaxCftFacts
<1>2. 256 ^ 0 = 1 /\ 256 ^ 1 = 256 /\ 256 ^ 2 = 65536 /\ 256 ^ 3 = 16777216
  OBVIOUS
<1>3. /\ KeyOf(n)[0] = (n \div 1) % 256 /\ KeyOf(n)[1] = (n \div 256) % 256
      /\ KeyOf(n)[2] = (n \div 65536) % 256 /\ KeyOf(n)[3] = (n \div 16777216) % 256
  BY <1>2 DEF KeyOf, Byte, KeySize
<1>4. n \div 1 = n /\ n \div 65536 = 0 /\ n \div 16777216 = 0
  BY <1>1
<1>5. n \div 256 \in 0 .. 255 /\ n % 256 \in 0 .. 255 /\ n = 256 * (n \div 256) + (n % 256)
  BY <1>1
<1>6. (n \div 256) % 256 = n \div 256 /\ 0 % 256 = 0
  BY <1>5
<1> QED BY <1>3, <1>4, <1>5, <1>6

\* Numbers of two bytes have keys of their own.
LEMMA KeysDiffer ==
  ASSUME NEW m \in 0 .. MaxCftValue, NEW n \in 0 .. MaxCftValue
  PROVE  KeyOf(m) = KeyOf(n) <=> m = n
BY KeyBytes

\* The comparison of the filter, byte by byte, is that of the numbers.
LEMMA NotBelowIsOrder ==
  ASSUME NEW m \in 0 .. MaxCftValue, NEW n \in 0 .. MaxCftValue
  PROVE  NotBelow(KeyOf(m), KeyOf(n)) <=> n <= m
<1> DEFINE k == KeyOf(m)
           l == KeyOf(n)
<1>1. /\ k[0] \in 0 .. 255 /\ k[1] \in 0 .. 255 /\ k[2] = 0 /\ k[3] = 0
      /\ l[0] \in 0 .. 255 /\ l[1] \in 0 .. 255 /\ l[2] = 0 /\ l[3] = 0
      /\ m = 256 * k[1] + k[0] /\ n = 256 * l[1] + l[0]
  BY KeyBytes
<1> HIDE DEF k, l
<1>2. NotBelow(k, l) => \/ l[1] < k[1]
                        \/ l[1] <= k[1] /\ l[0] <= k[0]
  <2> SUFFICES ASSUME NEW c \in 0 .. 3,
                      \A d \in c + 1 .. 3 : l[d] <= k[d],
                      IF c = 0 THEN l[c] <= k[c] ELSE l[c] < k[c]
               PROVE  \/ l[1] < k[1]
                      \/ l[1] <= k[1] /\ l[0] <= k[0]
    BY DEF NotBelow, KeySize
  <2>1. c \in {0, 1}
    BY <1>1
  <2> QED BY <2>1
<1>3. l[1] < k[1] => NotBelow(k, l)
  <2> SUFFICES ASSUME l[1] < k[1] PROVE NotBelow(k, l)
    OBVIOUS
  <2>1. \A d \in 2 .. 3 : l[d] <= k[d]
    BY <1>1
  <2> QED BY <2>1 DEF NotBelow, KeySize
<1>4. l[1] <= k[1] /\ l[0] <= k[0] => NotBelow(k, l)
  <2> SUFFICES ASSUME l[1] <= k[1], l[0] <= k[0] PROVE NotBelow(k, l)
    OBVIOUS
  <2>1. \A d \in 1 .. 3 : l[d] <= k[d]
    BY <1>1
  <2>2. 0 \in 0 .. KeySize - 1 /\ 0 + 1 .. KeySize - 1 = 1 .. 3
    BY DEF KeySize
  <2> QED BY <2>1, <2>2, Zenon DEF NotBelow
<1>5. n <= m <=> \/ l[1] < k[1]
                 \/ l[1] <= k[1] /\ l[0] <= k[0]
  <2> DEFINE a == k[1]
             b == k[0]
             c == l[1]
             d == l[0]
  <2>1. /\ a \in 0 .. 255 /\ b \in 0 .. 255 /\ c \in 0 .. 255 /\ d \in 0 .. 255
        /\ m = 256 * a + b /\ n = 256 * c + d
    BY <1>1, Zenon
  <2> HIDE DEF a, b, c, d
  <2>2. n <= m <=> \/ c < a
                   \/ c <= a /\ d <= b
    <3>1. CASE c < a
      BY <2>1, <3>1
    <3>2. CASE c = a
      BY <2>1, <3>2
    <3>3. CASE c > a
      BY <2>1, <3>3
    <3> QED BY <2>1, <3>1, <3>2, <3>3
  <2> QED BY <2>2, Zenon DEF a, b, c, d
<1>6. NotBelow(k, l) <=> n <= m
  BY <1>2, <1>3, <1>4, <1>5, Zenon
<1> QED BY <1>6 DEF k, l

LEMMA UpToTwo == \A k \in Nat : k <= 2 => k \in 0 .. 2
BY SMT

\* The filter of create_cft lets through the instances it names, and no other.
LEMMA PassesInstance ==
  ASSUME cmd \in Commands, NEW f \in cmd.filters, NEW n \in 0 .. MaxCftValue - 1
  PROVE  Passes(f, KeyOf(n)) <=> \/ f = <<>>
                                 \/ f[1] <= n /\ n <= f[Len(f)]
<1> DEFINE Number == 0 .. MaxCftValue - 1
<1>1. /\ Len(f) \in 0 .. 2 /\ (f # <<>> => Len(f) # 0)
      /\ \A i \in 1 .. Len(f) : f[i] \in Number
  <2>1. f \in Seq(Number) /\ Len(f) <= 2
    BY CommandAssumption DEF IsCommand
  <2> HIDE DEF Number
  <2>2. Len(f) \in Nat /\ \A i \in 1 .. Len(f) : f[i] \in Number
    BY <2>1, LenProperties, ElementOfSeq
  <2>3. f # <<>> => Len(f) # 0
    BY <2>1, EmptySeq
  <2>4. Len(f) \in 0 .. 2
    <3>1. Len(f) \in Nat
      BY <2>2
    <3>2. Len(f) <= 2
      BY <2>1
    <3> QED BY <3>1, <3>2, UpToTwo
  <2> QED BY <2>2, <2>3, <2>4
<1>2. /\ MaxCftValue \in Nat /\ n \in 0 .. MaxCftValue /\ MaxCftValue \in 0 .. MaxCftValue
      /\ n # MaxCftValue
  BY MaxCftFacts
<1>3. KeyOf(n) # KeyOf(MaxCftValue)
  BY <1>2, KeysDiffer
<1>4. CASE Len(f) = 0
  <2>1. f = <<>>
    BY <1>1, <1>4
  <2> QED BY <2>1 DEF Passes
<1>5. CASE Len(f) = 1
  <2>1. f # <<>> /\ f[1] \in 0 .. MaxCftValue - 1
    BY <1>1, <1>5, EmptySeq
  <2>2. f[1] \in 0 .. MaxCftValue
    BY <2>1, <1>2
  <2>3. Passes(f, KeyOf(n)) <=> KeyOf(n) = KeyOf(f[1])
    BY <2>1, <1>3, <1>5 DEF Passes
  <2>4. KeyOf(n) = KeyOf(f[1]) <=> n = f[1]
    BY <2>2, <1>2, KeysDiffer
  <2>5. f[1] <= n /\ n <= f[Len(f)] <=> n = f[1]
    BY <2>2, <1>2, <1>5
  <2> QED BY <2>1, <2>3, <2>4, <2>5
<1>6. CASE Len(f) = 2
  <2>1. f # <<>> /\ f[1] \in 0 .. MaxCftValue - 1 /\ f[2] \in 0 .. MaxCftValue - 1
    <3>1. 1 \in 1 .. Len(f) /\ 2 \in 1 .. Len(f)
      BY <1>6
    <3>2. f[1] \in Number /\ f[2] \in Number
      BY <3>1, <1>1
    <3>3. f # <<>>
      BY <1>6, EmptySeq
    <3> QED BY <3>2, <3>3
  <2>2. f[1] \in 0 .. MaxCftValue /\ f[2] \in 0 .. MaxCftValue
    BY <2>1, <1>2
  <2>3. Passes(f, KeyOf(n)) <=> /\ NotBelow(KeyOf(n), KeyOf(f[1]))
                                /\ NotBelow(KeyOf(f[2]), KeyOf(n))
    BY <2>1, <1>3, <1>6 DEF Passes
  <2>4. /\ NotBelow(KeyOf(n), KeyOf(f[1])) <=> f[1] <= n
        /\ NotBelow(KeyOf(f[2]), KeyOf(n)) <=> n <= f[2]
    BY <2>2, <1>2, NotBelowIsOrder
  <2> QED BY <2>1, <2>3, <2>4, <1>6
<1>7. Len(f) \in {0, 1, 2}
  <2>1. Len(f) \in 0 .. 2
    BY <1>1
  <2> QED BY <2>1
<1> QED BY <1>4, <1>5, <1>6, <1>7

-----------------------------------------------------------------------------
(* Samples.                                                                 *)

\* The instances keep clear of the wildcard: -writeInstance is one of them, not
\* their number, which validate_input accepts too, and their keys are below
\* MAX_CFT_VALUE.
KeysApart ==
  \A c \in Commands : c.writeInstance < c.instances /\ c.instances <= MaxCftValue

\* Once its endpoints are there, a publisher has a handle for every instance.
Sending == {"burst", "data", "finish"}
Registered ==
  \/ pc = "endpoints" /\ cmd.role = "pub" /\ step # 0
  \/ pc \in Sending

NotYet == {"start", "input", "transport", "sizes", "participant", "publisher",
           "endpoints"}

SentInv ==
  /\ cmd \in Commands
  /\ step \in Nat /\ counter \in Nat
  /\ pc \in NotYet \ {"endpoints"} => step = 0
  /\ Registered => handles = RegisteredHandles
  /\ payload = lastSize
  /\ pc \in NotYet => sent = NoSample
  /\ SentAsAsked

LEMMA InitSent == Init => SentInv
BY DEF Init, SentInv, Registered, Sending, SentAsAsked, NoSample

\* A sequence of three parts, the first of one element.
LEMMA StartOfThree ==
  ASSUME NEW S, NEW a \in Seq(S), NEW b \in Seq(S), NEW c \in Seq(S), Len(a) = 1
  PROVE  Len(a \o b \o c) = 1 + Len(b) + Len(c) /\ (a \o b \o c)[1] = a[1]
<1>1. Len(b) \in Nat /\ Len(c) \in Nat
  BY LenProperties
<1> DEFINE d == a \o b
<1>2. d \in Seq(S) /\ Len(d) = 1 + Len(b)
  <2>1. d \in Seq(S) /\ Len(d) = Len(a) + Len(b)
    BY ConcatProperties
  <2> HIDE DEF d
  <2> QED BY <2>1
<1>3. d[1] = a[1]
  <2>1. \A i \in 1 .. Len(a) + Len(b) : d[i] = IF i <= Len(a) THEN a[i] ELSE b[i - Len(a)]
    BY ConcatProperties
  <2> HIDE DEF d
  <2> QED BY <2>1, <1>1
<1> HIDE DEF d
<1>4. /\ Len(d \o c) = Len(d) + Len(c)
      /\ \A i \in 1 .. Len(d) + Len(c) :
           (d \o c)[i] = IF i <= Len(d) THEN d[i] ELSE c[i - Len(d)]
  BY <1>2, ConcatProperties
<1>5. (d \o c)[1] = d[1]
  BY <1>1, <1>2, <1>4
<1>6. Len(d \o c) = 1 + Len(b) + Len(c)
  BY <1>2, <1>4
<1> QED BY <1>3, <1>5, <1>6 DEF d

\* What a publisher asks for first.
LEMMA ScriptFacts ==
  /\ Len(Script) \in Nat /\ Len(Script) > 0
  /\ cmd.role = "pub" => Script[1] = <<"writer", "Throughput">>
<1>1. CASE cmd.role = "pub"
  <2> DEFINE Asks == {"writer", "reader"} \X Topics
             first == <<<<"writer", "Throughput">>>>
             pongs == IF cmd.pid = 0 THEN <<<<"reader", "Latency">>>> ELSE <<>>
             last == <<<<"reader", "Announcement">>>>
  <2>1. first \in Seq(Asks) /\ pongs \in Seq(Asks) /\ last \in Seq(Asks)
    <3>1. /\ <<"writer", "Throughput">> \in Asks /\ <<"reader", "Latency">> \in Asks
          /\ <<"reader", "Announcement">> \in Asks
      BY DEF Topics
    <3> HIDE DEF Asks
    <3>2. \A x \in Asks : <<x>> \in Seq(Asks)
      OBVIOUS
    <3>3. <<>> \in Seq(Asks)
      OBVIOUS
    <3> QED BY <3>1, <3>2, <3>3, Zenon
  <2>2. Len(first) = 1 /\ first[1] = <<"writer", "Throughput">>
    OBVIOUS
  <2>3. Script = first \o pongs \o last
    BY <1>1 DEF Script
  <2> HIDE DEF Asks, first, pongs, last
  <2>4. Len(pongs) \in Nat /\ Len(last) \in Nat
    BY <2>1, LenProperties
  <2>5. Len(Script) = 1 + Len(pongs) + Len(last) /\ Script[1] = first[1]
    <3>1. Len(first \o pongs \o last) = 1 + Len(pongs) + Len(last)
          /\ (first \o pongs \o last)[1] = first[1]
      BY <2>1, <2>2, StartOfThree
    <3> QED BY <2>3, <3>1, Zenon
  <2> QED BY <2>2, <2>4, <2>5
<1>2. CASE cmd.role # "pub"
  <2>1. Script = <<<<"writer", "Latency">>, <<"reader", "Throughput">>,
                   <<"writer", "Announcement">>>>
    BY <1>2 DEF Script
  <2> QED BY <1>2, <2>1
<1> QED BY <1>1, <1>2

\* The instance that send writes is one of those that are registered.
LEMMA NextInstanceBounds ==
  ASSUME KeysApart, cmd \in Commands, counter \in Nat
  PROVE  /\ NextInstance \in 0 .. cmd.instances - 1
         /\ cmd.instances \in 1 .. MaxCftValue
<1>1. cmd.writeInstance \in Nat \cup {-1} /\ cmd.instances \in Nat \ {0}
  <2>1. cmd.writeInstance \in Nat \cup {-1}
    BY CommandAssumption DEF IsCommand
  <2> QED BY <2>1, InstanceFacts
<1>2. cmd.writeInstance < cmd.instances /\ cmd.instances <= MaxCftValue
  BY DEF KeysApart
<1>3. counter % cmd.instances \in 0 .. cmd.instances - 1
  BY <1>1
<1>4. MaxCftValue \in Nat
  BY MaxCftFacts
<1> QED BY <1>1, <1>2, <1>3, <1>4 DEF NextInstance

\* The steps that neither write nor create an endpoint.
LEMMA SentKept ==
  ASSUME SentInv, cmd' = cmd, UNCHANGED <<step, handles, counter, lastSize, payload, sent>>,
         pc \in Sending => pc' \in Sending,
         pc' \in Sending => pc \in Sending,
         pc' = "endpoints" => step = 0 \/ pc = "endpoints",
         pc' \in NotYet => pc \in NotYet,
         pc = "endpoints" => pc' \notin NotYet \ {"endpoints"}
  PROVE  SentInv'
<1>1. RegisteredHandles' = RegisteredHandles
  BY DEF RegisteredHandles, KeyOf, Byte
<1>2. SentAsAsked'
  BY DEF SentInv, SentAsAsked, NoSample
<1> QED BY <1>1, <1>2 DEF SentInv, Registered, Sending, NotYet

\* The constructor of the throughput writer is what a publisher begins with.
LEMMA WriterSent ==
  ASSUME SentInv, NEW t \in Topics, CreateWriter(t), cmd' = cmd
  PROVE  SentInv'
<1>1. /\ pc = "endpoints" /\ step < Len(Script) /\ Script[step + 1] = <<"writer", t>>
      /\ UNCHANGED <<counter, lastSize, payload, sent>>
  BY DEF CreateWriter, Asked
<1>2. RegisteredHandles' = RegisteredHandles
  BY DEF RegisteredHandles, KeyOf, Byte
<1>3. sent = NoSample /\ sent' = NoSample /\ SentAsAsked'
  BY <1>1 DEF SentInv, NotYet, SentAsAsked, NoSample
<1>4. CASE pc' = "endpoints" /\ step' = step + 1
  <2>1. handles' = IF t = "Throughput" THEN RegisteredHandles ELSE handles
    BY <1>1, <1>4 DEF CreateWriter
  <2>2. cmd.role = "pub" => handles' = RegisteredHandles
    <3>1. CASE step = 0
      <4>1. Script[1] = <<"writer", t>>
        BY <3>1, <1>1
      <4>2. cmd.role = "pub" => t = "Throughput"
        BY <4>1, ScriptFacts
      <4> QED BY <4>2, <2>1
    <3>2. CASE step # 0
      BY <3>2, <2>1, <1>1 DEF SentInv, Registered
    <3> QED BY <3>1, <3>2
  <2>3. Registered' => handles' = RegisteredHandles'
    BY <2>2, <1>2, <1>4 DEF Registered, Sending
  <2> QED BY <2>3, <1>1, <1>3, <1>4 DEF SentInv, NotYet
<1>5. CASE pc' = "destroy" /\ step' = step
  <2>1. ~Registered'
    BY <1>5 DEF Registered, Sending
  <2> QED BY <2>1, <1>1, <1>3, <1>5 DEF SentInv, NotYet
<1>6. (pc' = "endpoints" /\ step' = step + 1) \/ (pc' = "destroy" /\ step' = step)
  BY DEF CreateWriter
<1> QED BY <1>4, <1>5, <1>6

LEMMA ReaderSent ==
  ASSUME SentInv, NEW t \in Topics, CreateReader(t), cmd' = cmd
  PROVE  SentInv'
<1>1. /\ pc = "endpoints" /\ step < Len(Script) /\ Script[step + 1] = <<"reader", t>>
      /\ UNCHANGED <<handles, counter, lastSize, payload, sent>>
  BY DEF CreateReader, Asked, dataVars
<1>2. RegisteredHandles' = RegisteredHandles
  BY DEF RegisteredHandles, KeyOf, Byte
<1>3. sent = NoSample /\ sent' = NoSample /\ SentAsAsked'
  BY <1>1 DEF SentInv, NotYet, SentAsAsked, NoSample
<1>4. CASE pc' = "endpoints" /\ step' = step + 1
  <2>1. cmd.role = "pub" => step # 0
    BY <1>1, ScriptFacts DEF SentInv
  <2>2. Registered' => handles' = RegisteredHandles'
    BY <2>1, <1>1, <1>2, <1>4 DEF SentInv, Registered, Sending
  <2> QED BY <2>2, <1>1, <1>3, <1>4 DEF SentInv, NotYet
<1>5. CASE pc' = "destroy" /\ step' = step
  <2>1. ~Registered'
    BY <1>5 DEF Registered, Sending
  <2> QED BY <2>1, <1>1, <1>3, <1>5 DEF SentInv, NotYet
<1>6. (pc' = "endpoints" /\ step' = step + 1) \/ (pc' = "destroy" /\ step' = step)
  BY DEF CreateReader
<1> QED BY <1>4, <1>5, <1>6

LEMMA EndpointsSent ==
  ASSUME SentInv, EndpointsCreated, cmd' = cmd
  PROVE  SentInv'
<1>1. /\ pc = "endpoints" /\ step = Len(Script) /\ step' = 0
      /\ pc' = IF cmd.role = "pub" THEN "burst" ELSE "destroy"
      /\ UNCHANGED <<handles, counter, lastSize, payload, sent>>
  BY DEF EndpointsCreated, Goto, dataVars
<1>2. RegisteredHandles' = RegisteredHandles
  BY DEF RegisteredHandles, KeyOf, Byte
<1>3. sent = NoSample /\ sent' = NoSample /\ SentAsAsked'
  BY <1>1 DEF SentInv, NotYet, SentAsAsked, NoSample
<1>4. Registered' => handles' = RegisteredHandles'
  <2>1. step # 0
    BY <1>1, ScriptFacts
  <2> QED BY <2>1, <1>1, <1>2 DEF SentInv, Registered, Sending
<1> QED BY <1>1, <1>3, <1>4 DEF SentInv, NotYet

\* The numbers of the instances, below that of the wildcard.
LEMMA InstanceNumbers ==
  ASSUME NEW most \in 1 .. MaxCftValue
  PROVE  /\ most \in 0 .. most
         /\ \A n \in 0 .. most - 1 : /\ n \in 0 .. most /\ n # most
                                     /\ n \in 0 .. MaxCftValue - 1
<1>1. MaxCftValue \in Nat /\ most \in Nat /\ most <= MaxCftValue
  BY MaxCftFacts
<1>2. most \in 0 .. most
  BY <1>1
<1>3. ASSUME NEW n \in 0 .. most - 1
      PROVE  n \in 0 .. most /\ n # most /\ n \in 0 .. MaxCftValue - 1
  <2>1. n \in Nat /\ n < most
    BY <1>1
  <2> QED BY <1>1, <2>1
<1> QED BY <1>2, <1>3

\* What Write sends, of an instance that is registered or of the wildcard.
LEMMA WriteSent ==
  ASSUME SentInv, NEW wild \in BOOLEAN, NEW number, NEW size, Write(wild, number, size),
         cmd' = cmd, pc \in Sending,
         cmd.instances \in 1 .. MaxCftValue,
         ~wild => number \in 0 .. cmd.instances - 1
  PROVE  /\ SentAsAsked' /\ payload' = lastSize' /\ handles' = handles
<1> DEFINE key == KeyOf(IF wild THEN MaxCftValue ELSE number)
<1>1. /\ payload' = IF FillsPayload(size) THEN size ELSE payload
      /\ lastSize' = size /\ handles' = handles
      /\ sent' = [key |-> key, handle |-> HandleIndex(wild, number), wild |-> wild,
                  number |-> number, size |-> size, carries |-> payload',
                  reaches |-> {f \in cmd.filters : Passes(f, key)}]
  BY DEF Write
<1>2. payload' = size
  BY <1>1 DEF FillsPayload, SentInv
<1>3. handles = RegisteredHandles
  BY DEF SentInv, Registered
<1>4. handles[HandleIndex(wild, number)] = key
  <2>1. CASE wild
    <3>1. HandleIndex(wild, number) = cmd.instances /\ key = KeyOf(MaxCftValue)
      BY <2>1 DEF HandleIndex
    <3>2. cmd.instances \in 0 .. cmd.instances
      BY InstanceNumbers
    <3> QED BY <3>1, <3>2, <1>3 DEF RegisteredHandles
  <2>2. CASE ~wild
    <3>1. HandleIndex(wild, number) = number /\ key = KeyOf(number)
      BY <2>2 DEF HandleIndex
    <3>2. number \in 0 .. cmd.instances /\ number # cmd.instances
      BY <2>2, InstanceNumbers
    <3> QED BY <3>1, <3>2, <1>3 DEF RegisteredHandles
  <2> QED BY <2>1, <2>2
<1>5. ASSUME NEW f \in cmd.filters
      PROVE  Passes(f, key) <=> \/ wild \/ f = <<>>
                                \/ f[1] <= number /\ number <= f[Len(f)]
  <2>1. CASE wild
    <3>1. key = KeyOf(MaxCftValue)
      BY <2>1
    <3> QED BY <2>1, <3>1, Zenon DEF Passes
  <2>2. CASE ~wild
    <3>1. key = KeyOf(number)
      BY <2>2
    <3>2. number \in 0 .. MaxCftValue - 1
      BY <2>2, InstanceNumbers
    <3>3. cmd \in Commands
      BY DEF SentInv
    <3>4. Passes(f, KeyOf(number)) <=> \/ f = <<>>
                                       \/ f[1] <= number /\ number <= f[Len(f)]
      BY <3>2, <3>3, PassesInstance
    <3> QED BY <2>2, <3>1, <3>4, Zenon
  <2> QED BY <2>1, <2>2
<1> HIDE DEF key
<1>6. /\ sent'.handle = HandleIndex(wild, number) /\ sent'.key = key /\ sent'.size = size
      /\ sent'.carries = payload' /\ sent'.number = number
      /\ sent'.wild = wild /\ sent'.reaches = {f \in cmd.filters : Passes(f, key)}
  BY <1>1
<1>7. handles'[sent'.handle] = sent'.key
  BY <1>1, <1>4, <1>6
<1>8. sent'.carries = sent'.size
  BY <1>2, <1>6
<1>9. ASSUME NEW f \in cmd'.filters
      PROVE  f \in sent'.reaches <=>
               \/ sent'.wild \/ f = <<>>
               \/ f[1] <= sent'.number /\ sent'.number <= f[Len(f)]
  BY <1>5, <1>6, Zenon
<1>10. SentAsAsked'
  BY <1>7, <1>8, <1>9, Zenon DEF SentAsAsked
<1> QED BY <1>1, <1>2, <1>10

LEMMA SendSent ==
  ASSUME KeysApart, SentInv, SendInitialize \/ SendData \/ SendFinished, cmd' = cmd
  PROVE  SentInv'
<1>1. /\ pc \in Sending /\ pc' \in Sending \cup {"destroy"} /\ step' \in Nat
      /\ counter' \in Nat
  <2>1. step \in Nat /\ counter \in Nat
    BY DEF SentInv
  <2>2. step' \in {0, step + 1}
    BY DEF SendInitialize, SendData, SendFinished, Turn
  <2>3. counter' \in {counter, counter + 1}
    BY DEF SendInitialize, SendData, SendFinished
  <2>4. pc \in Sending /\ pc' \in Sending \cup {"destroy"}
    <3>1. CASE SendInitialize
      BY <3>1 DEF SendInitialize, Turn, Sending
    <3>2. CASE SendData
      BY <3>2 DEF SendData, Turn, Sending
    <3>3. CASE SendFinished
      BY <3>3 DEF SendFinished, Turn, Sending
    <3> QED BY <3>1, <3>2, <3>3
  <2> QED BY <2>1, <2>2, <2>3, <2>4
<1>2. /\ NextInstance \in 0 .. cmd.instances - 1
      /\ cmd.instances \in 1 .. MaxCftValue
  BY NextInstanceBounds DEF SentInv
<1>3. SentAsAsked' /\ payload' = lastSize' /\ handles' = handles
  <2>1. CASE SendInitialize
    BY <1>1, <1>2, <2>1, WriteSent DEF SendInitialize
  <2>2. CASE SendData
    BY <1>1, <1>2, <2>2, WriteSent DEF SendData
  <2>3. CASE SendFinished
    BY <1>1, <1>2, <2>3, WriteSent DEF SendFinished
  <2> QED BY <2>1, <2>2, <2>3
<1>4. RegisteredHandles' = RegisteredHandles
  BY DEF RegisteredHandles, KeyOf, Byte
<1>5. handles' = RegisteredHandles'
  BY <1>1, <1>3, <1>4 DEF SentInv, Registered
<1>6. pc' \notin NotYet
  BY <1>1 DEF Sending, NotYet
<1> QED BY <1>1, <1>3, <1>5, <1>6 DEF SentInv

LEMMA NextSent ==
  ASSUME KeysApart, SentInv, [Next]_vars
  PROVE  SentInv'
<1> USE DEF dataVars
<1>1. CASE UNCHANGED vars
  BY <1>1, SentKept DEF vars
<1>2. CASE Next
  <2>1. cmd' = cmd
    BY <1>2 DEF Next
  <2>2. CASE Run \/ ValidateInput \/ ConfigureTransport
    BY <2>1, <2>2, SentKept
       DEF Run, ValidateInput, ConfigureTransport, Then, Goto, Sending, NotYet
  <2>3. CASE DataSizeCalculations \/ CreateParticipant
    BY <2>1, <2>3, SentKept
       DEF DataSizeCalculations, CreateParticipant, Then, Goto, Sending, NotYet
  <2>4. CASE CreatePublisherAndSubscriber
    <3>1. step = 0
      BY <2>4 DEF SentInv, CreatePublisherAndSubscriber, Then, Goto, NotYet
    <3> QED BY <2>1, <2>4, <3>1, SentKept
            DEF CreatePublisherAndSubscriber, Then, Goto, Sending, NotYet
  <2>5. ASSUME NEW t \in Topics, CreateWriter(t)
        PROVE  SentInv'
    BY <2>1, <2>5, WriterSent
  <2>6. ASSUME NEW t \in Topics, CreateReader(t)
        PROVE  SentInv'
    BY <2>1, <2>6, ReaderSent
  <2>7. CASE EndpointsCreated
    BY <2>1, <2>7, EndpointsSent
  <2>8. CASE SendInitialize \/ SendData \/ SendFinished
    BY <2>1, <2>8, SendSent
  <2>9. CASE Destroy
    BY <2>1, <2>9, SentKept DEF Destroy, Goto, Sending, NotYet
  <2>10. CASE Terminated
    BY <2>1, <2>10, SentKept DEF Terminated, vars
  <2> QED BY <1>2, <2>2, <2>3, <2>4, <2>5, <2>6, <2>7, <2>8, <2>9, <2>10 DEF Next
<1> QED BY <1>1, <1>2

\* SentAsAsked, for every number of instances, filter and payload, when the instances
\* keep clear of the wildcard: the handle, the key and the filters agree on the
\* instance of a sample, and the payload has the size that was asked for.
THEOREM SamplesAreSentAsAsked == KeysApart => (Spec => []SentAsAsked)
<1> SUFFICES ASSUME KeysApart PROVE Spec => []SentAsAsked
  OBVIOUS
<1>1. SentInv => SentAsAsked
  BY DEF SentInv
<1> QED BY <1>1, InitSent, NextSent, PTL DEF Spec
=============================================================================
