------------------------- MODULE ClassicBindingProofs -------------------------
(***************************************************************************)
(* TLAPS proofs about ClassicBinding and ClassicTransport, for every       *)
(* command line and every profile: a sample that is not large fits the     *)
(* transports, and so does a send window in the queue of shared memory; a  *)
(* FlatData writer can lend samples while its queue has room; the          *)
(* middleware accepts the QoS of every endpoint, and the endpoints match;  *)
(* a sample is of the instance and of the size that were asked for.        *)
(* QueuesWithinProfiles and KeysApart are named where they are needed.     *)
(***************************************************************************)
EXTENDS ClassicBinding, SequenceTheorems, WellFoundedInduction, TLAPS

Headers(c) == MessageOverhead(c) + (IF IsFlat(c) THEN FlatHeader ELSE 0)

\* A set of natural numbers has a smallest one.
LEMMA SmallestExists ==
  ASSUME NEW S \in SUBSET Nat, S # {}
  PROVE  \E n \in S : \A k \in S : n <= k
<1>1. PICK n \in S : \A k \in S : ~(<<k, n>> \in OpToRel(<, Nat))
  BY NatLessThanWellFounded, WFMin
<1>2. \A k \in S : ~(k < n)
  BY <1>1 DEF OpToRel
<1> QED BY <1>2

\* What a command line says of the sizes of messages.
LEMMA SizeFacts ==
  ASSUME NEW c \in Commands
  PROVE  /\ c.dataLen \in Nat /\ c.messageSizeMax \in Nat /\ c.segment \in Nat
         /\ c.sendQueueSize \in Nat \ {0} /\ c.instances \in Nat \ {0}
         /\ MessageOverhead(c) \in Nat /\ Headers(c) \in Nat
         /\ \A t : SizeOf(c, t) \in Nat
<1>1. IsCommand(c) /\ IsTransport(c)
  BY CommandAssumption DEF IsCommand
<1>2. c.dataLen \in Nat /\ c.sendQueueSize \in Nat \ {0} /\ c.instances \in Nat \ {0}
  <2>1. Unlimited \in Nat
    BY SMT DEF Unlimited
  <2>2. /\ c.dataLen \in Nat /\ c.sendQueueSize \in 1 .. Unlimited
        /\ c.instances \in 1 .. Unlimited - 1
    BY <1>1 DEF IsCommand
  <2> QED BY <2>1, <2>2
<1>3. /\ c.messageSizeMax \in Nat /\ c.segment \in Nat
      /\ \A t \in DOMAIN c.profileSizes : c.profileSizes[t] \in Nat
  BY <1>1 DEF IsTransport
<1>4. \A t : SizeOf(c, t) \in Nat
  BY <1>3 DEF SizeOf, DefaultMessageSizeMax
<1>5. MessageOverhead(c) \in Nat
  BY DEF MessageOverhead, RtpsOverhead
<1>6. Headers(c) \in Nat
  BY <1>5 DEF Headers, FlatHeader
<1> QED BY <1>2, <1>3, <1>4, <1>5, <1>6

\* What setupTransportMinimumMessageSizeMax returns.
LEMMA LeastSizeBounds ==
  ASSUME NEW c \in Commands
  PROVE  LeastSize(c) \in Nat /\ \A t \in Considered(c) : LeastSize(c) <= SizeOf(c, t)
<1>1. CASE c.messageSizeMax > 0
  BY <1>1, SizeFacts DEF LeastSize, SizeOf
<1>2. CASE ~(c.messageSizeMax > 0)
  <2> DEFINE sizes == {SizeOf(c, t) : t \in Considered(c)} \cup {NotSet}
  <2>1. sizes \in SUBSET Nat /\ sizes # {} /\ \A t \in Considered(c) : SizeOf(c, t) \in sizes
    BY SizeFacts DEF NotSet, Unlimited
  <2>2. \E n \in sizes : \A k \in sizes : n <= k
    BY <2>1, SmallestExists
  <2>3. LeastSize(c) = CHOOSE n \in sizes : \A k \in sizes : n <= k
    BY <1>2 DEF LeastSize
  <2>4. LeastSize(c) \in sizes /\ \A k \in sizes : LeastSize(c) <= k
    BY <2>2, <2>3
  <2> QED BY <2>1, <2>4
<1> QED BY <1>1, <1>2

LEMMA WantedIsNumber ==
  ASSUME NEW c \in Commands
  PROVE  WantedShmemSize(c) \in Nat
BY SizeFacts, LeastSizeBounds DEF WantedShmemSize, FlatHeader

LEMMA SegmentIsNumber ==
  ASSUME NEW c \in Commands
  PROVE  SegmentFound(c) \in Int
<1> DEFINE start == Larger(MaxShmemBuffer, WantedShmemSize(c))
           floor == Larger(c.segment, MegaByte)
           steps == (start - floor + MegaByte - 1) \div MegaByte
<1>1. MegaByte = 1048576 /\ MaxShmemBuffer \in Int
  BY DEF MegaByte, MaxShmemBuffer
<1>2. start \in Int /\ floor \in Int
  BY <1>1, WantedIsNumber, SizeFacts DEF Larger
<1>3. steps \in Int
  <2> HIDE DEF start, floor
  <2> QED BY <1>1, <1>2
<1>4. SegmentFound(c) = IF start <= floor THEN start ELSE start - steps * MegaByte
  BY DEF SegmentFound
<1> HIDE DEF start, floor, steps
<1> QED BY <1>1, <1>2, <1>3, <1>4

\* The size of shared memory, given or adapted.
LEMMA ShmemBounds ==
  ASSUME NEW c \in Commands
  PROVE  /\ ShmemSize(c) \in Int
         /\ GivenSize(c, "shmem") => ShmemSize(c) = SizeOf(c, "shmem")
         /\ ~GivenSize(c, "shmem") /\ ~Grows(c) => ShmemSize(c) <= LeastSize(c)
<1>1. WantedShmemSize(c) \in Nat
  BY WantedIsNumber
<1>2. SegmentFound(c) \in Int
  BY SegmentIsNumber
<1>3. GivenSize(c, "shmem") => WantedShmemSize(c) = SizeOf(c, "shmem")
  BY DEF WantedShmemSize
<1>4. ~GivenSize(c, "shmem") /\ ~Grows(c) => WantedShmemSize(c) = LeastSize(c)
  BY DEF WantedShmemSize
<1> QED BY <1>1, <1>2, <1>3, <1>4, LeastSizeBounds DEF ShmemSize, Smaller

\* Shared memory grows only when it is alone.
LEMMA GrowsAlone ==
  ASSUME NEW c \in Commands, Grows(c), ShmemConfigured(c)
  PROVE  Considered(c) = {"shmem"}
BY DEF Grows, ShmemConfigured, Considered, PropertiesOf, Builtin

\* minimumMessageSizeMax is a bound of every transport that was considered.
LEMMA MinimumBounds ==
  ASSUME NEW c \in Commands
  PROVE  LET t == ConfiguredTransport(c)
         IN  /\ t.minimum \in Int
             /\ \A k \in DOMAIN t.sizes : t.sizes[k] \in Int /\ t.minimum <= t.sizes[k]
<1>1. CASE OverPro(c)
  <2>1. ConfiguredTransport(c) = ProTransport(c)
    BY <1>1 DEF ConfiguredTransport
  <2>2. MinimumSize(c) \in Int
    BY ShmemBounds, LeastSizeBounds DEF MinimumSize
  <2>3. ASSUME NEW k \in Considered(c)
        PROVE  LET size == IF k = "shmem" /\ ShmemConfigured(c) THEN ShmemSize(c)
                           ELSE SizeOf(c, k)
               IN  size \in Int /\ MinimumSize(c) <= size
    <3>1. SizeOf(c, k) \in Nat /\ LeastSize(c) \in Nat /\ LeastSize(c) <= SizeOf(c, k)
      BY <2>3, SizeFacts, LeastSizeBounds
    <3>2. CASE ShmemConfigured(c) /\ ~GivenSize(c, "shmem")
      <4>1. MinimumSize(c) = ShmemSize(c) /\ ShmemSize(c) \in Int
        BY <3>2, ShmemBounds DEF MinimumSize
      <4>2. CASE Grows(c)
        BY <4>1, <4>2, <3>2, <2>3, GrowsAlone
      <4>3. CASE ~Grows(c)
        BY <4>1, <4>3, <3>1, <3>2, ShmemBounds
      <4> QED BY <4>2, <4>3
    <3>3. CASE ~(ShmemConfigured(c) /\ ~GivenSize(c, "shmem"))
      <4>1. MinimumSize(c) = LeastSize(c)
        BY <3>3 DEF MinimumSize
      <4>2. CASE k = "shmem" /\ ShmemConfigured(c)
        BY <4>1, <4>2, <3>1, <3>3, ShmemBounds
      <4>3. CASE ~(k = "shmem" /\ ShmemConfigured(c))
        BY <4>1, <4>3, <3>1
      <4> QED BY <4>2, <4>3
    <3> QED BY <3>2, <3>3
  <2> QED BY <2>1, <2>2, <2>3 DEF ProTransport
<1>2. CASE ~OverPro(c)
  <2>1. ConfiguredTransport(c) = MicroTransport(c)
    BY <1>2 DEF ConfiguredTransport
  <2> QED BY <2>1 DEF MicroTransport, MicroUdpMessageSize, DefaultMessageSizeMax
<1> QED BY <1>1, <1>2

-----------------------------------------------------------------------------
(* Samples fit the transports.                                              *)

\* configureTransport settles the transports, and the next step compares.
FitInv ==
  /\ cmd \in Commands
  /\ pc \in {"start", "input", "history", "transport"} => transport = NoTransport
  /\ pc = "sizes" => transport = ConfiguredTransport(cmd)
  /\ transport # NoTransport /\ pc # "sizes" => SmallFits(cmd, transport, large)

LEMMA InitFits == Init => FitInv
BY DEF Init, FitInv

LEMMA TransportFound ==
  ASSUME FitInv, ConfigureTransport, cmd' = cmd
  PROVE  FitInv'
<1>1. PICK n \in 0 .. 2 :
        /\ Then(n = 2, "transport", "sizes")
        /\ transport' = IF n = 2 THEN ConfiguredTransport(cmd) ELSE transport
  BY DEF ConfigureTransport
<1>2. CASE n = 2
  <2>1. pc' = "sizes" /\ transport' = ConfiguredTransport(cmd)
    BY <1>1, <1>2 DEF Then, Goto
  <2> QED BY <2>1 DEF FitInv
<1>3. CASE n # 2
  <2>1. pc = "transport" /\ pc' = "shutdown" /\ transport' = transport
    BY <1>1, <1>3 DEF Then, Goto
  <2> QED BY <2>1 DEF FitInv
<1> QED BY <1>2, <1>3

LEMMA SizesCompared ==
  ASSUME FitInv, DataSizeCalculations, cmd' = cmd
  PROVE  FitInv'
<1>1. /\ cmd \in Commands /\ pc = "sizes" /\ pc' \in {"participant", "shutdown"}
      /\ transport = ConfiguredTransport(cmd) /\ transport' = transport
      /\ large' = IsLarge
  BY DEF FitInv, DataSizeCalculations, Then, Goto
<1>2. /\ transport.minimum \in Int
      /\ \A k \in DOMAIN transport.sizes :
           transport.sizes[k] \in Int /\ transport.minimum <= transport.sizes[k]
  BY <1>1, MinimumBounds
<1>3. /\ cmd.dataLen \in Nat /\ MessageOverhead(cmd) \in Nat
      /\ (IF IsFlat(cmd) THEN FlatHeader ELSE 0) \in Nat
  BY <1>1, SizeFacts DEF FlatHeader
<1>4. MaxPayload = transport.minimum - MessageOverhead(cmd)
                     - (IF IsFlat(cmd) THEN FlatHeader ELSE 0)
  BY DEF MaxPayload, Flat, IsFlat
<1>5. ASSUME ~large', NEW k \in DOMAIN transport.sizes
      PROVE  cmd.dataLen + Headers(cmd) <= transport.sizes[k]
  <2>1. ~(cmd.dataLen > MaxPayload)
    BY <1>5, <1>1, Zenon DEF IsLarge
  <2>2. Headers(cmd) = MessageOverhead(cmd) + (IF IsFlat(cmd) THEN FlatHeader ELSE 0)
    BY DEF Headers
  <2> QED BY <2>1, <2>2, <1>2, <1>3, <1>4
<1>6. SmallFits(cmd, transport, large')
  BY <1>5 DEF SmallFits, Headers
<1> QED BY <1>1, <1>6 DEF FitInv

\* The other steps keep the transports, and do not go back.
LEMMA FitsKept ==
  ASSUME FitInv, cmd' = cmd, transport' = transport, large' = large,
         pc # "sizes", pc' # "sizes",
         pc' \in {"start", "input", "history", "transport"}
           => pc \in {"start", "input", "history", "transport"}
  PROVE  FitInv'
BY DEF FitInv

LEMMA NextFits ==
  ASSUME FitInv, [Next]_vars
  PROVE  FitInv'
<1> USE DEF optionVars
<1>1. CASE UNCHANGED vars
  BY <1>1 DEF vars, FitInv
<1>2. CASE Next
  <2>1. cmd' = cmd
    BY <1>2 DEF Next
  <2>2. CASE Start \/ ValidateInput \/ RegisterHistories
    BY <2>1, <2>2, FitsKept DEF Start, ValidateInput, RegisterHistories, Then, Goto
  <2>3. CASE ConfigureTransport
    BY <2>1, <2>3, TransportFound
  <2>4. CASE DataSizeCalculations
    BY <2>1, <2>4, SizesCompared
  <2>5. CASE CreateParticipant \/ RegisterTypes \/ CreatePublisher \/ CreateSubscriber
    BY <2>1, <2>5, FitsKept
       DEF CreateParticipant, RegisterTypes, CreatePublisher, CreateSubscriber, Then, Goto
  <2>6. ASSUME NEW t \in Topics, CreateWriter(t) \/ CreateReader(t)
        PROVE  FitInv'
    BY <2>1, <2>6, FitsKept DEF CreateWriter, CreateReader, Asked
  <2>7. CASE EndpointsCreated
    BY <2>1, <2>7, FitsKept DEF EndpointsCreated, Goto
  <2>8. CASE SendInitialize \/ SendData \/ SendFinished
    BY <2>1, <2>8, FitsKept DEF SendInitialize, SendData, SendFinished, Turn, Write
  <2>9. CASE Acknowledge
    <3>1. UNCHANGED <<pc, transport, large>>
      BY <2>9 DEF Acknowledge
    <3> QED BY <2>1, <3>1 DEF FitInv
  <2>10. CASE Shutdown
    BY <2>1, <2>10, FitsKept
       DEF Shutdown, DeleteReader, DeleteContained, DeleteParticipant, DeleteSemaphore,
           Unregister, FinalizeFactory, Goto
  <2>11. CASE Terminated
    BY <2>11 DEF Terminated, vars, FitInv
  <2> QED BY <1>2, <2>2, <2>3, <2>4, <2>5, <2>6, <2>7, <2>8, <2>9, <2>10, <2>11 DEF Next
<1> QED BY <1>1, <1>2

\* The first half of TransportFits, for every command line: a sample that
\* data_size_related_calculations takes for small fits, headers and all, in a
\* message of every transport that PerftestConfigureTransport leaves.
THEOREM SmallSamplesFit ==
  Spec => [](transport # NoTransport /\ pc # "sizes" => SmallFits(cmd, transport, large))
<1>1. FitInv => (transport # NoTransport /\ pc # "sizes" => SmallFits(cmd, transport, large))
  BY DEF FitInv
<1> QED BY <1>1, InitFits, NextFits, PTL DEF Spec

-----------------------------------------------------------------------------
(* Instances.                                                               *)

Counted == {"history", "transport", "sizes", "participant", "types", "publisher",
            "subscriber", "endpoints"}

\* Once -instances is read, a reader is given at least as many, and one more than
\* the readers before it.
InstanceInv ==
  /\ cmd \in Commands
  /\ maxInst \in 1 .. Unlimited
  /\ pc \in Counted => maxInst >= cmd.instances
  /\ InstancesFit

LEMMA InstanceFacts ==
  ASSUME NEW c \in Commands
  PROVE  /\ c.instances \in 1 .. Unlimited - 1 /\ Unlimited \in Nat \ {0}
         /\ ~c.instancesSet => c.instances = 1
<1>1. IsCommand(c)
  BY CommandAssumption
<1>2. c.instances \in 1 .. Unlimited - 1
  BY <1>1 DEF IsCommand
<1>3. Unlimited \in Nat \ {0}
  BY SMT DEF Unlimited
<1>4. OneByDefault(c)
  BY <1>1, SMT DEF IsCommand
<1>5. ~c.instancesSet => c.instances = 1
  BY <1>4, Zenon DEF OneByDefault
<1> QED BY <1>2, <1>3, <1>5, Zenon

LEMMA InitInstances == Init => InstanceInv
<1> SUFFICES ASSUME Init PROVE InstanceInv
  OBVIOUS
<1>1. cmd \in Commands /\ pc = "start" /\ readers = <<>> /\ maxInst \in {Unlimited, 1}
  BY DEF Init
<1> QED BY <1>1, InstanceFacts DEF InstanceInv, InstancesFit, Counted

\* The steps that keep the limit.
LEMMA InstancesKept ==
  ASSUME InstanceInv, cmd' = cmd, maxInst' = maxInst, readers' = readers,
         pc' \in Counted => pc \in Counted
  PROVE  InstanceInv'
BY DEF InstanceInv, InstancesFit

LEMMA InputInstances ==
  ASSUME InstanceInv, ValidateInput, cmd' = cmd
  PROVE  InstanceInv'
<1>1. /\ readers' = readers
      /\ maxInst' = IF cmd.instancesSet THEN cmd.instances ELSE maxInst
  BY DEF ValidateInput
<1>2. maxInst' \in 1 .. Unlimited /\ maxInst' >= cmd.instances
  BY <1>1, InstanceFacts DEF InstanceInv
<1> QED BY <1>1, <1>2 DEF InstanceInv, InstancesFit

LEMMA ReaderInstances ==
  ASSUME InstanceInv, NEW t \in Topics, CreateReader(t), cmd' = cmd
  PROVE  InstanceInv'
<1>1. /\ maxInst \in 1 .. Unlimited /\ maxInst >= cmd.instances
      /\ cmd.instances \in 1 .. Unlimited - 1 /\ Unlimited \in Nat \ {0}
  BY InstanceFacts DEF InstanceInv, CreateReader, Asked, Counted
<1>2. NextMaxInst \in 1 .. Unlimited /\ NextMaxInst >= cmd.instances + 1
  BY <1>1 DEF NextMaxInst
<1>3. maxInst' = NextMaxInst /\ readers' \in {readers, Put(readers, t, ReaderQos(t))}
  BY DEF CreateReader
<1>4. InstancesFit'
  <2>1. CASE readers' = readers
    BY <2>1 DEF InstanceInv, InstancesFit
  <2>2. CASE readers' = Put(readers, t, ReaderQos(t)) /\ t = "Throughput"
    <3>1. readers'["Throughput"].maxInstances = NextMaxInst
      BY <2>2 DEF Put, ReaderQos
    <3> QED BY <3>1, <1>2 DEF InstancesFit
  <2>3. CASE readers' = Put(readers, t, ReaderQos(t)) /\ t # "Throughput"
    <3>1. /\ "Throughput" \in DOMAIN readers' => "Throughput" \in DOMAIN readers
          /\ "Throughput" \in DOMAIN readers
               => readers'["Throughput"] = readers["Throughput"]
      BY <2>3 DEF Put
    <3> QED BY <3>1 DEF InstanceInv, InstancesFit
  <2> QED BY <1>3, <2>1, <2>2, <2>3
<1> QED BY <1>1, <1>2, <1>3, <1>4 DEF InstanceInv

LEMMA NextInstances ==
  ASSUME InstanceInv, [Next]_vars
  PROVE  InstanceInv'
<1> USE DEF optionVars, entityVars, Counted
<1>1. CASE UNCHANGED vars
  BY <1>1, InstancesKept DEF vars
<1>2. CASE Next
  <2>1. cmd' = cmd
    BY <1>2 DEF Next
  <2>2. CASE ValidateInput
    BY <2>1, <2>2, InputInstances
  <2>3. CASE Start \/ RegisterHistories \/ ConfigureTransport \/ DataSizeCalculations
    BY <2>1, <2>3, InstancesKept
       DEF Start, RegisterHistories, ConfigureTransport, DataSizeCalculations, Then, Goto
  <2>4. CASE CreateParticipant \/ RegisterTypes \/ CreatePublisher \/ CreateSubscriber
    BY <2>1, <2>4, InstancesKept
       DEF CreateParticipant, RegisterTypes, CreatePublisher, CreateSubscriber, Then, Goto
  <2>5. ASSUME NEW t \in Topics, CreateWriter(t)
        PROVE  InstanceInv'
    BY <2>1, <2>5, InstancesKept DEF CreateWriter, Asked
  <2>6. ASSUME NEW t \in Topics, CreateReader(t)
        PROVE  InstanceInv'
    BY <2>1, <2>6, ReaderInstances
  <2>7. CASE EndpointsCreated
    BY <2>1, <2>7, InstancesKept DEF EndpointsCreated, Goto
  <2>8. CASE SendInitialize \/ SendData \/ SendFinished
    BY <2>1, <2>8, InstancesKept DEF SendInitialize, SendData, SendFinished, Turn, Write
  <2>9. CASE Acknowledge
    BY <2>1, <2>9, InstancesKept DEF Acknowledge
  <2>10. CASE Shutdown
    BY <2>1, <2>10, InstancesKept
       DEF Shutdown, DeleteReader, DeleteContained, DeleteParticipant, DeleteSemaphore,
           Unregister, FinalizeFactory, Goto
  <2>11. CASE Terminated
    BY <2>1, <2>11, InstancesKept DEF Terminated, vars
  <2> QED BY <1>2, <2>2, <2>3, <2>4, <2>5, <2>6, <2>7, <2>8, <2>9, <2>10, <2>11 DEF Next
<1> QED BY <1>1, <1>2

\* InstancesFit, for every number of instances: create_reader gives the reader of
\* the samples place for the wildcard instance too.
THEOREM ReadersHoldInstances == Spec => []InstancesFit
<1>1. InstanceInv => InstancesFit
  BY DEF InstanceInv
<1> QED BY <1>1, InitInstances, NextInstances, PTL DEF Spec

-----------------------------------------------------------------------------
(* Loans.                                                                   *)

\* Each instance keeps at most one loan; the rest are in the send queue.
LoanInv ==
  /\ cmd \in Commands
  /\ loans \in 0 .. cmd.instances
  /\ unacked \in Nat

LEMMA InitLoans == Init => LoanInv
BY SizeFacts DEF Init, LoanInv

LEMMA NextLoans ==
  ASSUME LoanInv, [Next]_vars
  PROVE  LoanInv'
<1> USE DEF dataVars
<1>1. CASE UNCHANGED vars
  BY <1>1 DEF vars, LoanInv
<1>2. CASE Next
  <2>1. cmd' = cmd
    BY <1>2 DEF Next
  <2>2. CASE UNCHANGED <<loans, unacked>>
    BY <2>1, <2>2 DEF LoanInv
  <2>3. CASE \/ Start \/ ValidateInput \/ RegisterHistories \/ ConfigureTransport
             \/ DataSizeCalculations \/ CreateParticipant \/ RegisterTypes
             \/ CreatePublisher \/ CreateSubscriber \/ EndpointsCreated
    BY <2>2, <2>3
       DEF Start, ValidateInput, RegisterHistories, ConfigureTransport,
           DataSizeCalculations, CreateParticipant, RegisterTypes, CreatePublisher,
           CreateSubscriber, EndpointsCreated
  <2>4. ASSUME NEW t \in Topics, CreateWriter(t)
        PROVE  LoanInv'
    <3>1. unacked' = unacked /\ loans' \in {loans, LostLoans}
      BY <2>4 DEF CreateWriter
    <3>2. LostLoans \in 0 .. cmd.instances
      BY SizeFacts DEF LostLoans, LoanInv
    <3> QED BY <2>1, <3>1, <3>2 DEF LoanInv
  <2>5. ASSUME NEW t \in Topics, CreateReader(t)
        PROVE  LoanInv'
    BY <2>2, <2>5 DEF CreateReader
  <2>6. CASE SendInitialize \/ SendData \/ SendFinished
    <3>1. unacked' = unacked + 1 /\ loans' = loans
      BY <2>6 DEF SendInitialize, SendData, SendFinished, Write
    <3> QED BY <2>1, <3>1 DEF LoanInv
  <2>7. CASE Acknowledge
    BY <2>1, <2>7 DEF Acknowledge, LoanInv
  <2>8. CASE Shutdown
    BY <2>2, <2>8
       DEF Shutdown, DeleteReader, DeleteContained, DeleteParticipant, DeleteSemaphore,
           Unregister, FinalizeFactory
  <2>9. CASE Terminated
    BY <2>2, <2>9 DEF Terminated, vars
  <2> QED BY <1>2, <2>3, <2>4, <2>5, <2>6, <2>7, <2>8, <2>9 DEF Next
<1> QED BY <1>1, <1>2

\* LoansSuffice, for every number of instances and size of the send queue: the
\* loans that the constructor of a FlatData publisher loses do not starve send.
THEOREM LoansAreThere == Spec => []LoansSuffice
<1>1. LoanInv => LoansSuffice
  <2> SUFFICES ASSUME LoanInv, cmd.instances <= Sqs + 1, HasRoom
               PROVE  Lendable > 0
    BY DEF LoansSuffice
  <2>1. cmd.instances \in Nat /\ Sqs \in Nat /\ loans \in 0 .. cmd.instances
    BY SizeFacts DEF LoanInv, Sqs
  <2>2. unacked \in Nat /\ unacked < Sqs
    BY DEF LoanInv, HasRoom
  <2> QED BY <2>1, <2>2 DEF Lendable, LoanMaximum
<1> QED BY <1>1, InitLoans, NextLoans, PTL DEF Spec

-----------------------------------------------------------------------------
(* QoS.                                                                     *)

\* What a command line says of queues; the largest FlatData sample.
LEMMA QueueFacts ==
  ASSUME NEW c \in Commands
  PROVE  /\ c.sendQueueSize \in 1 .. Unlimited /\ c.receiveQueueSize \in 0 .. Unlimited
         /\ c.space \in Nat /\ FlatSampleSize \in Nat \ {0} /\ c.dataLen \in Nat
         /\ Unlimited \in Nat /\ Unlimited > 65535
         /\ c.type \in {"flat", "zerocopy"} => c.port = "pro"
         /\ c.port \in {"pro", "micro", "micro24"}
<1>1. IsCommand(c)
  BY CommandAssumption
<1>2. Unlimited \in Nat /\ Unlimited > 65535 /\ FlatSampleSize \in Nat \ {0}
  BY SMT DEF Unlimited, FlatSampleSize
<1> QED BY <1>1, <1>2 DEF IsCommand

\* Between one sample and as many as were asked for.
LEMMA FlatSamplesBounds ==
  ASSUME NEW space \in Nat, NEW most \in Nat \ {0}
  PROVE  FlatSamples(space, most) \in 1 .. most
<1> DEFINE fit == (space - FlatSampleSize) \div FlatSampleSize
<1>1. CASE space < FlatSampleSize
  BY <1>1 DEF FlatSamples
<1>2. CASE ~(space < FlatSampleSize)
  <2>1. FlatSampleSize \in Nat \ {0}
    BY SMT DEF FlatSampleSize
  <2>2. fit \in Int
    BY <2>1
  <2>3. FlatSamples(space, most) = Smaller(most, Larger(1, fit))
    BY <1>2 DEF FlatSamples
  <2> HIDE DEF fit
  <2> QED BY <2>2, <2>3 DEF Smaller, Larger
<1> QED BY <1>1, <1>2

\* A tenth and nine tenths of a size.
LEMMA Tenths ==
  ASSUME NEW n \in Nat
  PROVE  /\ n \div 10 \in 0 .. n /\ (n * 9) \div 10 \in Nat
         /\ n \div 10 <= (n * 9) \div 10
         /\ n > 0 => Larger(1, n \div 10) <= n
BY SMT DEF Larger

\* configure_writer_qos, from any options and whatever came before.
LEMMA WriterQosConsistent ==
  ASSUME cmd \in Commands, NEW t \in Topics
  PROVE  WriterConsistent(WriterQos(t))
<1> DEFINE initial == WriterInitialSamples
           most == WriterMaxSamples(t)
           beats == Heartbeats(t)
<1>1. /\ Sqs \in 1 .. Unlimited /\ cmd.space \in Nat /\ Unlimited \in Nat
      /\ Unlimited > 65535 /\ WriterInstances \in Nat \ {0}
  BY QueueFacts, SizeFacts DEF Sqs, WriterInstances
<1>2. initial \in 1 .. Sqs
  BY <1>1, FlatSamplesBounds DEF WriterInitialSamples
<1>3. /\ most \in Nat \ {0}
      /\ Pro => initial <= most
      /\ InSegments \/ t # "Throughput" \/ most >= Sqs
  <2>1. CASE InSegments
    BY <2>1, <1>1, <1>2 DEF WriterMaxSamples
  <2>2. CASE ~InSegments
    BY <2>2, <1>1, <1>2 DEF WriterMaxSamples
  <2> QED BY <2>1, <2>2
<1>4. LowWatermark(t) < HighWatermark(t)
  <2>1. CASE InSegments
    BY <2>1, <1>3, Tenths DEF LowWatermark, HighWatermark, Apart
  <2>2. CASE ~InSegments
    BY <2>2, <1>1, Tenths DEF LowWatermark, HighWatermark, Apart
  <2> QED BY <2>1, <2>2
<1>5. beats <= most
  <2>1. CASE InSegments
    BY <2>1, <1>3, Tenths DEF Heartbeats
  <2>2. CASE ~InSegments /\ (t = "Throughput" \/ (t = "Latency" /\ Pro))
    <3>1. beats \in {Sqs, Sqs \div 10}
      BY <2>2 DEF Heartbeats, TopicHeartbeats
    <3>2. Sqs <= most
      BY <2>2, <1>1, <1>3 DEF WriterMaxSamples
    <3>3. Sqs \in Nat /\ most \in Nat
      BY <1>1, <1>3
    <3>4. Sqs \div 10 \in 0 .. Sqs
      BY <3>3, Tenths
    <3> HIDE DEF beats, most
    <3> QED BY <3>1, <3>2, <3>3, <3>4
  <2>3. CASE ~InSegments /\ ~(t = "Throughput" \/ (t = "Latency" /\ Pro))
    <3>1. beats = IF Pro THEN 1000 ELSE 1
      BY <2>3, Zenon DEF Heartbeats, TopicHeartbeats
    <3>2. most = IF Pro THEN Unlimited ELSE 1
      BY <2>3, Zenon DEF WriterMaxSamples
    <3> HIDE DEF beats, most
    <3> QED BY <3>1, <3>2, <1>1
  <2> QED BY <2>1, <2>2, <2>3
<1>6. Window(t) \in Nat
  BY <1>1 DEF Window
<1> DEFINE q == WriterQos(t)
<1>7. /\ q.initialSamples = IF Pro THEN initial ELSE 1
      /\ q.maxSamples = most /\ q.maxPerInstance = most
      /\ q.initialInstances = WriterInstances /\ q.maxInstances = WriterInstances
      /\ q.depth = IF t = "Throughput" THEN Sqs ELSE 1
      /\ q.low = LowWatermark(t) /\ q.high = HighWatermark(t)
      /\ q.minWindow = Window(t) /\ q.maxWindow = Window(t) /\ q.heartbeats = beats
  BY DEF WriterQos
<1>8. q.keepLast => ~Pro
  BY DEF WriterQos
<1>9. InSegments => Pro
  <2>1. Flat => Pro
    BY QueueFacts DEF Flat, Pro
  <2> QED BY <2>1, Zenon DEF InSegments
<1> HIDE DEF q, initial, most, beats
<1>10. LimitsConsistent(q)
  <2>1. q.initialSamples <= q.maxSamples
    BY <1>2, <1>3, <1>7
  <2>2. q.maxPerInstance <= q.maxSamples /\ q.maxPerInstance > 0
    <3>1. most \in Nat \ {0}
      BY <1>3
    <3> QED BY <3>1, <1>7
  <2>4. q.initialInstances <= q.maxInstances /\ q.maxInstances > 0
    <3>1. WriterInstances \in Nat \ {0}
      BY <1>1
    <3> QED BY <3>1, <1>7
  <2>3. ASSUME q.keepLast PROVE q.depth <= q.maxPerInstance
    <3>1. ~InSegments
      BY <2>3, <1>8, <1>9, Zenon
    <3>2. q.depth \in {Sqs, 1} /\ (t # "Throughput" => q.depth = 1)
      BY <1>7
    <3> QED BY <3>1, <3>2, <1>1, <1>3, <1>7
  <2> QED BY <2>1, <2>2, <2>3, <2>4 DEF LimitsConsistent
<1>11. WriterConsistent(q)
  BY <1>3, <1>4, <1>5, <1>6, <1>7, <1>10 DEF WriterConsistent
<1> QED BY <1>11 DEF q

\* -receiveQueueSize is initial_samples of every reader of Pro, whose max_samples is
\* 100 in the profiles of the pongs and of the announcements.
QueuesWithinProfiles == \A c \in Commands : c.receiveQueueSize <= 100

\* configure_reader_qos, for a reader that has place for the instances.
LEMMA ReaderQosConsistent ==
  ASSUME QueuesWithinProfiles, cmd \in Commands, NEW t \in Topics,
         maxInst \in 1 .. Unlimited, maxInst >= cmd.instances
  PROVE  ReaderConsistent(ReaderQos(t))
<1> DEFINE initial == ReaderInitialSamples(t)
           most == ReaderMaxSamples(t)
           each == ReaderMaxPerInstance(t)
<1>1. /\ cmd.receiveQueueSize \in 0 .. 100 /\ MaxSampleSize \in Nat
      /\ cmd.instances \in 1 .. Unlimited - 1 /\ Unlimited \in Nat \ {0}
  <2>1. MaxSampleSize \in Nat
    BY SMT DEF MaxSampleSize
  <2>2. cmd.receiveQueueSize \in Nat /\ cmd.receiveQueueSize <= 100
    <3>1. cmd.receiveQueueSize \in 0 .. Unlimited /\ Unlimited \in Nat
      BY QueueFacts
    <3> QED BY <3>1 DEF QueuesWithinProfiles
  <2> QED BY <2>1, <2>2, InstanceFacts
<1>2. initial \in 1 .. 128 /\ (t # "Throughput" => initial <= 100)
  <2> DEFINE asked == IF cmd.receiveQueueSize > 0 THEN cmd.receiveQueueSize
                      ELSE IF t = "Throughput" THEN 128 ELSE 100
  <2>1. asked \in 1 .. 128 /\ (t # "Throughput" => asked <= 100)
    BY <1>1
  <2>2. FlatSamples(MaxSampleSize, asked) \in 1 .. asked
    <3>1. asked \in Nat \ {0}
      BY <2>1
    <3> HIDE DEF asked
    <3> QED BY <3>1, <1>1, FlatSamplesBounds
  <2>3. initial \in {1, FlatSamples(MaxSampleSize, asked), asked}
    BY DEF ReaderInitialSamples
  <2> HIDE DEF asked, initial
  <2> QED BY <2>1, <2>2, <2>3
<1>3. most \in Nat \ {0} /\ (Pro => initial <= most)
  <2>1. ProfileMaxSamples(t) \in Nat /\ ProfileMaxSamples(t) >= 50
    BY DEF ProfileMaxSamples
  <2>2. Pro => ProfileMaxSamples(t) = IF t = "Throughput" THEN 10000 ELSE 100
    BY DEF ProfileMaxSamples
  <2>3. most \in {initial, ProfileMaxSamples(t)}
    BY DEF ReaderMaxSamples
  <2> HIDE DEF initial, most
  <2> QED BY <1>2, <2>1, <2>2, <2>3
<1>4. each \in {1, most} /\ (Pro => each = most) /\ (t = "Throughput" => each = most)
  BY DEF ReaderMaxPerInstance
<1>5. NextMaxInst \in 1 .. Unlimited /\ cmd.instances + 1 <= NextMaxInst
  BY <1>1 DEF NextMaxInst
<1> DEFINE q == ReaderQos(t)
<1>6. /\ q.initialSamples = IF Pro THEN initial ELSE 1
      /\ q.maxSamples = most /\ q.maxPerInstance = each /\ q.maxPerWriter = most
      /\ q.initialInstances = IF Pro THEN cmd.instances + 1 ELSE 1
      /\ q.maxInstances = NextMaxInst
      /\ q.depth = IF t = "Throughput" THEN most ELSE 1
  <2>1. ReaderInitialSamples(t) = IF Pro THEN initial ELSE 1
    BY DEF ReaderInitialSamples
  <2> QED BY <2>1 DEF ReaderQos, ReaderMaxPerWriter
<1> HIDE DEF q, initial, most, each
<1>7. LimitsConsistent(q)
  <2>1. q.initialSamples <= q.maxSamples
    BY <1>2, <1>3, <1>6
  <2>2. q.maxPerInstance <= q.maxSamples /\ q.maxPerInstance > 0
    BY <1>3, <1>4, <1>6
  <2>3. q.initialInstances <= q.maxInstances /\ q.maxInstances > 0
    BY <1>1, <1>5, <1>6
  <2>4. q.depth <= q.maxPerInstance
    BY <1>3, <1>4, <1>6
  <2> QED BY <2>1, <2>2, <2>3, <2>4 DEF LimitsConsistent
<1>8. q.maxPerWriter <= q.maxSamples
  BY <1>3, <1>6
<1>9. ReaderConsistent(q)
  BY <1>7, <1>8 DEF ReaderConsistent
<1> QED BY <1>9 DEF q

\* What configure_writer_qos and configure_reader_qos gave the endpoints that exist.
QosInv ==
  /\ DOMAIN writers \subseteq Topics /\ DOMAIN readers \subseteq Topics
  /\ \A t \in DOMAIN writers :
       /\ WriterConsistent(writers[t])
       /\ writers[t].reliable = WriterReliable(t)
       /\ writers[t].durability = WriterDurability(t)
  /\ \A t \in DOMAIN readers :
       /\ QueuesWithinProfiles => ReaderConsistent(readers[t])
       /\ readers[t].reliable = ReaderReliable(t)
       /\ readers[t].durability = ReaderDurability(t)

LEMMA InitQos == Init => QosInv
BY DEF Init, QosInv

\* The steps that create no endpoint.
LEMMA QosKept ==
  ASSUME QosInv, cmd' = cmd, writers' = writers, readers' = readers
  PROVE  QosInv'
<1>1. /\ \A t : WriterReliable(t)' = WriterReliable(t)
      /\ \A t : WriterDurability(t)' = WriterDurability(t)
      /\ \A t : ReaderReliable(t)' = ReaderReliable(t)
      /\ \A t : ReaderDurability(t)' = ReaderDurability(t)
  BY DEF WriterReliable, WriterDurability, ReaderReliable, ReaderDurability,
         DurableLatency, Pro
<1> QED BY <1>1 DEF QosInv

LEMMA WriterQosKept ==
  ASSUME QosInv, cmd \in Commands, NEW t \in Topics, CreateWriter(t), cmd' = cmd
  PROVE  QosInv'
<1>1. readers' = readers /\ writers' \in {writers, Put(writers, t, WriterQos(t))}
  BY DEF CreateWriter
<1>2. CASE writers' = writers
  BY <1>1, <1>2, QosKept
<1>3. CASE writers' = Put(writers, t, WriterQos(t))
  <2>1. WriterConsistent(WriterQos(t))
    BY WriterQosConsistent
  <2>2. /\ WriterQos(t).reliable = WriterReliable(t)
        /\ WriterQos(t).durability = WriterDurability(t)
    BY DEF WriterQos
  <2>3. /\ DOMAIN writers' = (DOMAIN writers) \cup {t} /\ writers'[t] = WriterQos(t)
        /\ \A u \in DOMAIN writers : u # t => writers'[u] = writers[u]
    BY <1>3 DEF Put
  <2>4. /\ \A u : WriterReliable(u)' = WriterReliable(u)
        /\ \A u : WriterDurability(u)' = WriterDurability(u)
        /\ \A u : ReaderReliable(u)' = ReaderReliable(u)
        /\ \A u : ReaderDurability(u)' = ReaderDurability(u)
    BY DEF WriterReliable, WriterDurability, ReaderReliable, ReaderDurability,
           DurableLatency, Pro
  <2> QED BY <1>1, <2>1, <2>2, <2>3, <2>4 DEF QosInv
<1> QED BY <1>1, <1>2, <1>3

LEMMA ReaderQosKept ==
  ASSUME QosInv, InstanceInv, NEW t \in Topics, CreateReader(t), cmd' = cmd
  PROVE  QosInv'
<1>1. writers' = writers /\ readers' \in {readers, Put(readers, t, ReaderQos(t))}
  BY DEF CreateReader
<1>2. CASE readers' = readers
  BY <1>1, <1>2, QosKept
<1>3. CASE readers' = Put(readers, t, ReaderQos(t))
  <2>1. QueuesWithinProfiles => ReaderConsistent(ReaderQos(t))
    <3>1. cmd \in Commands /\ maxInst \in 1 .. Unlimited /\ maxInst >= cmd.instances
      BY DEF InstanceInv, CreateReader, Asked, Counted
    <3> QED BY <3>1, ReaderQosConsistent
  <2>2. /\ ReaderQos(t).reliable = ReaderReliable(t)
        /\ ReaderQos(t).durability = ReaderDurability(t)
    BY DEF ReaderQos
  <2>3. /\ DOMAIN readers' = (DOMAIN readers) \cup {t} /\ readers'[t] = ReaderQos(t)
        /\ \A u \in DOMAIN readers : u # t => readers'[u] = readers[u]
    BY <1>3 DEF Put
  <2>4. /\ \A u : WriterReliable(u)' = WriterReliable(u)
        /\ \A u : WriterDurability(u)' = WriterDurability(u)
        /\ \A u : ReaderReliable(u)' = ReaderReliable(u)
        /\ \A u : ReaderDurability(u)' = ReaderDurability(u)
    BY DEF WriterReliable, WriterDurability, ReaderReliable, ReaderDurability,
           DurableLatency, Pro
  <2> QED BY <1>1, <2>1, <2>2, <2>3, <2>4 DEF QosInv
<1> QED BY <1>1, <1>2, <1>3

LEMMA NextQos ==
  ASSUME QosInv, InstanceInv, [Next]_vars
  PROVE  QosInv'
<1> USE DEF entityVars
<1>1. CASE UNCHANGED vars
  BY <1>1, QosKept DEF vars
<1>2. CASE Next
  <2>1. cmd' = cmd /\ cmd \in Commands
    BY <1>2 DEF Next, InstanceInv
  <2>2. CASE \/ Start \/ ValidateInput \/ RegisterHistories \/ ConfigureTransport
             \/ DataSizeCalculations \/ CreateParticipant \/ RegisterTypes
             \/ CreatePublisher \/ CreateSubscriber \/ EndpointsCreated
    BY <2>1, <2>2, QosKept
       DEF Start, ValidateInput, RegisterHistories, ConfigureTransport,
           DataSizeCalculations, CreateParticipant, RegisterTypes, CreatePublisher,
           CreateSubscriber, EndpointsCreated
  <2>3. ASSUME NEW t \in Topics, CreateWriter(t)
        PROVE  QosInv'
    BY <2>1, <2>3, WriterQosKept
  <2>4. ASSUME NEW t \in Topics, CreateReader(t)
        PROVE  QosInv'
    BY <2>1, <2>4, ReaderQosKept
  <2>5. CASE SendInitialize \/ SendData \/ SendFinished \/ Acknowledge
    BY <2>1, <2>5, QosKept DEF SendInitialize, SendData, SendFinished, Write, Acknowledge
  <2>6. CASE Shutdown
    BY <2>1, <2>6, QosKept
       DEF Shutdown, DeleteReader, DeleteContained, DeleteParticipant, DeleteSemaphore,
           Unregister, FinalizeFactory
  <2>7. CASE Terminated
    BY <2>1, <2>7, QosKept DEF Terminated, vars
  <2> QED BY <1>2, <2>2, <2>3, <2>4, <2>5, <2>6, <2>7 DEF Next
<1> QED BY <1>1, <1>2

\* A writer offers what a reader of its topic with the same options requests.
LEMMA SameOptionsMatch ==
  ASSUME cmd \in Commands, NEW t \in Topics
  PROVE  /\ ReaderReliable(t) => WriterReliable(t)
         /\ WriterDurability(t) >= ReaderDurability(t)
<1>1. ReaderReliable(t) => WriterReliable(t)
  BY Zenon DEF ReaderReliable, WriterReliable
<1>2. cmd.durability \in Volatile .. Persistent
  BY CommandAssumption DEF IsCommand
<1>3. WriterDurability(t) >= ReaderDurability(t)
  <2>1. CASE t = "Throughput"
    BY <1>2, <2>1 DEF WriterDurability, ReaderDurability, Volatile, Persistent
  <2>2. CASE t = "Latency"
    <3>1. CASE DurableLatency
      <4>1. WriterDurability(t) = cmd.durability /\ ReaderDurability(t) = cmd.durability
        BY <2>2, <3>1 DEF WriterDurability, ReaderDurability
      <4> QED BY <4>1, <1>2 DEF Volatile, Persistent
    <3>2. CASE ~DurableLatency
      <4>1. WriterDurability(t) = Volatile /\ ReaderDurability(t) = Volatile
        BY <2>2, <3>2 DEF WriterDurability, ReaderDurability
      <4> QED BY <4>1 DEF Volatile
    <3> QED BY <3>1, <3>2
  <2>3. CASE t = "Announcement"
    <3>1. WriterDurability(t) = TransientLocal
      BY <2>3, Zenon DEF WriterDurability
    <3>2. CASE Pro
      BY <3>1, <3>2, <2>3 DEF ReaderDurability, TransientLocal
    <3>3. CASE ~Pro
      BY <3>1, <3>3, <2>3 DEF ReaderDurability, TransientLocal, Volatile
    <3> QED BY <3>2, <3>3
  <2> QED BY <2>1, <2>2, <2>3 DEF Topics
<1> QED BY <1>1, <1>3

\* EndpointsMatch, for every command line: a writer and a reader of a topic that
\* two processes create from the same options match, on Pro and on Micro.
THEOREM EndpointsAlwaysMatch == Spec => []EndpointsMatch
<1>1. InstanceInv /\ QosInv => EndpointsMatch
  <2> SUFFICES ASSUME InstanceInv, QosInv PROVE EndpointsMatch
    OBVIOUS
  <2>1. cmd \in Commands
    BY DEF InstanceInv
  <2>2. ASSUME NEW t \in DOMAIN writers PROVE Compatible(writers[t], ReaderQos(t))
    <3>1. /\ t \in Topics /\ writers[t].reliable = WriterReliable(t)
          /\ writers[t].durability = WriterDurability(t)
      BY DEF QosInv
    <3>2. /\ ReaderQos(t).reliable = ReaderReliable(t)
          /\ ReaderQos(t).durability = ReaderDurability(t)
      BY DEF ReaderQos
    <3> QED BY <2>1, <3>1, <3>2, SameOptionsMatch DEF Compatible
  <2>3. ASSUME NEW t \in DOMAIN readers PROVE Compatible(WriterQos(t), readers[t])
    <3>1. /\ t \in Topics /\ readers[t].reliable = ReaderReliable(t)
          /\ readers[t].durability = ReaderDurability(t)
      BY DEF QosInv
    <3>2. /\ WriterQos(t).reliable = WriterReliable(t)
          /\ WriterQos(t).durability = WriterDurability(t)
      BY DEF WriterQos
    <3> QED BY <2>1, <3>1, <3>2, SameOptionsMatch DEF Compatible
  <2> QED BY <2>2, <2>3 DEF EndpointsMatch
<1> QED BY <1>1, InitInstances, NextInstances, InitQos, NextQos, PTL DEF Spec

\* QosConsistent, for every command line with queues that the profiles hold: the
\* middleware refuses no endpoint for its QoS.
THEOREM QosAlwaysConsistent == QueuesWithinProfiles => (Spec => []QosConsistent)
<1> SUFFICES ASSUME QueuesWithinProfiles PROVE Spec => []QosConsistent
  OBVIOUS
<1>1. QosInv => QosConsistent
  BY DEF QosInv, QosConsistent
<1> QED BY <1>1, InitInstances, NextInstances, InitQos, NextQos, PTL DEF Spec

-----------------------------------------------------------------------------
(* Keys.                                                                    *)

LEMMA MaxCftFacts == MaxCftValue \in Nat /\ MaxCftValue <= 65535 /\ MaxCftValue > 0
BY DEF MaxCftValue

\* The key of a number of two bytes.
LEMMA KeyBytes ==
  ASSUME NEW n \in 0 .. MaxCftValue
  PROVE  /\ KeyOf(n)[0] = n % 256 /\ KeyOf(n)[0] \in 0 .. 255
         /\ KeyOf(n)[1] = n \div 256 /\ KeyOf(n)[1] \in 0 .. 255
         /\ KeyOf(n)[2] = 0 /\ KeyOf(n)[3] = 0
         /\ n = 256 * KeyOf(n)[1] + KeyOf(n)[0]
<1>1. n \in Nat /\ n <= 65535
  BY MaxCftFacts
<1>2. 256 ^ 0 = 1 /\ 256 ^ 1 = 256 /\ 256 ^ 2 = 65536 /\ 256 ^ 3 = 16777216
  OBVIOUS
<1>3. /\ KeyOf(n)[0] = (n \div 1) % 256 /\ KeyOf(n)[1] = (n \div 256) % 256
      /\ KeyOf(n)[2] = (n \div 65536) % 256 /\ KeyOf(n)[3] = (n \div 16777216) % 256
  BY <1>2 DEF KeyOf, Byte, KeySize
<1>4. n \div 1 = n /\ n \div 65536 = 0 /\ n \div 16777216 = 0
  BY <1>1
<1>5. n \div 256 \in 0 .. 255 /\ n % 256 \in 0 .. 255 /\ n = 256 * (n \div 256) + (n % 256)
  BY <1>1
<1>6. (n \div 256) % 256 = n \div 256 /\ 0 % 256 = 0
  BY <1>5
<1> QED BY <1>3, <1>4, <1>5, <1>6

\* Numbers of two bytes have keys of their own.
LEMMA KeysDiffer ==
  ASSUME NEW m \in 0 .. MaxCftValue, NEW n \in 0 .. MaxCftValue
  PROVE  KeyOf(m) = KeyOf(n) <=> m = n
BY KeyBytes

\* The comparison of the filter, byte by byte, is that of the numbers.
LEMMA AboveIsOrder ==
  ASSUME NEW m \in 0 .. MaxCftValue, NEW n \in 0 .. MaxCftValue
  PROVE  Above(KeyOf(m), KeyOf(n)) <=> n <= m
<1> DEFINE k == KeyOf(m)
           l == KeyOf(n)
<1>1. /\ k[0] \in 0 .. 255 /\ k[1] \in 0 .. 255 /\ k[2] = 0 /\ k[3] = 0
      /\ l[0] \in 0 .. 255 /\ l[1] \in 0 .. 255 /\ l[2] = 0 /\ l[3] = 0
      /\ m = 256 * k[1] + k[0] /\ n = 256 * l[1] + l[0]
  BY KeyBytes
<1> HIDE DEF k, l
<1>2. Above(k, l) => \/ l[1] < k[1]
                     \/ l[1] <= k[1] /\ l[0] <= k[0]
  <2> SUFFICES ASSUME NEW c \in 0 .. 3,
                      \A d \in c + 1 .. 3 : l[d] <= k[d],
                      IF c = 0 THEN l[c] <= k[c] ELSE l[c] < k[c]
               PROVE  \/ l[1] < k[1]
                      \/ l[1] <= k[1] /\ l[0] <= k[0]
    BY DEF Above, KeySize
  <2>1. c \in {0, 1}
    BY <1>1
  <2> QED BY <2>1
<1>3. l[1] < k[1] => Above(k, l)
  <2> SUFFICES ASSUME l[1] < k[1] PROVE Above(k, l)
    OBVIOUS
  <2>1. \A d \in 2 .. 3 : l[d] <= k[d]
    BY <1>1
  <2> QED BY <2>1 DEF Above, KeySize
<1>4. l[1] <= k[1] /\ l[0] <= k[0] => Above(k, l)
  <2> SUFFICES ASSUME l[1] <= k[1], l[0] <= k[0] PROVE Above(k, l)
    OBVIOUS
  <2>1. \A d \in 1 .. 3 : l[d] <= k[d]
    BY <1>1
  <2>2. 0 \in 0 .. KeySize - 1 /\ 0 + 1 .. KeySize - 1 = 1 .. 3
    BY DEF KeySize
  <2> QED BY <2>1, <2>2, Zenon DEF Above
<1>5. n <= m <=> \/ l[1] < k[1]
                 \/ l[1] <= k[1] /\ l[0] <= k[0]
  <2> DEFINE a == k[1]
             b == k[0]
             c == l[1]
             d == l[0]
  <2>1. /\ a \in 0 .. 255 /\ b \in 0 .. 255 /\ c \in 0 .. 255 /\ d \in 0 .. 255
        /\ m = 256 * a + b /\ n = 256 * c + d
    BY <1>1, Zenon
  <2> HIDE DEF a, b, c, d
  <2>2. n <= m <=> \/ c < a
                   \/ c <= a /\ d <= b
    <3>1. CASE c < a
      BY <2>1, <3>1
    <3>2. CASE c = a
      BY <2>1, <3>2
    <3>3. CASE c > a
      BY <2>1, <3>3
    <3> QED BY <2>1, <3>1, <3>2, <3>3
  <2> QED BY <2>2, Zenon DEF a, b, c, d
<1>6. Above(k, l) <=> n <= m
  BY <1>2, <1>3, <1>4, <1>5, Zenon
<1> QED BY <1>6 DEF k, l

LEMMA UpToTwo == \A k \in Nat : k <= 2 => k \in 0 .. 2
BY SMT

\* The filter of create_cft lets through the instances it names, and no other.
LEMMA PassesInstance ==
  ASSUME cmd \in Commands, NEW f \in cmd.filters, NEW n \in 0 .. MaxCftValue - 1
  PROVE  Passes(f, KeyOf(n)) <=> \/ f = <<>>
                                 \/ f[1] <= n /\ n <= f[Len(f)]
<1> DEFINE Number == 0 .. MaxCftValue - 1
<1>1. /\ Len(f) \in 0 .. 2 /\ (f # <<>> => Len(f) # 0)
      /\ \A i \in 1 .. Len(f) : f[i] \in Number
  <2>1. f \in Seq(Number) /\ Len(f) <= 2
    BY CommandAssumption DEF IsCommand
  <2> HIDE DEF Number
  <2>2. Len(f) \in Nat /\ \A i \in 1 .. Len(f) : f[i] \in Number
    BY <2>1, LenProperties, ElementOfSeq
  <2>3. f # <<>> => Len(f) # 0
    BY <2>1, EmptySeq
  <2>4. Len(f) \in 0 .. 2
    <3>1. Len(f) \in Nat
      BY <2>2
    <3>2. Len(f) <= 2
      BY <2>1
    <3> QED BY <3>1, <3>2, UpToTwo
  <2> QED BY <2>2, <2>3, <2>4
<1>2. /\ MaxCftValue \in Nat /\ n \in 0 .. MaxCftValue /\ MaxCftValue \in 0 .. MaxCftValue
      /\ n # MaxCftValue
  BY MaxCftFacts
<1>3. KeyOf(n) # KeyOf(MaxCftValue)
  BY <1>2, KeysDiffer
<1>4. CASE Len(f) = 0
  <2>1. f = <<>>
    BY <1>1, <1>4
  <2> QED BY <2>1 DEF Passes
<1>5. CASE Len(f) = 1
  <2>1. f # <<>> /\ f[1] \in 0 .. MaxCftValue - 1
    BY <1>1, <1>5, EmptySeq
  <2>2. f[1] \in 0 .. MaxCftValue
    BY <2>1, <1>2
  <2>3. Passes(f, KeyOf(n)) <=> KeyOf(n) = KeyOf(f[1])
    BY <2>1, <1>3, <1>5 DEF Passes
  <2>4. KeyOf(n) = KeyOf(f[1]) <=> n = f[1]
    BY <2>2, <1>2, KeysDiffer
  <2>5. f[1] <= n /\ n <= f[Len(f)] <=> n = f[1]
    BY <2>2, <1>2, <1>5
  <2> QED BY <2>1, <2>3, <2>4, <2>5
<1>6. CASE Len(f) = 2
  <2>1. f # <<>> /\ f[1] \in 0 .. MaxCftValue - 1 /\ f[2] \in 0 .. MaxCftValue - 1
    <3>1. 1 \in 1 .. Len(f) /\ 2 \in 1 .. Len(f)
      BY <1>6
    <3>2. f[1] \in Number /\ f[2] \in Number
      BY <3>1, <1>1
    <3>3. f # <<>>
      BY <1>6, EmptySeq
    <3> QED BY <3>2, <3>3
  <2>2. f[1] \in 0 .. MaxCftValue /\ f[2] \in 0 .. MaxCftValue
    BY <2>1, <1>2
  <2>3. Passes(f, KeyOf(n)) <=> /\ Above(KeyOf(n), KeyOf(f[1]))
                                /\ Above(KeyOf(f[2]), KeyOf(n))
    BY <2>1, <1>3, <1>6 DEF Passes
  <2>4. /\ Above(KeyOf(n), KeyOf(f[1])) <=> f[1] <= n
        /\ Above(KeyOf(f[2]), KeyOf(n)) <=> n <= f[2]
    BY <2>2, <1>2, AboveIsOrder
  <2> QED BY <2>1, <2>3, <2>4, <1>6
<1>7. Len(f) \in {0, 1, 2}
  <2>1. Len(f) \in 0 .. 2
    BY <1>1
  <2> QED BY <2>1
<1> QED BY <1>4, <1>5, <1>6, <1>7

-----------------------------------------------------------------------------
(* Samples.                                                                 *)

\* The instances keep clear of the wildcard: -writeInstance is one of them, not
\* their number, which validate_input accepts too, and their keys are below
\* MAX_CFT_VALUE.
KeysApart ==
  \A c \in Commands : c.writeInstance < c.instances /\ c.instances <= MaxCftValue

\* Once its endpoints are there, a publisher has a handle for every instance.
Sending == {"burst", "data", "finish"}
Registered ==
  \/ pc = "endpoints" /\ cmd.role = "pub" /\ step # 0
  \/ pc \in Sending

NotYet == {"start", "input", "history", "transport", "sizes", "participant", "types",
           "publisher", "subscriber", "endpoints"}

SentInv ==
  /\ cmd \in Commands
  /\ step \in Nat /\ counter \in Nat
  /\ pc \in NotYet \ {"endpoints"} => step = 0
  /\ Registered => handles = RegisteredHandles
  /\ payload = lastSize
  /\ pc \in NotYet => sent = NoSample
  /\ SentAsAsked

LEMMA InitSent == Init => SentInv
BY DEF Init, SentInv, Registered, Sending, SentAsAsked, NoSample

\* A sequence of three parts, the first of one element.
LEMMA StartOfThree ==
  ASSUME NEW S, NEW a \in Seq(S), NEW b \in Seq(S), NEW c \in Seq(S), Len(a) = 1
  PROVE  Len(a \o b \o c) = 1 + Len(b) + Len(c) /\ (a \o b \o c)[1] = a[1]
<1>1. Len(b) \in Nat /\ Len(c) \in Nat
  BY LenProperties
<1> DEFINE d == a \o b
<1>2. d \in Seq(S) /\ Len(d) = 1 + Len(b)
  <2>1. d \in Seq(S) /\ Len(d) = Len(a) + Len(b)
    BY ConcatProperties
  <2> HIDE DEF d
  <2> QED BY <2>1
<1>3. d[1] = a[1]
  <2>1. \A i \in 1 .. Len(a) + Len(b) : d[i] = IF i <= Len(a) THEN a[i] ELSE b[i - Len(a)]
    BY ConcatProperties
  <2> HIDE DEF d
  <2> QED BY <2>1, <1>1
<1> HIDE DEF d
<1>4. /\ Len(d \o c) = Len(d) + Len(c)
      /\ \A i \in 1 .. Len(d) + Len(c) :
           (d \o c)[i] = IF i <= Len(d) THEN d[i] ELSE c[i - Len(d)]
  BY <1>2, ConcatProperties
<1>5. (d \o c)[1] = d[1]
  BY <1>1, <1>2, <1>4
<1>6. Len(d \o c) = 1 + Len(b) + Len(c)
  BY <1>2, <1>4
<1> QED BY <1>3, <1>5, <1>6 DEF d

\* What a publisher asks for first.
LEMMA ScriptFacts ==
  /\ Len(Script) \in Nat /\ Len(Script) > 0
  /\ cmd.role = "pub" => Script[1] = <<"writer", "Throughput">>
<1>1. CASE cmd.role = "pub"
  <2> DEFINE Asks == {"writer", "reader"} \X Topics
             first == <<<<"writer", "Throughput">>>>
             pongs == IF cmd.pid = 0 THEN <<<<"reader", "Latency">>>> ELSE <<>>
             last == <<<<"reader", "Announcement">>>>
  <2>1. first \in Seq(Asks) /\ pongs \in Seq(Asks) /\ last \in Seq(Asks)
    <3>1. /\ <<"writer", "Throughput">> \in Asks /\ <<"reader", "Latency">> \in Asks
          /\ <<"reader", "Announcement">> \in Asks
      BY DEF Topics
    <3> HIDE DEF Asks
    <3>2. \A x \in Asks : <<x>> \in Seq(Asks)
      OBVIOUS
    <3>3. <<>> \in Seq(Asks)
      OBVIOUS
    <3> QED BY <3>1, <3>2, <3>3, Zenon
  <2>2. Len(first) = 1 /\ first[1] = <<"writer", "Throughput">>
    OBVIOUS
  <2>3. Script = first \o pongs \o last
    BY <1>1 DEF Script
  <2> HIDE DEF Asks, first, pongs, last
  <2>4. Len(pongs) \in Nat /\ Len(last) \in Nat
    BY <2>1, LenProperties
  <2>5. Len(Script) = 1 + Len(pongs) + Len(last) /\ Script[1] = first[1]
    <3>1. Len(first \o pongs \o last) = 1 + Len(pongs) + Len(last)
          /\ (first \o pongs \o last)[1] = first[1]
      BY <2>1, <2>2, StartOfThree
    <3> QED BY <2>3, <3>1, Zenon
  <2> QED BY <2>2, <2>4, <2>5
<1>2. CASE cmd.role # "pub"
  <2>1. Script = <<<<"writer", "Latency">>, <<"reader", "Throughput">>,
                   <<"writer", "Announcement">>>>
    BY <1>2 DEF Script
  <2> QED BY <1>2, <2>1
<1> QED BY <1>1, <1>2

\* The instance that send writes is one of those that are registered.
LEMMA NextInstanceBounds ==
  ASSUME KeysApart, cmd \in Commands, counter \in Nat
  PROVE  /\ NextInstance \in 0 .. cmd.instances - 1
         /\ cmd.instances \in 1 .. MaxCftValue
<1>1. cmd.writeInstance \in Nat \cup {-1} /\ cmd.instances \in Nat \ {0}
  <2>1. cmd.writeInstance \in Nat \cup {-1}
    BY CommandAssumption DEF IsCommand
  <2> QED BY <2>1, SizeFacts
<1>2. cmd.writeInstance < cmd.instances /\ cmd.instances <= MaxCftValue
  BY DEF KeysApart
<1>3. counter % cmd.instances \in 0 .. cmd.instances - 1
  BY <1>1
<1>4. MaxCftValue \in Nat
  BY MaxCftFacts
<1> QED BY <1>1, <1>2, <1>3, <1>4 DEF NextInstance

\* The steps that neither write nor create an endpoint.
LEMMA SentKept ==
  ASSUME SentInv, cmd' = cmd, UNCHANGED <<step, handles, counter, lastSize, payload, sent>>,
         pc \in Sending => pc' \in Sending,
         pc' \in Sending => pc \in Sending,
         pc' = "endpoints" => step = 0 \/ pc = "endpoints",
         pc' \in NotYet => pc \in NotYet,
         pc = "endpoints" => pc' \notin NotYet \ {"endpoints"}
  PROVE  SentInv'
<1>1. RegisteredHandles' = RegisteredHandles
  BY DEF RegisteredHandles, KeyOf, Byte
<1>2. SentAsAsked'
  BY DEF SentInv, SentAsAsked, NoSample
<1> QED BY <1>1, <1>2 DEF SentInv, Registered, Sending, NotYet

\* The constructor of the throughput writer is what a publisher begins with.
LEMMA WriterSent ==
  ASSUME SentInv, NEW t \in Topics, CreateWriter(t), cmd' = cmd
  PROVE  SentInv'
<1>1. /\ pc = "endpoints" /\ step < Len(Script) /\ Script[step + 1] = <<"writer", t>>
      /\ UNCHANGED <<counter, lastSize, payload, sent>>
  BY DEF CreateWriter, Asked
<1>2. RegisteredHandles' = RegisteredHandles
  BY DEF RegisteredHandles, KeyOf, Byte
<1>3. sent = NoSample /\ sent' = NoSample /\ SentAsAsked'
  BY <1>1 DEF SentInv, NotYet, SentAsAsked, NoSample
<1>4. CASE pc' = "endpoints" /\ step' = step + 1
  <2>1. handles' = IF t = "Throughput" THEN RegisteredHandles ELSE handles
    BY <1>1, <1>4 DEF CreateWriter
  <2>2. cmd.role = "pub" => handles' = RegisteredHandles
    <3>1. CASE step = 0
      <4>1. Script[1] = <<"writer", t>>
        BY <3>1, <1>1
      <4>2. cmd.role = "pub" => t = "Throughput"
        BY <4>1, ScriptFacts
      <4> QED BY <4>2, <2>1
    <3>2. CASE step # 0
      BY <3>2, <2>1, <1>1 DEF SentInv, Registered
    <3> QED BY <3>1, <3>2
  <2>3. Registered' => handles' = RegisteredHandles'
    BY <2>2, <1>2, <1>4 DEF Registered, Sending
  <2> QED BY <2>3, <1>1, <1>3, <1>4 DEF SentInv, NotYet
<1>5. CASE pc' = "shutdown" /\ step' = step
  <2>1. ~Registered'
    BY <1>5 DEF Registered, Sending
  <2> QED BY <2>1, <1>1, <1>3, <1>5 DEF SentInv, NotYet
<1>6. (pc' = "endpoints" /\ step' = step + 1) \/ (pc' = "shutdown" /\ step' = step)
  BY DEF CreateWriter
<1> QED BY <1>4, <1>5, <1>6

LEMMA ReaderSent ==
  ASSUME SentInv, NEW t \in Topics, CreateReader(t), cmd' = cmd
  PROVE  SentInv'
<1>1. /\ pc = "endpoints" /\ step < Len(Script) /\ Script[step + 1] = <<"reader", t>>
      /\ UNCHANGED <<handles, counter, lastSize, payload, sent>>
  BY DEF CreateReader, Asked, dataVars
<1>2. RegisteredHandles' = RegisteredHandles
  BY DEF RegisteredHandles, KeyOf, Byte
<1>3. sent = NoSample /\ sent' = NoSample /\ SentAsAsked'
  BY <1>1 DEF SentInv, NotYet, SentAsAsked, NoSample
<1>4. CASE pc' = "endpoints" /\ step' = step + 1
  <2>1. cmd.role = "pub" => step # 0
    BY <1>1, ScriptFacts DEF SentInv
  <2>2. Registered' => handles' = RegisteredHandles'
    BY <2>1, <1>1, <1>2, <1>4 DEF SentInv, Registered, Sending
  <2> QED BY <2>2, <1>1, <1>3, <1>4 DEF SentInv, NotYet
<1>5. CASE pc' = "shutdown" /\ step' = step
  <2>1. ~Registered'
    BY <1>5 DEF Registered, Sending
  <2> QED BY <2>1, <1>1, <1>3, <1>5 DEF SentInv, NotYet
<1>6. (pc' = "endpoints" /\ step' = step + 1) \/ (pc' = "shutdown" /\ step' = step)
  BY DEF CreateReader
<1> QED BY <1>4, <1>5, <1>6

LEMMA EndpointsSent ==
  ASSUME SentInv, EndpointsCreated, cmd' = cmd
  PROVE  SentInv'
<1>1. /\ pc = "endpoints" /\ step = Len(Script) /\ step' = 0
      /\ pc' = IF cmd.role = "pub" THEN "burst" ELSE "shutdown"
      /\ UNCHANGED <<handles, counter, lastSize, payload, sent>>
  BY DEF EndpointsCreated, Goto, dataVars
<1>2. RegisteredHandles' = RegisteredHandles
  BY DEF RegisteredHandles, KeyOf, Byte
<1>3. sent = NoSample /\ sent' = NoSample /\ SentAsAsked'
  BY <1>1 DEF SentInv, NotYet, SentAsAsked, NoSample
<1>4. Registered' => handles' = RegisteredHandles'
  <2>1. step # 0
    BY <1>1, ScriptFacts
  <2> QED BY <2>1, <1>1, <1>2 DEF SentInv, Registered, Sending
<1> QED BY <1>1, <1>3, <1>4 DEF SentInv, NotYet

\* The numbers of the instances, below that of the wildcard.
LEMMA InstanceNumbers ==
  ASSUME NEW most \in 1 .. MaxCftValue
  PROVE  /\ most \in 0 .. most
         /\ \A n \in 0 .. most - 1 : /\ n \in 0 .. most /\ n # most
                                     /\ n \in 0 .. MaxCftValue - 1
<1>1. MaxCftValue \in Nat /\ most \in Nat /\ most <= MaxCftValue
  BY MaxCftFacts
<1>2. most \in 0 .. most
  BY <1>1
<1>3. ASSUME NEW n \in 0 .. most - 1
      PROVE  n \in 0 .. most /\ n # most /\ n \in 0 .. MaxCftValue - 1
  <2>1. n \in Nat /\ n < most
    BY <1>1
  <2> QED BY <1>1, <2>1
<1> QED BY <1>2, <1>3

\* What Write sends, of an instance that is registered or of the wildcard.
LEMMA WriteSent ==
  ASSUME SentInv, NEW wild \in BOOLEAN, NEW number, NEW size, Write(wild, number, size),
         cmd' = cmd, pc \in Sending,
         cmd.instances \in 1 .. MaxCftValue,
         ~wild => number \in 0 .. cmd.instances - 1
  PROVE  /\ SentAsAsked' /\ payload' = lastSize' /\ handles' = handles
<1> DEFINE key == KeyOf(IF wild THEN MaxCftValue ELSE number)
<1>1. /\ payload' = IF FillsPayload(size) THEN size ELSE payload
      /\ lastSize' = size /\ handles' = handles
      /\ sent' = [key |-> key, handle |-> HandleIndex(wild, number), wild |-> wild,
                  number |-> number, size |-> size, carries |-> payload',
                  reaches |-> {f \in cmd.filters : Passes(f, key)}]
  BY DEF Write
<1>2. payload' = size
  BY <1>1 DEF FillsPayload, SentInv
<1>3. handles = RegisteredHandles
  BY DEF SentInv, Registered
<1>4. handles[HandleIndex(wild, number)] = key
  <2>1. CASE wild
    <3>1. HandleIndex(wild, number) = cmd.instances /\ key = KeyOf(MaxCftValue)
      BY <2>1 DEF HandleIndex
    <3>2. cmd.instances \in 0 .. cmd.instances
      BY InstanceNumbers
    <3> QED BY <3>1, <3>2, <1>3 DEF RegisteredHandles
  <2>2. CASE ~wild
    <3>1. HandleIndex(wild, number) = number /\ key = KeyOf(number)
      BY <2>2 DEF HandleIndex
    <3>2. number \in 0 .. cmd.instances /\ number # cmd.instances
      BY <2>2, InstanceNumbers
    <3> QED BY <3>1, <3>2, <1>3 DEF RegisteredHandles
  <2> QED BY <2>1, <2>2
<1>5. ASSUME NEW f \in cmd.filters
      PROVE  Passes(f, key) <=> \/ wild \/ f = <<>>
                                \/ f[1] <= number /\ number <= f[Len(f)]
  <2>1. CASE wild
    <3>1. key = KeyOf(MaxCftValue)
      BY <2>1
    <3> QED BY <2>1, <3>1, Zenon DEF Passes
  <2>2. CASE ~wild
    <3>1. key = KeyOf(number)
      BY <2>2
    <3>2. number \in 0 .. MaxCftValue - 1
      BY <2>2, InstanceNumbers
    <3>3. cmd \in Commands
      BY DEF SentInv
    <3>4. Passes(f, KeyOf(number)) <=> \/ f = <<>>
                                       \/ f[1] <= number /\ number <= f[Len(f)]
      BY <3>2, <3>3, PassesInstance
    <3> QED BY <2>2, <3>1, <3>4, Zenon
  <2> QED BY <2>1, <2>2
<1> HIDE DEF key
<1>6. /\ sent'.handle = HandleIndex(wild, number) /\ sent'.key = key /\ sent'.size = size
      /\ sent'.carries = payload' /\ sent'.number = number
      /\ sent'.wild = wild /\ sent'.reaches = {f \in cmd.filters : Passes(f, key)}
  BY <1>1
<1>7. handles'[sent'.handle] = sent'.key
  BY <1>1, <1>4, <1>6
<1>8. sent'.carries = sent'.size
  BY <1>2, <1>6
<1>9. ASSUME NEW f \in cmd'.filters
      PROVE  f \in sent'.reaches <=>
               \/ sent'.wild \/ f = <<>>
               \/ f[1] <= sent'.number /\ sent'.number <= f[Len(f)]
  BY <1>5, <1>6, Zenon
<1>10. SentAsAsked'
  BY <1>7, <1>8, <1>9, Zenon DEF SentAsAsked
<1> QED BY <1>1, <1>2, <1>10

LEMMA SendSent ==
  ASSUME KeysApart, SentInv, SendInitialize \/ SendData \/ SendFinished, cmd' = cmd
  PROVE  SentInv'
<1>1. /\ pc \in Sending /\ pc' \in Sending \cup {"shutdown"} /\ step' \in Nat
      /\ counter' \in Nat
  <2>1. step \in Nat /\ counter \in Nat
    BY DEF SentInv
  <2>2. step' \in {0, step + 1}
    BY DEF SendInitialize, SendData, SendFinished, Turn
  <2>3. counter' \in {counter, counter + 1}
    BY DEF SendInitialize, SendData, SendFinished
  <2>4. pc \in Sending /\ pc' \in Sending \cup {"shutdown"}
    <3>1. CASE SendInitialize
      BY <3>1 DEF SendInitialize, Turn, Sending
    <3>2. CASE SendData
      BY <3>2 DEF SendData, Turn, Sending
    <3>3. CASE SendFinished
      BY <3>3 DEF SendFinished, Turn, Sending
    <3> QED BY <3>1, <3>2, <3>3
  <2> QED BY <2>1, <2>2, <2>3, <2>4
<1>2. /\ NextInstance \in 0 .. cmd.instances - 1
      /\ cmd.instances \in 1 .. MaxCftValue
  BY NextInstanceBounds DEF SentInv
<1>3. SentAsAsked' /\ payload' = lastSize' /\ handles' = handles
  <2>1. CASE SendInitialize
    BY <1>1, <1>2, <2>1, WriteSent DEF SendInitialize
  <2>2. CASE SendData
    BY <1>1, <1>2, <2>2, WriteSent DEF SendData
  <2>3. CASE SendFinished
    BY <1>1, <1>2, <2>3, WriteSent DEF SendFinished
  <2> QED BY <2>1, <2>2, <2>3
<1>4. RegisteredHandles' = RegisteredHandles
  BY DEF RegisteredHandles, KeyOf, Byte
<1>5. handles' = RegisteredHandles'
  BY <1>1, <1>3, <1>4 DEF SentInv, Registered
<1>6. pc' \notin NotYet
  BY <1>1 DEF Sending, NotYet
<1> QED BY <1>1, <1>3, <1>5, <1>6 DEF SentInv

LEMMA NextSent ==
  ASSUME KeysApart, SentInv, [Next]_vars
  PROVE  SentInv'
<1> USE DEF dataVars
<1>1. CASE UNCHANGED vars
  BY <1>1, SentKept DEF vars
<1>2. CASE Next
  <2>1. cmd' = cmd
    BY <1>2 DEF Next
  <2>2. CASE Start \/ ValidateInput \/ RegisterHistories \/ ConfigureTransport
    BY <2>1, <2>2, SentKept
       DEF Start, ValidateInput, RegisterHistories, ConfigureTransport, Then, Goto,
           Sending, NotYet
  <2>3. CASE \/ DataSizeCalculations \/ CreateParticipant \/ RegisterTypes
             \/ CreatePublisher
    BY <2>1, <2>3, SentKept
       DEF DataSizeCalculations, CreateParticipant, RegisterTypes, CreatePublisher, Then,
           Goto, Sending, NotYet
  <2>4. CASE CreateSubscriber
    <3>1. step = 0
      BY <2>4 DEF SentInv, CreateSubscriber, Then, Goto, NotYet
    <3> QED BY <2>1, <2>4, <3>1, SentKept DEF CreateSubscriber, Then, Goto, Sending, NotYet
  <2>5. ASSUME NEW t \in Topics, CreateWriter(t)
        PROVE  SentInv'
    BY <2>1, <2>5, WriterSent
  <2>6. ASSUME NEW t \in Topics, CreateReader(t)
        PROVE  SentInv'
    BY <2>1, <2>6, ReaderSent
  <2>7. CASE EndpointsCreated
    BY <2>1, <2>7, EndpointsSent
  <2>8. CASE SendInitialize \/ SendData \/ SendFinished
    BY <2>1, <2>8, SendSent
  <2>9. CASE Acknowledge
    BY <2>1, <2>9, SentKept DEF Acknowledge
  <2>10. CASE Shutdown
    BY <2>1, <2>10, SentKept
       DEF Shutdown, DeleteReader, DeleteContained, DeleteParticipant, DeleteSemaphore,
           Unregister, FinalizeFactory, Goto, Sending, NotYet
  <2>11. CASE Terminated
    BY <2>1, <2>11, SentKept DEF Terminated, vars
  <2> QED BY <1>2, <2>2, <2>3, <2>4, <2>5, <2>6, <2>7, <2>8, <2>9, <2>10, <2>11 DEF Next
<1> QED BY <1>1, <1>2

\* SentAsAsked, for every number of instances, filter and payload, when the instances
\* keep clear of the wildcard: the handle, the key and the filters agree on the
\* instance of a sample, and the payload has the size that was asked for.
THEOREM SamplesAreSentAsAsked == KeysApart => (Spec => []SentAsAsked)
<1> SUFFICES ASSUME KeysApart PROVE Spec => []SentAsAsked
  OBVIOUS
<1>1. SentInv => SentAsAsked
  BY DEF SentInv
<1> QED BY <1>1, InitSent, NextSent, PTL DEF Spec

-----------------------------------------------------------------------------
(* The queue of shared memory.                                              *)

LEMMA ProductGrows ==
  ASSUME NEW a \in Nat, NEW b \in Nat, NEW c \in Nat, a <= b
  PROVE  a * c <= b * c
BY SMT

\* The parts of a division.
LEMMA Quotient ==
  ASSUME NEW n \in Nat, NEW d \in Nat \ {0}
  PROVE  /\ n \div d \in Nat
         /\ n < d * (n \div d) + d
BY SMT

\* One fragment more than fits evenly is enough for what remains.
LEMMA FragmentsCounted ==
  ASSUME NEW bytes \in Nat, NEW fragment \in Nat \ {0}
  PROVE  /\ (bytes + fragment - 1) \div fragment \in Nat
         /\ (bytes + fragment - 1) \div fragment <= bytes \div fragment + 1
         /\ bytes <= fragment * (bytes \div fragment + 1)
<1>1. bytes + fragment - 1 \in Nat
  OBVIOUS
<1> QED BY <1>1, SMT

\* Twice the send window, and one sample more, in messages and in bytes.
LEMMA WindowFits ==
  ASSUME NEW s \in Nat, NEW bytes \in Nat, NEW fragment \in Nat \ {0},
         NEW header \in Nat, NEW m \in Nat, NEW q \in Nat,
         m <= q, bytes <= fragment * q, q > 0
  PROVE  /\ 2 * (s + 1) * q > s * m
         /\ 2 * (s + 1) * q * (header + fragment) >= (s + 1) * (bytes + m * header)
<1>1. s * m <= s * q
  BY SMT, ProductGrows
<1>2. 2 * (s + 1) * q = s * q + s * q + q + q /\ s * q \in Nat
  BY SMT
<1>3. m * header <= q * header /\ m * header \in Nat /\ q * header \in Nat
      /\ fragment * q \in Nat
  BY SMT, ProductGrows
<1>4. bytes + m * header <= q * (header + fragment)
  <2>1. q * (header + fragment) = q * header + fragment * q
    BY SMT
  <2> QED BY <2>1, <1>3
<1>5. (s + 1) * (bytes + m * header) <= (s + 1) * (q * (header + fragment))
  BY <1>3, <1>4, SMT, ProductGrows
<1>6. 2 * (s + 1) * q * (header + fragment) = 2 * ((s + 1) * (q * (header + fragment)))
      /\ (s + 1) * (q * (header + fragment)) \in Nat
  BY SMT
<1> QED BY <1>1, <1>2, <1>5, <1>6

\* No size of a message is as small as the headers.
LEMMA SizesAboveHeaders ==
  ASSUME NEW c \in Commands
  PROVE  /\ \A t : SizeOf(c, t) > RtpsOverhead
         /\ LeastSize(c) > RtpsOverhead
<1>1. IsTransport(c) /\ RtpsOverhead = 512
  BY CommandAssumption DEF IsCommand, RtpsOverhead
<1>2. /\ c.messageSizeMax \in Nat /\ c.messageSizeMax \notin 1 .. 512
      /\ \A t \in DOMAIN c.profileSizes : c.profileSizes[t] \in Nat /\ c.profileSizes[t] > 512
  BY <1>1 DEF IsTransport
<1>3. \A t : SizeOf(c, t) > 512
  BY <1>2 DEF SizeOf, DefaultMessageSizeMax
<1>4. LeastSize(c) > 512
  <2>1. CASE c.messageSizeMax > 0
    BY <1>2, <2>1 DEF LeastSize
  <2>2. CASE ~(c.messageSizeMax > 0)
    <3> DEFINE sizes == {SizeOf(c, t) : t \in Considered(c)} \cup {NotSet}
    <3>1. sizes \in SUBSET Nat /\ sizes # {}
      BY SizeFacts DEF NotSet, Unlimited
    <3>2. \A n \in sizes : n > 512
      BY <1>3 DEF NotSet, Unlimited
    <3>3. \E n \in sizes : \A k \in sizes : n <= k
      BY <3>1, SmallestExists
    <3>4. LeastSize(c) = CHOOSE n \in sizes : \A k \in sizes : n <= k
      BY <2>2 DEF LeastSize
    <3>5. LeastSize(c) \in sizes
      BY <3>3, <3>4
    <3> QED BY <3>2, <3>5
  <2> QED BY <2>1, <2>2
<1> QED BY <1>1, <1>3, <1>4

\* What shared memory is cut into is what minimumMessageSizeMax announces, without
\* the headers, whether its size was given or adapted.
LEMMA FragmentIsMinimum ==
  ASSUME NEW c \in Commands, OverPro(c), ~TransportRefused(c), ShmemConfigured(c)
  PROVE  FragmentSize(c) = MinimumSize(c) - RtpsOverhead /\ FragmentSize(c) \in Nat \ {0}
<1>1. ~(SegmentFound(c) < MegaByte)
  BY DEF TransportRefused, ShmemRefused
<1>2. /\ RtpsOverhead = 512 /\ MegaByte = 1048576
      /\ LeastSize(c) \in Nat /\ LeastSize(c) > 512
      /\ SegmentFound(c) \in Int /\ WantedShmemSize(c) \in Nat
  BY LeastSizeBounds, SizesAboveHeaders, SegmentIsNumber, WantedIsNumber
     DEF RtpsOverhead, MegaByte
<1>3. CASE GivenSize(c, "shmem")
  <2>1. "shmem" \in Considered(c)
    BY DEF ShmemConfigured, Considered, PropertiesOf, Builtin
  <2>2. SizeOf(c, "shmem") \in Nat /\ LeastSize(c) <= SizeOf(c, "shmem")
    BY <2>1, LeastSizeBounds, SizeFacts
  <2>3. ShmemSize(c) = SizeOf(c, "shmem") /\ MinimumSize(c) = LeastSize(c)
    BY <1>3, ShmemBounds DEF MinimumSize
  <2> QED BY <1>2, <2>2, <2>3 DEF FragmentSize, Smaller
<1>4. CASE ~GivenSize(c, "shmem")
  <2>1. ShmemSize(c) = Smaller(WantedShmemSize(c), SegmentFound(c))
        /\ MinimumSize(c) = ShmemSize(c)
    BY <1>4 DEF ShmemSize, MinimumSize
  <2>2. WantedShmemSize(c) >= LeastSize(c)
    BY <1>2, <1>4, SizeFacts DEF WantedShmemSize, FlatHeader
  <2>3. ShmemSize(c) \in Int /\ ShmemSize(c) > 512
    BY <1>1, <1>2, <2>1, <2>2 DEF Smaller
  <2> QED BY <1>2, <2>1, <2>3 DEF FragmentSize, Smaller
<1> QED BY <1>3, <1>4

\* A participant that uses shared memory has its queue configured.
LEMMA EnabledIsConfigured ==
  ASSUME NEW c \in Commands, "shmem" \in EnabledBy(c)
  PROVE  ShmemConfigured(c)
<1>1. IsTransport(c)
  BY CommandAssumption DEF IsCommand
<1>2. \/ \E t \in AllTransports : KindOf(c) = {t}
      \/ KindOf(c) \subseteq Builtin
  <2>1. c.transport = {} \/ \E t \in AllTransports : c.transport = {t}
    BY <1>1 DEF IsTransport
  <2>2. "udpv4_wan" \in AllTransports /\ {"udpv4"} \subseteq Builtin
    BY DEF AllTransports, Builtin
  <2>3. /\ KindOf(c) \in {c.transport, {"udpv4"}, c.mask, {}}
        /\ c.transport # {} => KindOf(c) = c.transport
        /\ KindOf(c) = c.mask
             => c.mask \in Recognised \/ c.mask \in {c.transport, {"udpv4"}, {}}
    BY Zenon DEF KindOf
  <2>4. c.mask \in Recognised => c.mask \subseteq Builtin \/ c.mask = {"udpv4_wan"}
    BY DEF Recognised
  <2>5. CASE c.transport # {}
    BY <2>1, <2>3, <2>5
  <2>6. CASE c.transport = {}
    BY <2>2, <2>3, <2>4, <2>6
  <2> QED BY <2>5, <2>6
<1>3. CASE KindOf(c) \cap (Plugins \cup {"udpv4_wan"}) # {}
  <2>1. "shmem" \in KindOf(c)
    BY <1>3 DEF EnabledBy
  <2>2. "shmem" \notin Plugins /\ "shmem" # "udpv4_wan"
        /\ Builtin \cap Plugins = {} /\ "udpv4_wan" \notin Builtin
    BY DEF Plugins, Builtin
  <2> QED BY <1>2, <1>3, <2>1, <2>2
<1>4. CASE KindOf(c) \cap (Plugins \cup {"udpv4_wan"}) = {}
  <2>1. "shmem" \in MaskOf(c)
    BY <1>4 DEF EnabledBy
  <2>2. KindOf(c) \subseteq Builtin
    BY <1>2, <1>4, Zenon DEF AllTransports
  <2> QED BY <2>1, <2>2 DEF ShmemConfigured
<1> QED BY <1>3, <1>4

LEMMA SmallerGrows ==
  ASSUME NEW k \in Int, NEW a \in Int, NEW b \in Int, a <= b
  PROVE  Smaller(k, b) >= Smaller(k, a)
BY DEF Smaller

LEMMA QueueConfigured ==
  ASSUME NEW c \in Commands, ~TransportRefused(c)
  PROVE  QueueHoldsWindow(c, ConfiguredTransport(c))
<1> DEFINE t == ConfiguredTransport(c)
           bytes == ShmemPayload(c)
           fragment == t.minimum - RtpsOverhead
           m == (bytes + fragment - 1) \div fragment
           q == MessagesPerSample(c)
           s == c.sendQueueSize
<1> SUFFICES ASSUME "shmem" \in t.enabled, OverPro(c)
             PROVE  /\ t.queue > s * m
                    /\ t.buffer >= Smaller(SegmentFound(c), (s + 1) * (bytes + m * RtpsOverhead))
  BY Zenon DEF QueueHoldsWindow
<1>1. t = ProTransport(c)
  BY DEF ConfiguredTransport
<1>2. ShmemConfigured(c)
  BY <1>1, EnabledIsConfigured DEF ProTransport
<1>3. /\ fragment = FragmentSize(c) /\ fragment \in Nat \ {0}
  BY <1>1, <1>2, FragmentIsMinimum DEF ProTransport
<1>4. /\ t.queue = 2 * (s + 1) * q
      /\ t.buffer = Smaller(SegmentFound(c), 2 * (s + 1) * q * (RtpsOverhead + fragment))
      /\ q = bytes \div fragment + 1
  BY <1>1, <1>2, <1>3
     DEF ProTransport, ReceivedMessageCountMax, ReceiveBufferSize, MessagesPerSample
<1>5. bytes \in Nat /\ s \in Nat /\ RtpsOverhead \in Nat /\ SegmentFound(c) \in Int
  BY SizeFacts, SegmentIsNumber DEF ShmemPayload, RtpsOverhead
<1> HIDE DEF t, bytes, fragment, q, s
<1>6. m \in Nat /\ m <= q /\ bytes <= fragment * q
  BY <1>3, <1>4, <1>5, FragmentsCounted
<1>7. q \in Nat /\ q > 0
  BY <1>3, <1>4, <1>5, Quotient
<1> HIDE DEF m
<1>8. /\ 2 * (s + 1) * q > s * m
      /\ 2 * (s + 1) * q * (RtpsOverhead + fragment) >= (s + 1) * (bytes + m * RtpsOverhead)
  BY <1>3, <1>5, <1>6, <1>7, WindowFits
<1>9. /\ 2 * (s + 1) * q * (RtpsOverhead + fragment) \in Int
      /\ (s + 1) * (bytes + m * RtpsOverhead) \in Int
  BY <1>3, <1>5, <1>6, <1>7, SMT
<1>10. t.buffer >= Smaller(SegmentFound(c), (s + 1) * (bytes + m * RtpsOverhead))
  BY <1>4, <1>5, <1>8, <1>9, SmallerGrows
<1> QED BY <1>4, <1>8, <1>10

\* The queue is configured for the command line, once.
QueueInv ==
  /\ cmd \in Commands
  /\ transport # NoTransport => QueueHoldsWindow(cmd, transport)

LEMMA InitQueue == Init => QueueInv
BY DEF Init, QueueInv

LEMMA QueueKept ==
  ASSUME QueueInv, cmd' = cmd, transport' = transport
  PROVE  QueueInv'
BY DEF QueueInv

LEMMA NextQueue ==
  ASSUME QueueInv, [Next]_vars
  PROVE  QueueInv'
<1> USE DEF optionVars
<1>1. CASE UNCHANGED vars
  BY <1>1, QueueKept DEF vars
<1>2. CASE Next
  <2>1. cmd' = cmd
    BY <1>2 DEF Next
  <2>2. CASE ConfigureTransport
    <3>1. PICK n \in 0 .. 2 :
            /\ n > 0 => ~TransportRefused(cmd)
            /\ transport' = IF n = 2 THEN ConfiguredTransport(cmd) ELSE transport
      BY <2>2 DEF ConfigureTransport
    <3>2. CASE n = 2
      BY <2>1, <3>1, <3>2, QueueConfigured DEF QueueInv
    <3>3. CASE n # 2
      BY <2>1, <3>1, <3>3, QueueKept
    <3> QED BY <3>2, <3>3
  <2>3. CASE Start \/ ValidateInput \/ RegisterHistories \/ DataSizeCalculations
    BY <2>1, <2>3, QueueKept
       DEF Start, ValidateInput, RegisterHistories, DataSizeCalculations
  <2>4. CASE CreateParticipant \/ RegisterTypes \/ CreatePublisher \/ CreateSubscriber
    BY <2>1, <2>4, QueueKept
       DEF CreateParticipant, RegisterTypes, CreatePublisher, CreateSubscriber
  <2>5. ASSUME NEW x \in Topics, CreateWriter(x) \/ CreateReader(x)
        PROVE  QueueInv'
    BY <2>1, <2>5, QueueKept DEF CreateWriter, CreateReader
  <2>6. CASE EndpointsCreated \/ Acknowledge
    BY <2>1, <2>6, QueueKept DEF EndpointsCreated, Acknowledge
  <2>7. CASE SendInitialize \/ SendData \/ SendFinished
    BY <2>1, <2>7, QueueKept DEF SendInitialize, SendData, SendFinished, Write
  <2>8. CASE Shutdown
    BY <2>1, <2>8, QueueKept
       DEF Shutdown, DeleteReader, DeleteContained, DeleteParticipant, DeleteSemaphore,
           Unregister, FinalizeFactory
  <2>9. CASE Terminated
    BY <2>1, <2>9, QueueKept DEF Terminated, vars
  <2> QED BY <1>2, <2>2, <2>3, <2>4, <2>5, <2>6, <2>7, <2>8, <2>9 DEF Next
<1> QED BY <1>1, <1>2

\* TransportFits, for every command line and every profile: samples that are not
\* large fit the messages of every transport, and the queue of shared memory holds
\* more than the send window, as configureShmemTransport computes them.
THEOREM TransportAlwaysFits == Spec => []TransportFits
<1>1. FitInv /\ QueueInv => TransportFits
  BY DEF FitInv, QueueInv, TransportFits
<1> QED BY <1>1, InitFits, NextFits, InitQueue, NextQueue, PTL DEF Spec
=============================================================================
