--------------------------- MODULE ClassicTransport ---------------------------
(***************************************************************************)
(* PerftestConfigureTransport of the classic C++ port: from the command    *)
(* line c and the QoS profile, the transports a participant uses, the      *)
(* largest message of each, and the queue and buffer of shared memory.     *)
(*                                                                         *)
(* A kind of transport is the set of transports it stands for: {} is       *)
(* TRANSPORT_NOT_SET, {"udpv4", "shmem"} is TRANSPORT_UDPv4_SHMEM.  Sizes  *)
(* are in bytes; 512 bytes of headers are the least a message holds.       *)
(*                                                                         *)
(* GrowsWithOthers is a mistake that the code does not make.               *)
(***************************************************************************)
EXTENDS DdsQos

Builtin == {"shmem", "udpv4", "udpv6"}
Plugins == {"tcp", "tls", "dtls", "wan"}
AllTransports == Builtin \cup Plugins \cup {"udpv4_wan"}

RtpsOverhead == 512                \* TMP_COMMEND_WRITER_MAX_RTPS_OVERHEAD
DefaultMessageSizeMax == 65536
MicroUdpMessageSize == 65507
MegaByte == 1048576
MaxShmemBuffer == 116 * MegaByte
NotSet == Unlimited                \* MESSAGE_SIZE_MAX_NOT_SET
FlatHeader == 17                   \* further bytes of header of a FlatData sample

IsTransport(c) ==
  /\ c.transport \in {{}} \cup {{t} : t \in AllTransports}
  /\ c.mask \subseteq Builtin \cup {"udpv4_wan"}      \* of the profile
  /\ \A t \in DOMAIN c.profileSizes : c.profileSizes[t] \in Nat /\ c.profileSizes[t] > RtpsOverhead
  /\ c.messageSizeMax \in Nat /\ c.messageSizeMax \notin 1 .. RtpsOverhead
  /\ c.segment \in Nat                                \* the largest that can be created
  /\ c.address \in {"none", "host", "host:port"}      \* -transportPublicAddress
  /\ {c.wan, c.freePort, c.server, c.wanId, c.nic} \subseteq BOOLEAN

OverPro(c) == c.port = "pro"
IsFlat(c) == c.type \in {"flat", "zerocopy"}

MessageOverhead(c) == IF OverPro(c) THEN RtpsOverhead + 48 + 4 + 3 ELSE 600

-----------------------------------------------------------------------------
(* Which transports: the command line, or else the mask of the profile.     *)

Recognised == (SUBSET Builtin) \cup {{"udpv4_wan"}}

KindOf(c) ==
  IF c.transport # {} THEN c.transport
  ELSE IF ~OverPro(c) THEN {"udpv4"}
  ELSE IF c.mask \in Recognised THEN c.mask
  ELSE {}

\* The mask that the message sizes are taken from: a builtin transport replaces
\* that of the profile at once, a plugin only when it is configured.
MaskOf(c) ==
  IF KindOf(c) \in {{t} : t \in Builtin} THEN KindOf(c) ELSE c.mask

EnabledBy(c) ==
  IF KindOf(c) \cap (Plugins \cup {"udpv4_wan"}) # {} THEN KindOf(c) ELSE MaskOf(c)

\* TLS is configured with the properties of TCP.
PropertiesOf(t) == IF t = "tls" THEN "tcp" ELSE t

Considered(c) ==
  {PropertiesOf(t) : t \in (MaskOf(c) \cap Builtin) \cup (KindOf(c) \ Builtin)}

-----------------------------------------------------------------------------
(* The largest message: setupTransportMinimumMessageSizeMax.                *)

GivenSize(c, t) == c.messageSizeMax > 0 \/ t \in DOMAIN c.profileSizes

SizeOf(c, t) ==
  IF c.messageSizeMax > 0 THEN c.messageSizeMax
  ELSE IF t \in DOMAIN c.profileSizes THEN c.profileSizes[t]
  ELSE DefaultMessageSizeMax

LeastSize(c) ==
  LET sizes == {SizeOf(c, t) : t \in Considered(c)} \cup {NotSet}
  IN  IF c.messageSizeMax > 0 THEN c.messageSizeMax
      ELSE CHOOSE n \in sizes : \A k \in sizes : n <= k

-----------------------------------------------------------------------------
(* Shared memory: configureShmemTransport.                                  *)

ShmemConfigured(c) == "shmem" \in MaskOf(c) /\ KindOf(c) \subseteq Builtin

\* Only when shared memory is all there is its messages grow to hold a sample.
GrowsWithOthers(c) == TRUE
Grows(c) == MaskOf(c) = {"shmem"}

WantedShmemSize(c) ==
  LET sample == c.dataLen + MessageOverhead(c)
  IN  IF GivenSize(c, "shmem") THEN SizeOf(c, "shmem")
      ELSE IF ~Grows(c) \/ sample <= LeastSize(c) THEN LeastSize(c)
      ELSE IF IsFlat(c) THEN sample + FlatHeader ELSE sample

\* The search for a segment goes down by a megabyte, to the first size that can
\* be created or that is not above the least one, which is not tried.
SegmentFound(c) ==
  LET start == Larger(MaxShmemBuffer, WantedShmemSize(c))
      floor == Larger(c.segment, MegaByte)
      steps == (start - floor + MegaByte - 1) \div MegaByte
  IN  IF start <= floor THEN start ELSE start - steps * MegaByte

ShmemSize(c) ==
  IF GivenSize(c, "shmem") THEN WantedShmemSize(c)
  ELSE Smaller(WantedShmemSize(c), SegmentFound(c))

\* minimumMessageSizeMax follows the size of shared memory when that was adapted.
MinimumSize(c) ==
  IF ShmemConfigured(c) /\ ~GivenSize(c, "shmem") THEN ShmemSize(c) ELSE LeastSize(c)

\* Zero copy sends references of 16 bytes.
ShmemPayload(c) == IF c.type = "zerocopy" THEN 16 ELSE c.dataLen

FragmentSize(c) == Smaller(ShmemSize(c), MinimumSize(c)) - RtpsOverhead
MessagesPerSample(c) == ShmemPayload(c) \div FragmentSize(c) + 1

ReceivedMessageCountMax(c) == 2 * (c.sendQueueSize + 1) * MessagesPerSample(c)

ReceiveBufferSize(c) ==
  Smaller(SegmentFound(c),
          ReceivedMessageCountMax(c) * (RtpsOverhead + FragmentSize(c)))

-----------------------------------------------------------------------------
(* The whole of it.                                                         *)

TcpRefused(c) ==
  /\ KindOf(c) \in {{"tcp"}, {"tls"}}
  /\ c.wan /\ ~c.freePort /\ c.address = "none"

WanRefused(c) == KindOf(c) = {"wan"} /\ (~c.server \/ ~c.wanId)

UdpWanRefused(c) == KindOf(c) = {"udpv4_wan"} /\ c.address = "host"

ShmemRefused(c) == ShmemConfigured(c) /\ SegmentFound(c) < MegaByte

MicroRefused(c) ==
  KindOf(c) \notin {{"udpv4"}} \cup (IF c.port = "micro" THEN {{"shmem"}} ELSE {})

TransportRefused(c) ==
  IF OverPro(c)
    THEN TcpRefused(c) \/ WanRefused(c) \/ UdpWanRefused(c) \/ ShmemRefused(c)
  ELSE MicroRefused(c)

\* -nic is dropped without a transport, or when that is shared memory.
InterfacesOf(c) == IF c.nic THEN {PropertiesOf(t) : t \in KindOf(c) \ {"shmem"}} ELSE {}

ProTransport(c) ==
  [kind |-> KindOf(c), enabled |-> EnabledBy(c),
   sizes |-> [t \in Considered(c) |->
                IF t = "shmem" /\ ShmemConfigured(c) THEN ShmemSize(c) ELSE SizeOf(c, t)],
   minimum |-> MinimumSize(c),
   queue |-> IF ShmemConfigured(c) THEN ReceivedMessageCountMax(c) ELSE 0,
   buffer |-> IF ShmemConfigured(c) THEN ReceiveBufferSize(c) ELSE 0,
   interfaces |-> InterfacesOf(c)]

\* Micro: one transport, with messages of a fixed size.
MicroTransport(c) ==
  LET size == IF KindOf(c) = {"udpv4"} THEN MicroUdpMessageSize ELSE DefaultMessageSizeMax
  IN  [kind |-> KindOf(c), enabled |-> KindOf(c), sizes |-> [t \in KindOf(c) |-> size],
       minimum |-> size, queue |-> 0, buffer |-> 0, interfaces |-> InterfacesOf(c)]

NoTransport ==
  [kind |-> {}, enabled |-> {}, sizes |-> <<>>, minimum |-> NotSet, queue |-> 0,
   buffer |-> 0, interfaces |-> {}]

ConfiguredTransport(c) == IF OverPro(c) THEN ProTransport(c) ELSE MicroTransport(c)

-----------------------------------------------------------------------------
(* What a configured transport t promises a test with the command line c.   *)

\* A sample that is not taken for a large one fits, headers and all, in a message
\* of every transport there is: it is not fragmented.
SmallFits(c, t, isLarge) ==
  LET headers == MessageOverhead(c) + (IF IsFlat(c) THEN FlatHeader ELSE 0)
  IN  isLarge \/ \A k \in DOMAIN t.sizes : c.dataLen + headers <= t.sizes[k]

\* Shared memory queues more than the samples of the send window: the writer
\* blocks before messages are lost.  The largest segment there is may hold less.
QueueHoldsWindow(c, t) ==
  LET payload == ShmemPayload(c)
      fragment == t.minimum - RtpsOverhead
      messages == (payload + fragment - 1) \div fragment
  IN  "shmem" \in t.enabled /\ OverPro(c) =>
        /\ t.queue > c.sendQueueSize * messages
        /\ t.buffer >= Smaller(SegmentFound(c),
                               (c.sendQueueSize + 1) * (payload + messages * RtpsOverhead))
=============================================================================
