----------------------------- MODULE CertBinding -----------------------------
(***************************************************************************)
(* RTICertImpl, the binding of the classic C++ port to Connext Cert, in    *)
(* the two processes of a test: the publisher, PX, and the subscriber, SX. *)
(* Connext Cert discovers participants only; each process asserts, before  *)
(* it enables its participant, the endpoints that it takes the other one   *)
(* to have, with object ids that both know, and a QoS that it copies from  *)
(* its own.  An endpoint counts a match as soon as the other participant   *)
(* is discovered; samples flow only when the other process really has the  *)
(* endpoint.  Instances cannot be registered before the participant is     *)
(* enabled: wait_for_readers does it, and send with zero copy.             *)
(*                                                                         *)
(* The test that runs on top is reduced to the announcement, one message   *)
(* of the initial burst, the data and the pongs: CppSession has all of it. *)
(* SkipsLatency, EnablesEarly, SameId and ForgetsHistory are mistakes that *)
(* the code does not make.                                                 *)
(***************************************************************************)
EXTENDS DdsQos, Sequences, FiniteSets

CONSTANT Commands  \* the command lines, the same for both processes

\* The options once validate_input has seen them: with zero copy dataLen is that of the
\* build, which it puts in the place of -dataLen.
IsCommand(c) ==
  /\ c.sendQueueSize \in Nat \ {0} /\ c.instances \in Nat \ {0}
  /\ c.writeInstance \in Nat \cup {-1} /\ c.dataLen \in Nat /\ c.peers \in Nat
  /\ c.durability \in Volatile .. Persistent /\ c.sends \in Nat
  /\ {c.zerocopy, c.keyed, c.instancesSet, c.bestEffort, c.shmem,
      c.dynamic, c.fails} \subseteq BOOLEAN

ASSUME CommandAssumption == \A c \in Commands : IsCommand(c)

PX == "Perftest_cert_publisher"
SX == "Perftest_cert_subscriber"
Processes == {PX, SX}
Other(p) == IF p = PX THEN SX ELSE PX

VARIABLES
  cmd,         \* the command line of this execution: it does not change
  pc,          \* where the main thread of a process is
  step,        \* how much of the phase it is in is done
  registry,    \* components registered with the factory
  participant, \* the participant exists
  maxInst,     \* _instanceMaxCountReader
  endpoints,   \* the endpoints that exist, with their object id and QoS
  asserted,    \* the remote endpoints that a process asserted
  enabled,     \* the participant is enabled
  discovered,  \* it knows the participant of the other process
  handles,     \* _instanceHandles of the writers: the key of each
  counter,     \* _instanceCounter of the writers
  net,         \* samples on their way
  got,         \* contents that a process has received
  lastWrite    \* the last sample written

entityVars == <<registry, participant, maxInst, endpoints, asserted, enabled>>
dataVars == <<handles, counter, net, got, lastWrite>>
certVars == <<cmd, pc, step, entityVars, discovered, dataVars>>

MaxCftValue == 65535
MaxPeers == 1024
MaxBoundedSeqSize == 65448
DefaultMessageSizeMax == 65536
NoWrite == [key |-> 0, handle |-> 0]

-----------------------------------------------------------------------------
(* Object ids, and the endpoints of a test.                                 *)

\* The first digit is that of the participant, the second tells a writer (0) from
\* a reader (1), the third is of the topic.
WriterId(t) == CASE t = "Throughput" -> 101 [] t = "Latency" -> 202 [] OTHER -> 203
SameId(t) == IF t = "Throughput" THEN 211 ELSE 112
ReaderId(t) == CASE t = "Throughput" -> 211 [] t = "Latency" -> 112 [] OTHER -> 113

\* What create_writer and create_reader assert of the other process.
RemoteReader(t) ==
  CASE t = "Throughput" -> [id |-> 211, at |-> SX]
    [] t = "Latency" -> [id |-> 112, at |-> PX]
    [] OTHER -> [id |-> 113, at |-> PX]
RemoteWriter(t) ==
  CASE t = "Throughput" -> [id |-> 101, at |-> PX]
    [] t = "Latency" -> [id |-> 202, at |-> SX]
    [] OTHER -> [id |-> 203, at |-> SX]

Script(p) ==
  IF p = PX
    THEN <<<<"writer", "Throughput">>, <<"reader", "Latency">>, <<"reader", "Announcement">>>>
    ELSE <<<<"writer", "Latency">>, <<"reader", "Throughput">>, <<"writer", "Announcement">>>>

\* The order in which Publisher and Subscriber wait for their peers.
SkipsLatency(p) ==
  IF p = PX THEN Script(p) ELSE <<<<"reader", "Throughput">>, <<"writer", "Announcement">>>>
Waits(p) ==
  IF p = PX THEN Script(p)
  ELSE <<<<"reader", "Throughput">>, <<"writer", "Latency">>, <<"writer", "Announcement">>>>

\* The creation of the last endpoint enables the participant.
EnablesEarly(topic) == topic = "Latency"
Enables(topic) == topic = "Announcement"

-----------------------------------------------------------------------------
(* QoS: configure_writer_qos and configure_reader_qos.                      *)

WriterInstances == IF cmd.keyed THEN cmd.instances + 1 ELSE 1

\* All but the samples are shared out among the instances, MAX_CFT_VALUE included.
QueuePerInstance ==
  IF cmd.keyed THEN cmd.sendQueueSize \div WriterInstances ELSE cmd.sendQueueSize

Reliable(topic) == ~cmd.bestEffort

WriterQos(topic) ==
  [reliable |-> topic = "Announcement" \/ Reliable(topic),
   durability |-> CASE topic = "Announcement" -> TransientLocal
                    [] topic = "Throughput" -> cmd.durability
                    [] OTHER -> Volatile,
   initialSamples |-> 1, initialInstances |-> 1,
   maxInstances |-> WriterInstances,
   maxSamples |-> IF topic = "Throughput" THEN cmd.sendQueueSize ELSE WriterInstances,
   maxPerInstance |-> IF topic = "Throughput" THEN QueuePerInstance ELSE 1,
   keepLast |-> TRUE, depth |-> IF topic = "Throughput" THEN QueuePerInstance ELSE 1,
   heartbeats |-> IF topic # "Throughput" THEN 1
                  ELSE IF cmd.dataLen > DefaultMessageSizeMax THEN cmd.sendQueueSize
                  ELSE cmd.sendQueueSize \div 10]

SamplesOfReader(topic) ==
  IF cmd.dataLen > MaxBoundedSeqSize THEN 50
  ELSE IF topic = "Throughput" THEN 5000 ELSE 1000

\* On the way to a reader the count of instances grows twice: instances is what
\* the first of the two leaves.
ReaderQos(topic, instances) ==
  [reliable |-> topic # "Announcement" /\ Reliable(topic),
   durability |-> IF topic = "Announcement" \/ cmd.durability = Persistent THEN Volatile
                  ELSE cmd.durability,
   initialSamples |-> 1, initialInstances |-> 1,
   maxInstances |-> instances,
   maxSamples |-> SamplesOfReader(topic),
   maxPerInstance |-> IF topic = "Throughput" THEN SamplesOfReader(topic) \div instances
                      ELSE 1,
   keepLast |-> TRUE,
   depth |-> IF topic = "Throughput" THEN SamplesOfReader(topic) \div instances ELSE 1]
-----------------------------------------------------------------------------
(* initialize.                                                              *)

CertInit ==
  /\ cmd \in Commands
  /\ pc = [p \in Processes |-> "input"] /\ step = [p \in Processes |-> 0]
  /\ registry = [p \in Processes |-> {"_udp"}]
  /\ participant = [p \in Processes |-> FALSE]
  /\ maxInst = [p \in Processes |-> 1]
  /\ endpoints = [p \in Processes |-> <<>>] /\ asserted = [p \in Processes |-> {}]
  /\ enabled = [p \in Processes |-> FALSE] /\ discovered = [p \in Processes |-> FALSE]
  /\ handles = [p \in Processes |-> [t \in Topics |-> <<>>]]
  /\ counter = [p \in Processes |-> [t \in Topics |-> 0]]
  /\ net = {} /\ got = [p \in Processes |-> {}] /\ lastWrite = NoWrite

Set(f, p, x) == [f EXCEPT ![p] = x]
Goto(p, from, to) == pc[p] = from /\ pc' = Set(pc, p, to)

\* A call of the middleware that fails, where the execution has failures, leads to
\* shutdown.
Fails(p, from) == cmd.fails /\ Goto(p, from, "shutdown")

\* SHMEM is refused by the releases that Connext Cert is built from.
InputRefused ==
  \/ cmd.writeInstance > cmd.instances
  \/ cmd.peers >= MaxPeers
  \/ cmd.shmem

ValidateInput(p) ==
  /\ Goto(p, "input", IF InputRefused THEN "shutdown" ELSE "participant")
  /\ maxInst' = Set(maxInst, p, IF cmd.instancesSet THEN cmd.instances ELSE maxInst[p])
  /\ UNCHANGED <<step, registry, participant, endpoints, asserted, enabled, discovered,
                 dataVars>>

\* configure_participant_qos registers in this order; _udp makes place for the one
\* that it configures.
Components ==
  <<"wh", "rh", "dpse", "_udp">> \o (IF cmd.zerocopy THEN <<"notif">> ELSE <<>>)

RegisterComponent(p) ==
  LET c == Components[step[p] + 1]
      before == IF c = "_udp" THEN registry[p] \ {c} ELSE registry[p]
      last == step[p] + 1 = Len(Components)
  IN  /\ pc[p] = "participant"
      /\ \/ /\ Goto(p, "participant", IF last THEN "create" ELSE "participant")
            /\ step' = Set(step, p, IF last THEN 0 ELSE step[p] + 1)
            /\ registry' = Set(registry, p, before \cup {c})
         \/ /\ Fails(p, "participant")
            /\ registry' = Set(registry, p, before)
            /\ UNCHANGED step
      /\ UNCHANGED <<participant, maxInst, endpoints, asserted, enabled, discovered, dataVars>>

CreateDomainParticipant(p) ==
  /\ \/ Goto(p, "create", "entities") /\ participant' = Set(participant, p, TRUE)
     \/ Fails(p, "create") /\ UNCHANGED participant
  /\ UNCHANGED <<step, registry, maxInst, endpoints, asserted, enabled, discovered, dataVars>>

\* The type, the remote participant, publisher and subscriber.  Cert has no
\* dynamic data.
CreateEntities(p) ==
  /\ \/ Goto(p, "entities", IF cmd.dynamic THEN "shutdown" ELSE "endpoints")
     \/ Fails(p, "entities")
  /\ UNCHANGED <<step, entityVars, discovered, dataVars>>

-----------------------------------------------------------------------------
(* create_writer and create_reader.                                         *)

Put(f, x, y) == [z \in (DOMAIN f) \cup {x} |-> IF z = x THEN y ELSE f[z]]

\* The assertion has the QoS of the endpoint it is for.
Assert(p, kind, topic, remote, qos) ==
  asserted' = Set(asserted, p, asserted[p] \cup
    {[kind |-> kind, topic |-> topic, id |-> remote.id, at |-> remote.at, qos |-> qos]})

\* What follows a creation: the last endpoint enables all.
Created(p, topic) ==
  /\ enabled' = Set(enabled, p, enabled[p] \/ Enables(topic))
  /\ pc' = Set(pc, p, IF step[p] + 1 = Len(Script(p)) THEN "waiting" ELSE "endpoints")
  /\ step' = Set(step, p, IF step[p] + 1 = Len(Script(p)) THEN 0 ELSE step[p] + 1)

Asked(p, kind, topic) ==
  pc[p] = "endpoints" /\ Script(p)[step[p] + 1] = <<kind, topic>>

CreateWriter(p, topic) ==
  /\ Asked(p, "writer", topic)
  /\ LET qos == WriterQos(topic)
     IN  /\ endpoints' = Set(endpoints, p, Put(endpoints[p], <<"writer", topic>>,
                                               [id |-> WriterId(topic), qos |-> qos]))
         /\ Assert(p, "reader", topic, RemoteReader(topic), qos)
  /\ Created(p, topic)
  /\ UNCHANGED <<registry, participant, maxInst, discovered, dataVars>>

CreateReader(p, topic) ==
  /\ Asked(p, "reader", topic)
  /\ maxInst' = Set(maxInst, p, maxInst[p] + 2)
  /\ LET qos == ReaderQos(topic, maxInst[p] + 1)
     IN  /\ endpoints' = Set(endpoints, p, Put(endpoints[p], <<"reader", topic>>,
                                               [id |-> ReaderId(topic), qos |-> qos]))
         /\ Assert(p, "writer", topic, RemoteWriter(topic), qos)
  /\ Created(p, topic)
  /\ UNCHANGED <<registry, participant, discovered, dataVars>>

CreationFails(p) ==
  /\ Fails(p, "endpoints")
  /\ UNCHANGED <<step, entityVars, discovered, dataVars>>

-----------------------------------------------------------------------------
(* Discovery and wait_for_readers, wait_for_writers.                        *)

Discover(p) ==
  /\ enabled[p] /\ enabled[Other(p)] /\ ~discovered[p]
  /\ discovered' = Set(discovered, p, TRUE)
  /\ UNCHANGED <<pc, step, entityVars, dataVars>>

\* The endpoints that an endpoint counts as matched.
Matches(p, kind, topic) ==
  {r \in asserted[p] :
     /\ discovered[p] /\ r.at = Other(p) /\ r.topic = topic /\ r.kind # kind
     /\ <<kind, topic>> \in DOMAIN endpoints[p]
     /\ LET q == endpoints[p][<<kind, topic>>].qos
        IN  IF kind = "writer" THEN Compatible(q, r.qos) ELSE Compatible(r.qos, q)}

\* All instances, and last the one of MAX_CFT_VALUE.
AllHandles == [i \in 0 .. cmd.instances |-> IF i = cmd.instances THEN MaxCftValue ELSE i]

\* wait_for_readers first registers the instances, but not with zero copy.
RegisterInstances(p) ==
  /\ pc[p] = "waiting" /\ Waits(p)[step[p] + 1][1] = "writer"
  /\ LET t == Waits(p)[step[p] + 1][2]
     IN  /\ ~cmd.zerocopy /\ handles[p][t] # AllHandles
         /\ handles' = [handles EXCEPT ![p][t] = AllHandles]
  /\ UNCHANGED <<pc, step, entityVars, discovered, counter, net, got, lastWrite>>

PeerFound(p) ==
  LET next == Waits(p)[step[p] + 1]
      last == step[p] + 1 = Len(Waits(p))
  IN  /\ pc[p] = "waiting"
      /\ Matches(p, next[1], next[2]) # {}
      /\ next[1] = "writer" => cmd.zerocopy \/ handles[p][next[2]] = AllHandles
      /\ Goto(p, "waiting", IF last THEN "announcing" ELSE "waiting")
      /\ step' = Set(step, p, IF last THEN 0 ELSE step[p] + 1)
      /\ UNCHANGED <<entityVars, discovered, dataVars>>

-----------------------------------------------------------------------------
(* CertPublisher and ZCopyCertPublisher: send.                              *)

NextInstance(p, topic) ==
  IF cmd.instances = 1 THEN 0
  ELSE IF cmd.writeInstance = -1 THEN counter[p][topic] % cmd.instances
  ELSE cmd.writeInstance

\* With zero copy every send registers all instances before it writes.
HandlesAtSend(p, topic) == IF cmd.zerocopy THEN AllHandles ELSE handles[p][topic]

\* The write succeeds: the failures of send, and with zero copy that of get_loan, are
\* left out.
Send(p, topic, what, wild) ==
  LET key == IF wild THEN MaxCftValue ELSE NextInstance(p, topic)
      index == IF wild THEN cmd.instances ELSE key
      table == HandlesAtSend(p, topic)
  IN  /\ handles' = [handles EXCEPT ![p][topic] = table]
      /\ counter' = IF ~wild /\ cmd.instances > 1 /\ cmd.writeInstance = -1
                      THEN [counter EXCEPT ![p][topic] = @ + 1] ELSE counter
      /\ lastWrite' = [key |-> key,
                       handle |-> IF index \in DOMAIN table THEN table[index] ELSE -1]
      /\ net' = net \cup {[from |-> [id |-> endpoints[p][<<"writer", topic>>].id, at |-> p],
                           to |-> r, topic |-> topic, what |-> what] :
                             r \in {[id |-> m.id, at |-> m.at] :
                                      m \in Matches(p, "writer", topic)}}

\* The subscriber announces itself until it gets a sample; once is enough here, as
\* no sample is lost.
Announce ==
  /\ pc[SX] = "announcing" /\ got[SX] = {} /\ net = {}
  /\ Send(SX, "Announcement", "announcement", FALSE)
  /\ UNCHANGED <<pc, step, entityVars, discovered, got>>

\* The publisher waits for the announcement, then sends the burst and the data.
SendInitialize ==
  /\ "announcement" \in got[PX]
  /\ Goto(PX, "announcing", "sending")
  /\ Send(PX, "Throughput", "initialize", TRUE)
  /\ UNCHANGED <<step, entityVars, discovered, got>>

SendData ==
  /\ pc[PX] = "sending" /\ step[PX] < cmd.sends
  /\ Send(PX, "Throughput", "data", FALSE)
  /\ step' = Set(step, PX, step[PX] + 1)
  /\ UNCHANGED <<pc, entityVars, discovered, got>>

\* A sample reaches a reader with the id it is sent to, if the process of the
\* reader asserted the writer.
Reaches(m) ==
  LET p == m.to.at
  IN  /\ enabled[p] /\ discovered[p]
      /\ <<"reader", m.topic>> \in DOMAIN endpoints[p]
      /\ endpoints[p][<<"reader", m.topic>>].id = m.to.id
      /\ \E a \in asserted[p] : a.kind = "writer" /\ a.topic = m.topic
                                /\ a.id = m.from.id /\ a.at = m.from.at

\* The listeners: the subscriber answers to each sample, in the thread of the
\* middleware, whatever its main thread does.
Receive(m) ==
  LET p == m.to.at
  IN  /\ m \in net /\ Reaches(m)
      /\ m.what \notin got[p]
      /\ got' = [got EXCEPT ![p] = @ \cup {m.what}]
      /\ IF m.topic = "Throughput" THEN Send(SX, "Latency", m.what, FALSE)
         ELSE UNCHANGED <<handles, counter, net, lastWrite>>
      /\ UNCHANGED <<pc, step, entityVars, discovered>>

\* What this module follows of the test is over.
Finish(p) ==
  /\ pc[p] \in {"announcing", "sending"}
  /\ "data" \in got[p] /\ (p = PX => step[p] = cmd.sends)
  /\ pc' = Set(pc, p, "stopped")
  /\ UNCHANGED <<step, entityVars, discovered, dataVars>>

-----------------------------------------------------------------------------
(* shutdown: the destructor runs the one of RTICertImplBase.  Nothing of the   *)
(* binding deletes a participant, and the components that it uses stay.        *)

ForgetsHistory == {"dpse", "_udp", "rh"}
Unregistered == {"dpse", "_udp", "rh", "wh"}

Shutdown(p) ==
  /\ Goto(p, "shutdown", "gone")
  /\ registry' = Set(registry, p, IF participant[p] THEN registry[p]
                                  ELSE registry[p] \ Unregistered)
  /\ UNCHANGED <<step, participant, maxInst, endpoints, asserted, enabled, discovered, dataVars>>

Process(p) ==
  \/ ValidateInput(p) \/ RegisterComponent(p)
  \/ CreateDomainParticipant(p) \/ CreateEntities(p)
  \/ \E t \in Topics : CreateWriter(p, t) \/ CreateReader(p, t)
  \/ CreationFails(p) \/ RegisterInstances(p) \/ PeerFound(p)
  \/ Finish(p) \/ Shutdown(p)

Test == Announce \/ SendInitialize \/ SendData
Middleware == (\E p \in Processes : Discover(p)) \/ (\E m \in net : Receive(m))

CertNext ==
  /\ \/ \E p \in Processes : Process(p)
     \/ Test
     \/ Middleware
  /\ UNCHANGED cmd

CertSpec == CertInit /\ [][CertNext]_certVars

\* Both processes run, participants are discovered and samples delivered.
CertFairSpec ==
  /\ CertSpec
  /\ \A p \in Processes : WF_certVars(Process(p) /\ UNCHANGED cmd)
  /\ WF_certVars(Test /\ UNCHANGED cmd)
  /\ WF_certVars(Middleware /\ UNCHANGED cmd)

-----------------------------------------------------------------------------
(* Properties.                                                              *)

\* No sample is written with a handle that was not registered for its key: the
\* handles of a publisher are memory from malloc until wait_for_readers fills
\* them, and the pongs of the subscriber are written by the listener thread.
HandlesRegistered ==
  cmd.writeInstance < cmd.instances => lastWrite.handle = lastWrite.key

\* An endpoint counts as matched only what the other process has: an assertion is
\* never ahead of the endpoint that it stands for.
MatchedEndpointsExist ==
  \A p \in Processes, kind \in {"writer", "reader"}, t \in Topics :
    \A r \in Matches(p, kind, t) :
      \E e \in DOMAIN endpoints[r.at] :
        e = <<r.kind, t>> /\ endpoints[r.at][e].id = r.id

\* A test that a failure or a wrong command line stops before it has a participant
\* leaves no component registered.
RegistryEmptied ==
  ~cmd.zerocopy => \A p \in Processes :
    pc[p] = "gone" /\ ~participant[p] => registry[p] = {}

\* Both processes find each other and exchange samples and pongs, if nothing fails.
BothRun ==
  (~cmd.fails /\ ~cmd.dynamic /\ ~InputRefused) ~> \A p \in Processes : "data" \in got[p]

\* What a reader requests, the writer of its topic offers.
RequestedIsOffered ==
  \A p \in Processes, t \in Topics :
    <<"reader", t>> \in DOMAIN endpoints[p] /\ <<"writer", t>> \in DOMAIN endpoints[Other(p)]
    => Compatible(endpoints[Other(p)][<<"writer", t>>].qos, endpoints[p][<<"reader", t>>].qos)
=============================================================================
