------------------------------ MODULE CsSession ------------------------------
(***************************************************************************)
(* The life of a test session of the C# port: the publisher and subscriber *)
(* processes of one run, from discovery to the end of the test, over the   *)
(* throughput and announcement topics.                                     *)
(*                                                                         *)
(* Each process runs Perftest.Publisher or Perftest.Subscriber on its main *)
(* thread; the middleware calls the listeners (AnnouncementListener at the *)
(* publishers, ThroughputListener at the subscribers) on its own threads.  *)
(*                                                                         *)
(* A DDS topic is modelled as the log of one writer and, for every reader, *)
(* a cursor into that log.  Publisher p has written burst[p] INITIALIZE    *)
(* samples, then loop[p] data samples, then tries[p] FINISHED samples, so  *)
(* its log is determined by these three loop counters of the code; a       *)
(* subscriber's announcement log is an INITIALIZE and then a FINISHED.     *)
(* Ping scheduling and the statistics have modules of their own.           *)
(*                                                                         *)
(* KindShort, SomeAnnounced, WaitsForPongForever, OneTryTooFew,            *)
(* PubExitWhenQuiet and FirstFinished are mistakes that the code does not  *)
(* make: each of them, put in the place of the definition that follows it, *)
(* breaks one of the properties at the end of the module.                  *)
(***************************************************************************)
EXTENDS Integers, FiniteSets

CONSTANTS
  NumPublishers,           \* -numPublishers, the same at every subscriber
  NumSubscribers,          \* -numSubscribers, the same at every publisher
  NumIter,                 \* -numIter: samples a publisher sends
  DataSize,                \* what message.Size of a data sample is taken for
  InitializeSampleCount,   \* initialization samples of the initial burst
  AnnouncementSampleCount, \* FINISHED samples sent at most (50 in the code)
  SendQueueSize,           \* -sendQueueSize: unacknowledged samples a writer keeps
  MaxLosses,               \* bound on samples lost between a writer and a reader
  Modes                    \* the options of the sessions, and what may happen in them

ASSUME CountAssumption ==
  /\ NumPublishers \in Nat \ {0}
  /\ NumSubscribers \in Nat \ {0}
  /\ NumIter \in Nat
  /\ InitializeSampleCount \in Nat
  /\ AnnouncementSampleCount \in Nat \ {0}
  /\ SendQueueSize \in Nat \ {0}
  /\ MaxLosses \in Nat

\* The kind of a sample is told by its size alone: INITIALIZE_SIZE, FINISHED_SIZE
\* or any other.  ParseConfig accepts a -dataLen that gives a data sample one of
\* the first two sizes (1262 and 1263).
ASSUME SizeAssumption == DataSize \in {"DATA", "INITIALIZE", "FINISHED"}

ModeFlags == {"reliable", "latencyTest", "executionTime", "interrupts", "slowNetwork"}

ASSUME ModeAssumption == Modes \subseteq [ModeFlags -> BOOLEAN]

VARIABLE mode  \* of this session: it does not change

Reliable == mode.reliable            \* FALSE with -bestEffort
LatencyTest == mode.latencyTest      \* -latencyTest on publisher 0, one ping per sample
ExecutionTime == mode.executionTime  \* a publisher was given -executionTime
Interrupts == mode.interrupts        \* the user may press Ctrl-C
SlowNetwork == mode.slowNetwork      \* samples may be later than WaitForAck's 10 ms, or
                                     \* than the news that their writer is gone

Pubs == 0 .. NumPublishers - 1
Subs == 0 .. NumSubscribers - 1

VARIABLES
  pubPc,              \* where the main thread of a publisher is
  pubSees,            \* the subscribers whose endpoints a publisher has matched
  pubCompleted,       \* testCompleted of a publisher process
  activeSubscribers,  \* AnnouncementListener.activeSubscribers
  burst,              \* INITIALIZE samples written
  loop,               \* data samples written
  tries,              \* FINISHED samples written
  subPc,              \* where the main thread of a subscriber is
  subSees,            \* the publishers whose endpoints a subscriber has matched
  subCompleted,       \* testCompleted of a subscriber process
  finishedPublishers, \* ThroughputListener.finishedPublishers
  endTest,            \* ThroughputListener.endTest
  read,               \* read[p][s]: samples of p that s has taken or missed
  lost,               \* lost[p][s]: samples of p lost on the way to s
  annSent,            \* announcements a subscriber has written
  annRead             \* annRead[p][s]: announcements of s that p has taken

pubVars == <<pubPc, pubSees, pubCompleted, burst, loop, tries>>
subVars == <<subPc, subSees, subCompleted, annSent>>
listenerVars == <<finishedPublishers, endTest, read, lost>>
annVars == <<activeSubscribers, annRead>>
vars == <<mode, pubVars, subVars, listenerVars, annVars>>

PubPhases == {"discover", "announce", "burst", "data", "ping", "finish", "ack",
              "done", "failed"}
SubPhases == {"discover", "poll", "drain", "done", "failed"}

PubExited(p) == pubPc[p] \in {"done", "failed"}
SubExited(s) == subPc[s] \in {"done", "failed"}

\* The samples publisher p has written so far, and what the i-th is taken for.
Written(p) == burst[p] + loop[p] + tries[p]

KindShort(p, i) ==
  IF i <= burst[p] THEN "INITIALIZE"
  ELSE IF i < burst[p] + loop[p] THEN DataSize ELSE "FINISHED"

Kind(p, i) ==
  IF i <= burst[p] THEN "INITIALIZE"
  ELSE IF i <= burst[p] + loop[p] THEN DataSize ELSE "FINISHED"

\* A strictly reliable writer blocks while a matched reader is a whole send
\* queue behind (max_blocking_time is infinite).
HasRoom(p) ==
  Reliable => \A s \in pubSees[p] : Written(p) - read[p][s] < SendQueueSize

Acknowledged(p) == \A s \in pubSees[p] : read[p][s] = Written(p)

Init ==
  /\ mode \in Modes
  /\ pubPc = [p \in Pubs |-> "discover"]
  /\ pubSees = [p \in Pubs |-> {}]
  /\ pubCompleted = [p \in Pubs |-> FALSE]
  /\ activeSubscribers = [p \in Pubs |-> {}]
  /\ burst = [p \in Pubs |-> 0]
  /\ loop = [p \in Pubs |-> 0]
  /\ tries = [p \in Pubs |-> 0]
  /\ subPc = [s \in Subs |-> "discover"]
  /\ subSees = [s \in Subs |-> {}]
  /\ subCompleted = [s \in Subs |-> FALSE]
  /\ finishedPublishers = [s \in Subs |-> {}]
  /\ endTest = [s \in Subs |-> FALSE]
  /\ read = [p \in Pubs |-> [s \in Subs |-> 0]]
  /\ lost = [p \in Pubs |-> [s \in Subs |-> 0]]
  /\ annSent = [s \in Subs |-> 0]
  /\ annRead = [p \in Pubs |-> [s \in Subs |-> 0]]

-----------------------------------------------------------------------------
(* The middleware: discovery, loss, and the two ways a run is cut short.    *)

\* The three endpoints of s become matched at p.
PubDiscoversSub(p, s) ==
  /\ ~PubExited(p) /\ ~SubExited(s)
  /\ s \notin pubSees[p]
  /\ pubSees' = [pubSees EXCEPT ![p] = @ \cup {s}]
  /\ UNCHANGED <<pubPc, pubCompleted, burst, loop, tries>>
  /\ UNCHANGED <<subVars, listenerVars, annVars>>

\* The three endpoints of p become matched at s.
SubDiscoversPub(s, p) ==
  /\ ~PubExited(p) /\ ~SubExited(s)
  /\ p \notin subSees[s]
  /\ subSees' = [subSees EXCEPT ![s] = @ \cup {p}]
  /\ UNCHANGED <<subPc, subCompleted, annSent>>
  /\ UNCHANGED <<pubVars, listenerVars, annVars>>

\* p notices that s has disposed of its participant.
PubForgetsSub(p, s) ==
  /\ SubExited(s)
  /\ s \in pubSees[p]
  /\ pubSees' = [pubSees EXCEPT ![p] = @ \ {s}]
  /\ UNCHANGED <<pubPc, pubCompleted, burst, loop, tries>>
  /\ UNCHANGED <<subVars, listenerVars, annVars>>

\* s notices that p has disposed of its participant.
SubForgetsPub(s, p) ==
  /\ PubExited(p)
  /\ p \in subSees[s]
  /\ ~SlowNetwork => read[p][s] = Written(p)
  /\ subSees' = [subSees EXCEPT ![s] = @ \ {p}]
  /\ UNCHANGED <<subPc, subCompleted, annSent>>
  /\ UNCHANGED <<pubVars, listenerVars, annVars>>

\* A best-effort sample is lost on the wire, or dropped by a reader that has
\* not matched the writer.
LoseSample(p, s) ==
  /\ ~Reliable
  /\ read[p][s] < Written(p)
  /\ p \in subSees[s] => lost[p][s] < MaxLosses
  /\ read' = [read EXCEPT ![p][s] = @ + 1]
  /\ lost' = [lost EXCEPT ![p][s] = IF p \in subSees[s] THEN @ + 1 ELSE @]
  /\ UNCHANGED <<finishedPublishers, endTest>>
  /\ UNCHANGED <<pubVars, subVars, annVars>>

\* Ctrl-C, or the -executionTime timer that is armed before the sending loop.
CompletePub(p) ==
  /\ ~PubExited(p)
  /\ ~pubCompleted[p]
  /\ \/ Interrupts
     \/ ExecutionTime /\ pubPc[p] \in {"data", "ping", "finish", "ack"}
  /\ pubCompleted' = [pubCompleted EXCEPT ![p] = TRUE]
  /\ UNCHANGED <<pubPc, pubSees, burst, loop, tries>>
  /\ UNCHANGED <<subVars, listenerVars, annVars>>

CompleteSub(s) ==
  /\ Interrupts
  /\ ~SubExited(s)
  /\ ~subCompleted[s]
  /\ subCompleted' = [subCompleted EXCEPT ![s] = TRUE]
  /\ UNCHANGED <<subPc, subSees, annSent>>
  /\ UNCHANGED <<pubVars, listenerVars, annVars>>

-----------------------------------------------------------------------------
(* The publisher: Perftest.Publisher and AnnouncementListener.              *)

PubGoto(p, phase) == pubPc' = [pubPc EXCEPT ![p] = phase]

\* The subscriber that was asked to echo the last sample has taken it, and so
\* has written the pong.  A FINISHED is not echoed, and LatencyListener passes
\* over an echoed INITIALIZE.
PingEchoed(p) ==
  DataSize = "DATA" /\ read[p][(loop[p] - 1) % NumSubscribers] = Written(p)

\* What the two loops before the burst wait for, by their counts.
AllMatched(p) == Cardinality(pubSees[p]) >= NumSubscribers

SomeAnnounced(p) == activeSubscribers[p] # {}

AllAnnounced(p) == Cardinality(activeSubscribers[p]) >= NumSubscribers

\* The waits that testCompleted cuts short, with Publisher returning FALSE: the
\* discovery loops, and the 100 ms polls for the pong of a reliable latency test.
WaitsForPongForever(p) == pubPc[p] \in {"discover", "announce"}

WaitCutShort(p) ==
  \/ pubPc[p] \in {"discover", "announce"}
  \/ pubPc[p] = "ping" /\ Reliable /\ ~PingEchoed(p)

\* The condition of the FINISHED loop.
OneTryTooFew(p) ==
  activeSubscribers[p] # {} /\ tries[p] < AnnouncementSampleCount - 1

KeepsFinishing(p) ==
  activeSubscribers[p] # {} /\ tries[p] < AnnouncementSampleCount

\* WaitForReaders and WaitForWriters return TRUE: every subscriber is matched.
PubDiscovered(p) ==
  /\ pubPc[p] = "discover"
  /\ AllMatched(p)
  /\ PubGoto(p, "announce")
  /\ UNCHANGED <<pubSees, pubCompleted, burst, loop, tries>>
  /\ UNCHANGED <<subVars, listenerVars, annVars>>

\* AnnouncementListener.ProcessMessage, on the announcement reader of p.
ProcessAnnouncement(p, s) ==
  /\ ~PubExited(p)
  /\ s \in pubSees[p]
  /\ annRead[p][s] < annSent[s]
  /\ annRead' = [annRead EXCEPT ![p][s] = @ + 1]
  /\ activeSubscribers' = [activeSubscribers EXCEPT ![p] =
       IF annRead[p][s] = 0 THEN @ \cup {s} ELSE @ \ {s}]
  /\ UNCHANGED <<pubVars, subVars, listenerVars>>

\* The announcement loop ends because every subscriber has announced itself.
PubAnnounced(p) ==
  /\ pubPc[p] = "announce"
  /\ AllAnnounced(p)
  /\ ~pubCompleted[p]
  /\ PubGoto(p, "burst")
  /\ UNCHANGED <<pubSees, pubCompleted, burst, loop, tries>>
  /\ UNCHANGED <<subVars, listenerVars, annVars>>

PubAborted(p) ==
  /\ pubCompleted[p]
  /\ WaitCutShort(p)
  /\ PubGoto(p, "failed")
  /\ UNCHANGED <<pubSees, pubCompleted, burst, loop, tries>>
  /\ UNCHANGED <<subVars, listenerVars, annVars>>

SendInitialize(p) ==
  /\ pubPc[p] = "burst"
  /\ burst[p] < InitializeSampleCount
  /\ HasRoom(p)
  /\ burst' = [burst EXCEPT ![p] = @ + 1]
  /\ UNCHANGED <<pubPc, pubSees, pubCompleted, loop, tries>>
  /\ UNCHANGED <<subVars, listenerVars, annVars>>

\* The burst is out; one second later the sending loop starts.
StartSending(p) ==
  /\ pubPc[p] = "burst"
  /\ burst[p] = InitializeSampleCount
  /\ PubGoto(p, "data")
  /\ UNCHANGED <<pubSees, pubCompleted, burst, loop, tries>>
  /\ UNCHANGED <<subVars, listenerVars, annVars>>

\* One turn of the sending loop; in a latency test publisher 0 then waits.
SendData(p) ==
  /\ pubPc[p] = "data"
  /\ loop[p] < NumIter
  /\ ~pubCompleted[p]
  /\ HasRoom(p)
  /\ loop' = [loop EXCEPT ![p] = @ + 1]
  /\ PubGoto(p, IF LatencyTest /\ p = 0 THEN "ping" ELSE "data")
  /\ UNCHANGED <<pubSees, pubCompleted, burst, tries>>
  /\ UNCHANGED <<subVars, listenerVars, annVars>>

\* WaitForPingResponse returns: the pong arrived or, in best effort, 200 ms
\* passed.
PingAnswered(p) ==
  /\ pubPc[p] = "ping"
  /\ Reliable => PingEchoed(p)
  /\ PubGoto(p, "data")
  /\ UNCHANGED <<pubSees, pubCompleted, burst, loop, tries>>
  /\ UNCHANGED <<subVars, listenerVars, annVars>>

StopSending(p) ==
  /\ pubPc[p] = "data"
  /\ loop[p] = NumIter \/ pubCompleted[p]
  /\ PubGoto(p, "finish")
  /\ UNCHANGED <<pubSees, pubCompleted, burst, loop, tries>>
  /\ UNCHANGED <<subVars, listenerVars, annVars>>

SendFinished(p) ==
  /\ pubPc[p] = "finish"
  /\ KeepsFinishing(p)
  /\ HasRoom(p)
  /\ tries' = [tries EXCEPT ![p] = @ + 1]
  /\ PubGoto(p, "ack")
  /\ UNCHANGED <<pubSees, pubCompleted, burst, loop>>
  /\ UNCHANGED <<subVars, listenerVars, annVars>>

\* WaitForAck: acknowledged, timed out after 10 ms, or a plain sleep.
AckWaited(p) ==
  /\ pubPc[p] = "ack"
  /\ (Reliable /\ ~SlowNetwork) => Acknowledged(p)
  /\ PubGoto(p, "finish")
  /\ UNCHANGED <<pubSees, pubCompleted, burst, loop, tries>>
  /\ UNCHANGED <<subVars, listenerVars, annVars>>

PubExitWhenQuiet(p) ==
  /\ pubPc[p] = "finish"
  /\ activeSubscribers[p] = {}
  /\ PubGoto(p, "done")
  /\ UNCHANGED <<pubSees, pubCompleted, burst, loop, tries>>
  /\ UNCHANGED <<subVars, listenerVars, annVars>>

PubExit(p) ==
  /\ pubPc[p] = "finish"
  /\ ~KeepsFinishing(p)
  /\ PubGoto(p, "done")
  /\ UNCHANGED <<pubSees, pubCompleted, burst, loop, tries>>
  /\ UNCHANGED <<subVars, listenerVars, annVars>>

-----------------------------------------------------------------------------
(* The subscriber: Perftest.Subscriber and ThroughputListener.              *)

SubGoto(s, phase) == subPc' = [subPc EXCEPT ![s] = phase]

\* What WaitForWriters and the FINISHED count wait for.
AllWritersMatched(s) == Cardinality(subSees[s]) >= NumPublishers

FirstFinished(finished) == finished # {}

AllFinished(finished) == Cardinality(finished) >= NumPublishers

\* Every publisher is matched: the subscriber announces itself, once.
SubAnnounce(s) ==
  /\ subPc[s] = "discover"
  /\ AllWritersMatched(s)
  /\ annSent' = [annSent EXCEPT ![s] = 1]
  /\ SubGoto(s, "poll")
  /\ UNCHANGED <<subSees, subCompleted>>
  /\ UNCHANGED <<pubVars, listenerVars, annVars>>

SubAborted(s) ==
  /\ subPc[s] = "discover"
  /\ subCompleted[s]
  /\ SubGoto(s, "failed")
  /\ UNCHANGED <<subSees, subCompleted, annSent>>
  /\ UNCHANGED <<pubVars, listenerVars, annVars>>

\* ThroughputListener.ProcessMessage for the next sample of p.
ProcessMessage(s, p) ==
  /\ ~SubExited(s)
  /\ p \in subSees[s]
  /\ read[p][s] < Written(p)
  /\ read' = [read EXCEPT ![p][s] = @ + 1]
  /\ IF Kind(p, read[p][s] + 1) = "FINISHED" /\ ~endTest[s]
       THEN /\ finishedPublishers' = [finishedPublishers EXCEPT ![s] = @ \cup {p}]
            /\ endTest' = [endTest EXCEPT ![s] = AllFinished(finishedPublishers'[s])]
       ELSE UNCHANGED <<finishedPublishers, endTest>>
  /\ UNCHANGED lost
  /\ UNCHANGED <<pubVars, subVars, annVars>>

\* The one-second poll finds endTest set and announces the end.
SubFinish(s) ==
  /\ subPc[s] = "poll"
  /\ endTest[s]
  /\ annSent' = [annSent EXCEPT ![s] = 2]
  /\ SubGoto(s, "drain")
  /\ UNCHANGED <<subSees, subCompleted>>
  /\ UNCHANGED <<pubVars, listenerVars, annVars>>

\* The head of the poll loop finds testCompleted set.
SubInterrupted(s) ==
  /\ subPc[s] = "poll"
  /\ subCompleted[s]
  /\ SubGoto(s, "drain")
  /\ UNCHANGED <<subSees, subCompleted, annSent>>
  /\ UNCHANGED <<pubVars, listenerVars, annVars>>

\* After a last second of sleep the process disposes of its participant.
SubExit(s) ==
  /\ subPc[s] = "drain"
  /\ SubGoto(s, "done")
  /\ UNCHANGED <<subSees, subCompleted, annSent>>
  /\ UNCHANGED <<pubVars, listenerVars, annVars>>

-----------------------------------------------------------------------------
PubStep(p) ==
  \/ PubDiscovered(p) \/ PubAnnounced(p) \/ PubAborted(p)
  \/ SendInitialize(p) \/ StartSending(p)
  \/ SendData(p) \/ PingAnswered(p) \/ StopSending(p)
  \/ SendFinished(p) \/ AckWaited(p) \/ PubExit(p)

SubStep(s) ==
  SubAnnounce(s) \/ SubAborted(s) \/ SubFinish(s) \/ SubInterrupted(s) \/ SubExit(s)

Matching(p, s) ==
  \/ PubDiscoversSub(p, s) \/ SubDiscoversPub(s, p)
  \/ PubForgetsSub(p, s) \/ SubForgetsPub(s, p)

\* Every process has returned from Main.
Terminated ==
  /\ \A p \in Pubs : PubExited(p)
  /\ \A s \in Subs : SubExited(s)
  /\ UNCHANGED vars

Step ==
  \/ \E p \in Pubs : PubStep(p) \/ CompletePub(p)
  \/ \E s \in Subs : SubStep(s) \/ CompleteSub(s)
  \/ \E p \in Pubs, s \in Subs :
       \/ Matching(p, s) \/ LoseSample(p, s)
       \/ ProcessAnnouncement(p, s) \/ ProcessMessage(s, p)
  \/ Terminated

Next == Step /\ UNCHANGED mode

Spec == Init /\ [][Next]_vars

\* Threads are scheduled and the middleware delivers; nothing forces Ctrl-C,
\* a timer that fires, or a loss.
Fairness ==
  /\ \A p \in Pubs : WF_vars(PubStep(p) /\ UNCHANGED mode)
  /\ \A s \in Subs : WF_vars(SubStep(s) /\ UNCHANGED mode)
  /\ \A p \in Pubs, s \in Subs :
       /\ WF_vars(PubDiscoversSub(p, s) /\ UNCHANGED mode)
       /\ WF_vars(SubDiscoversPub(s, p) /\ UNCHANGED mode)
       /\ WF_vars(PubForgetsSub(p, s) /\ UNCHANGED mode)
       /\ WF_vars(SubForgetsPub(s, p) /\ UNCHANGED mode)
       /\ WF_vars(ProcessAnnouncement(p, s) /\ UNCHANGED mode)
       /\ WF_vars(ProcessMessage(s, p) /\ UNCHANGED mode)

FairSpec == Spec /\ Fairness

-----------------------------------------------------------------------------
(* Correctness.                                                             *)

\* Types, and the counters within the bounds of their loops.
TypeOK ==
  /\ mode \in Modes
  /\ pubPc \in [Pubs -> PubPhases]
  /\ pubSees \in [Pubs -> SUBSET Subs]
  /\ pubCompleted \in [Pubs -> BOOLEAN]
  /\ activeSubscribers \in [Pubs -> SUBSET Subs]
  /\ burst \in [Pubs -> 0 .. InitializeSampleCount]
  /\ loop \in [Pubs -> 0 .. NumIter]
  /\ tries \in [Pubs -> 0 .. AnnouncementSampleCount]
  /\ subPc \in [Subs -> SubPhases]
  /\ subSees \in [Subs -> SUBSET Pubs]
  /\ subCompleted \in [Subs -> BOOLEAN]
  /\ finishedPublishers \in [Subs -> SUBSET Pubs]
  /\ endTest \in [Subs -> BOOLEAN]
  /\ read \in [Pubs -> [Subs -> Nat]]
  /\ lost \in [Pubs -> [Subs -> 0 .. MaxLosses]]
  /\ annSent \in [Subs -> 0 .. 2]
  /\ annRead \in [Pubs -> [Subs -> 0 .. 2]]

\* The announcement handshake does what Publisher waits for it to do: when a
\* publisher has written its first sample, every subscriber has matched every
\* publisher, so no sample meets a reader that does not know its writer (only
\* a publisher that has exited is forgotten again).
NoSampleBeforeDiscovery ==
  \A p \in Pubs, s \in Subs, q \in Pubs :
    Written(p) > 0 /\ q \notin subSees[s] => PubExited(q)

\* PERFTEST-97, ThroughputListener.cs: "all the publishers have finished sending
\* data samples, so it is time to finish the subscriber".  A subscriber ends the
\* test only when no publisher will send it another data sample.
EndTestAfterAllPublishers ==
  \A s \in Subs, p \in Pubs :
    endTest[s] => pubPc[p] \in {"finish", "ack", "done"}

\* With reliable delivery a subscriber that ends the test has processed every
\* data sample of every publisher, so none is missing from its summary.
NothingMissedWhenReliable ==
  Reliable =>
    \A s \in Subs, p \in Pubs :
      endTest[s] => read[p][s] > burst[p] + loop[p] /\ lost[p][s] = 0

\* A publisher's set of active subscribers is complete as long as it sends
\* data: no FINISHED announcement reaches it before its sending loop is over.
AllActiveWhileSending ==
  \A p \in Pubs :
    pubPc[p] \in {"burst", "data", "ping"} => activeSubscribers[p] = Subs

\* A publisher that stops sending FINISHED because nobody is active leaves a
\* session in which every subscriber has ended the test and every other
\* publisher has stopped sending data.
QuietExitIsGlobal ==
  \A p \in Pubs :
    pubPc[p] = "done" /\ activeSubscribers[p] = {} =>
      /\ \A s \in Subs : endTest[s]
      /\ \A q \in Pubs : pubPc[q] \in {"finish", "ack", "done"}

\* The inductive strengthening of the invariants above, in named parts: the
\* announcements of s and their effect at p; what announcing and finishing
\* say about s; what has happened before p writes; what FINISHED says about p.
AnnouncementsTaken ==
  \A p \in Pubs, s \in Subs :
    /\ annRead[p][s] <= annSent[s]
    /\ s \in activeSubscribers[p] <=> annRead[p][s] = 1

AnnouncedSubscribers ==
  \A s \in Subs :
    /\ subPc[s] = "discover" => annSent[s] = 0
    /\ subPc[s] = "poll" => annSent[s] = 1
    /\ annSent[s] > 0 => \A p \in Pubs : p \in subSees[s] \/ PubExited(p)
    /\ annSent[s] = 2 => endTest[s]

PubStarted(p) ==
  pubPc[p] \in {"burst", "data", "ping", "finish", "ack", "done"} \/ Written(p) > 0

StartedPublishers ==
  \A p \in Pubs :
    /\ PubStarted(p) => \A s \in Subs : annRead[p][s] > 0
    /\ tries[p] > 0 => pubPc[p] \in {"finish", "ack", "done"}
    /\ pubPc[p] = "ping" => loop[p] > 0

DistinctSizes == DataSize # "FINISHED"

FinishedPublishersSeen ==
  \A s \in Subs :
    /\ DistinctSizes => \A p \in finishedPublishers[s] :
                          tries[p] > 0 /\ read[p][s] > burst[p] + loop[p]
    /\ endTest[s] => finishedPublishers[s] = Pubs

LosslessWhenReliable == Reliable => \A p \in Pubs, s \in Subs : lost[p][s] = 0

IndInv ==
  /\ TypeOK
  /\ AnnouncementsTaken
  /\ AnnouncedSubscribers
  /\ StartedPublishers
  /\ FinishedPublishersSeen
  /\ LosslessWhenReliable

\* The port keeps the promise of TestSession.  A publisher has stopped once it
\* leaves the sending loop, in order or because its wait for a pong was cut.
PubStopped(p) ==
  \/ pubPc[p] \in {"finish", "ack", "done"}
  \/ pubPc[p] = "failed" /\ Written(p) > 0

Ready   == {s \in Subs : annSent[s] > 0}
Started == {p \in Pubs : PubStarted(p)}
Stopped == {p \in Pubs : PubStopped(p)}
Ended   == {s \in Subs : endTest[s]}

Session == INSTANCE TestSession
  WITH ready <- Ready, started <- Started, stopped <- Stopped, ended <- Ended

\* Every behaviour of the C# port is a behaviour of the abstract session.
ImplementsTestSession == Session!TSSpec

\* Nobody hangs and nobody fails: a session that is not interrupted runs to its
\* end, whatever samples are lost in best effort.
SessionEnds ==
  []Interrupts \/
  <>(/\ \A p \in Pubs : pubPc[p] = "done"
     /\ \A s \in Subs : subPc[s] = "done")

\* Ctrl-C ends the process that receives it, wherever the process is.
InterruptEndsProcess ==
  /\ \A p \in Pubs : pubCompleted[p] ~> PubExited(p)
  /\ \A s \in Subs : subCompleted[s] ~> SubExited(s)

\* A publisher that leaves its sending loop terminates, whatever happens to
\* its subscribers: the bounded FINISHED loop is all it still waits for.
PublisherGivesUp ==
  \A p \in Pubs : (pubPc[p] = "finish") ~> PubExited(p)

\* command_line_parameters.rst on -executionTime: "The first condition
\* triggered will finish the test: -numIter or -executionTime".  When the timer
\* has fired, the test finishes, at the subscribers too.
ExecutionTimeFinishesTest ==
  \A p \in Pubs : pubCompleted[p] ~> \A s \in Subs : SubExited(s)
=============================================================================
