------------------------------ MODULE CppSession ------------------------------
(***************************************************************************)
(* The life of a test session of the classic C++ port: what the processes  *)
(* of one run do from the creation of their endpoints to their exit, over  *)
(* the throughput and announcement topics.                                 *)
(*                                                                         *)
(* A process runs perftest_cpp::Publisher or perftest_cpp::Subscriber on   *)
(* its main thread; AnnouncementListener and ThroughputListener run on     *)
(* threads of the middleware (or on read threads: CppReadThread).  Unlike  *)
(* the C# port there is no testCompleted at a subscriber and no wait that  *)
(* gives up, and a subscriber repeats its announcement every second until  *)
(* it has received data.                                                   *)
(*                                                                         *)
(* The log of a writer and the cursors of its readers are modelled as in   *)
(* CsSession: publisher p has written burst INITIALIZE samples, loop data  *)
(* samples and tries FINISHED samples.                                     *)
(*                                                                         *)
(* OneAnnounced, FirstFinished and MoreThanAllFinished are mistakes that   *)
(* the code does not make.                                                 *)
(***************************************************************************)
EXTENDS Integers, FiniteSets

CONSTANTS
  NumPublishers,           \* -numPublishers
  NumSubscribers,          \* -numSubscribers
  NumIter,                 \* -numIter
  InitializeSampleCount,   \* samples of the initial burst
  SendQueueSize,           \* -sendQueueSize
  MaxAnnouncements,        \* bound on the announcements of a subscriber counted
  Modes                    \* the options of the sessions, and what may happen in them

ModeFields == {"reliable", "latencyTest", "executionTime", "createFails", "shortTest",
               "tornSize", "slowNetwork", "countingSemaphore"}

ASSUME CppCountAssumption ==
  /\ {NumPublishers, NumSubscribers, NumIter, SendQueueSize, MaxAnnouncements}
       \subseteq Nat \ {0}
  /\ InitializeSampleCount \in Nat

ASSUME CppModeAssumption ==
  \A m \in Modes :
    /\ DOMAIN m = ModeFields \cup {"dataSize", "announcementSampleCount", "maxLosses"}
    /\ {m[f] : f \in ModeFields} \subseteq BOOLEAN
    /\ m.dataSize \in {"DATA", "INITIALIZE", "FINISHED"}
    /\ m.announcementSampleCount \in Nat \ {0} /\ m.maxLosses \in Nat

VARIABLE mode  \* of this session: it does not change

AnnouncementSampleCount ==       \* FINISHED samples sent at most (50 in the code)
  mode.announcementSampleCount
MaxLosses == mode.maxLosses      \* bound on the samples lost, all by the same reader
Reliable == mode.reliable        \* FALSE with -bestEffort
LatencyTest == mode.latencyTest  \* -latencyTest on publisher 0
ExecutionTime ==                 \* a publisher was given -executionTime
  mode.executionTime
CreateFails == mode.createFails  \* the creation of an endpoint or a thread may fail
ShortTest == mode.shortTest      \* the sending loop may be over within the second that
                                 \* a subscriber sleeps after an announcement
TornSize == mode.tornSize        \* subscriber_list.size() may be read while the
                                 \* listener thread changes the vector
SlowNetwork == mode.slowNetwork  \* samples may be later than the news that their
                                 \* writer is gone
DataSize == mode.dataSize        \* what message.size of a data sample is taken for:
                                 \* -dataLen 1262 and 1263 are refused nowhere
SparePermits ==                  \* of the pong semaphore: that of the C++11
  IF mode.countingSemaphore THEN 1 ELSE 0  \* infrastructure starts at 1

Pubs == 0 .. NumPublishers - 1
Subs == 0 .. NumSubscribers - 1

VARIABLES
  pub,   \* the publisher processes: where the main thread is (pc), the matched
         \* subscribers (sees), AnnouncementListener.subscriber_list (list), the
         \* loop counters, and _testCompleted (completed)
  sub,   \* the subscriber processes: pc, the matched publishers (sees), whether
         \* packets_received is not 0 (received), _finished_publishers, end_test
  read,  \* read[p][s]: samples of p that s has taken or missed
  lost,  \* lost[p][s]: samples of p lost on the way to s
  heard  \* heard[p][s]: announcements of s that p has taken

vars == <<mode, pub, sub, read, lost, heard>>

PubPhases == {"create", "discover", "announced", "burst", "data", "ping", "finish",
              "ack", "done", "failed"}
SubPhases == {"create", "discover", "announce", "nap", "poll", "drain", "done",
              "failed"}

PubGone(p) == pub[p].pc \in {"done", "failed"}
SubGone(s) == sub[s].pc \in {"done", "failed"}

Written(p) == pub[p].burst + pub[p].loop + pub[p].tries

\* What the size of sample i of p makes it for its readers.
Kind(p, i) ==
  IF i <= pub[p].burst THEN "INITIALIZE"
  ELSE IF i <= pub[p].burst + pub[p].loop THEN DataSize ELSE "FINISHED"

HasRoom(p) ==
  Reliable => \A s \in pub[p].sees : Written(p) - read[p][s] < SendQueueSize

\* The announcements of s: INITIALIZE again and again, at last a FINISHED.
Announcements(s) == sub[s].announced + (IF sub[s].saidFinished THEN 1 ELSE 0)

AnnouncementKind(s, i) == IF i <= sub[s].announced THEN "INITIALIZE" ELSE "FINISHED"

Init ==
  /\ mode \in Modes
  /\ pub = [p \in Pubs |-> [pc |-> "create", sees |-> {}, list |-> {}, burst |-> 0,
                            loop |-> 0, tries |-> 0, completed |-> FALSE]]
  /\ sub = [s \in Subs |-> [pc |-> "create", sees |-> {}, received |-> FALSE,
                            finished |-> {}, endTest |-> FALSE, announced |-> 0,
                            saidFinished |-> FALSE]]
  /\ read = [p \in Pubs |-> [s \in Subs |-> 0]]
  /\ lost = [p \in Pubs |-> [s \in Subs |-> 0]]
  /\ heard = [p \in Pubs |-> [s \in Subs |-> 0]]

-----------------------------------------------------------------------------
(* The middleware.                                                          *)

\* The endpoints of two processes match once both processes have created them.
Match(p, s) ==
  /\ pub[p].pc # "create" /\ sub[s].pc # "create"
  /\ ~PubGone(p) /\ ~SubGone(s)
  /\ \/ /\ s \notin pub[p].sees
        /\ pub' = [pub EXCEPT ![p].sees = @ \cup {s}]
        /\ UNCHANGED sub
     \/ /\ p \notin sub[s].sees
        /\ sub' = [sub EXCEPT ![s].sees = @ \cup {p}]
        /\ UNCHANGED pub
  /\ UNCHANGED <<read, lost, heard>>

\* One side notices that the other has deleted its entities; unless the network is
\* slow, a reader first takes what a reliable writer had written.
Unmatch(p, s) ==
  /\ \/ /\ SubGone(s) /\ s \in pub[p].sees
        /\ pub' = [pub EXCEPT ![p].sees = @ \ {s}]
        /\ UNCHANGED sub
     \/ /\ PubGone(p) /\ p \in sub[s].sees
        /\ ~SlowNetwork => read[p][s] = Written(p)
        /\ sub' = [sub EXCEPT ![s].sees = @ \ {p}]
        /\ UNCHANGED pub
  /\ UNCHANGED <<read, lost, heard>>

LoseSample(p, s) ==
  /\ ~Reliable
  /\ read[p][s] < Written(p)
  /\ lost[p][s] < MaxLosses
  /\ \A q \in Pubs, r \in Subs : lost[q][r] > 0 => q = p /\ r = s
  /\ read' = [read EXCEPT ![p][s] = @ + 1]
  /\ lost' = [lost EXCEPT ![p][s] = @ + 1]
  /\ UNCHANGED <<pub, sub, heard>>

\* PerftestTimer runs the handler that sets _testCompleted.  A sending loop of
\* a second has sent a sample.
Timeout(p) ==
  /\ ExecutionTime
  /\ pub[p].pc \in {"data", "ping", "finish", "ack"}
  /\ pub[p].loop > 0 /\ ~pub[p].completed
  /\ pub' = [pub EXCEPT ![p].completed = TRUE]
  /\ UNCHANGED <<sub, read, lost, heard>>

-----------------------------------------------------------------------------
(* perftest_cpp::Publisher and AnnouncementListener.                        *)

PubGoto(p, phase) ==
  /\ pub' = [pub EXCEPT ![p].pc = phase]
  /\ UNCHANGED <<sub, read, lost, heard>>

\* The writer, the readers and their threads exist, or one could not be made.
CreatePublisher(p) ==
  /\ pub[p].pc = "create"
  /\ \/ PubGoto(p, "discover")
     \/ CreateFails /\ PubGoto(p, "failed")

\* The three waits for matched endpoints, which never give up.
PubDiscovered(p) ==
  /\ pub[p].pc = "discover"
  /\ Cardinality(pub[p].sees) >= NumSubscribers
  /\ PubGoto(p, "announced")

\* AnnouncementListener::process_message.
UpdatedList(list, s, kind) ==
  CASE kind = "INITIALIZE" -> list \cup {s}
    [] kind = "FINISHED" -> list \ {s}

ProcessAnnouncement(p, s) ==
  /\ pub[p].pc # "create" /\ ~PubGone(p)
  /\ s \in pub[p].sees
  /\ heard[p][s] < Announcements(s)
  /\ heard' = [heard EXCEPT ![p][s] = @ + 1]
  /\ pub' = [pub EXCEPT ![p].list =
               UpdatedList(@, s, AnnouncementKind(s, heard[p][s] + 1))]
  /\ UNCHANGED <<sub, read, lost>>

\* What the main thread may read as subscriber_list.size().  The vector has no
\* lock: while an announcement is being processed the two pointers whose
\* distance is the size may belong to different states of the vector.
SizesRead(p) ==
  {Cardinality(pub[p].list)} \cup
  IF TornSize /\ \E s \in pub[p].sees : heard[p][s] < Announcements(s)
    THEN 0 .. NumSubscribers ELSE {}

OneAnnounced(p) == \E size \in SizesRead(p) : size >= 1

AllAnnounced(p) == \E size \in SizesRead(p) : size >= NumSubscribers

\* The wait for the announcements, polled every second.
PubAnnounced(p) ==
  /\ pub[p].pc = "announced"
  /\ AllAnnounced(p)
  /\ PubGoto(p, "burst")

SendInitialize(p) ==
  /\ pub[p].pc = "burst"
  /\ pub[p].burst < InitializeSampleCount
  /\ HasRoom(p)
  /\ pub' = [pub EXCEPT ![p].burst = @ + 1]
  /\ UNCHANGED <<sub, read, lost, heard>>

\* The burst is flushed, a second later the sending loop starts.
StartSending(p) ==
  /\ pub[p].pc = "burst"
  /\ pub[p].burst = InitializeSampleCount
  /\ PubGoto(p, "data")

SendData(p) ==
  /\ pub[p].pc = "data"
  /\ pub[p].loop < NumIter /\ ~pub[p].completed
  /\ HasRoom(p)
  /\ pub' = [pub EXCEPT ![p].loop = @ + 1,
                        ![p].pc = IF LatencyTest /\ p = 0 THEN "ping" ELSE "data"]
  /\ UNCHANGED <<sub, read, lost, heard>>

\* The pings that their subscribers have echoed and LatencyListener has notified of.
\* It returns before that from a pong of the size of an INITIALIZE sample, and one
\* of the size of a FINISHED sample is not echoed.
Pongs(p) ==
  IF DataSize = "DATA"
    THEN {i \in 1 .. pub[p].loop : read[p][(i - 1) % NumSubscribers] >= pub[p].burst + i}
    ELSE {}

\* wait_for_ping_response, one for every ping: without a limit when reliable, even if
\* the timer has fired; 200 ms at most in best effort.
PingAnswered(p) ==
  /\ pub[p].pc = "ping"
  /\ Reliable => Cardinality(Pongs(p)) + SparePermits >= pub[p].loop
  /\ PubGoto(p, "data")

\* The sending loop is over.
StopSending(p) ==
  /\ pub[p].pc = "data"
  /\ pub[p].loop = NumIter \/ pub[p].completed
  /\ ShortTest \/ \A s \in Subs : sub[s].pc \notin {"announce", "nap"}
  /\ PubGoto(p, "finish")

\* The condition of the FINISHED loop.
KeepsFinishing(p, size) == size > 0 /\ pub[p].tries < AnnouncementSampleCount

SendFinished(p) ==
  /\ pub[p].pc = "finish"
  /\ \E size \in SizesRead(p) : KeepsFinishing(p, size)
  /\ HasRoom(p)
  /\ pub' = [pub EXCEPT ![p].tries = @ + 1, ![p].pc = "ack"]
  /\ UNCHANGED <<sub, read, lost, heard>>

\* wait_for_ack: 100 ms at most, acknowledged or not, or a sleep.
AckWaited(p) == pub[p].pc = "ack" /\ PubGoto(p, "finish")

\* The summary, the end of the read threads and the deletion of the entities.
PubExit(p) ==
  /\ pub[p].pc = "finish"
  /\ \E size \in SizesRead(p) : ~KeepsFinishing(p, size)
  /\ PubGoto(p, "done")

-----------------------------------------------------------------------------
(* perftest_cpp::Subscriber and ThroughputListener.                         *)

SubGoto(s, phase) ==
  /\ sub' = [sub EXCEPT ![s].pc = phase]
  /\ UNCHANGED <<pub, read, lost, heard>>

CreateSubscriber(s) ==
  /\ sub[s].pc = "create"
  /\ \/ SubGoto(s, "discover")
     \/ CreateFails /\ SubGoto(s, "failed")

AllWritersFound(s) == Cardinality(sub[s].sees) >= NumPublishers

SubDiscovered(s) ==
  /\ sub[s].pc = "discover"
  /\ AllWritersFound(s)
  /\ SubGoto(s, "announce")

\* One turn of the announcement loop, and the second of sleep it ends with.
SendAnnouncement(s) ==
  /\ sub[s].pc = "announce"
  /\ sub' = [sub EXCEPT ![s].pc = "nap",
       ![s].announced = IF @ < MaxAnnouncements THEN @ + 1 ELSE @]
  /\ UNCHANGED <<pub, read, lost, heard>>

NapOver(s) ==
  /\ sub[s].pc = "nap"
  /\ SubGoto(s, IF sub[s].received THEN "poll" ELSE "announce")

FirstFinished(finished) == finished # {}

MoreThanAllFinished(finished) == Cardinality(finished) > NumPublishers

AllFinished(finished) == Cardinality(finished) >= NumPublishers

\* ThroughputListener::process_message: the summary that the last FINISHED
\* prints sets packets_received back to 0.
Processed(state, p, kind) ==
  CASE kind = "DATA" -> [state EXCEPT !.received = TRUE]
    [] kind = "FINISHED" /\ p \notin state.finished /\ ~state.endTest ->
         LET finished == state.finished \cup {p}
         IN [state EXCEPT !.finished = finished,
                          !.endTest = AllFinished(finished),
                          !.received = @ /\ ~AllFinished(finished)]
    [] OTHER -> state

ProcessMessage(s, p) ==
  /\ sub[s].pc # "create" /\ ~SubGone(s)
  /\ p \in sub[s].sees
  /\ read[p][s] < Written(p)
  /\ read' = [read EXCEPT ![p][s] = @ + 1]
  /\ sub' = [sub EXCEPT ![s] = Processed(@, p, Kind(p, read[p][s] + 1))]
  /\ UNCHANGED <<pub, lost, heard>>

\* The poll loop sees end_test and announces the end; two seconds later the
\* process ends its read thread and deletes its entities.
SubFinish(s) ==
  /\ sub[s].pc = "poll"
  /\ sub[s].endTest
  /\ sub' = [sub EXCEPT ![s].pc = "drain", ![s].saidFinished = TRUE]
  /\ UNCHANGED <<pub, read, lost, heard>>

SubExit(s) == sub[s].pc = "drain" /\ SubGoto(s, "done")

-----------------------------------------------------------------------------
PubStep(p) ==
  \/ CreatePublisher(p) \/ PubDiscovered(p) \/ PubAnnounced(p)
  \/ SendInitialize(p) \/ StartSending(p) \/ SendData(p) \/ PingAnswered(p)
  \/ StopSending(p) \/ SendFinished(p) \/ AckWaited(p) \/ PubExit(p)

SubStep(s) ==
  \/ CreateSubscriber(s) \/ SubDiscovered(s) \/ SendAnnouncement(s) \/ NapOver(s)
  \/ SubFinish(s) \/ SubExit(s)

Terminated ==
  /\ \A p \in Pubs : PubGone(p)
  /\ \A s \in Subs : SubGone(s)
  /\ UNCHANGED vars

Step ==
  \/ \E p \in Pubs : PubStep(p) \/ Timeout(p)
  \/ \E s \in Subs : SubStep(s)
  \/ \E p \in Pubs, s \in Subs :
       \/ Match(p, s) \/ Unmatch(p, s) \/ LoseSample(p, s)
       \/ ProcessAnnouncement(p, s) \/ ProcessMessage(s, p)
  \/ Terminated

Next == Step /\ UNCHANGED mode

Spec == Init /\ [][Next]_vars

\* Threads are scheduled and the middleware matches and delivers; nothing
\* forces a loss or a timer.
Fairness ==
  /\ \A p \in Pubs : WF_vars(PubStep(p) /\ UNCHANGED mode)
  /\ \A s \in Subs : WF_vars(SubStep(s) /\ UNCHANGED mode)
  /\ \A p \in Pubs, s \in Subs :
       /\ WF_vars(Match(p, s) /\ UNCHANGED mode)
       /\ WF_vars(Unmatch(p, s) /\ UNCHANGED mode)
       /\ WF_vars(ProcessAnnouncement(p, s) /\ UNCHANGED mode)
       /\ WF_vars(ProcessMessage(s, p) /\ UNCHANGED mode)

FairSpec == Spec /\ Fairness

-----------------------------------------------------------------------------
(* Correctness.                                                             *)

\* Types, and the counters within the bounds of their loops.
PubRecord ==
  [pc : PubPhases, sees : SUBSET Subs, list : SUBSET Subs,
   burst : 0 .. InitializeSampleCount, loop : 0 .. NumIter,
   tries : 0 .. AnnouncementSampleCount, completed : BOOLEAN]

SubRecord ==
  [pc : SubPhases, sees : SUBSET Pubs, received : BOOLEAN, finished : SUBSET Pubs,
   endTest : BOOLEAN, announced : 0 .. MaxAnnouncements, saidFinished : BOOLEAN]

TypeOK ==
  /\ mode \in Modes
  /\ pub \in [Pubs -> PubRecord]
  /\ sub \in [Subs -> SubRecord]
  /\ read \in [Pubs -> [Subs -> Nat]]
  /\ lost \in [Pubs -> [Subs -> 0 .. MaxLosses]]
  /\ heard \in [Pubs -> [Subs -> 0 .. MaxAnnouncements + 1]]

\* perftest_cpp.cxx, Publisher: "We have to wait until every Subscriber sends an
\* announcement message indicating that it has discovered every Publisher".  A
\* publisher that has written anything is right in assuming it: every subscriber
\* has matched every publisher, except one that has exited since.
NoSampleBeforeDiscovery ==
  \A p \in Pubs, s \in Subs, q \in Pubs :
    Written(p) > 0 /\ q \notin sub[s].sees => PubGone(q)

\* PERFTEST-97: a subscriber ends the test only when no publisher will send it
\* another data sample.  Data of the size of a FINISHED sample breaks it.
EndTestAfterAllPublishers ==
  \A s \in Subs, p \in Pubs :
    sub[s].endTest => pub[p].pc \in {"finish", "ack", "done"}

\* With reliable delivery a subscriber that ends the test has processed every
\* data sample of every publisher before it prints its summary.
NothingMissedWhenReliable ==
  Reliable =>
    \A s \in Subs, p \in Pubs :
      sub[s].endTest => read[p][s] > pub[p].burst + pub[p].loop /\ lost[p][s] = 0

PubStarted(p) ==
  pub[p].pc \in {"burst", "data", "ping", "finish", "ack", "done"}

\* The inductive strengthening, in named parts: a listed subscriber has announced
\* itself, and so has every one once a publisher has started; a subscriber past its
\* discovery has matched the publishers that run; what FINISHED says of a publisher.
ListedHaveAnnounced ==
  \A p \in Pubs, s \in Subs : s \in pub[p].list => sub[s].announced > 0

StartedKnowsAll ==
  \A p \in Pubs :
    /\ PubStarted(p) => TornSize \/ \A s \in Subs : sub[s].announced > 0
    /\ Written(p) > 0 => PubStarted(p)
    /\ pub[p].tries > 0 => pub[p].pc \in {"finish", "ack", "done"}

Announcing(s) == sub[s].pc \in {"announce", "nap", "poll", "drain", "done"}

AnnouncingKnowsAll ==
  \A s \in Subs :
    /\ sub[s].announced > 0 => Announcing(s)
    /\ Announcing(s) => \A q \in Pubs : q \in sub[s].sees \/ PubGone(q)

FinishedSeen ==
  \A s \in Subs :
    /\ DataSize # "FINISHED" =>
         \A p \in sub[s].finished :
           pub[p].tries > 0 /\ read[p][s] > pub[p].burst + pub[p].loop
    /\ sub[s].endTest => sub[s].finished = Pubs

LosslessWhenReliable == Reliable => \A p \in Pubs, s \in Subs : lost[p][s] = 0

IndInv ==
  /\ TypeOK
  /\ ListedHaveAnnounced /\ StartedKnowsAll /\ AnnouncingKnowsAll
  /\ FinishedSeen /\ LosslessWhenReliable

Ready   == {s \in Subs : sub[s].announced > 0}
Started == {p \in Pubs : PubStarted(p)}
Stopped == {p \in Pubs : pub[p].pc \in {"finish", "ack", "done"}}
Ended   == {s \in Subs : sub[s].endTest}

Session == INSTANCE TestSession
  WITH ready <- Ready, started <- Started, stopped <- Stopped, ended <- Ended

\* Every behaviour of the classic port is a behaviour of the abstract session.
ImplementsTestSession == Session!TSSpec

\* What may keep a session from its end, in the code as in the model.
MayHang == \/ ~Reliable \/ CreateFails \/ ShortTest \/ SlowNetwork
           \/ DataSize # "DATA"

\* Nobody hangs: a reliable session in which no creation fails, data samples are
\* known by their size, every subscriber wakes while they are being sent, and the
\* last samples arrive before the news that their writer is gone, runs to its end.
SessionEnds ==
  []MayHang
    \/ <>(/\ \A p \in Pubs : pub[p].pc = "done"
          /\ \A s \in Subs : sub[s].pc = "done")

\* perftest_cpp.cxx, Subscriber: "Send announcement message until the publisher
\* replies us."  The announcement loop of a subscriber that has got data ends.
AnnouncementLoopEnds ==
  \A s \in Subs : sub[s].received ~> sub[s].pc \in {"poll", "drain", "done"}
=============================================================================
