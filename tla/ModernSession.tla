---------------------------- MODULE ModernSession ----------------------------
(***************************************************************************)
(* The life of a test session of the modern C++ port, to the deletion of   *)
(* the last object of its processes, over the three topics.                *)
(*                                                                         *)
(* A process runs perftest_cpp::RunPublisher or RunSubscriber on its main  *)
(* thread.  Its listeners run on a thread of the middleware; with          *)
(* -useReadThread the throughput samples and the pongs are taken by a      *)
(* thread of the process instead, while announcements always come to a     *)
(* listener.  A subscriber announces itself once and polls end_test every  *)
(* second.                                                                 *)
(*                                                                         *)
(* The log of a writer and the cursors of its readers are modelled as in   *)
(* CppSession.  The pongs of all subscribers arrive in one reader, that of *)
(* publisher 0, whose queue is modelled as it is.                          *)
(*                                                                         *)
(* OneAnnounced, FirstFinished, MoreThanAllFinished and EveryoneEchoes are *)
(* mistakes that the code does not make.                                   *)
(***************************************************************************)
EXTENDS Integers, FiniteSets, Sequences

CONSTANTS
  NumPublishers,           \* -numPublishers
  NumSubscribers,          \* -numSubscribers
  InitializeSampleCount,   \* samples of the initial burst
  SendQueueSize,           \* -sendQueueSize
  Modes                    \* the options of the sessions, and what may happen in them

ModeFlags == {"reliable", "latencyTest", "executionTime", "createFails", "pubReadThread",
              "subReadThread", "useCft", "clockSkew", "tornSize", "slowNetwork"}

ModeCounts == {"numIter", "samplesPerBatch", "latencyCount", "announcementSampleCount"}

ASSUME ModernCountAssumption ==
  /\ {NumPublishers, NumSubscribers, SendQueueSize} \subseteq Nat \ {0}
  /\ InitializeSampleCount \in Nat

\* batchSize is disabled for a latency test.
ASSUME ModernModeAssumption ==
  \A m \in Modes :
    /\ DOMAIN m = ModeFlags \cup ModeCounts \cup {"maxLosses", "dataSize"}
    /\ {m[f] : f \in ModeFlags} \subseteq BOOLEAN
    /\ {m[f] : f \in ModeCounts} \subseteq Nat \ {0}
    /\ m.maxLosses \in Nat
    /\ m.dataSize \in {"DATA", "INITIALIZE", "FINISHED"}
    /\ m.latencyTest => m.samplesPerBatch = 1

VARIABLE mode  \* of this session: it does not change

NumIter == mode.numIter                  \* -numIter
SamplesPerBatch == mode.samplesPerBatch  \* -batchSize / -dataLen
LatencyCount == mode.latencyCount        \* -latencyCount
AnnouncementSampleCount ==               \* FINISHED samples sent at most (50 in the code)
  mode.announcementSampleCount
MaxLosses == mode.maxLosses              \* bound on the samples lost, and on the pongs
Reliable == mode.reliable                \* FALSE with -bestEffort
LatencyTest == mode.latencyTest          \* -latencyTest on publisher 0
ExecutionTime == mode.executionTime      \* a publisher was given -executionTime
CreateFails == mode.createFails          \* an endpoint or a thread may not be created
PubReadThread == mode.pubReadThread      \* -useReadThread on publisher 0
SubReadThread == mode.subReadThread      \* -useReadThread on the subscribers
UseCft == mode.useCft                    \* the subscribers have a -cft all samples pass
ClockSkew == mode.clockSkew              \* the clock may be set back during the test
TornSize == mode.tornSize                \* subscriber_list.size() may be read while the
                                         \* listener thread changes the vector
SlowNetwork == mode.slowNetwork          \* samples may be later than the news that their
                                         \* writer is gone
DataSize == mode.dataSize                \* what message.size of a data sample is taken
                                         \* for: -dataLen 1262 and 1263 are refused nowhere

Pubs == 0 .. NumPublishers - 1
Subs == 0 .. NumSubscribers - 1
NoPing == -1

VARIABLES
  pub,      \* the publisher processes: where the main thread is (pc), the matched
            \* subscribers (sees), AnnouncementListener.subscriber_list (list), the
            \* loop counters, latency_ping of the samples sent (asked), _testCompleted
            \* (completed)
  sub,      \* the subscriber processes: pc, the matched publishers (sees), whether it
            \* has announced itself, _finished_publishers, end_test
  read,     \* read[p][s]: samples of p that s has taken or missed
  lost,     \* lost[p][s]: samples of p lost on the way to s
  heard,    \* heard[p][s]: announcements of s that p has taken
  latency,  \* of publisher 0: the queue of its latency reader (pongs), the echoes of
            \* data samples that entered it (answers), LatencyListener.count (counted) and
            \* whether last_data_length is set (sized), the semaphore (given), and the
            \* pongs lost on the way
  dangling  \* objects used after their deletion

vars == <<mode, pub, sub, read, lost, heard, latency, dangling>>

PubClosing == {"closing", "unheard", "unread"}
PubObjects == {"publisher writer", "LatencyListener", "AnnouncementListener",
               "latency reader"}
SubObjects == {"pong writer"}

PubGone(p) == pub[p].pc \in {"done", "failed"}
SubGone(s) == sub[s].pc \in {"done", "failed"}

Written(p) == pub[p].burst + pub[p].loop + pub[p].tries

\* What the size of sample i of p makes it for its readers.
Kind(p, i) ==
  IF i <= pub[p].burst THEN "INITIALIZE"
  ELSE IF i <= pub[p].burst + pub[p].loop THEN DataSize ELSE "FINISHED"

\* latency_ping of sample i of p, which is looked at in data samples only.
LatencyPing(p, i) ==
  IF Kind(p, i) = "DATA" THEN pub[p].asked[i - pub[p].burst] ELSE NoPing

\* The samples sent by p that are pings.
Pings(p) == {i \in DOMAIN pub[p].asked : pub[p].asked[i] # NoPing}

HasRoom(p) ==
  Reliable => \A s \in pub[p].sees : Written(p) - read[p][s] < SendQueueSize

\* INITIALIZE is the first announcement of a subscriber, FINISHED the second.
Announcements(s) ==
  CASE sub[s].pc \in {"create", "discover", "failed"} -> 0
    [] sub[s].pc = "poll" -> 1
    [] sub[s].pc \in {"drain", "closing", "done"} -> 2

AnnouncementKind(i) == IF i = 1 THEN "INITIALIZE" ELSE "FINISHED"

Init ==
  /\ mode \in Modes
  /\ pub = [p \in Pubs |-> [pc |-> "create", sees |-> {}, list |-> {}, burst |-> 0,
                            loop |-> 0, tries |-> 0, asked |-> <<>>,
                            completed |-> FALSE]]
  /\ sub = [s \in Subs |-> [pc |-> "create", sees |-> {}, finished |-> {},
                            endTest |-> FALSE]]
  /\ read = [p \in Pubs |-> [s \in Subs |-> 0]]
  /\ lost = [p \in Pubs |-> [s \in Subs |-> 0]]
  /\ heard = [p \in Pubs |-> [s \in Subs |-> 0]]
  /\ latency = [pongs |-> <<>>, answers |-> 0, counted |-> 0, sized |-> FALSE,
                given |-> FALSE, lost |-> 0]
  /\ dangling = {}

-----------------------------------------------------------------------------
(* The middleware.                                                          *)

\* The endpoints of two processes match once both processes have created them.
Match(p, s) ==
  /\ pub[p].pc # "create" /\ sub[s].pc # "create"
  /\ ~PubGone(p) /\ ~SubGone(s)
  /\ \/ /\ s \notin pub[p].sees
        /\ pub' = [pub EXCEPT ![p].sees = @ \cup {s}]
        /\ UNCHANGED sub
     \/ /\ p \notin sub[s].sees
        /\ sub' = [sub EXCEPT ![s].sees = @ \cup {p}]
        /\ UNCHANGED pub
  /\ UNCHANGED <<read, lost, heard, latency, dangling>>

\* One side notices that the other has deleted its entities.  For a subscriber this
\* matters while it waits for its writers, and when the news is faster than samples.
Unmatch(p, s) ==
  /\ \/ /\ SubGone(s) /\ s \in pub[p].sees
        /\ pub' = [pub EXCEPT ![p].sees = @ \ {s}]
        /\ UNCHANGED sub
     \/ /\ PubGone(p) /\ p \in sub[s].sees
        /\ IF read[p][s] = Written(p) THEN sub[s].pc = "discover" ELSE SlowNetwork
        /\ sub' = [sub EXCEPT ![s].sees = @ \ {p}]
        /\ UNCHANGED pub
  /\ UNCHANGED <<read, lost, heard, latency, dangling>>

LoseSample(p, s) ==
  /\ ~Reliable
  /\ read[p][s] < Written(p)
  /\ lost[p][s] < MaxLosses
  /\ \A q \in Pubs, r \in Subs : lost[q][r] > 0 => q = p /\ r = s
  /\ read' = [read EXCEPT ![p][s] = @ + 1]
  /\ lost' = [lost EXCEPT ![p][s] = @ + 1]
  /\ UNCHANGED <<pub, sub, heard, latency, dangling>>

LosePong ==
  /\ ~Reliable
  /\ latency.pongs # <<>> /\ latency.lost < MaxLosses
  /\ latency' = [latency EXCEPT !.pongs = Tail(@), !.lost = @ + 1]
  /\ UNCHANGED <<pub, sub, read, lost, heard, dangling>>

\* waitAndExecute.  The timer thread reads a ScheduleInfo that has left its
\* scope: it may find another handler there and never set _testCompleted.  After
\* the sending loop _testCompleted only chooses the last message.
Timeout(p) ==
  /\ ExecutionTime
  /\ pub[p].pc \in {"data", "ping"}
  /\ pub[p].loop > 0 /\ ~pub[p].completed
  /\ pub' = [pub EXCEPT ![p].completed = TRUE]
  /\ UNCHANGED <<sub, read, lost, heard, latency, dangling>>

-----------------------------------------------------------------------------
(* RunPublisher and AnnouncementListener.                                   *)

PubGoto(p, phase) ==
  /\ pub' = [pub EXCEPT ![p].pc = phase]
  /\ UNCHANGED <<sub, read, lost, heard, latency, dangling>>

\* The writer, the readers and the read thread exist, or one could not be made.
CreatePublisher(p) ==
  /\ pub[p].pc = "create"
  /\ \/ PubGoto(p, "discover")
     \/ CreateFails /\ PubGoto(p, "failed")

\* The three waits for matched endpoints, which never give up.
PubDiscovered(p) ==
  /\ pub[p].pc = "discover"
  /\ Cardinality(pub[p].sees) >= NumSubscribers
  /\ PubGoto(p, "announced")

\* AnnouncementListener::process_message.
UpdatedList(list, s, kind) ==
  CASE kind = "INITIALIZE" -> list \cup {s}
    [] kind = "FINISHED" -> list \ {s}

\* The listener outlives its callback, AnnouncementListener, which is deleted
\* before the announcement reader is closed.
ProcessAnnouncement(p, s) ==
  /\ pub[p].pc # "create" /\ ~PubGone(p)
  /\ s \in pub[p].sees
  /\ heard[p][s] < Announcements(s)
  /\ heard' = [heard EXCEPT ![p][s] = @ + 1]
  /\ IF pub[p].pc \in {"unheard", "unread"}
     THEN dangling' = dangling \cup {"AnnouncementListener"} /\ UNCHANGED pub
     ELSE /\ pub' = [pub EXCEPT ![p].list =
                       UpdatedList(@, s, AnnouncementKind(heard[p][s] + 1))]
          /\ UNCHANGED dangling
  /\ UNCHANGED <<sub, read, lost, latency>>

\* What the main thread may read as subscriber_list.size(): while push_back or erase
\* runs, the pointers whose distance it is may be of different states of the vector.
SizesRead(p) ==
  {Cardinality(pub[p].list)} \cup
  IF TornSize /\ \E s \in pub[p].sees : heard[p][s] < Announcements(s)
    THEN 0 .. NumSubscribers ELSE {}

OneAnnounced(p) == \E size \in SizesRead(p) : size >= 1

AllAnnounced(p) == \E size \in SizesRead(p) : size >= NumSubscribers

\* The wait for the announcements, polled every second.
PubAnnounced(p) ==
  /\ pub[p].pc = "announced"
  /\ AllAnnounced(p)
  /\ PubGoto(p, "burst")

SendInitialize(p) ==
  /\ pub[p].pc = "burst"
  /\ pub[p].burst < InitializeSampleCount
  /\ HasRoom(p)
  /\ pub' = [pub EXCEPT ![p].burst = @ + 1]
  /\ UNCHANGED <<sub, read, lost, heard, latency, dangling>>

\* The burst is flushed; a second later, and once the timer thread runs, the
\* sending loop starts.
StartSending(p) ==
  /\ pub[p].pc = "burst"
  /\ pub[p].burst = InitializeSampleCount
  /\ \/ PubGoto(p, "data")
     \/ CreateFails /\ ExecutionTime /\ PubGoto(p, "failed")

\* latency_ping of the next sample of p: one sample in every LatencyCount
\* batches is a ping, at a position in the batch that moves with every ping.
NextPing(p) ==
  LET batch == pub[p].loop \div SamplesPerBatch
      numPings == Cardinality(Pings(p))
      sentPing == \E i \in Pings(p) : (i - 1) \div SamplesPerBatch = batch
  IN IF /\ p = 0 /\ batch % LatencyCount = 0 /\ ~sentPing
        /\ pub[p].loop % SamplesPerBatch = numPings % SamplesPerBatch
     THEN numPings % NumSubscribers ELSE NoPing

SendData(p) ==
  /\ pub[p].pc = "data"
  /\ pub[p].loop < NumIter /\ ~pub[p].completed
  /\ HasRoom(p)
  /\ pub' = [pub EXCEPT ![p].loop = @ + 1,
       ![p].asked = Append(@, NextPing(p)),
       ![p].pc = IF LatencyTest /\ NextPing(p) # NoPing THEN "ping" ELSE "data"]
  /\ UNCHANGED <<sub, read, lost, heard, latency, dangling>>

\* wait_for_ping_response takes the semaphore, without a limit when reliable;
\* after 200 ms in best effort it gives up.
PingAnswered ==
  /\ pub[0].pc = "ping"
  /\ latency.given \/ ~Reliable
  /\ pub' = [pub EXCEPT ![0].pc = "data"]
  /\ latency' = [latency EXCEPT !.given = FALSE]
  /\ UNCHANGED <<sub, read, lost, heard, dangling>>

\* The sending loop is over; the batch is flushed.
StopSending(p) ==
  /\ pub[p].pc = "data"
  /\ pub[p].loop = NumIter \/ pub[p].completed
  /\ PubGoto(p, "finish")

\* The condition of the FINISHED loop.
KeepsFinishing(p, size) == size > 0 /\ pub[p].tries < AnnouncementSampleCount

SendFinished(p) ==
  /\ pub[p].pc = "finish"
  /\ \E size \in SizesRead(p) : KeepsFinishing(p, size)
  /\ HasRoom(p)
  /\ pub' = [pub EXCEPT ![p].tries = @ + 1, ![p].pc = "ack"]
  /\ UNCHANGED <<sub, read, lost, heard, latency, dangling>>

\* wait_for_ack: acknowledged or not, it returns within its limit; or a sleep.
AckWaited(p) == pub[p].pc = "ack" /\ PubGoto(p, "finish")

\* LatencyListener::print_summary_latency.
AfterSummary(state) == [state EXCEPT !.counted = 0]

\* The summary is printed and end_test set; RTIOsapiThread_delete drops the read
\* thread, which may still run; the writer is deleted.
PrintSummary(p) ==
  /\ pub[p].pc = "finish"
  /\ \E size \in SizesRead(p) : ~KeepsFinishing(p, size)
  /\ pub' = [pub EXCEPT ![p].pc = "closing"]
  /\ latency' = IF p = 0 THEN AfterSummary(latency) ELSE latency
  /\ UNCHANGED <<sub, read, lost, heard, dangling>>

\* The callbacks of both readers are deleted.  The read thread of publisher 0
\* waits in its reader, or is about to read its listener's end_test.
DeleteListeners(p) ==
  /\ pub[p].pc = "closing"
  /\ PubGoto(p, "unheard")

\* The latency reader, which publisher 0 alone has, is closed and deleted, with
\* the waitset on which the read thread waits.
CloseReader ==
  /\ pub[0].pc = "unheard"
  /\ pub' = [pub EXCEPT ![0].pc = "unread"]
  /\ dangling' = IF PubReadThread THEN dangling \cup {"latency reader"} ELSE dangling
  /\ UNCHANGED <<sub, read, lost, heard, latency>>

CloseAnnouncementReader(p) ==
  /\ pub[p].pc = IF p = 0 THEN "unread" ELSE "unheard"
  /\ PubGoto(p, "done")

-----------------------------------------------------------------------------
(* LatencyListener and LatencyReadThread, of publisher 0.                   *)

\* The length of _latency_history.
NumLatency ==
  LET batches == NumIter \div SamplesPerBatch
  IN batches \div LatencyCount + (IF batches % LatencyCount > 0 THEN 1 ELSE 0)
       + (IF SamplesPerBatch > 1 THEN 1 ELSE 0)

\* LatencyListener::process_message.  A pong of the size of an INITIALIZE sample is
\* dropped, the first other one only sets last_data_length, and one too many is
\* dropped without notify_ping_response.
WithPong(state, kind, skewed) ==
  LET notified == [state EXCEPT !.given = LatencyTest \/ @]
  IN CASE kind = "INITIALIZE" -> state
       [] kind = "PONG" /\ skewed -> notified
       [] kind = "PONG" /\ ~skewed /\ ~state.sized -> [notified EXCEPT !.sized = TRUE]
       [] kind = "PONG" /\ ~skewed /\ state.sized ->
            IF state.counted >= NumLatency THEN state
            ELSE [notified EXCEPT !.counted = @ + 1]

\* A listener processes every sample that it takes; receive_message takes all of
\* them and returns the first one.
AfterTake(pongs) == IF PubReadThread THEN <<>> ELSE Tail(pongs)

\* What the processing of a pong uses after its deletion.
UsedByPong(kind) ==
  CASE pub[0].pc = "closing" ->
         IF LatencyTest /\ kind = "PONG" THEN {"publisher writer"} ELSE {}
    [] pub[0].pc = "unheard" -> {"LatencyListener"}
    [] OTHER -> {}

LatencyReaderOpen == pub[0].pc \notin {"create", "unread", "done", "failed"}

ProcessPong ==
  /\ LatencyReaderOpen
  /\ latency.pongs # <<>>
  /\ \E skewed \in {FALSE, ClockSkew} :
       latency' = WithPong([latency EXCEPT !.pongs = AfterTake(@)],
                           Head(latency.pongs), skewed)
  /\ dangling' = dangling \cup UsedByPong(Head(latency.pongs))
  /\ UNCHANGED <<pub, sub, read, lost, heard>>

-----------------------------------------------------------------------------
(* RunSubscriber, ThroughputListener and ThroughputReadThread.              *)

SubGoto(s, phase) ==
  /\ sub' = [sub EXCEPT ![s].pc = phase]
  /\ UNCHANGED <<pub, read, lost, heard, latency, dangling>>

CreateSubscriber(s) ==
  /\ sub[s].pc = "create"
  /\ \/ SubGoto(s, "discover")
     \/ CreateFails /\ SubGoto(s, "failed")

\* The three waits for matched endpoints, and the announcement.
AnnounceSubscriber(s) ==
  /\ sub[s].pc = "discover"
  /\ Cardinality(sub[s].sees) >= NumPublishers
  /\ SubGoto(s, "poll")

FirstFinished(finished) == finished # {}

MoreThanAllFinished(finished) == Cardinality(finished) > NumPublishers

AllFinished(finished) == Cardinality(finished) >= NumPublishers

\* ThroughputListener::process_message, as far as the end of the test goes.
Processed(state, p, kind) ==
  IF kind = "FINISHED" /\ p \notin state.finished /\ ~state.endTest
  THEN LET finished == state.finished \cup {p}
       IN [state EXCEPT !.finished = finished, !.endTest = AllFinished(finished)]
  ELSE state

EveryoneEchoes(s, p, i) ==
  CASE Kind(p, i) = "INITIALIZE" -> <<"INITIALIZE">>
    [] LatencyPing(p, i) # NoPing -> <<"PONG">>
    [] OTHER -> <<>>

\* The echo that sample i of p makes s send: of every INITIALIZE, and of a ping.
Echo(s, p, i) ==
  LET pinged == LatencyPing(p, i)
  IN CASE Kind(p, i) = "INITIALIZE" -> <<"INITIALIZE">>
       [] pinged = s \/ (UseCft /\ pinged # NoPing) -> <<"PONG">>
       [] OTHER -> <<>>

\* The read thread leaves its loop when it has processed the last FINISHED; the
\* middleware still acknowledges what arrives then.
Listens(s) == SubReadThread => ~sub[s].endTest

ProcessMessage(s, p) ==
  LET i == read[p][s] + 1
      echo == IF Listens(s) THEN Echo(s, p, i) ELSE <<>>
  IN /\ sub[s].pc # "create" /\ ~SubGone(s)
     /\ p \in sub[s].sees
     /\ read[p][s] < Written(p)
     /\ read' = [read EXCEPT ![p][s] = i]
     /\ sub' = [sub EXCEPT ![s] = IF Listens(s) THEN Processed(@, p, Kind(p, i)) ELSE @]
     /\ latency' =
          IF LatencyReaderOpen
          THEN [latency EXCEPT !.pongs = @ \o echo,
                               !.answers = IF echo # <<>> /\ i > pub[p].burst
                                             THEN @ + 1 ELSE @]
          ELSE latency
     /\ dangling' = IF sub[s].pc = "closing" /\ echo # <<>>
                    THEN dangling \cup {"pong writer"} ELSE dangling
     /\ UNCHANGED <<pub, lost, heard>>

\* The poll loop sees end_test and announces the end.
SubFinish(s) ==
  /\ sub[s].pc = "poll"
  /\ sub[s].endTest
  /\ SubGoto(s, "drain")

\* A second later, when the read thread is long out of its loop, the writers go.
DeleteWriters(s) == sub[s].pc = "drain" /\ SubGoto(s, "closing")

\* The reader is closed, and its listener deleted.
SubExit(s) == sub[s].pc = "closing" /\ SubGoto(s, "done")

-----------------------------------------------------------------------------
PubStep(p) ==
  \/ CreatePublisher(p) \/ PubDiscovered(p) \/ PubAnnounced(p)
  \/ SendInitialize(p) \/ StartSending(p) \/ SendData(p)
  \/ p = 0 /\ (PingAnswered \/ CloseReader)
  \/ StopSending(p) \/ SendFinished(p) \/ AckWaited(p) \/ PrintSummary(p)
  \/ DeleteListeners(p) \/ CloseAnnouncementReader(p)

SubStep(s) ==
  \/ CreateSubscriber(s) \/ AnnounceSubscriber(s) \/ SubFinish(s) \/ DeleteWriters(s)
  \/ SubExit(s)

Terminated ==
  /\ \A p \in Pubs : PubGone(p)
  /\ \A s \in Subs : SubGone(s)
  /\ UNCHANGED vars

Step ==
  \/ \E p \in Pubs : PubStep(p) \/ Timeout(p)
  \/ \E s \in Subs : SubStep(s)
  \/ \E p \in Pubs, s \in Subs :
       \/ Match(p, s) \/ Unmatch(p, s) \/ LoseSample(p, s)
       \/ ProcessAnnouncement(p, s) \/ ProcessMessage(s, p)
  \/ ProcessPong \/ LosePong
  \/ Terminated

Next == Step /\ UNCHANGED mode

Spec == Init /\ [][Next]_vars

\* Threads are scheduled and the middleware matches and delivers; nothing
\* forces a loss or the timer.
Fairness ==
  /\ \A p \in Pubs : WF_vars(PubStep(p) /\ UNCHANGED mode)
  /\ \A s \in Subs : WF_vars(SubStep(s) /\ UNCHANGED mode)
  /\ \A p \in Pubs, s \in Subs :
       /\ WF_vars(Match(p, s) /\ UNCHANGED mode)
       /\ WF_vars(Unmatch(p, s) /\ UNCHANGED mode)
       /\ WF_vars(ProcessAnnouncement(p, s) /\ UNCHANGED mode)
       /\ WF_vars(ProcessMessage(s, p) /\ UNCHANGED mode)
  /\ WF_vars(ProcessPong /\ UNCHANGED mode)

FairSpec == Spec /\ Fairness

-----------------------------------------------------------------------------
(* Correctness.                                                             *)

\* Types of the processes and of what they have sent and taken.
PubPhases == {"create", "discover", "announced", "burst", "data", "ping", "finish",
              "ack", "done", "failed"} \cup PubClosing
SubPhases == {"create", "discover", "poll", "drain", "closing", "done", "failed"}

PubRecord ==
  [pc : PubPhases, sees : SUBSET Subs, list : SUBSET Subs, burst : Nat, loop : Nat,
   tries : Nat, asked : Seq(Int), completed : BOOLEAN]

SubRecord ==
  [pc : SubPhases, sees : SUBSET Pubs, finished : SUBSET Pubs, endTest : BOOLEAN]

TypeOK ==
  /\ pub \in [Pubs -> PubRecord]
  /\ sub \in [Subs -> SubRecord]
  /\ read \in [Pubs -> [Subs -> Nat]]
  /\ heard \in [Pubs -> [Subs -> Nat]]

\* A subscriber deletes the writer of its pongs while its throughput listener is
\* still there: no sample that is echoed arrives any more, because nothing but samples
\* of FINISHED size follows those that it has taken of every publisher.
SubscriberUsesLive == dangling \cap SubObjects = {}

\* The same of a publisher, which deletes the callbacks of its readers before
\* the readers, and the readers under the read thread.
PublisherUsesLive == dangling \cap PubObjects = {}

PubStarted(p) == pub[p].pc \notin {"create", "discover", "announced", "failed"}
PubStopped(p) == pub[p].pc \in {"finish", "ack", "done"} \cup PubClosing

PongsLeft == \E i \in DOMAIN latency.pongs : latency.pongs[i] = "PONG"

PongsCounted ==
  ~ClockSkew /\ ~PubStopped(0) /\ ~PongsLeft /\ latency.lost = 0 =>
    latency.answers = latency.counted + (IF latency.sized THEN 1 ELSE 0)

\* While it sends, publisher 0 counts every pong that it takes but the first: none
\* finds _latency_history full or is lost between the reader and LatencyListener,
\* when one subscriber answers each ping and no data has the size of an INITIALIZE
\* sample.
EveryPongCounted == ~UseCft /\ ~PubReadThread /\ DataSize = "DATA" => PongsCounted

\* The same of a publisher with -useReadThread, which reads data with a separate
\* thread instead of a callback.
ReadThreadCountsPongs == PubReadThread => PongsCounted

\* The inductive strengthening, in named parts: a publisher lists subscribers that
\* have announced themselves, and all of them from its start to its sending loop;
\* what FINISHED says of a publisher, and a drained process of its test.
ListedHaveAnnounced ==
  \A p \in Pubs :
    /\ pub[p].pc = "create" => pub[p].list = {}
    /\ pub[p].pc = "burst" => TornSize \/ pub[p].list = Subs
    /\ \A s \in pub[p].list : Announcements(s) > 0

StartedKnowsAll ==
  \A p \in Pubs :
    /\ PubStarted(p) => TornSize \/ \A s \in Subs : Announcements(s) > 0
    /\ pub[p].loop > 0 => pub[p].pc \in {"data", "ping"} \/ PubStopped(p)
    /\ pub[p].tries > 0 => PubStopped(p)

\* The samples of p that are not of FINISHED size.
Unfinished(p) ==
  pub[p].burst + (IF DataSize = "FINISHED" THEN 0 ELSE pub[p].loop)

FinishedSeen ==
  \A s \in Subs :
    /\ \A p \in sub[s].finished :
         Written(p) > Unfinished(p) /\ read[p][s] > Unfinished(p)
    /\ sub[s].endTest => sub[s].finished = Pubs
    /\ sub[s].pc \in {"drain", "closing", "done"} => sub[s].endTest

IndInv ==
  /\ TypeOK
  /\ ListedHaveAnnounced /\ StartedKnowsAll /\ FinishedSeen

Ready   == {s \in Subs : Announcements(s) > 0}
Started == {p \in Pubs : PubStarted(p) \/ (pub[p].pc = "failed" /\ pub[p].list # {})}
Stopped == {p \in Pubs : PubStopped(p)}
Ended   == {s \in Subs : sub[s].endTest}

Session == INSTANCE TestSession
  WITH ready <- Ready, started <- Started, stopped <- Stopped, ended <- Ended

\* Every behaviour of the modern port is a behaviour of the abstract session.
ImplementsTestSession == Session!TSSpec

\* What may keep a session from its end, in the code as in the model.
MayHang == \/ ~Reliable \/ CreateFails \/ UseCft \/ PubReadThread \/ SlowNetwork
           \/ DataSize # "DATA"

\* Nobody hangs: a reliable session in which no creation fails, every ping has
\* one answer, publisher 0 takes pongs with a listener, data samples are known by
\* their size and the last samples arrive before the news that their writer is gone
\* runs to its end.
SessionEnds ==
  []MayHang
    \/ <>(/\ \A p \in Pubs : pub[p].pc = "done"
          /\ \A s \in Subs : sub[s].pc = "done")

\* -latencyTest: "The publisher sends a ping, then blocks until it receives a
\* pong from the subscriber", whatever the filters of the subscribers.
PingsAreAnswered == [](Reliable /\ ~CreateFails) => []<>(pub[0].pc # "ping")
=============================================================================
