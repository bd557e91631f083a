# RTI Perftest: a TLA+ development

RTI Perftest is a benchmark for DDS middleware.  Processes started with `-pub`
send samples to processes started with `-sub`; the subscribers measure the
throughput and the losses, and publisher 0 measures the latency of pings that
the subscribers echo.  The repository holds several ports of one program: the
classic C++ port (`srcCpp`), the modern C++ port (`srcCpp11`), the Java port
(`srcJava`) and the C# port for Connext 7.7 (`srcCs`).

The modules here model three things for each port they cover: the *session* (the
protocol of a test: discovery, announcement, burst, data, pings, end), the
*bookkeeping* its results rest on, and the *binding* (the QoS, instances, loans
and transports that make the middleware do what the session needs).  All of them
are checked by TLC on small instances; the three sessions, the read threads, the
latency measurement and part of the throughput statistics are also proved with
TLAPS, for every number of processes, samples and options.

## 1. Inventory

### 1.1 Components

| Component | State it keeps | Operations | Modules |
|---|---|---|---|
| C# session (`srcCs/Perftest.cs`, `Harness/AnnouncementListener.cs`) | phase of each main thread, loop counters, `testCompleted`, `activeSubscribers`, `finishedPublishers`, `endTest` | `Publisher`, `Subscriber`, the listeners' session branches, Ctrl-C, `-executionTime` | `CsSession` |
| C# latency (`LatencyListener.cs`, `RTIWriter.cs`) | ping counters, `latencyHistory`, `count`, `pongSemaphore` | sending loop, echo, `ProcessMessage`, waits, summary | `PingPong` |
| C# throughput statistics (`ThroughputListener.cs`) | counters, `lastSeqNum[]`, interval copies | `ProcessMessage`, summary, poll loop | `ThroughputStats` |
| Classic C++ session (`srcCpp/perftest_cpp.cxx`) | as C#; `subscriber_list` without a lock; no `testCompleted` at a subscriber | as C#, with announcements repeated every second | `CppSession`; `PingPong` and `ThroughputStats` are about this port too |
| Classic C++ read threads (`perftest_cpp.cxx`, `RTIDDSImpl.cxx`, `RTICertImpl.cxx`, `RTIRawTransportImpl.cxx`) | the loan, `_data_idx`, `_no_data`, `_endTest`, guard condition, semaphore | `ReadThread`, `receive_message` (six forms), `unblock`, `finalize_read_thread` | `CppReadThread` |
| Classic C++ binding (`connextDDS/RTIDDSImpl.cxx`) | participant, endpoints, instance handles, FlatData loans | validate, create, register, write, filter, shut down | `ClassicBinding`, `DdsQos` |
| Classic C++ transports (`pro/Infrastructure_pro.cxx`, `PerftestTransport.cxx`) | none: a function of the command line and the profile | `PerftestConfigureTransport` | `ClassicTransport` |
| C++ Cert binding (`connextDDS/cert/RTICertImpl.cxx`) | registry, asserted remote endpoints, handles | create, assert, enable, register late, send, receive, shut down | `CertBinding` |
| Modern C++ session (`srcCpp11/perftest_cpp.cxx`) | as classic, with objects deleted in an order | `RunPublisher`, `RunSubscriber`, listeners, read threads | `ModernSession` |
| Modern C++ binding and transports (`srcCpp11/RTIDDSImpl.cxx`, `PerftestTransport.cxx`) | participant, endpoints, handles | as classic; errors are exceptions | `ModernBinding` |
| C# middleware binding | participant, topics, QoS | create, dispose | its effect, in `CsSession` |
| C++ infrastructure (`Infrastructure_*.cxx`) | semaphores, threads, Micro's registry | wrappers | parts, in `CppReadThread` and `ClassicBinding` |
| C++ TSS binding, Java port, Python example, parameter manager, C# configuration, transports and output, tests, documentation, build files | | | not modelled (section 6) |

### 1.2 How they interact

Every process has a main thread; the middleware (or, with `-useReadThread`, a
thread of the program) calls the listeners on other threads.  Processes talk over
three topics:

* **Throughput**, publishers to subscribers: an INITIALIZE burst, the data samples
  (some marked as pings), FINISHED samples.  Reliable, or best effort.
* **Latency**, subscribers to publisher 0: the echoed pings ("pongs").
* **Announcement**, subscribers to publishers, always reliable and transient-local:
  INITIALIZE when a subscriber has matched all publishers, FINISHED when it has
  ended the test.

Inside a process the threads share the flags that end it, the list of
subscribers, `endTest`, the counters of the throughput listener, the latency
history and the pong semaphore.  Only C# has a lock, round the list.  The binding
is called by the session through four operations (create, wait for peers, send,
receive), so a binding that composes incompatible QoS shows up as a session that
never starts.

### 1.3 What is hard

* Discovery is neither symmetric nor simultaneous; a sample sent to a reader that
  has not matched its writer is lost.  Only the announcements order the two.
* The end of the test is a handshake between all publishers and all subscribers
  over a topic that may lose samples, with a bounded number of tries.
* A publisher blocks in a write when a reader is a send queue behind, in the wait
  for a pong, and in the two loops before the burst; a subscriber in its poll.
  Each wait has its own way to be cut short, and not all have one.
* Pings move round in the batch and among subscribers; the history of latencies
  has a computed size, and a pong that finds it full is dropped *before* the
  publisher is notified.
* Counters are written by the listener thread and read and reset by others.
* A read thread keeps its place in a loan between two calls, and is ended by
  another thread that then deletes what it uses.
* Objects are deleted by the main thread while callbacks may still arrive.
* The QoS are quotients and sums of options, composed by one function for writers
  and another for readers; the middleware refuses, or never matches, what does
  not fit together.  Cert matches by object ids that both sides only agree on.

### 1.4 What makes each component correct

* Session: no sample before everyone is matched; nobody ends the test before every
  publisher has stopped; with reliable delivery nothing is missing from a summary;
  everybody terminates; an interrupted process terminates; nothing deleted is used.
* Latency: one ping at a time in a latency test; the history holds exactly the
  recorded latencies; the summary is complete; the pings come in the documented
  rhythm; a processed pong ends the wait.
* Statistics: the missing packets are the gaps in the sequence numbers; the summary
  accounts for what was sent; an interval never shows a difference that wrapped.
* Read thread: every sample once and in order; a loan is closed before the reader
  is; nothing is deleted under the thread; the thread can be ended.
* Binding: the middleware accepts and matches the QoS; handles belong to keys;
  filters let through what they should; loans suffice; messages fit.

The list of hazards in `PROJECT.json` gives the source line of each and the
properties that watch it.

## 2. The modules

| Module | Role | Extended by |
|---|---|---|
| `TestSession` | the abstract session, in four sets | used by the three sessions with INSTANCE |
| `CsSession` | the C# session | `MCCsSession`, `CsSessionProofs` |
| `CppSession` | the classic C++ session | `MCCppSession`, `CppSessionProofs` |
| `ModernSession` | the modern C++ session, with pings, read threads and deletion | `MCModernSession`, `ModernSessionProofs` |
| `PingPong` | latency measurement inside a sending loop, C# and classic C++ | `MCPingPong`, `PingPongProofs` |
| `ThroughputStats` | the counters of a subscriber, C# and classic C++ | `MCThroughputStats`, `ThroughputStatsProofs` |
| `CppReadThread` | a read thread and its reader | `MCCppReadThread`, `ReadThreadAndCertProofs` |
| `DdsQos` | what the middleware accepts and matches (external) | the bindings |
| `ClassicTransport` | transports and message sizes of a command line | `ClassicBinding` |
| `ClassicBinding` | `RTIDDSImpl` on Connext Pro and Micro | `MCClassicBinding`, `ClassicBindingProofs` |
| `CertBinding` | `RTICertImpl` in both processes | `MCCertBinding`, `ReadThreadAndCertProofs` |
| `ModernBinding` | `RTIDDSImpl` of the modern port | `MCModernBinding`, `ModernBindingProofs` |

**One run, many configurations.**  What a command line decides is a variable that
never changes: `mode` in the sessions, `plan` in `PingPong`, `test` in
`ThroughputStats`, `config` in `CppReadThread`, `cmd` in the bindings.  The initial
state picks it from a constant set (`Modes`, `Plans`, `Tests`, `Configs`,
`Commands`), so that one run covers all the configurations its MC module lists, and
one theorem covers every set of them.

**Mutants.**  Definitions that stand above their neighbour and are used nowhere
(`SomeAnnounced`, `FirstFinished`, `KeepsLoan`, `NotApart`, ...) are mistakes the code
does not make.  Each is used to confirm that a property can fail: put in the place
of the definition that follows it, it makes TLC report a violation.  The header of
each module names its own.

### 2.1 `TestSession`

Four growing sets: `ready` (subscribers that have announced themselves), `started`
(publishers that have begun to write), `stopped` (publishers that write no more
data) and `ended` (subscribers that have ended the test).  A publisher may start
only when all subscribers are ready, a subscriber may end only when all publishers
have stopped.  It knows nothing of topics, acknowledgements or retries.

### 2.2 `CsSession`

* `pubPc[p]`, the main thread of `Perftest.Publisher`: `discover` (the loops
  `WaitForReaders`, `WaitForWriters`), `announce`, `burst`, `data` (the sending loop),
  `ping` (`WaitForPingResponse`), `finish` and `ack` (the FINISHED loop and its
  `WaitForAck`), then `done` (exit code 0) or `failed` (exit code 1).  `burst[p]`,
  `loop[p]` and `tries[p]` are the loop counters `i`, `loop` and `j` of the code.
* `subPc[s]`, the main thread of `Perftest.Subscriber`: `discover`, `poll`, `drain`
  (the last second of sleep), `done`, `failed`.
* `pubCompleted`, `subCompleted`: the static `testCompleted` of each process.
  `activeSubscribers`, `finishedPublishers`, `endTest`: the listeners' fields.
  `pubSees`, `subSees`: matched endpoints, those of one process together.
* A topic is a log and a cursor per reader.  The log of a publisher is a function
  of its three counters (`Written`, `Kind`), so only the cursors `read` and
  `annRead` are state.  `lost` counts losses.

Each wait of the code is an action whose guard is the condition waited for, and
each way of cutting it short is an action of its own.  `ProcessAnnouncement` and
`ProcessMessage` are whole listener calls.  `HasRoom` is the blocking write of a
strictly reliable writer: `max_blocking_time` is infinite in
`perftest_qos_profiles.xml`.  Losses exist in best effort only.

`DataSize` is the kind of sample that a data sample has the size of: the code tells
the three kinds by size alone, and accepts `-dataLen` values for which data has
that of a FINISHED (1263) or an INITIALIZE sample (1262).  `DistinctSizes` is the
condition that data is not taken for FINISHED.

### 2.3 `CppSession`

The same topics, with one record per process: `pub[p]` and `sub[s]` hold the phase,
the matched endpoints, the loop counters and the listeners' fields.  What differs
from C# is in the actions: `CreatePublisher` and `CreateSubscriber` may fail
(`CreateFails`); a subscriber alternates between `SendAnnouncement` and `NapOver`, the
one-second sleep, until `packets_received` is not zero; a publisher reads the size
of its list without a lock (`SizesRead`: any value with `TornSize` while the list
changes); nothing interrupts a wait, except that the timer ends the sending loop.
`ShortTest` says that a whole test may fit into one nap.

`Kind` is what `process_message` reads from the size of a sample; `DataSize` is as in
`CsSession`.  Data of INITIALIZE size is echoed and sets no `packets_received`, and
`Pongs` leaves the echoes out, because `LatencyListener` drops them.  `SparePermits` is
the permit that the pong semaphore has from the start in the C++11 infrastructure.
`AckWaited` ends with or without the acknowledgement: the result of the wait of 100 ms
is ignored.  A publisher may thus be gone before its last FINISHED arrives; whether
it then still arrives before the news of the departure is a question of the network,
which `SlowNetwork` answers with "perhaps not".

### 2.4 `ModernSession`

As `CppSession`, with the whole of a ping: `SendData` marks pings by batch
(`NextPing`), `Echo` answers with the filters in use, the pongs of all subscribers
queue in `latency.pongs`, `ProcessPong` is `LatencyListener` or, with `-useReadThread`,
a `receive_message` that takes what is there.  After the test the main thread
deletes writers, listeners and readers one by one (`DeleteListeners`, `CloseReader`,
`CloseAnnouncementReader`, `DeleteWriters`); `dangling` collects the deleted objects
that a callback or thread then used.  A subscriber announces itself once.  `DataSize`,
`SlowNetwork`, `SizesRead` and `AckWaited` are as in `CppSession`: the vector of
subscribers is read without a lock before the burst and in the FINISHED loop, and the
time-out of `wait_for_acknowledgments` is caught and forgotten.

### 2.5 `PingPong`

The sending loop of publisher 0 from its first turn to the summary.  One action per
turn (`SendSample`, and `SkipTurn` when the rate control of C# sees no time pass),
one per way out of the wait, two for the summary because the listener thread runs
between the sort and the printing (which an empty history skips).  A latency is
identified with the ping it was measured on, which tells a lost, doubled or stale
entry.  `Port` picks the places where C# and classic C++ differ, `Semaphore` the
infrastructure: a binary semaphore that starts empty, or the counting one of
`RTI_USE_CPP_11_INFRASTRUCTURE`, which starts with a permit.  `DataSize` is what data
is taken for: a ping of FINISHED size gets no pong (`Echo`), and a pong of INITIALIZE
size neither a place nor a notification (`DropPong`).

### 2.6 `ThroughputStats`

A subscriber's listener thread and main thread as two programs over shared
counters, one action per shared write or read.  `ProcessData`, `CountPacket`,
`CountBytes` and `CountMissing` are the steps of `ProcessMessage` for a data sample;
`ProcessFinished` to `EndTest` those for the last FINISHED sample; `PollEndTest` to
`PrintInterval` a turn of the poll loop.  Both threads are in program order, as on
x64.  `SeqWord` stands for 2^32 and `Word` for 2^64.

### 2.7 `CppReadThread`

`threadPc` walks through `ReadThread` and one of six `receive_message`
implementations: `WaitReturns`, `Take` or `ReceivePacket`, then `Scan`, which is
`ScanClassic`, `ScanFlatData`, `ScanCert`, `ScanCertZCopy` or `ScanRaw`, and
`ProcessMessage`.  `seq`, `idx`, `noData` and `loan` are the loan, `_data_idx`, `_no_data`
and whether the sequences are lent.  `mainPc` walks through `finalize_read_thread`:
`unblock`, the wait for the semaphore, the deletion.  The infrastructure is that of
the operating system (a binary semaphore, threads are not joined) or of C++11 (a
counting semaphore that starts at 1, threads are joined).  Which samples have no
data, fail the consistency check or end the test is given by `config`.

### 2.8 `ClassicTransport`, `ClassicBinding`, `DdsQos`

`DdsQos` states what the code relies on of the middleware: limits that start at most
where they end, watermarks apart, an offer not less than the request.
`ClassicTransport` is a function of the command line `c` and the profile: the
transports enabled and configured, the size of their messages (`MinimumSize`,
`ShmemSize`), the shared-memory segment that can be had (`SegmentFound`), queue and
buffer, and what is refused.  `ClassicBinding` has one action per step of
`initialize`, `create_writer`, `create_reader`, `send` and `shutdown`, in the code's
order; every step may fail, and then `pc` goes to `shutdown`.  `writers` and `readers`
hold the QoS composed for each topic, `handles` the key that each registered handle
stands for, `loans` the FlatData samples lent for ever, `maxInst` the member that
each reader changes, `sent` the sample written last.

### 2.9 `CertBinding`

Both processes of a test, because with static discovery each *asserts* what it
takes the other one to have: `Script` is the order in which `perftest_cpp` creates the
endpoints, `Assert` the remote endpoint that each creation adds, `Matches` what the
middleware then counts as matched.  Instances are registered in `wait_for_readers`
or, with zero copy, at the send.  `registry` is the factory's.

### 2.10 `ModernBinding`

As `ClassicBinding`, with the transports in it.  A call of the middleware that fails
throws; `pc` is `destroy` when `main` catches it and `aborted` when it leaves a
destructor.

## 3. Runs

`tlc -config X.cfg MCModule.tla`, the names as in `PROJECT.json`.

| Run | Instance | Shows |
|---|---|---|
| `reliable_session` | C#, 2 publishers, 2 subscribers, reliable, timer | nobody starts or ends early, nothing is missed, `TestSession` is implemented |
| `faulty_session` | C#, 2 publishers, 1 subscriber: latency test interrupted over a slow network, or in best effort with losses | what a leaving publisher knows is right; everybody ends who can |
| `latency` | 15 plans of 2 to 17 turns, both ports, both semaphores, data of every kind of size | pings one at a time, rhythm, complete summary, no hang |
| `statistics` | 3 tests: losses, content filters, numbers that wrap | missing packets are gaps, the summary accounts for all, intervals do not wrap |
| `cpp_session` | classic C++, 2 x 2, five modes | nothing missed, everybody ends, `TestSession` is implemented |
| `read_thread` | 5 readers on 2 infrastructures | every sample once, loans closed, no use after deletion, the thread ends |
| `classic_binding` | about 1100 command lines on Pro and Micro | QoS accepted and matched, instances and loans fit, samples as asked, messages fit |
| `cert_binding` | instances, queues, policies, refusals, failures | handles registered, matches exist, registry emptied, both sides run |
| `modern_binding` | about 1000 command lines | QoS accepted, samples as asked, small samples fit a message |
| `modern_session` | modern C++, 2 x 2, three modes | nothing deleted is used by a subscriber, everybody ends, `TestSession` is implemented |
| `modern_pings` | modern C++, 1 x 2, seven modes | every pong is counted |
| `cpp_announcement_loop` | classic C++, 1 x 1, a short test | a violation: see Findings |

**Bounds.**  Two publishers and two subscribers are the least for which "some" and
"all" differ on both sides; where one side is 1, the question is about the other.
`SendQueueSize` = 2 makes writers block: burst, data and FINISHED samples are more
than the queue.  `announcementSampleCount` is 50 in the code; 1 or 2 tries show the
loop ending both ways.  `MaxLosses` stays below the tries: with as many losses as
tries the subscriber is really left behind, which is best effort and not the code.
`NumIter` is 1 or 2 where only "before, within, after the loop" matters, and 2 to 17
in `PingPong`, where the arithmetic of batches does; its plans include last batches
that are not full.  `MaxAnnouncements` bounds the announcements of a classic
subscriber that are counted; further ones change nothing that anyone reads.  In
`ThroughputStats` three turns are the least with a gap between two samples, before
the first and after the last; `SeqWord` = 3 makes four turns wrap around, and
`Word` = 64 only has to exceed the samples of the test.  A reader gets three or four
samples, in every split into loans, with special ones inside a loan and at its end.  In the bindings
the sizes are the real ones, on both sides of every limit (64952 to 64970 for a
message with or without the FlatData header, 65536 for a bounded sequence, 1 MB for
a segment), queues go from one sample to more than the instances, and 259 instances
cross the first byte of a key.

**Fairness.**  Each main thread, each match or disappearance, and each delivery of a
sample to a listener is weakly fair: the operating system schedules the threads,
and a reliable writer repeats until it is acknowledged.  In best effort a sample
that is not lost arrives.  There is no fairness on Ctrl-C, the timer, losses, or
failures, so every property also holds when they never happen.  A nap or poll of a
second is over some time; only `ShortTest` lets a whole test happen within one, and
`SessionEnds` of the classic port excludes it because of the finding below.  What else
the `SessionEnds` of the C++ ports exclude is listed in their `MayHang`: lost samples,
endpoints that were not created, a network slower than a departure, data that is
taken for a control sample, and in the modern port filters and a read thread for pongs.
The runs also go through sessions with these, for their safety.  `LoopEnds` excludes
reliable latency tests whose pongs may be passed over (`NotifiesAlways`).  In
`CppReadThread` both threads are fair, the main one only once the test is over, and
no sample has to arrive.  The safety-only modules (`ThroughputStats`,
`ClassicBinding`, `ModernBinding`) state none.

**Deadlock** is checked except in `cpp_session`, `modern_session`, `modern_pings` and
`cert_binding`: there a process may really stay where it is, because a peer whose
endpoint was not created, or which has left, never answers it (in `modern_pings` also
because of the finding about content filters), or because data has the size of a
control sample.

**Configurations that show a finding.**  Each of these ends with the violation of
its last column; they are not among the runs.

| Command | Violated |
|---|---|
| `tlc -config MCCsSessionTimer.cfg MCCsSession.tla` | `ExecutionTimeFinishesTest` |
| `tlc -config MCCsSessionFinishedSize.cfg MCCsSession.tla` | `EndTestAfterAllPublishers` |
| `tlc -config MCPingPongUnanswered.cfg MCPingPong.tla` | `PongEndsWait` |
| `tlc -config MCPingPongSpare.cfg MCPingPong.tla` | `WaitsForPong` |
| `tlc -config MCThroughputStatsZero.cfg MCThroughputStats.tla` | `EveryGapIsCounted` |
| `tlc -config MCCppSessionFinishedSize.cfg MCCppSession.tla` | `EndTestAfterAllPublishers` |
| `tlc -config MCCppSessionTorn.cfg MCCppSession.tla` | `NoSampleBeforeDiscovery` |
| `tlc -config MCCppReadThreadDynamic.cfg MCCppReadThread.tla` | `FinalizeEnds` |
| `tlc -config MCCppReadThreadOverwritten.cfg MCCppReadThread.tla` | `EverySampleProcessed` |
| `tlc -config MCClassicBindingBurst.cfg MCClassicBinding.tla` | `BurstRegistersInstances` |
| `tlc -config MCCertBindingDurable.cfg MCCertBinding.tla` | `RequestedIsOffered` |
| `tlc -config MCModernBindingDurable.cfg MCModernBinding.tla` | `DurabilityAsAsked` |
| `tlc -config MCModernBindingDestructor.cfg MCModernBinding.tla` | `DestructorReturns` |
| `tlc -config MCModernBindingSegment.cfg MCModernBinding.tla` | `QosConsistent` |
| `tlc -config MCModernSessionClosing.cfg MCModernSession.tla` | `PublisherUsesLive` |
| `tlc -config MCModernSessionFiltered.cfg MCModernSession.tla` | `PingsAreAnswered` |
| `tlc -config MCModernSessionReadThread.cfg MCModernSession.tla` | `ReadThreadCountsPongs` |

## 4. Proofs

Every theorem assumes what its module assumes of its constants, and nothing else
unless this section says so: at least one publisher, one subscriber, one try, one
place in the queue; other numbers natural; options Boolean.

**The sessions** (`CsSessionProofs`, `CppSessionProofs`, `ModernSessionProofs`) follow one
argument.  None of the safety properties is inductive: that a publisher which
writes is known to every subscriber follows only through the announcement it has
*taken*, which implies that the announcement was *sent*, which implies that the
subscriber had matched everyone.  The parts of `IndInv` are the links of this chain
and of the one back: a listed subscriber has announced itself (`AnnouncementsTaken`,
`ListedHaveAnnounced`), what an announcement says of its sender
(`AnnouncedSubscribers`, `AnnouncingKnowsAll`), a publisher that writes has heard
everyone (`StartedPublishers`, `StartedKnowsAll`), FINISHED was read after all data
(`FinishedPublishersSeen`, `FinishedSeen`), and no reliable topic loses a sample
(`LosslessWhenReliable`).  One lemma per group of actions shows that a step keeps
them; comparisons of counts become "all of them" by cardinality lemmas.

* `TypeCorrect` and `Invariance` in each.
* `CsSession`: `HandshakeHolds`, and under `DistinctSizes` (data is not taken for
  FINISHED, which a finding shows to be needed) `EndTestIsLate`, `NothingMissed`,
  `AllActive`, `QuietExit` and `Refinement`.
* `CppSession`: `EndTestIsLate` and `NothingMissed` under `DistinctSizes`; `HandshakeHolds`
  under `NoTornSize` (the size of the list is never read half-written); `Refinement`
  under both.  The findings show that each hypothesis is needed.
* `ModernSession`: `Refinement` under `NoTornSize` and `DistinctSizes`, and
  `SubscriberLives` in every mode.  The latter needs more than the session's invariant:
  what a subscriber deletes is the writer of its pongs, and the proof shows that every
  sample it has not processed when it does so is of FINISHED size.
* `ModernSession`: `PongsAllCounted`, that no pong is missing from the count.  `PlanInv`
  says whom publisher 0 asks: one sample in a batch, one batch in `LatencyCount`, so
  that the pings have places of their own in `_latency_history` (`BatchHasPlace`,
  `PingsFit`).  `PongInv` relates the pongs that were ever sent to the pings that have
  arrived (`Answered`), and to those queued and counted.  A pong that is taken is thus
  one of the pings, and finds a place; the first one takes none.  With `-dataLen 1262`
  pongs are taken and not counted, so the property speaks of data that is known by its
  size.
* `Refinement` says that every behaviour of the port is one of `TestSession`: the
  initial states are its initial states, and each step adds to one of the four sets
  when the abstract guard holds, or changes none.
* `PhasesInOrder` is what follows from it for the port as a whole, with the hypotheses of
  `Refinement`: the parts of a test, as `InOrder` of `TestSession` has them, come one after
  the other.

**`PingPongProofs`**:

* `TypeCorrect`: types, with `PingsSent` (a ping is unsent exactly from `numPings` on).
* `OnePingHolds`: `OnePingAtATime` becomes inductive as `Discipline`, which bounds pings
  under way, pings whose pong found no place (`Outstanding`) and permits together by
  those the semaphore starts with, and one more at a wait.  A pong that notifies turns
  an outstanding ping into a permit; one that does not can only lower the sum.
* `HistoryHolds`: the history holds exactly the recorded pings in every mode, with
  `UnknownSizeMeansEmpty`: before the first pong nothing was recorded, so the reset
  of `count` at a new size drops nothing.
* `SummaryHolds`: `SummaryIsComplete`.  A ping sent is under way, recorded, discarded,
  skewed or dropped (`PingsAccounted`), and at most the first pong is discarded
  (`FirstPong`).  What a summary has still to report are the recorded pings and those
  under way (`Due`), of which `Discipline` allows as many as spare permits when the loop
  is over; `Summarized` keeps this through the sort, the printing and a pong in between.
* `PingEveryLatencyCount`: the rhythm, by division with remainder of `loop` by
  the batch.
* `NoLatencyIgnored`: the history has room for every pong.  `NumLatency` is a sum
  of rounded quotients; the proof bounds the pings by those of whole batches
  (`SparseNext`, `EarlierBatch`) and compares the two (`HistoryHasRoom`).  In C# it
  takes a payload, as the finding about `-dataLen 28` shows.

**`ThroughputStatsProofs`**: `TypeCorrect`; `IntervalHolds`, that a line never shows more
packets than its total though the count is read without a lock and reset in
between (by `ListenerInStep`: no sample is in hand once all publishers have
finished, so nothing is counted after the reset; and `PollFollows`: successive
readings grow until then); `OnlySummaryWraps`, the same of the bytes, but for the line
under way when the summary resets them (`BytesInv`); `FiltersHoldBack`, that with
content filters nothing is ever reported as missing.  `MissingCountsGaps` and
`SummaryIsSound` are about all samples of a publisher at once: `StreamInv` is what the
listener took and has in hand, `CountInv` how many samples the counters stand for,
`GapInv` how many turns between them; `MissingAreGaps` is proved where the numbers do
not wrap around, as it is stated, `SummaryAccounts` for every width.

**`ReadThreadAndCertProofs`**, about `CppReadThread`: `TypeCorrect`; `ReadThreadOutlived`, that reader, listener and
semaphore are deleted only when the thread is past its last use of them, unless
the wake-up itself failed; `LoansReturned`, that loans are closed, for every reader
but the one for dynamic data, whose sequences `shutdown` does not know;
`EverySampleHandedOnce`, that the samples with data are handed out once each and in
order, for every stream and every cut of it into loans.  `ProcessedInv` describes what
was processed as an increasing sequence of positions in the stream, and `StreamInv` what
is under way: with no data in hand, no rest of a loan is left for the next take to lose.

**`ClassicBindingProofs`, `ModernBindingProofs`** are about all command lines, where the
runs try some thousand:

* `SmallSamplesFit` in both: the smallest of the sizes exists (`SmallestExists`, from the
  well-foundedness of the naturals) and bounds every transport (`MinimumBounds`);
  shared memory, which is adapted after the others, grows only when it is alone
  (`GrowsAlone`) and otherwise shrinks the minimum with it; `_isLargeData` compares
  with that minimum, and no later step changes either.
* `ReadersHoldInstances`: `-instances` defaults to one and fits a 32-bit number, which
  `IsCommand` says; from then on the limit of each reader is above that of the last.
* `LoansAreThere`: the loans a FlatData publisher loses at construction, one for each
  instance, leave one to lend while the send queue has room.
* `TransportAlwaysFits` adds the queue of shared memory to `SmallSamplesFit`: messages and
  bytes are products of the send window and of a rounded quotient (`FragmentsCounted`,
  `WindowFits`), and `QueueInv` keeps them to the end.
* `EndpointsAlwaysMatch` and `QosAlwaysConsistent` (`QosInv`): the QoS of each endpoint,
  by topic, profile and option.
* `SamplesAreSentAsAsked` (`SentInv`): handle, key and filters agree on the instance of a
  sample, which takes the four bytes of a key to tell all instances apart.

Three hypotheses are stated with the theorems that need them, because the code does not
check them.  `QueuesWithinProfiles`: `-receiveQueueSize` becomes `initial_samples` of
every reader (`RTIDDSImpl.cxx:3885`) while the profiles of the pongs and of the
announcements stop at 100 samples.  `SegmentsHoldTwo`, modern C++ only: a FlatData
writer with one sample has equal watermarks (`srcCpp11/RTIDDSImpl.cxx:2718`); the run
of `MCModernBindingSegment.cfg` shows what happens then.  `KeysApart`: the parser accepts
a `-writeInstance` equal to the number of instances (`RTIDDSImpl.cxx:429`), and the key
`MAX_CFT_VALUE` belongs to the samples that pass every filter.

The same module, about `CertBinding`, for every set of command lines:

* `CertTypeCorrect`: types, and that `step` counts within the phase of the process.
* `MatchesAlwaysExist`, from `EndpointInv`: what a process asserts is in the script of the
  other one, under the object id it has there (`ScriptsAgree`); endpoints come in the
  order of the script and the last one enables the participant, so that whoever is
  discovered has all of them.
* `HandlesAlwaysRegistered`, from `HandleInv`: the waits that are over leave their writers
  registered (`Waited`), and `PongsRegistered` carries this over to the pongs, which the
  listener of the subscriber writes: a sample is under way only once the subscriber has
  announced itself, that is, waited for the readers of its pongs.
* `RegistryAlwaysEmptied`: without zero copy every component that
  `configure_participant_qos` can have registered is one that the destructor removes.
* `RequestsMet` marks the bounds of a finding: a reader requests what the writer of
  its topic offers with every command line, except that the pongs are offered volatile
  when `-durability` is 1 or 2 (`RequestedIsOffered`, refuted by
  `MCCertBindingDurable.cfg`).

**Only model-checked:** liveness (`SessionEnds`, `InterruptEndsProcess`,
`PublisherGivesUp`, `LoopEnds`, `FinalizeEnds`, `ConsistentStreamProcessed`, `BothRun`),
because liveness under fairness is out of the prover's reach.  Every other property of
the passing runs is a theorem.

## 5. Findings

Places where the code does something that its own documentation, comments or
messages say it does not.  `PROJECT.json` quotes both sides.

*C#.*

* When `-executionTime` fires while a reliable latency test waits for a pong,
  `Publisher` returns at once: exit code 1, no FINISHED sample, no summary, and the
  subscribers poll until they are interrupted.
* The size of the history is rounded with the remainder of the wrong dividend
  (`Perftest.cs:854`) and may be one short.  Usually the first pong, which is
  discarded because it brings a new size, makes up for it.  With `-dataLen 28` nothing
  is discarded, the last pong finds the history full, and the publisher waits for
  ever.  A pong whose latency is negative (a clock set back) has the same effect.
* FINISHED samples are recognised by size, so with `-dataLen 1263` data ends the test.
  With `-dataLen 1262` the pongs have the size of an INITIALIZE sample, which the
  listener of pongs drops: a reliable latency test waits for ever.  Both C++ ports do
  the same, in both cases.
* `lastSeqNum` 0 stands for "nothing received" and for the first sample; losses
  right after it are not counted.  Classic C++ does the same.

*Classic C++.*

* A subscriber that sleeps through a short test finds `packets_received` reset by the
  summary and announces itself for ever (`cpp_announcement_loop`).
* The size of the list of subscribers is read without a lock (also in modern C++).
* Built with the C++11 infrastructure, the pong semaphore starts with a permit: the
  first wait of a latency test is none, each later one waits for the pong before, and
  the summary may miss the last one.
* `finalize_read_thread` waits for ever for a dynamic-data reader, whose wait set the
  guard condition of `unblock` is not attached to.
* An inconsistent zero-copy sample is looked at again for ever, because its index is
  not advanced.
* The initial burst registers one instance, not all.
* `initial_samples` follows `-receiveQueueSize` past the profile's `max_samples`;
  `-writeInstance` equal to `-instances` is accepted; FlatData registrations cost a
  loan each; the search for a memory segment stops before it tries 1 MB.

*Cert.*  Durability of the pongs' reader exceeds that of their writer; a writer gets
`max_samples_per_instance` 0 when instances reach the send queue; an error in a write
leaves the buffer lent; the destructor does not reach the zero-copy `shutdown`.

*Modern C++.*

* `-durability 1` and `2` give persistent and transient-local endpoints.
* A failure before there is a participant ends in a destructor that throws.
* With large FlatData over shared memory and a queue of one, both watermarks are 0;
  elsewhere the test for equal watermarks compares one with itself.
* `receive_message` drops all samples of a take but the first.
* A pong beyond the history does not wake the publisher: content filters that let
  several subscribers answer make a latency test hang.
* `RunPublisher` deletes writer and listeners before the readers that call them.

When the summary resets the counters between the two reads of the poll loop, the
bytes of the interval line are a difference that wrapped around; no document speaks
of it, and `IntervalWrapsOnlyAtSummary` leaves out that one moment.

## 6. Not modelled

* Wording, formatting and CPU readings; the parsing of the command line (what it
  accepts is the input of the models); security, the pre-shared key thread,
  multicast addresses, flow controllers, the FastMemory plugin.
* The Java port, whose session follows the C# one nearly line for line; the TSS
  binding, whose messaging is that of the classic one over an external library; the
  Python example; the C# transport properties.
* The raw transport but for its `receive_message`: sockets and peers are library
  calls without state of the program.
* In the sessions: the failure of a single write; instances.  In `CsSession`: the
  failure of the creation of an entity (the process returns at once).
* In `CppReadThread`: a `take` that fails with anything but "no data".  In `CertBinding`:
  a `get_loan` or a write that fails.
* In `PingPong`: content filters that make one ping bring several pongs
  (`ModernSession` has them); the sums and extremes of the latencies.
* In `ThroughputStats`: publishers that send different sizes (each change of size
  resets the counters), rates, averages and percentages.
* In the bindings: messages of less than 512 bytes, batches larger than a message.
* The middleware itself.  Its contract (matching, reliable order, blocking writes,
  loans, the QoS it refuses) is taken from how the code configures and uses it, and
  marked external in `PROJECT.json`.

## 7. How the modules compose, and what is left

The three sessions refine `TestSession`.  `PingPong`, `ThroughputStats` and
`CppReadThread` look inside one part of a session (the sending loop, the poll loop,
a listener's thread) and take its guarantees as their environment: all readers
matched before the loop, FINISHED after the last sample, `endTest` set once.  The
bindings justify the topics that the sessions assume: endpoints that are created
and match, writes that block on a full queue, samples that arrive at the instances
they are meant for.

Left, in order of importance: the Java session, for its unbounded pong semaphore
and its list shared without a lock; different sizes in `ThroughputStats`; the raw
transport's peers; a table of the command lines that `ParameterManager` accepts, to
feed the bindings.
