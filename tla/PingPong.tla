------------------------------ MODULE PingPong ------------------------------
(***************************************************************************)
(* Latency measurement of the C# and the classic C++ ports: publisher 0    *)
(* marks some samples as pings, each subscriber echoes the pings that      *)
(* carry its number as pongs, and LatencyListener, on a middleware thread, *)
(* turns pongs into the latency history that the summary sorts and prints. *)
(* In a latency test the sending loop also waits for every pong, on a      *)
(* semaphore that the listener releases.                                   *)
(*                                                                         *)
(* Only the sending loop of Publisher and what follows it is modelled      *)
(* here; CsSession and CppSession have the sessions around it.  Latencies  *)
(* are abstracted to the ping they were measured on.  The ports share this *)
(* part but for: how the size of the history is rounded; the rate control, *)
(* which in C# may skip a turn; the wait of a reliable latency test, which *)
(* in C# polls testCompleted and in C++ has no time-out; a pong from the   *)
(* future, which in C++ ends the wait and in C# does not; and the          *)
(* semaphore, which the C++11 infrastructure creates with a spare permit.  *)
(*                                                                         *)
(* EveryTurnPings, NoWait and NotifyKnownSize are mistakes that the code   *)
(* does not make: each of them, put in the place of the definition that    *)
(* follows it, breaks a property.                                          *)
(***************************************************************************)
EXTENDS Integers, FiniteSets

CONSTANT
  Plans  \* the plans of the tests: each execution is of one

\* The parameters of a test.  The command line refuses numIter < latencyCount,
\* and batching in a latency test; only C# skips turns.  The semaphore counts, and
\* starts at 1, in C++ with RTI_USE_CPP_11_INFRASTRUCTURE; otherwise it is a binary
\* one that starts empty.  A data sample may have the size of an INITIALIZE or a
\* FINISHED sample: -dataLen 1262 and 1263 are refused nowhere.
IsPlan(p) ==
  /\ p.port \in {"cs", "cpp"}
  /\ p.semaphore \in {"binary", "counting"}
  /\ p.dataSize \in {"DATA", "INITIALIZE", "FINISHED"}
  /\ p.latencyCount \in Nat \ {0}
  /\ p.numIter \in Nat /\ p.numIter >= p.latencyCount
  /\ p.samplesPerBatch \in Nat \ {0}
  /\ p.numSubscribers \in Nat \ {0}
  /\ {p.latencyTest, p.reliable, p.noPayload, p.coarseClock, p.clockSkew,
      p.executionTime} \subseteq BOOLEAN
  /\ p.latencyTest => p.samplesPerBatch = 1
  /\ p.coarseClock => p.port = "cs"
  /\ p.semaphore = "counting" => p.port = "cpp"
  /\ p.noPayload => p.dataSize = "DATA"

ASSUME PlanAssumption == \A p \in Plans : IsPlan(p)

VARIABLE plan  \* the plan of this execution: it does not change

Port == plan.port
Semaphore == plan.semaphore              \* of the infrastructure
DataSize == plan.dataSize                \* what message.size of a data sample is taken for
NumIter == plan.numIter                  \* -numIter: turns of the sending loop
LatencyCount == plan.latencyCount        \* -latencyCount: batches between two pings
SamplesPerBatch == plan.samplesPerBatch  \* get_samples_per_batch()
NumSubscribers == plan.numSubscribers
LatencyTest == plan.latencyTest          \* -latencyTest
Reliable == plan.reliable                \* FALSE with -bestEffort
NoPayload == plan.noPayload              \* -dataLen 28: message.size is 0
CoarseClock == plan.coarseClock          \* two rate checks may see the same time
ClockSkew == plan.clockSkew              \* a pong may be older than its ping
ExecutionTime == plan.executionTime      \* testCompleted may be set in the loop

VARIABLES
  pc,                   \* where the main thread is
  completed,            \* testCompleted
  loop,                 \* turns of the sending loop
  currentIndexInBatch,
  pingIndexInBatch,
  sentPing,
  numPings,
  ping,                 \* what became of each ping
  permits,              \* free permits of pongSemaphore
  count,                \* LatencyListener.count
  sizeKnown,            \* LatencyListener.lastDataLength = message.Size
  latencyHistory,       \* LatencyListener.latencyHistory
  sorted,               \* entries that PrintSummaryLatency sorted
  printed               \* entries that it printed

loopVars == <<loop, currentIndexInBatch, pingIndexInBatch, sentPing, numPings>>
listenerVars == <<count, sizeKnown, latencyHistory>>
summaryVars == <<sorted, printed>>
vars == <<plan, pc, completed, loopVars, ping, permits, listenerVars, summaryVars>>

Pings == 0 .. NumIter - 1

\* A ping that was sent is on its way, comes back as a pong, or is lost; the
\* listener records its latency, discards it with the first change of size,
\* ignores it because its history is full, or suspects the clock.  A ping of the
\* size of a FINISHED sample, and a pong of the size of an INITIALIZE, is dropped
\* by the listener that gets it.
Fates == {"none", "sent", "pong", "lost", "recorded", "discarded", "ignored", "skewed",
          "dropped"}

\* The permits that the semaphore has before the first pong.
SparePermits == IF Semaphore = "counting" THEN 1 ELSE 0

PermitRange == IF Semaphore = "counting" THEN Nat ELSE 0 .. 1

\* The size Publisher computes for the history of latencies.  The remainder that
\* rounds it up is in C# that of another dividend.
NumLatency ==
  LET batches == NumIter \div SamplesPerBatch
      pings   == batches \div LatencyCount
      rest    == (IF Port = "cs" THEN pings \div SamplesPerBatch ELSE batches)
                   % LatencyCount
  IN  pings + (IF rest > 0 THEN 1 ELSE 0) + (IF SamplesPerBatch > 1 THEN 1 ELSE 0)

Init ==
  /\ plan \in Plans
  /\ pc = "loop"
  /\ completed = FALSE
  /\ loop = 0
  /\ currentIndexInBatch = 0
  /\ pingIndexInBatch = 0
  /\ sentPing = FALSE
  /\ numPings = 0
  /\ ping = [k \in Pings |-> "none"]
  /\ permits = SparePermits
  /\ count = 0
  /\ sizeKnown = NoPayload
  /\ latencyHistory = [i \in 0 .. NumLatency - 1 |-> -1]
  /\ sorted = 0
  /\ printed = 0

-----------------------------------------------------------------------------
(* The sending loop.                                                        *)

LoopGoesOn == pc = "loop" /\ loop < NumIter /\ ~completed

\* The sample of this turn is a ping: one in every LatencyCount batches, at a
\* position in the batch that moves on with every ping.
EveryTurnPings ==
  /\ (loop \div SamplesPerBatch) % LatencyCount = 0
  /\ currentIndexInBatch = pingIndexInBatch

IsPing ==
  /\ (loop \div SamplesPerBatch) % LatencyCount = 0
  /\ currentIndexInBatch = pingIndexInBatch
  /\ ~sentPing

\* A turn that sends a sample.  In a latency test it ends in EndTurn, after the
\* wait; otherwise here.
SendSample ==
  /\ LoopGoesOn
  /\ currentIndexInBatch' = (currentIndexInBatch + 1) % SamplesPerBatch
  /\ IF IsPing
       THEN /\ numPings' = numPings + 1
            /\ ping' = [ping EXCEPT ![numPings] = "sent"]
            /\ pingIndexInBatch' = (pingIndexInBatch + 1) % SamplesPerBatch
       ELSE UNCHANGED <<numPings, ping, pingIndexInBatch>>
  /\ IF LatencyTest /\ (sentPing \/ IsPing)
       THEN pc' = "wait" /\ sentPing' = TRUE /\ UNCHANGED loop
       ELSE /\ loop' = loop + 1
            /\ sentPing' = (currentIndexInBatch' # 0 /\ (sentPing \/ IsPing))
            /\ UNCHANGED pc
  /\ UNCHANGED <<completed, permits, listenerVars, summaryVars>>

\* The rate control finds that no microsecond has passed since its last check,
\* and skips the rest of the turn.
SkipTurn ==
  /\ CoarseClock
  /\ LoopGoesOn
  /\ loop > 0
  /\ loop' = loop + 1
  /\ UNCHANGED <<currentIndexInBatch, pingIndexInBatch, sentPing, numPings>>
  /\ UNCHANGED <<pc, completed, ping, permits, listenerVars, summaryVars>>

EndTurn ==
  /\ pc' = "loop"
  /\ loop' = loop + 1
  /\ sentPing' = (sentPing /\ currentIndexInBatch # 0)
  /\ UNCHANGED <<currentIndexInBatch, pingIndexInBatch, numPings>>
  /\ UNCHANGED <<completed, ping, listenerVars, summaryVars>>

\* WaitForPingResponse takes the permit of a pong, or the spare one.
NoWait ==
  /\ pc = "wait"
  /\ permits' = IF permits > 0 THEN permits - 1 ELSE 0
  /\ EndTurn

WaitReturns ==
  /\ pc = "wait"
  /\ permits > 0
  /\ permits' = permits - 1
  /\ EndTurn

\* In best effort, 200 ms pass without a permit.
WaitTimesOut ==
  /\ pc = "wait"
  /\ ~Reliable
  /\ permits = 0
  /\ EndTurn
  /\ UNCHANGED permits

\* With reliability, a 100 ms poll of C# finds testCompleted: Publisher returns
\* FALSE.  In C++ the wait has no time-out.
WaitAborted ==
  /\ Port = "cs"
  /\ pc = "wait"
  /\ Reliable /\ completed
  /\ permits = 0
  /\ pc' = "failed"
  /\ UNCHANGED <<completed, loopVars, ping, permits, listenerVars, summaryVars>>

\* The loop is over; FINISHED is sent, and PrintSummaryLatency sorts the
\* history up to count.
SortHistory ==
  /\ pc = "loop"
  /\ ~LoopGoesOn
  /\ pc' = "print"
  /\ sorted' = count
  /\ UNCHANGED <<completed, loopVars, ping, permits, listenerVars, printed>>

\* ... prints it up to count, and resets the counters, unless it found no latency.
PrintSummary ==
  /\ pc = "print"
  /\ pc' = "done"
  /\ IF sorted = 0 THEN printed' = 0 /\ UNCHANGED count
                   ELSE printed' = count /\ count' = 0
  /\ UNCHANGED <<completed, loopVars, ping, permits, sizeKnown, latencyHistory>>
  /\ UNCHANGED sorted

\* The -executionTime timer fires.
Timeout ==
  /\ ExecutionTime
  /\ pc \in {"loop", "wait"}
  /\ ~completed
  /\ completed' = TRUE
  /\ UNCHANGED <<pc, loopVars, ping, permits, listenerVars, summaryVars>>

-----------------------------------------------------------------------------
(* The subscribers, the network and LatencyListener.                        *)

\* Pings k and j are asked of the same subscriber.
SameSubscriber(k, j) == k % NumSubscribers = j % NumSubscribers

\* The first ping, or pong, of its subscriber that is on its way.
IsNext(k, fate) ==
  /\ ping[k] = fate
  /\ \A j \in 0 .. k - 1 : SameSubscriber(k, j) => ping[j] # fate

\* ThroughputListener.ProcessMessage echoes a ping that carries its number, unless
\* its size makes it a FINISHED sample.  (With the size of an INITIALIZE sample,
\* every subscriber echoes every sample; LatencyListener drops them all.)
Echo(k) ==
  /\ IsNext(k, "sent")
  /\ ping' = [ping EXCEPT ![k] = IF DataSize = "FINISHED" THEN "dropped" ELSE "pong"]
  /\ UNCHANGED <<pc, completed, loopVars, permits, listenerVars, summaryVars>>

Lose(k) ==
  /\ ~Reliable
  /\ ping[k] \in {"sent", "pong"}
  /\ ping' = [ping EXCEPT ![k] = "lost"]
  /\ UNCHANGED <<pc, completed, loopVars, permits, listenerVars, summaryVars>>

\* writer.NotifyPingResponse, only in a latency test.  Releasing a binary
\* semaphore that has its permit changes nothing: in C# it throws, and the
\* exception is swallowed.
NotifyKnownSize == permits' = IF LatencyTest /\ sizeKnown THEN 1 ELSE permits

NotifyPingResponse ==
  permits' = IF ~LatencyTest THEN permits
             ELSE IF Semaphore = "counting" THEN permits + 1 ELSE 1

\* A pong of a new size starts the count again.
NextCount == IF sizeKnown THEN count + 1 ELSE 0

\* LatencyListener.process_message returns at once when the pong of k has the size
\* of an INITIALIZE sample: nothing is measured and nobody notified.
DropPong(k) ==
  /\ DataSize = "INITIALIZE"
  /\ IsNext(k, "pong")
  /\ ping' = [ping EXCEPT ![k] = "dropped"]
  /\ UNCHANGED <<pc, completed, loopVars, permits, listenerVars, summaryVars>>

\* LatencyListener.process_message for any other pong.
ProcessPong(k) ==
  /\ DataSize # "INITIALIZE"
  /\ IsNext(k, "pong")
  /\ IF count >= NumLatency
       THEN /\ ping' = [ping EXCEPT ![k] = "ignored"]
            /\ UNCHANGED <<listenerVars, permits>>
       ELSE /\ latencyHistory' = [latencyHistory EXCEPT ![count] = k]
            /\ sizeKnown' = TRUE
            /\ count' = NextCount
            /\ ping' = [ping EXCEPT ![k] =
                          IF sizeKnown THEN "recorded" ELSE "discarded"]
            /\ NotifyPingResponse
  /\ UNCHANGED <<pc, completed, loopVars, summaryVars>>

\* ... and when the clock reads less than the time the ping carries: nothing is
\* measured, and in C# the listener returns before the notification.
SuspectClock(k) ==
  /\ ClockSkew
  /\ DataSize # "INITIALIZE"
  /\ IsNext(k, "pong")
  /\ ping' = [ping EXCEPT ![k] = "skewed"]
  /\ IF Port = "cpp" THEN NotifyPingResponse ELSE UNCHANGED permits
  /\ UNCHANGED <<pc, completed, loopVars, listenerVars, summaryVars>>

-----------------------------------------------------------------------------
Publisher ==
  \/ SendSample \/ SkipTurn
  \/ WaitReturns \/ WaitTimesOut \/ WaitAborted
  \/ SortHistory \/ PrintSummary

\* The publisher has left its main function and every pong has come to rest.
Terminated ==
  /\ pc \in {"done", "failed"}
  /\ \A k \in Pings : ping[k] \notin {"sent", "pong"}
  /\ UNCHANGED vars

Step ==
  \/ Publisher \/ Timeout
  \/ \E k \in Pings :
       Echo(k) \/ Lose(k) \/ DropPong(k) \/ ProcessPong(k) \/ SuspectClock(k)

Next ==
  \/ Step /\ UNCHANGED plan
  \/ Terminated

Spec == Init /\ [][Next]_vars

\* Threads run and the middleware delivers what it does not lose.
Fairness ==
  /\ WF_vars(Publisher /\ UNCHANGED plan)
  /\ WF_vars((\E k \in Pings : Echo(k) \/ DropPong(k) \/ ProcessPong(k))
               /\ UNCHANGED plan)

FairSpec == Spec /\ Fairness

-----------------------------------------------------------------------------
(* Correctness.                                                             *)

\* Types, and the counters within the bounds of the code.
TypeOK ==
  /\ plan \in Plans
  /\ pc \in {"loop", "wait", "print", "done", "failed"}
  /\ completed \in BOOLEAN
  /\ loop \in 0 .. NumIter
  /\ currentIndexInBatch \in 0 .. SamplesPerBatch - 1
  /\ pingIndexInBatch \in 0 .. SamplesPerBatch - 1
  /\ sentPing \in BOOLEAN
  /\ numPings \in 0 .. NumIter
  /\ ping \in [Pings -> Fates]
  /\ permits \in PermitRange
  /\ count \in 0 .. NumLatency
  /\ sizeKnown \in BOOLEAN
  /\ latencyHistory \in [0 .. NumLatency - 1 -> Pings \cup {-1}]
  /\ sorted \in 0 .. NumLatency /\ printed \in 0 .. NumLatency

Strict == LatencyTest /\ Reliable

PingsUnderWay == {k \in Pings : ping[k] \in {"sent", "pong"}}

\* A latency test measures one ping at a time: of the pings and pongs on their way
\* and the permits for the next wait there is one while the loop stands at a wait
\* and none otherwise, but for the spare permit of the C++11 infrastructure.
OnePingAtATime ==
  Strict => Cardinality(PingsUnderWay) + permits
              <= SparePermits + (IF pc \in {"wait", "failed"} THEN 1 ELSE 0)

Recorded == {k \in Pings : ping[k] = "recorded"}

\* The prefix of the history that a summary would sort and print holds every
\* recorded latency of the test, each once, and nothing else.
HistoryHoldsRecorded ==
  pc \in {"loop", "wait", "print"} =>
    /\ {latencyHistory[i] : i \in 0 .. count - 1} = Recorded
    /\ count = Cardinality(Recorded)

\* The inductive strengthening, in named parts: the pings sent and the turns of
\* the loop; what an unknown size says of the history.
PingsSent ==
  /\ numPings <= loop + (IF pc \in {"wait", "failed"} THEN 1 ELSE 0)
  /\ pc = "wait" => loop < NumIter
  /\ \A k \in Pings : k >= numPings => ping[k] = "none"

UnknownSizeMeansEmpty == ~sizeKnown => count = 0

IndInv ==
  /\ TypeOK
  /\ PingsSent
  /\ OnePingAtATime
  /\ UnknownSizeMeansEmpty /\ HistoryHoldsRecorded

\* The summary of a latency test reports every ping that the listener could measure
\* but the one that brought the first size, and prints what it sorted.  With the
\* spare permit of the C++11 infrastructure the loop ends before the last pong, which
\* may be missing from the summary, or be printed without having been sorted.
SummaryIsComplete ==
  LET measured == {k \in 0 .. numPings - 1 : ping[k] \notin {"skewed", "dropped"}}
      first    == IF NoPayload \/ measured = {} THEN 0 ELSE 1
      due      == Cardinality(measured) - first
  IN  Strict /\ pc = "done" =>
        sorted <= printed /\ printed <= due /\ sorted >= due - SparePermits

\* "In batch mode, latency pings are sent once every LatencyCount batches":
\* between two batches the pings sent are those of the batches gone by.
PingEveryLatencyCountBatches ==
  ~CoarseClock /\ pc = "loop" /\ currentIndexInBatch = 0 =>
    numPings = Cardinality({b \in 0 .. (loop \div SamplesPerBatch) - 1 :
                              b % LatencyCount = 0})

\* The history has room for every pong; in C# thanks to the first one, which the
\* change of size discards.
NoPongIgnored ==
  (Port = "cs" => ~NoPayload /\ ~CoarseClock) => \A k \in Pings : ping[k] # "ignored"

\* Every pong that LatencyListener takes ends in a notification.
NotifiesAlways ==
  DataSize = "DATA" /\ (Port = "cs" => ~ClockSkew /\ ~NoPayload)

\* The sending loop ends, and with it the publisher, if its wait has a limit or no
\* pong can be passed over.
LoopEnds == (Strict => NotifiesAlways) ~> pc \in {"done", "failed"}

\* command_line_parameters.rst on -latencyTest: "The publisher sends a ping,
\* then blocks until it receives a pong from the subscriber".  Once the pong is
\* processed, the wait is over.
Answered == {"recorded", "discarded", "ignored", "skewed", "dropped"}

PongEndsWait == pc = "wait" /\ ping[numPings - 1] \in Answered ~> pc # "wait"

\* ... and not before: past the wait of a reliable latency test every ping has come
\* to rest.
WaitsForPong == Strict /\ pc \in {"loop", "print"} => PingsUnderWay = {}
=============================================================================
