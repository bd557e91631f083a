--------------------------- MODULE ThroughputStats ---------------------------
(***************************************************************************)
(* Throughput statistics of a subscriber of the classic C++ and of the C#  *)
(* port, which agree here.  ThroughputListener counts packets, bytes and   *)
(* missing packets on a middleware thread and resets the counters when it  *)
(* prints the summary; every second the main thread of Subscriber reads    *)
(* the same counters, without a lock and one at a time, to print an        *)
(* interval.                                                               *)
(*                                                                         *)
(* A data sample is the turn of its publisher's sending loop; it carries   *)
(* the turn as its sequence number.  All samples have one size, so bytes   *)
(* are counted in samples.  The threads read and write in program order, as *)
(* x64 has it: the counters of the code are plain fields.                   *)
(*                                                                         *)
(* SkippedFromZero and EndAtEveryFinish are mistakes that the code does not *)
(* make: each, put in the place of the definition that follows it, breaks a *)
(* property.                                                                *)
(***************************************************************************)
EXTENDS Integers, FiniteSets

CONSTANT
  Tests  \* the tests: each execution is of one

ASSUME StatsAssumption ==
  \A t \in Tests :
    /\ t.numPublishers \in Nat \ {0} /\ t.numIter \in Nat
    /\ t.lossy \in BOOLEAN /\ t.useCft \in BOOLEAN
    /\ t.seqWord \in Nat \ {0}
    /\ t.word \in Nat /\ t.word > t.numPublishers * t.numIter

VARIABLE test  \* the test of this execution: it does not change

NumPublishers == test.numPublishers  \* -numPublishers
NumIter == test.numIter              \* turns of a sending loop
Lossy == test.lossy                  \* samples may be lost, filtered, or skipped
UseCft == test.useCft                \* -cft: losses are not counted
SeqWord == test.seqWord              \* numbers of a 32-bit seq_num, 2^32 in the code
Word == test.word                    \* numbers of a 64-bit counter, 2^64 in the code

Pubs  == 0 .. NumPublishers - 1
Turns == 0 .. NumIter - 1

VARIABLES
  next,               \* first turn of a publisher that may still reach the reader
  taken,              \* turns whose samples were processed
  lastTurn,           \* last turn that was sent, known when FINISHED arrives
  finishedPublishers,
  endTest,
  listener,           \* where the listener thread is
  message,            \* publisher and sequence number of the message in hand
  packetsReceived,
  bytesReceived,
  missingPackets,
  lastSeqNum,
  sizeKnown,          \* lastDataLength of the listener is set
  summary,            \* packets and missing packets of the summary line
  main,               \* where the main thread is
  sizeSeen,           \* its lastDataLength is set
  lastMsgs, lastBytes, prevCount, prevBytes,
  line                \* the interval line printed last

streamVars  == <<next, taken, lastTurn>>
counterVars == <<packetsReceived, bytesReceived, missingPackets, lastSeqNum>>
endVars     == <<finishedPublishers, endTest, summary>>
pollVars    == <<main, sizeSeen, lastMsgs, lastBytes, prevCount, prevBytes, line>>
vars == <<test, streamVars, listener, message, counterVars, sizeKnown, endVars, pollVars>>

NoSummary == [packets |-> -1, missing |-> -1]
NoLine    == [total |-> 0, msgs |-> 0, bytes |-> 0, missing |-> 0]

Init ==
  /\ test \in Tests
  /\ next = [p \in Pubs |-> 0]
  /\ taken = [p \in Pubs |-> {}]
  /\ lastTurn = [p \in Pubs |-> -1]
  /\ finishedPublishers = {}
  /\ endTest = FALSE
  /\ listener = "idle"
  /\ message = [entityId |-> 0, seqNum |-> 0]
  /\ packetsReceived = 0 /\ bytesReceived = 0 /\ missingPackets = 0
  /\ lastSeqNum = [p \in Pubs |-> 0]
  /\ sizeKnown = FALSE
  /\ summary = NoSummary
  /\ main = "sleep"
  /\ sizeSeen = FALSE
  /\ lastMsgs = 0 /\ lastBytes = 0 /\ prevCount = 0 /\ prevBytes = 0
  /\ line = NoLine

-----------------------------------------------------------------------------
(* ThroughputListener.ProcessMessage, one shared counter at a time.         *)

\* Samples of a publisher arrive in order; with losses some are passed over.
Arrives(p, n) == n >= next[p] /\ (Lossy \/ n = next[p])

\* message.seqNum = (uint)loop
SeqNum(n) == n % SeqWord

ProcessData(p, n) ==
  /\ listener = "idle"
  /\ p \notin finishedPublishers
  /\ Arrives(p, n)
  /\ next' = [next EXCEPT ![p] = n + 1]
  /\ taken' = [taken EXCEPT ![p] = @ \cup {n}]
  /\ message' = [entityId |-> p, seqNum |-> SeqNum(n)]
  /\ sizeKnown' = TRUE
  /\ listener' = "packets"
  /\ UNCHANGED <<lastTurn, counterVars, endVars, pollVars>>

CountPacket ==
  /\ listener = "packets"
  /\ packetsReceived' = packetsReceived + 1
  /\ listener' = "bytes"
  /\ UNCHANGED <<streamVars, message, bytesReceived, missingPackets, lastSeqNum>>
  /\ UNCHANGED <<sizeKnown, endVars, pollVars>>

CountBytes ==
  /\ listener = "bytes"
  /\ bytesReceived' = bytesReceived + 1
  /\ listener' = "missing"
  /\ UNCHANGED <<streamVars, message, packetsReceived, missingPackets, lastSeqNum>>
  /\ UNCHANGED <<sizeKnown, endVars, pollVars>>

\* The missing packets between the last sequence number and the next one; a last
\* number of 0 counts for none received yet.
SkippedFromZero(last, seqNum) == IF seqNum > last + 1 THEN seqNum - (last + 1) ELSE 0

Skipped(last, seqNum) ==
  IF last # 0 /\ ~UseCft /\ seqNum > last + 1 THEN seqNum - (last + 1) ELSE 0

CountMissing ==
  /\ listener = "missing"
  /\ LET p == message.entityId IN
       /\ missingPackets' = missingPackets + Skipped(lastSeqNum[p], message.seqNum)
       /\ lastSeqNum' = IF UseCft THEN lastSeqNum
                        ELSE [lastSeqNum EXCEPT ![p] = message.seqNum]
  /\ listener' = "idle"
  /\ UNCHANGED <<streamVars, message, packetsReceived, bytesReceived>>
  /\ UNCHANGED <<sizeKnown, endVars, pollVars>>

EndAtEveryFinish(finished) == finished # {}

AllFinished(finished) == finished = Pubs

\* The first FINISHED sample of p, with the number of the last sample it sent.
ProcessFinished(p, n) ==
  /\ listener = "idle"
  /\ p \notin finishedPublishers
  /\ n >= next[p] - 1 /\ (Lossy \/ n = next[p] - 1)
  /\ lastTurn' = [lastTurn EXCEPT ![p] = n]
  /\ message' = [entityId |-> p, seqNum |-> IF n < 0 THEN 0 ELSE SeqNum(n)]
  /\ finishedPublishers' = finishedPublishers \cup {p}
  /\ listener' = IF AllFinished(finishedPublishers') THEN "summary" ELSE "idle"
  /\ UNCHANGED <<next, taken, endTest, summary, counterVars, sizeKnown, pollVars>>

TailMissing ==
  LET last == lastSeqNum[message.entityId]
  IN  IF ~UseCft /\ message.seqNum > last THEN message.seqNum - last ELSE 0

\* PrintSummaryThroughput: the tail of the publisher that finished last, the
\* summary line, and the reset of the counters.
PrintSummary ==
  /\ listener = "summary"
  /\ IF sizeKnown
       THEN /\ missingPackets' = missingPackets + TailMissing
            /\ summary' = [packets |-> packetsReceived, missing |-> missingPackets']
       ELSE /\ summary' = [packets |-> 0, missing |-> 0]
            /\ UNCHANGED missingPackets
  /\ listener' = "resetPackets"
  /\ UNCHANGED <<streamVars, message, packetsReceived, bytesReceived, lastSeqNum>>
  /\ UNCHANGED <<sizeKnown, finishedPublishers, endTest, pollVars>>

ResetPackets ==
  /\ listener = "resetPackets"
  /\ packetsReceived' = 0
  /\ listener' = "resetBytes"
  /\ UNCHANGED <<streamVars, message, bytesReceived, missingPackets, lastSeqNum>>
  /\ UNCHANGED <<sizeKnown, endVars, pollVars>>

ResetBytes ==
  /\ listener = "resetBytes"
  /\ bytesReceived' = 0
  /\ listener' = "resetMissing"
  /\ UNCHANGED <<streamVars, message, packetsReceived, missingPackets, lastSeqNum>>
  /\ UNCHANGED <<sizeKnown, endVars, pollVars>>

ResetMissing ==
  /\ listener = "resetMissing"
  /\ missingPackets' = 0
  /\ lastSeqNum' = [lastSeqNum EXCEPT ![0] = 0]
  /\ listener' = "end"
  /\ UNCHANGED <<streamVars, message, packetsReceived, bytesReceived>>
  /\ UNCHANGED <<sizeKnown, endVars, pollVars>>

EndTest ==
  /\ listener = "end"
  /\ endTest' = TRUE
  /\ listener' = "idle"
  /\ UNCHANGED <<streamVars, message, counterVars, sizeKnown>>
  /\ UNCHANGED <<finishedPublishers, summary, pollVars>>

Listener ==
  \/ \E p \in Pubs, n \in Turns : ProcessData(p, n)
  \/ \E p \in Pubs, n \in Turns \cup {-1} : ProcessFinished(p, n)
  \/ CountPacket \/ CountBytes \/ CountMissing
  \/ PrintSummary \/ ResetPackets \/ ResetBytes \/ ResetMissing \/ EndTest

-----------------------------------------------------------------------------
(* One turn of the poll loop, one shared counter at a time.                 *)

\* After its second of sleep the main thread looks at endTest.
PollEndTest ==
  /\ main = "sleep"
  /\ main' = IF endTest THEN "done" ELSE "size"
  /\ UNCHANGED <<streamVars, listener, message, counterVars, sizeKnown, endVars>>
  /\ UNCHANGED <<sizeSeen, lastMsgs, lastBytes, prevCount, prevBytes, line>>

\* A size it has not seen: the interval starts here.
PollNewSize ==
  /\ main = "size"
  /\ sizeSeen # sizeKnown
  /\ sizeSeen' = sizeKnown
  /\ prevCount' = packetsReceived
  /\ main' = "newBytes"
  /\ UNCHANGED <<streamVars, listener, message, counterVars, sizeKnown, endVars>>
  /\ UNCHANGED <<lastMsgs, lastBytes, prevBytes, line>>

PollNewBytes ==
  /\ main = "newBytes"
  /\ prevBytes' = bytesReceived
  /\ main' = "sleep"
  /\ UNCHANGED <<streamVars, listener, message, counterVars, sizeKnown, endVars>>
  /\ UNCHANGED <<sizeSeen, lastMsgs, lastBytes, prevCount, line>>

PollPackets ==
  /\ main = "size"
  /\ sizeSeen = sizeKnown
  /\ lastMsgs' = packetsReceived
  /\ main' = "bytes"
  /\ UNCHANGED <<streamVars, listener, message, counterVars, sizeKnown, endVars>>
  /\ UNCHANGED <<sizeSeen, lastBytes, prevCount, prevBytes, line>>

PollBytes ==
  /\ main = "bytes"
  /\ lastBytes' = bytesReceived
  /\ main' = "line"
  /\ UNCHANGED <<streamVars, listener, message, counterVars, sizeKnown, endVars>>
  /\ UNCHANGED <<sizeSeen, lastMsgs, prevCount, prevBytes, line>>

\* msgSent and bytes are differences of ulong numbers.  The line is printed
\* when a packet was counted.
PrintInterval ==
  /\ main = "line"
  /\ line' = IF lastMsgs > 0
               THEN [total   |-> lastMsgs,
                     msgs    |-> (lastMsgs - prevCount) % Word,
                     bytes   |-> (lastBytes - prevBytes) % Word,
                     missing |-> missingPackets]
               ELSE line
  /\ prevCount' = lastMsgs
  /\ prevBytes' = lastBytes
  /\ main' = "sleep"
  /\ UNCHANGED <<streamVars, listener, message, counterVars, sizeKnown, endVars>>
  /\ UNCHANGED <<sizeSeen, lastMsgs, lastBytes>>

Poll ==
  \/ PollEndTest \/ PollNewSize \/ PollNewBytes
  \/ PollPackets \/ PollBytes \/ PrintInterval

\* The subscriber has left its loop.
Terminated == main = "done" /\ UNCHANGED vars

Next ==
  \/ (Listener \/ Poll) /\ UNCHANGED test
  \/ Terminated

Spec == Init /\ [][Next]_vars

-----------------------------------------------------------------------------
(* Correctness.                                                             *)

CountingStates == {"packets", "bytes", "missing"}          \* a data sample in hand
SummaryStates == {"summary", "resetPackets", "resetBytes", "resetMissing", "end"}

\* Types: sequence numbers and interval lines keep the width of their words.
TypeOK ==
  /\ test \in Tests
  /\ next \in [Pubs -> Nat]
  /\ taken \in [Pubs -> SUBSET Turns]
  /\ lastTurn \in [Pubs -> Turns \cup {-1}]
  /\ finishedPublishers \subseteq Pubs
  /\ endTest \in BOOLEAN
  /\ listener \in {"idle"} \cup CountingStates \cup SummaryStates
  /\ message \in [entityId : Pubs, seqNum : 0 .. SeqWord - 1]
  /\ packetsReceived \in Nat /\ bytesReceived \in Nat /\ missingPackets \in Nat
  /\ lastSeqNum \in [Pubs -> 0 .. SeqWord - 1]
  /\ sizeKnown \in BOOLEAN /\ sizeSeen \in BOOLEAN
  /\ summary \in [packets : Nat, missing : Nat] \cup {NoSummary}
  /\ main \in {"sleep", "size", "newBytes", "bytes", "line", "done"}
  /\ lastMsgs \in Nat /\ lastBytes \in Nat /\ prevCount \in Nat /\ prevBytes \in Nat
  /\ line \in [total : Nat, msgs : 0 .. Word - 1, bytes : 0 .. Word - 1, missing : Nat]

\* A data sample is in hand only while its publisher has not finished; the summary
\* is written when all have.
ListenerInStep ==
  /\ listener \in CountingStates => message.entityId \notin finishedPublishers
  /\ listener \in SummaryStates => finishedPublishers = Pubs

\* The packets read for an interval are no fewer than those of the one before,
\* and no more than were counted, until the summary sets the count to 0.
PollFollows ==
  /\ ~ (packetsReceived = 0 /\ finishedPublishers = Pubs) =>
       /\ prevCount <= packetsReceived
       /\ main \in {"bytes", "line"} => lastMsgs <= packetsReceived
  /\ main \in {"bytes", "line"} /\ lastMsgs > 0 => prevCount <= lastMsgs

\* The difference of an interval line never shows more packets than its total.
IntervalWithinTotal == line.msgs <= line.total

\* With content filters a publisher's numbers have gaps that are no losses: none
\* is ever counted, in the counters, in a line, or in the summary.
FilteredMissNothing ==
  UseCft => missingPackets = 0 /\ line.missing = 0 /\ summary.missing <= 0

\* The samples of all publishers, by publisher and turn: those that were taken, and
\* those that were sent, as far as FINISHED has told.
Sent == {s \in Pubs \X Turns : s[2] <= lastTurn[s[1]]}
Taken == {s \in Pubs \X Turns : s[2] \in taken[s[1]]}

\* A sample that was not taken, between two of its publisher that were.
Between(s, first) ==
  /\ s[2] \notin taken[s[1]]
  /\ \E a, b \in taken[s[1]] : first <= a /\ a < s[2] /\ s[2] < b

\* The gaps the listener can see: those from the first number that is not 0.
GapsAfterZero == {s \in Pubs \X Turns : Between(s, 1)}

\* Between two messages missingPackets is exactly the number of those gaps.
MissingAreGaps ==
  listener = "idle" /\ ~endTest /\ ~UseCft /\ SeqWord > NumIter =>
    missingPackets = Cardinality(GapsAfterZero)

\* The summary counts every sample that was taken and never more than were
\* sent, lost ones included; when none is lost it reports none, also when the
\* sequence numbers wrap around or content filters hide most samples.
SummaryAccounts ==
  summary # NoSummary =>
    /\ summary.packets = Cardinality(Taken)
    /\ summary.packets + summary.missing <= Cardinality(Sent)
    /\ ~Lossy \/ UseCft => summary.missing = 0

\* Though the counters are read one by one, an interval line never shows more
\* packets than were counted, nor more bytes than were received, except for the
\* bytes when the summary resets the counters between the two reads.
IntervalWrapsOnlyAtSummary ==
  /\ IntervalWithinTotal
  /\ \/ line.bytes <= Cardinality(Taken)
     \/ finishedPublishers = Pubs

\* README.md on the results: "Lost Samples - sequence gaps detected".  Every
\* number missing between two samples that were taken is counted.
EveryGapIsCounted ==
  listener = "idle" /\ ~endTest =>
    missingPackets >= Cardinality({s \in Pubs \X Turns : Between(s, 0)})
=============================================================================
