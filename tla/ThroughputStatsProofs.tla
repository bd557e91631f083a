------------------------- MODULE ThroughputStatsProofs -------------------------
(***************************************************************************)
(* TLAPS proofs about ThroughputStats, for every number of publishers,     *)
(* every length of a test, every loss and every width of the numbers:      *)
(* types; what an interval line shows though the poll loop reads the       *)
(* counters one by one while the listener counts and resets them; what the *)
(* listener counts as missing; and that the summary accounts for the       *)
(* samples that were sent.                                                 *)
(*                                                                         *)
(* StreamInv relates what was taken, the sample in hand and FINISHED;      *)
(* CountInv and GapInv say how many samples and how many gaps between them *)
(* the counters stand for, a step or two behind.                           *)
(***************************************************************************)
EXTENDS ThroughputStats, FiniteSetTheorems, TLAPS

\* A number of a word, and what it is when it fits.
LEMMA Remainder ==
  ASSUME NEW a \in Int, NEW w \in Nat \ {0}
  PROVE  a % w \in 0 .. w - 1
OBVIOUS

LEMMA RemainderShrinks ==
  ASSUME NEW a \in Nat, NEW w \in Nat \ {0}
  PROVE  a % w <= a
<1>1. CASE a < w
  <2>1. a % w = a
    BY <1>1
  <2> QED BY <2>1
<1>2. CASE a >= w
  BY <1>2, Remainder
<1> QED BY <1>1, <1>2

\* What the command line says of a test.
LEMMA TestFacts ==
  ASSUME test \in Tests
  PROVE  /\ NumPublishers \in Nat \ {0} /\ NumIter \in Nat
         /\ Lossy \in BOOLEAN /\ UseCft \in BOOLEAN
         /\ SeqWord \in Nat \ {0} /\ Word \in Nat \ {0}
<1>1. /\ NumPublishers \in Nat \ {0} /\ NumIter \in Nat
      /\ Lossy \in BOOLEAN /\ UseCft \in BOOLEAN /\ SeqWord \in Nat \ {0}
  BY StatsAssumption DEF NumPublishers, NumIter, Lossy, UseCft, SeqWord
<1>2. Word \in Nat /\ Word > NumPublishers * NumIter
  BY StatsAssumption DEF Word, NumPublishers, NumIter
<1>3. NumPublishers * NumIter >= 0
  BY <1>1
<1> QED BY <1>1, <1>2, <1>3

Rigid ==
  /\ Pubs' = Pubs /\ Turns' = Turns /\ Lossy' = Lossy /\ UseCft' = UseCft
  /\ SeqWord' = SeqWord /\ Word' = Word

LEMMA TestIsRigid ==
  ASSUME UNCHANGED test
  PROVE  Rigid
BY DEF Rigid, Pubs, Turns, Lossy, UseCft, SeqWord, Word, NumPublishers, NumIter

-----------------------------------------------------------------------------
(* Types.                                                                   *)

LEMMA InitTyped == Init => TypeOK
<1> SUFFICES ASSUME Init PROVE TypeOK
  OBVIOUS
<1>1. 0 \in Pubs /\ -1 \in Turns \cup {-1}
  BY TestFacts DEF Init, Pubs
<1>2. 0 \in 0 .. SeqWord - 1 /\ 0 \in 0 .. Word - 1
  BY TestFacts DEF Init
<1> QED BY <1>1, <1>2 DEF Init, TypeOK, NoSummary, NoLine

\* The numbers that the listener adds and stores.
LEMMA Amounts ==
  ASSUME TypeOK
  PROVE  /\ \A n \in Nat : SeqNum(n) \in 0 .. SeqWord - 1
         /\ \A last, seqNum \in 0 .. SeqWord - 1 : Skipped(last, seqNum) \in Nat
         /\ TailMissing \in Nat
         /\ UseCft => TailMissing = 0
                      /\ \A last, seqNum \in Int : Skipped(last, seqNum) = 0
<1>0. SeqWord \in Nat \ {0} /\ UseCft \in BOOLEAN
  BY TestFacts DEF TypeOK
<1>1. ASSUME NEW n \in Nat PROVE SeqNum(n) \in 0 .. SeqWord - 1
  BY <1>0, Remainder DEF SeqNum
<1>2. \A last, seqNum \in 0 .. SeqWord - 1 : Skipped(last, seqNum) \in Nat
  BY <1>0 DEF Skipped
<1>3. TailMissing \in Nat
  <2>1. lastSeqNum[message.entityId] \in 0 .. SeqWord - 1
    BY DEF TypeOK
  <2>2. message.seqNum \in 0 .. SeqWord - 1
    BY DEF TypeOK
  <2> QED BY <1>0, <2>1, <2>2 DEF TailMissing
<1>4. UseCft => TailMissing = 0
                /\ \A last, seqNum \in Int : Skipped(last, seqNum) = 0
  BY <1>0 DEF TailMissing, Skipped
<1> QED BY <1>1, <1>2, <1>3, <1>4

LEMMA ListenerKeepsTypes ==
  ASSUME TypeOK, Listener, UNCHANGED test
  PROVE  TypeOK'
<1> USE TestIsRigid DEF TypeOK, CountingStates, SummaryStates, Rigid, pollVars
<1>1. ASSUME NEW p \in Pubs, NEW n \in Turns, ProcessData(p, n) PROVE TypeOK'
  <2>1. n \in Nat /\ SeqNum(n) \in 0 .. SeqWord - 1
    <3>1. NumIter \in Nat
      BY TestFacts
    <3>2. n \in Nat
      BY <3>1 DEF Turns
    <3> QED BY <3>2, Amounts
  <2>2. next' \in [Pubs -> Nat] /\ taken' \in [Pubs -> SUBSET Turns]
    <3>1. /\ next' = [next EXCEPT ![p] = n + 1]
          /\ taken' = [taken EXCEPT ![p] = @ \cup {n}]
      BY <1>1 DEF ProcessData
    <3>2. next \in [Pubs -> Nat] /\ taken \in [Pubs -> SUBSET Turns] /\ taken[p] \in SUBSET Turns
      BY DEF TypeOK
    <3>3. n + 1 \in Nat /\ taken[p] \cup {n} \in SUBSET Turns
      BY <2>1, <3>2
    <3> QED BY <3>1, <3>2, <3>3
  <2>3. message' \in [entityId : Pubs, seqNum : 0 .. SeqWord - 1]
    BY <1>1, <2>1 DEF ProcessData
  <2>4. listener' \in CountingStates /\ sizeKnown' \in BOOLEAN
    BY <1>1 DEF ProcessData
  <2>5. UNCHANGED <<lastTurn, counterVars, endVars, pollVars>>
    BY <1>1 DEF ProcessData
  <2> QED BY <2>2, <2>3, <2>4, <2>5 DEF counterVars, endVars
<1>2. ASSUME NEW p \in Pubs, NEW n \in Turns \cup {-1}, ProcessFinished(p, n)
      PROVE  TypeOK'
  <2>1. (IF n < 0 THEN 0 ELSE SeqNum(n)) \in 0 .. SeqWord - 1
    <3>1. SeqWord \in Nat \ {0} /\ NumIter \in Nat
      BY TestFacts
    <3>2. n \in Int
      BY <3>1 DEF Turns
    <3>3. CASE n < 0
      BY <3>1, <3>3
    <3>4. CASE ~ n < 0
      <4>1. n \in Nat
        BY <3>2, <3>4
      <4>2. SeqNum(n) \in 0 .. SeqWord - 1
        BY <4>1, Amounts
      <4> QED BY <3>4, <4>2
    <3> QED BY <3>3, <3>4
  <2>2. message' \in [entityId : Pubs, seqNum : 0 .. SeqWord - 1]
    BY <1>2, <2>1 DEF ProcessFinished
  <2> QED BY <1>2, <2>2 DEF ProcessFinished, counterVars
<1>3. ASSUME CountMissing PROVE TypeOK'
  <2>1. message.entityId \in Pubs /\ message.seqNum \in 0 .. SeqWord - 1
    OBVIOUS
  <2>2. Skipped(lastSeqNum[message.entityId], message.seqNum) \in Nat
    BY <2>1, Amounts
  <2> DEFINE skipped == Skipped(lastSeqNum[message.entityId], message.seqNum)
  <2>3. missingPackets' \in Nat
    <3>1. missingPackets' = missingPackets + skipped
      BY <1>3 DEF CountMissing
    <3> HIDE DEF skipped
    <3>2. skipped \in Nat
      BY <2>2 DEF skipped
    <3> QED BY <3>1, <3>2
  <2>4. lastSeqNum' \in [Pubs -> 0 .. SeqWord - 1]
    <3>1. \/ lastSeqNum' = lastSeqNum
          \/ lastSeqNum' = [lastSeqNum EXCEPT ![message.entityId] = message.seqNum]
      BY <1>3 DEF CountMissing
    <3>2. UNCHANGED <<Pubs, SeqWord>>
      OBVIOUS
    <3> QED BY <2>1, <3>1, <3>2
  <2> QED BY <1>3, <2>3, <2>4 DEF CountMissing, streamVars, endVars
<1>4. ASSUME PrintSummary PROVE TypeOK'
  <2>1. missingPackets' \in Nat
    <3>1. missingPackets \in Nat /\ TailMissing \in Nat
      BY Amounts
    <3>2. missingPackets' = missingPackets + TailMissing \/ missingPackets' = missingPackets
      BY <1>4 DEF PrintSummary
    <3> QED BY ONLY <3>1, <3>2
  <2>2. summary' \in [packets : Nat, missing : Nat] \cup {NoSummary}
    BY <1>4, <2>1 DEF PrintSummary
  <2> QED BY <1>4, <2>1, <2>2 DEF PrintSummary, streamVars
<1>5. ASSUME ResetMissing PROVE TypeOK'
  <2>1. lastSeqNum' \in [Pubs -> 0 .. SeqWord - 1]
    <3>1. 0 \in 0 .. SeqWord - 1
      BY TestFacts
    <3>2. lastSeqNum' = [lastSeqNum EXCEPT ![0] = 0]
      BY <1>5 DEF ResetMissing
    <3>3. lastSeqNum' \in [Pubs -> 0 .. SeqWord - 1]
      BY <3>1, <3>2
    <3> QED BY <3>3
  <2> QED BY <1>5, <2>1 DEF ResetMissing, streamVars, endVars
<1>6. ASSUME CountPacket PROVE TypeOK'
  BY <1>6 DEF CountPacket, streamVars, counterVars, endVars
<1>7. ASSUME CountBytes PROVE TypeOK'
  BY <1>7 DEF CountBytes, streamVars, counterVars, endVars
<1>8. ASSUME ResetPackets PROVE TypeOK'
  BY <1>8 DEF ResetPackets, streamVars, counterVars, endVars
<1>9. ASSUME ResetBytes PROVE TypeOK'
  BY <1>9 DEF ResetBytes, streamVars, counterVars, endVars
<1>10. ASSUME EndTest PROVE TypeOK'
  BY <1>10 DEF EndTest, streamVars, counterVars, endVars
<1> QED
  BY <1>1, <1>2, <1>3, <1>4, <1>5, <1>6, <1>7, <1>8, <1>9, <1>10 DEF Listener

LEMMA PollKeepsTypes ==
  ASSUME TypeOK, Poll, UNCHANGED test
  PROVE  TypeOK'
<1> USE TestIsRigid
        DEF TypeOK, CountingStates, SummaryStates, Rigid, streamVars, counterVars, endVars
<1>1. ASSUME PrintInterval PROVE TypeOK'
  <2>1. /\ (lastMsgs - prevCount) % Word \in 0 .. Word - 1
        /\ (lastBytes - prevBytes) % Word \in 0 .. Word - 1
    <3>1. Word \in Nat \ {0}
      BY TestFacts
    <3>2. lastMsgs - prevCount \in Int /\ lastBytes - prevBytes \in Int
      OBVIOUS
    <3> QED BY <3>1, <3>2, Remainder
  <2>2. line' \in [total : Nat, msgs : 0 .. Word - 1, bytes : 0 .. Word - 1,
                   missing : Nat]
    BY <1>1, <2>1 DEF PrintInterval
  <2> QED BY <1>1, <2>2 DEF PrintInterval
<1>2. ASSUME PollEndTest \/ PollNewSize \/ PollNewBytes \/ PollPackets \/ PollBytes
      PROVE  TypeOK'
  BY <1>2 DEF PollEndTest, PollNewSize, PollNewBytes, PollPackets, PollBytes
<1> QED BY <1>1, <1>2 DEF Poll

LEMMA NextKeepsTypes ==
  ASSUME TypeOK, [Next]_vars
  PROVE  TypeOK'
<1>1. CASE UNCHANGED vars
  BY <1>1 DEF TypeOK, vars, streamVars, counterVars, endVars, pollVars, Pubs, Turns,
              NumPublishers, NumIter, SeqWord, Word, CountingStates, SummaryStates
<1>2. CASE Next
  BY <1>1, <1>2, ListenerKeepsTypes, PollKeepsTypes DEF Next, Terminated
<1> QED BY <1>1, <1>2

\* Every variable keeps its type: sequence numbers their 32-bit word, the
\* differences of an interval line their 64-bit one (ThroughputListener.cs:129-180,
\* Perftest.cs:791-796).
THEOREM TypeCorrect == Spec => []TypeOK
<1>1. Init => TypeOK
  BY InitTyped
<1>2. TypeOK /\ [Next]_vars => TypeOK'
  BY NextKeepsTypes
<1> QED BY <1>1, <1>2, PTL DEF Spec

-----------------------------------------------------------------------------
(* The listener's steps, and the poll loop between any two of them.         *)

PollInv == TypeOK /\ ListenerInStep /\ PollFollows /\ IntervalWithinTotal

LEMMA InitPoll == Init => PollInv
<1> SUFFICES ASSUME Init PROVE PollInv
  OBVIOUS
<1>1. TypeOK
  BY InitTyped
<1>2. ListenerInStep /\ PollFollows /\ IntervalWithinTotal
  BY DEF Init, ListenerInStep, PollFollows, IntervalWithinTotal, CountingStates,
         SummaryStates, NoLine
<1> QED BY <1>1, <1>2 DEF PollInv

\* A sample in hand is of a publisher that has not finished: the packets are
\* set to 0 for the last time after they were counted for the last time.
LEMMA ListenerKeepsStep ==
  ASSUME PollInv, Listener, UNCHANGED test
  PROVE  ListenerInStep'
<1> USE DEF PollInv, ListenerInStep, CountingStates, SummaryStates, streamVars,
            counterVars, endVars, pollVars, AllFinished
<1>0. UNCHANGED Pubs
  BY TestIsRigid DEF Rigid
<1>1. ASSUME NEW p \in Pubs, NEW n \in Turns, ProcessData(p, n) PROVE ListenerInStep'
  <2>1. message'.entityId = p /\ p \notin finishedPublishers'
    BY <1>1 DEF ProcessData
  <2> QED BY <1>1, <2>1 DEF ProcessData
<1>2. ASSUME NEW p \in Pubs, NEW n \in Turns \cup {-1}, ProcessFinished(p, n)
      PROVE  ListenerInStep'
  BY <1>0, <1>2 DEF ProcessFinished
<1>3. ASSUME CountPacket \/ CountBytes \/ CountMissing PROVE ListenerInStep'
  BY <1>0, <1>3 DEF CountPacket, CountBytes, CountMissing
<1>4. ASSUME PrintSummary \/ ResetPackets PROVE ListenerInStep'
  BY <1>0, <1>4 DEF PrintSummary, ResetPackets
<1>5. ASSUME ResetBytes \/ ResetMissing \/ EndTest PROVE ListenerInStep'
  BY <1>0, <1>5 DEF ResetBytes, ResetMissing, EndTest
<1> QED BY <1>1, <1>2, <1>3, <1>4, <1>5 DEF Listener

LEMMA ListenerKeepsPoll ==
  ASSUME PollInv, Listener, UNCHANGED test
  PROVE  PollFollows' /\ IntervalWithinTotal'
<1> USE DEF PollInv, PollFollows, IntervalWithinTotal, streamVars, counterVars,
            endVars, pollVars
<1>0. /\ UNCHANGED Pubs
      /\ packetsReceived \in Nat /\ prevCount \in Nat /\ lastMsgs \in Nat
  BY TestIsRigid DEF Rigid, TypeOK
<1>1. ASSUME NEW p \in Pubs, NEW n \in Turns, ProcessData(p, n)
      PROVE  PollFollows' /\ IntervalWithinTotal'
  BY <1>0, <1>1 DEF ProcessData
<1>2. ASSUME NEW p \in Pubs, NEW n \in Turns \cup {-1}, ProcessFinished(p, n)
      PROVE  PollFollows' /\ IntervalWithinTotal'
  <2>1. finishedPublishers # Pubs
    BY <1>2 DEF ProcessFinished
  <2> QED BY <1>0, <1>2, <2>1 DEF ProcessFinished
<1>3. ASSUME CountPacket PROVE PollFollows' /\ IntervalWithinTotal'
  <2>1. message.entityId \in Pubs /\ message.entityId \notin finishedPublishers
    BY <1>3 DEF CountPacket, ListenerInStep, CountingStates, TypeOK
  <2>2. finishedPublishers # Pubs
    BY <2>1
  <2>3. /\ packetsReceived' = packetsReceived + 1
        /\ UNCHANGED <<finishedPublishers, main, prevCount, lastMsgs, line>>
    BY <1>3 DEF CountPacket
  <2>4. /\ prevCount <= packetsReceived + 1
        /\ main \in {"bytes", "line"} => lastMsgs <= packetsReceived + 1
    BY <1>0, <2>2
  <2> QED BY <1>0, <2>2, <2>3, <2>4
<1>4. ASSUME ResetPackets PROVE PollFollows' /\ IntervalWithinTotal'
  <2>1. finishedPublishers = Pubs
    BY <1>4 DEF ResetPackets, ListenerInStep, SummaryStates
  <2> QED BY <1>0, <1>4, <2>1 DEF ResetPackets
<1>5. ASSUME CountBytes \/ CountMissing PROVE PollFollows' /\ IntervalWithinTotal'
  BY <1>0, <1>5 DEF CountBytes, CountMissing
<1>6. ASSUME PrintSummary \/ ResetBytes PROVE PollFollows' /\ IntervalWithinTotal'
  BY <1>0, <1>6 DEF PrintSummary, ResetBytes
<1>7. ASSUME ResetMissing \/ EndTest PROVE PollFollows' /\ IntervalWithinTotal'
  BY <1>0, <1>7 DEF ResetMissing, EndTest
<1> QED BY <1>1, <1>2, <1>3, <1>4, <1>5, <1>6, <1>7 DEF Listener

\* msgSent is lastMsgs - prevCount, which is no more than lastMsgs: the line is
\* printed only when lastMsgs is not 0.
LEMMA PollKeepsPoll ==
  ASSUME PollInv, Poll, UNCHANGED test
  PROVE  ListenerInStep' /\ PollFollows' /\ IntervalWithinTotal'
<1> USE DEF PollInv, PollFollows, IntervalWithinTotal, ListenerInStep, streamVars,
            counterVars, endVars
<1>0. /\ UNCHANGED Pubs
      /\ packetsReceived \in Nat /\ prevCount \in Nat /\ lastMsgs \in Nat
      /\ line.msgs \in Int /\ line.total \in Int
      /\ Word \in Nat \ {0}
  BY TestFacts, TestIsRigid DEF Rigid, TypeOK
<1>1. ASSUME PollEndTest \/ PollNewBytes
      PROVE  ListenerInStep' /\ PollFollows' /\ IntervalWithinTotal'
  BY <1>0, <1>1 DEF PollEndTest, PollNewBytes
<1>2. ASSUME PollNewSize
      PROVE  ListenerInStep' /\ PollFollows' /\ IntervalWithinTotal'
  BY <1>0, <1>2 DEF PollNewSize
<1>3. ASSUME PollPackets
      PROVE  ListenerInStep' /\ PollFollows' /\ IntervalWithinTotal'
  BY <1>0, <1>3 DEF PollPackets
<1>4. ASSUME PollBytes
      PROVE  ListenerInStep' /\ PollFollows' /\ IntervalWithinTotal'
  BY <1>0, <1>4 DEF PollBytes
<1>5. ASSUME PrintInterval
      PROVE  ListenerInStep' /\ PollFollows' /\ IntervalWithinTotal'
  <2>1. IntervalWithinTotal'
    <3>1. CASE lastMsgs > 0
      <4>1. lastMsgs - prevCount \in Nat /\ lastMsgs - prevCount <= lastMsgs
        BY <1>0, <1>5, <3>1 DEF PrintInterval
      <4>2. (lastMsgs - prevCount) % Word <= lastMsgs - prevCount
        BY <1>0, <4>1, RemainderShrinks
      <4>3. (lastMsgs - prevCount) % Word \in Int
        BY <1>0, <4>1, Remainder
      <4>4. line'.msgs = (lastMsgs - prevCount) % Word /\ line'.total = lastMsgs
        BY <1>5, <3>1 DEF PrintInterval
      <4> QED BY <1>0, <4>1, <4>2, <4>3, <4>4
    <3>2. CASE ~ lastMsgs > 0
      BY <1>5, <3>2 DEF PrintInterval
    <3> QED BY <3>1, <3>2
  <2>2. ListenerInStep' /\ PollFollows'
    BY <1>0, <1>5 DEF PrintInterval
  <2> QED BY <2>1, <2>2
<1> QED BY <1>1, <1>2, <1>3, <1>4, <1>5 DEF Poll

LEMMA NextKeepsPoll ==
  ASSUME PollInv, [Next]_vars
  PROVE  PollInv'
<1>1. TypeOK'
  BY NextKeepsTypes DEF PollInv
<1>2. CASE UNCHANGED vars
  BY <1>1, <1>2 DEF PollInv, ListenerInStep, PollFollows, IntervalWithinTotal, vars,
     streamVars, counterVars, endVars, pollVars, Pubs, NumPublishers
<1>3. CASE Next
  <2>1. CASE Listener /\ UNCHANGED test
    BY <1>1, <2>1, ListenerKeepsStep, ListenerKeepsPoll DEF PollInv
  <2>2. CASE Poll /\ UNCHANGED test
    BY <1>1, <2>2, PollKeepsPoll DEF PollInv
  <2> QED BY <1>2, <1>3, <2>1, <2>2 DEF Next, Terminated
<1> QED BY <1>2, <1>3

\* An interval line never shows more packets than were counted in all: the poll
\* loop reads the count without a lock and the summary sets it to 0 between two
\* readings, but a line is printed only from a count that is not 0, and the
\* listener counts nothing after the reset (Perftest.cs:791-829,
\* ThroughputListener.cs:105-127, 257-260).
THEOREM IntervalHolds == Spec => []IntervalWithinTotal
<1>1. Init => PollInv
  BY InitPoll
<1>2. PollInv /\ [Next]_vars => PollInv'
  BY NextKeepsPoll
<1>3. PollInv => IntervalWithinTotal
  BY DEF PollInv
<1> QED BY <1>1, <1>2, <1>3, PTL DEF Spec

-----------------------------------------------------------------------------
(* Content filters.                                                         *)

LEMMA NextKeepsFiltered ==
  ASSUME TypeOK, FilteredMissNothing, [Next]_vars
  PROVE  FilteredMissNothing'
<1> SUFFICES ASSUME UseCft', UNCHANGED test
             PROVE  missingPackets' = 0 /\ line'.missing = 0 /\ summary'.missing <= 0
  BY DEF FilteredMissNothing, vars, UseCft, Next, Terminated
<1> USE DEF streamVars, counterVars, endVars, pollVars
<1>0. UseCft /\ missingPackets = 0 /\ line.missing = 0 /\ summary.missing <= 0
  BY TestIsRigid DEF Rigid, FilteredMissNothing
<1>1. CASE UNCHANGED vars
  BY <1>0, <1>1 DEF vars
<1>2. ASSUME NEW p \in Pubs, NEW n \in Turns, ProcessData(p, n)
      PROVE  missingPackets' = 0 /\ line'.missing = 0 /\ summary'.missing <= 0
  BY <1>0, <1>2 DEF ProcessData
<1>3. ASSUME NEW p \in Pubs, NEW n \in Turns \cup {-1}, ProcessFinished(p, n)
      PROVE  missingPackets' = 0 /\ line'.missing = 0 /\ summary'.missing <= 0
  BY <1>0, <1>3 DEF ProcessFinished
<1>4. ASSUME CountMissing
      PROVE  missingPackets' = 0 /\ line'.missing = 0 /\ summary'.missing <= 0
  <2>1. Skipped(lastSeqNum[message.entityId], message.seqNum) = 0
    BY <1>0 DEF Skipped
  <2>2. missingPackets' = 0 + 0
    BY <1>0, <1>4, <2>1 DEF CountMissing
  <2> QED BY <1>0, <1>4, <2>2 DEF CountMissing
<1>5. ASSUME PrintSummary
      PROVE  missingPackets' = 0 /\ line'.missing = 0 /\ summary'.missing <= 0
  <2>1. TailMissing = 0
    BY <1>0 DEF TailMissing
  <2> QED BY <1>0, <1>5, <2>1 DEF PrintSummary
<1>6. ASSUME CountPacket \/ CountBytes
      PROVE  missingPackets' = 0 /\ line'.missing = 0 /\ summary'.missing <= 0
  BY <1>0, <1>6 DEF CountPacket, CountBytes
<1>7. ASSUME ResetPackets \/ ResetBytes \/ ResetMissing \/ EndTest
      PROVE  missingPackets' = 0 /\ line'.missing = 0 /\ summary'.missing <= 0
  BY <1>0, <1>7 DEF ResetPackets, ResetBytes, ResetMissing, EndTest
<1>8. ASSUME PrintInterval
      PROVE  missingPackets' = 0 /\ line'.missing = 0 /\ summary'.missing <= 0
  BY <1>0, <1>8 DEF PrintInterval
<1>9. ASSUME PollEndTest \/ PollNewSize \/ PollNewBytes \/ PollPackets \/ PollBytes
      PROVE  missingPackets' = 0 /\ line'.missing = 0 /\ summary'.missing <= 0
  BY <1>0, <1>9 DEF PollEndTest, PollNewSize, PollNewBytes, PollPackets, PollBytes
<1> QED
  BY <1>1, <1>2, <1>3, <1>4, <1>5, <1>6, <1>7, <1>8, <1>9
     DEF Next, Listener, Poll, Terminated

\* With content filters nothing is ever reported as missing, whatever the filters
\* hide, the sequence numbers do, or the network loses (ThroughputListener.cs:156-174,
\* 197-210).
THEOREM FiltersHoldBack == Spec => []FilteredMissNothing
<1>1. Init => TypeOK /\ FilteredMissNothing
  <2>1. Init => FilteredMissNothing
    BY DEF Init, FilteredMissNothing, NoLine, NoSummary
  <2> QED BY <2>1, InitTyped
<1>2. (TypeOK /\ FilteredMissNothing) /\ [Next]_vars => (TypeOK /\ FilteredMissNothing)'
  BY NextKeepsTypes, NextKeepsFiltered
<1> QED BY <1>1, <1>2, PTL DEF Spec

-----------------------------------------------------------------------------
(* The streams of the publishers.                                           *)

Hand == message.entityId   \* the publisher of the sample in hand

\* The turns taken are behind the next one; the sample in hand is the last that was
\* taken, and FINISHED names no turn before it.  Without losses all turns are taken.
StreamInv ==
  /\ \A p \in Pubs : \A n \in taken[p] : n < next[p]
  /\ \A p \in finishedPublishers : \A n \in taken[p] : n <= lastTurn[p]
  /\ ~sizeKnown => \A p \in Pubs : taken[p] = {}
  /\ listener \in CountingStates =>
       next[Hand] - 1 \in taken[Hand] /\ message.seqNum = SeqNum(next[Hand] - 1)
  /\ listener = "summary" =>
       message.seqNum = IF lastTurn[Hand] < 0 THEN 0 ELSE SeqNum(lastTurn[Hand])
  /\ ~Lossy => \A p \in Pubs : \A n \in Turns : n < next[p] => n \in taken[p]
  /\ ~Lossy => \A p \in finishedPublishers : lastTurn[p] = next[p] - 1

LEMMA InitStream == Init => StreamInv
<1> SUFFICES ASSUME Init PROVE StreamInv
  OBVIOUS
<1>1. NumIter \in Nat
  BY TestFacts DEF Init
<1>2. /\ \A p \in Pubs : taken[p] = {} /\ next[p] = 0
      /\ finishedPublishers = {} /\ listener = "idle"
  BY DEF Init
<1>3. \A n \in Turns : ~(n < 0)
  BY <1>1 DEF Turns
<1> QED BY <1>2, <1>3 DEF StreamInv, CountingStates

LEMMA StreamKept ==
  ASSUME StreamInv, Rigid, UNCHANGED <<streamVars, finishedPublishers, sizeKnown>>,
         SeqWord' = SeqWord,
         listener' \in CountingStates => listener \in CountingStates /\ message' = message,
         listener' = "summary" => listener = "summary" /\ message' = message
  PROVE  StreamInv'
BY DEF StreamInv, Rigid, streamVars, Hand, SeqNum, CountingStates

LEMMA DataKeepsStream ==
  ASSUME TypeOK, StreamInv, Rigid, NEW p \in Pubs, NEW n \in Turns, ProcessData(p, n)
  PROVE  StreamInv'
<1>1. /\ next' = [next EXCEPT ![p] = n + 1] /\ taken' = [taken EXCEPT ![p] = taken[p] \cup {n}]
      /\ message' = [entityId |-> p, seqNum |-> SeqNum(n)] /\ sizeKnown' = TRUE
      /\ listener' = "packets" /\ p \notin finishedPublishers
      /\ UNCHANGED <<lastTurn, finishedPublishers>>
      /\ n >= next[p] /\ (Lossy \/ n = next[p])
  BY DEF ProcessData, Arrives, endVars
<1>2. /\ next \in [Pubs -> Nat] /\ taken \in [Pubs -> SUBSET Turns]
      /\ finishedPublishers \subseteq Pubs
  BY DEF TypeOK
<1>3. n \in Int /\ \A k \in Turns : k \in Nat
  BY TestFacts DEF TypeOK, Turns
<1>4. /\ next'[p] = n + 1 /\ taken'[p] = taken[p] \cup {n}
      /\ \A q \in Pubs : q # p => next'[q] = next[q] /\ taken'[q] = taken[q]
  BY <1>1, <1>2
<1>5. ASSUME NEW q \in Pubs, NEW k \in taken'[q]
      PROVE  k < next'[q]
  <2>1. CASE q = p
    <3>1. taken[p] \subseteq Turns /\ next[p] \in Nat
      BY <1>2
    <3>2. \A j \in taken[p] : j < next[p] /\ j \in Nat
      BY <1>3, <3>1 DEF StreamInv
    <3> QED BY <1>1, <1>3, <1>4, <1>5, <2>1, <3>1, <3>2
  <2>2. CASE q # p
    BY <1>4, <1>5, <2>2 DEF StreamInv
  <2> QED BY <2>1, <2>2
<1>6. \A q \in finishedPublishers : \A k \in taken'[q] : k <= lastTurn[q]
  BY <1>1, <1>2, <1>4 DEF StreamInv
<1>7. ASSUME ~Lossy, NEW q \in Pubs, NEW k \in Turns, k < next'[q]
      PROVE  k \in taken'[q]
  <2>1. CASE q = p
    <3>1. k < n + 1 /\ n = next[p] /\ k \in Nat
      BY <1>1, <1>3, <1>4, <1>7, <2>1
    <3>2. CASE k = n
      BY <1>4, <2>1, <3>2
    <3>3. CASE k # n
      <4>1. k < next[p]
        BY <1>3, <3>1, <3>3
      <4> QED BY <1>4, <1>7, <2>1, <4>1 DEF StreamInv
    <3> QED BY <3>2, <3>3
  <2>2. CASE q # p
    BY <1>4, <1>7, <2>2 DEF StreamInv
  <2> QED BY <2>1, <2>2
<1>8. ~Lossy => \A q \in finishedPublishers : lastTurn[q] = next'[q] - 1
  BY <1>1, <1>2, <1>4 DEF StreamInv
<1>9. /\ Hand' = p /\ next'[p] - 1 = n /\ n \in taken'[p] /\ message'.seqNum = SeqNum(n)
      /\ SeqNum(n)' = SeqNum(n)
  BY <1>1, <1>3, <1>4 DEF Hand, SeqNum, Rigid
<1>10. (listener \in CountingStates)' =>
         (next[Hand] - 1 \in taken[Hand] /\ message.seqNum = SeqNum(next[Hand] - 1))'
  BY <1>9
<1> QED
  BY <1>1, <1>5, <1>6, <1>7, <1>8, <1>10 DEF StreamInv, Rigid

LEMMA FinishKeepsStream ==
  ASSUME TypeOK, StreamInv, Rigid, NEW p \in Pubs, NEW n \in Turns \cup {-1},
         ProcessFinished(p, n)
  PROVE  StreamInv'
<1>1. /\ lastTurn' = [lastTurn EXCEPT ![p] = n]
      /\ message' = [entityId |-> p, seqNum |-> IF n < 0 THEN 0 ELSE SeqNum(n)]
      /\ finishedPublishers' = finishedPublishers \cup {p}
      /\ listener' \in {"summary", "idle"}
      /\ n >= next[p] - 1 /\ (Lossy \/ n = next[p] - 1)
      /\ UNCHANGED <<next, taken, sizeKnown>>
  BY DEF ProcessFinished
<1>2. /\ next \in [Pubs -> Nat] /\ taken \in [Pubs -> SUBSET Turns]
      /\ finishedPublishers \subseteq Pubs /\ lastTurn \in [Pubs -> Turns \cup {-1}]
  BY DEF TypeOK
<1>3. n \in Int /\ \A k \in Turns : k \in Nat
  BY TestFacts DEF TypeOK, Turns
<1>4. lastTurn'[p] = n /\ \A q \in Pubs : q # p => lastTurn'[q] = lastTurn[q]
  BY <1>1, <1>2
<1>5. ASSUME NEW q \in finishedPublishers', NEW k \in taken[q]
      PROVE  k <= lastTurn'[q]
  <2>1. CASE q = p
    <3>1. k < next[p] /\ k \in Nat /\ next[p] \in Nat
      BY <1>2, <1>3, <1>5, <2>1 DEF StreamInv
    <3> QED BY <1>1, <1>3, <1>4, <2>1, <3>1
  <2>2. CASE q # p
    BY <1>1, <1>2, <1>4, <1>5, <2>2 DEF StreamInv
  <2> QED BY <2>1, <2>2
<1>6. ~Lossy => \A q \in finishedPublishers' : lastTurn'[q] = next[q] - 1
  BY <1>1, <1>2, <1>4 DEF StreamInv
<1>7. (message.seqNum = IF lastTurn[Hand] < 0 THEN 0 ELSE SeqNum(lastTurn[Hand]))'
  <2>1. /\ message'.entityId = p /\ message'.seqNum = IF n < 0 THEN 0 ELSE SeqNum(n)
        /\ SeqWord' = SeqWord
    BY <1>1 DEF Rigid
  <2> QED BY <1>4, <2>1 DEF Hand, SeqNum
<1>8. listener' \notin CountingStates
  BY <1>1 DEF CountingStates
<1> QED BY <1>1, <1>5, <1>6, <1>7, <1>8 DEF StreamInv, Rigid

LEMMA NextKeepsStream ==
  ASSUME TypeOK, StreamInv, [Next]_vars
  PROVE  StreamInv'
<1>1. UNCHANGED test
  BY DEF Next, Terminated, vars
<1>2. Rigid
  BY <1>1, TestIsRigid
<1>3. SeqWord' = SeqWord
  BY <1>2 DEF Rigid
<1> USE DEF endVars
<1>4. ASSUME NEW p \in Pubs, NEW n \in Turns, ProcessData(p, n) PROVE StreamInv'
  BY <1>2, <1>4, DataKeepsStream
<1>5. ASSUME NEW p \in Pubs, NEW n \in Turns \cup {-1}, ProcessFinished(p, n)
      PROVE  StreamInv'
  BY <1>2, <1>5, FinishKeepsStream
<1>6. CASE CountPacket \/ CountBytes \/ CountMissing
  BY <1>2, <1>3, <1>6, StreamKept DEF CountPacket, CountBytes, CountMissing, CountingStates
<1>7. CASE PrintSummary \/ ResetPackets \/ ResetBytes \/ ResetMissing \/ EndTest
  BY <1>2, <1>3, <1>7, StreamKept
     DEF PrintSummary, ResetPackets, ResetBytes, ResetMissing, EndTest, CountingStates
<1>8. CASE Poll
  BY <1>2, <1>3, <1>8, StreamKept
     DEF Poll, PollEndTest, PollNewSize, PollNewBytes, PollPackets, PollBytes, PrintInterval
<1>9. CASE UNCHANGED vars
  BY <1>2, <1>3, <1>9, StreamKept DEF vars
<1> QED BY <1>4, <1>5, <1>6, <1>7, <1>8, <1>9 DEF Next, Listener, Terminated

-----------------------------------------------------------------------------
(* The samples that were taken, and the counters of packets and bytes.      *)

LEMMA SamplesAreFinite ==
  ASSUME test \in Tests
  PROVE  /\ IsFiniteSet(Pubs \X Turns)
         /\ \A S \in SUBSET (Pubs \X Turns) : IsFiniteSet(S) /\ Cardinality(S) \in Nat
<1>1. NumPublishers - 1 \in Int /\ NumIter - 1 \in Int
  BY TestFacts
<1>2. IsFiniteSet(Pubs) /\ IsFiniteSet(Turns)
  BY <1>1, FS_Interval DEF Pubs, Turns
<1>3. IsFiniteSet(Pubs \X Turns)
  BY <1>2, FS_Product
<1> QED BY <1>3, FS_Subset, FS_CardinalityType

LEMMA TakenIsFinite ==
  ASSUME test \in Tests
  PROVE  /\ IsFiniteSet(Taken) /\ Cardinality(Taken) \in Nat
         /\ IsFiniteSet(Sent) /\ Cardinality(Sent) \in Nat
<1>1. Taken \in SUBSET (Pubs \X Turns) /\ Sent \in SUBSET (Pubs \X Turns)
  BY DEF Taken, Sent
<1> QED BY <1>1, SamplesAreFinite

\* A sample that is processed was not taken before.
LEMMA OneMoreTaken ==
  ASSUME TypeOK, StreamInv, Rigid, NEW p \in Pubs, NEW n \in Turns, ProcessData(p, n)
  PROVE  Cardinality(Taken') = Cardinality(Taken) + 1
<1>1. taken' = [taken EXCEPT ![p] = taken[p] \cup {n}] /\ n >= next[p]
  BY DEF ProcessData, Arrives
<1>2. taken \in [Pubs -> SUBSET Turns] /\ next \in [Pubs -> Nat] /\ n \in Nat
  BY TestFacts DEF TypeOK, Turns
<1>3. n \notin taken[p]
  <2> SUFFICES ASSUME n \in taken[p] PROVE FALSE
    OBVIOUS
  <2>1. n < next[p]
    BY DEF StreamInv
  <2>2. next[p] \in Nat
    BY <1>2
  <2> QED BY <1>1, <1>2, <2>1, <2>2
<1>4. <<p, n>> \notin Taken
  BY <1>3 DEF Taken
<1>5. Taken' = Taken \cup {<<p, n>>}
  <2>1. taken'[p] = taken[p] \cup {n} /\ \A q \in Pubs : q # p => taken'[q] = taken[q]
    BY <1>1, <1>2
  <2>2. Taken' = {s \in Pubs \X Turns : s[2] \in taken'[s[1]]}
    BY DEF Taken, Rigid
  <2>3. ASSUME NEW s \in Pubs \X Turns
        PROVE  s[2] \in taken'[s[1]] <=> s[2] \in taken[s[1]] \/ s = <<p, n>>
    <3>1. s = <<s[1], s[2]>> /\ s[1] \in Pubs
      OBVIOUS
    <3>2. CASE s[1] = p
      BY <2>1, <3>1, <3>2
    <3>3. CASE s[1] # p
      BY <2>1, <3>1, <3>3
    <3> QED BY <3>2, <3>3
  <2>4. <<p, n>> \in Pubs \X Turns
    OBVIOUS
  <2> QED BY <2>2, <2>3, <2>4 DEF Taken
<1>6. IsFiniteSet(Taken)
  BY TakenIsFinite DEF TypeOK
<1> QED BY <1>4, <1>5, <1>6, FS_AddElement

\* The counters follow the samples, a step or two behind, until the summary resets
\* them.
CountInv ==
  /\ endTest => listener = "idle" /\ finishedPublishers = Pubs
  /\ ~endTest /\ listener \notin {"resetBytes", "resetMissing", "end"} =>
       packetsReceived + (IF listener = "packets" THEN 1 ELSE 0) = Cardinality(Taken)
  /\ bytesReceived + (IF listener \in {"packets", "bytes"} THEN 1 ELSE 0)
       <= Cardinality(Taken)

LEMMA InitCount == Init => CountInv
<1> SUFFICES ASSUME Init PROVE CountInv
  OBVIOUS
<1>1. Taken = {}
  BY DEF Init, Taken
<1>2. Cardinality(Taken) = 0
  BY <1>1, FS_EmptySet
<1> QED BY <1>2 DEF Init, CountInv

LEMMA NextKeepsCount ==
  ASSUME TypeOK, StreamInv, CountInv, ListenerInStep, [Next]_vars
  PROVE  CountInv'
<1>1. UNCHANGED test /\ Rigid
  BY TestIsRigid DEF Next, Terminated, vars
<1>2. UNCHANGED taken => Taken' = Taken
  BY <1>1 DEF Taken, Rigid
<1>3. /\ Cardinality(Taken) \in Nat /\ packetsReceived \in Nat /\ bytesReceived \in Nat
  BY TakenIsFinite DEF TypeOK
<1> USE DEF streamVars, counterVars, endVars
<1>4. ASSUME NEW p \in Pubs, NEW n \in Turns, ProcessData(p, n) PROVE CountInv'
  <2>1. Cardinality(Taken') = Cardinality(Taken) + 1
    BY <1>1, <1>4, OneMoreTaken
  <2>2. /\ listener = "idle" /\ listener' = "packets" /\ p \notin finishedPublishers
        /\ UNCHANGED <<endTest, packetsReceived, bytesReceived>>
    BY <1>4 DEF ProcessData
  <2>3. ~endTest
    BY <2>2 DEF CountInv
  <2>4. packetsReceived = Cardinality(Taken) /\ bytesReceived <= Cardinality(Taken)
    BY <1>3, <2>2, <2>3 DEF CountInv
  <2> DEFINE counted == Cardinality(Taken')
  <2>5. counted = Cardinality(Taken) + 1
    BY <2>1
  <2> HIDE DEF counted
  <2>6. packetsReceived + 1 = counted /\ bytesReceived + 1 <= counted
    BY <1>3, <2>4, <2>5
  <2> QED BY <2>2, <2>3, <2>6 DEF CountInv, counted
<1>5. ASSUME NEW p \in Pubs, NEW n \in Turns \cup {-1}, ProcessFinished(p, n)
      PROVE  CountInv'
  <2>1. /\ listener = "idle" /\ p \notin finishedPublishers
        /\ listener' \in {"summary", "idle"}
        /\ UNCHANGED <<taken, endTest, packetsReceived, bytesReceived>>
    BY <1>5 DEF ProcessFinished
  <2>2. ~endTest
    BY <2>1 DEF CountInv
  <2> QED BY <1>2, <1>3, <2>1, <2>2 DEF CountInv
<1>6. CASE CountPacket
  BY <1>2, <1>3, <1>6 DEF CountPacket, CountInv
<1>7. CASE CountBytes
  BY <1>2, <1>3, <1>7 DEF CountBytes, CountInv
<1>8. CASE CountMissing
  BY <1>2, <1>3, <1>8 DEF CountMissing, CountInv
<1>9. CASE PrintSummary
  BY <1>2, <1>3, <1>9 DEF PrintSummary, CountInv
<1>10. CASE ResetPackets
  BY <1>2, <1>3, <1>10 DEF ResetPackets, CountInv
<1>11. CASE ResetBytes
  BY <1>2, <1>3, <1>11 DEF ResetBytes, CountInv
<1>12. CASE ResetMissing
  BY <1>2, <1>3, <1>12 DEF ResetMissing, CountInv
<1>13. CASE EndTest
  BY <1>1, <1>2, <1>3, <1>13 DEF EndTest, CountInv, ListenerInStep, SummaryStates, Rigid
<1>14. CASE Poll
  <2>1. UNCHANGED <<taken, endTest, listener, packetsReceived, bytesReceived,
                    finishedPublishers>>
    BY <1>14
       DEF Poll, PollEndTest, PollNewSize, PollNewBytes, PollPackets, PollBytes, PrintInterval
  <2> QED BY <1>1, <1>2, <2>1 DEF CountInv, Rigid
<1>15. CASE UNCHANGED vars
  <2>1. UNCHANGED <<taken, endTest, listener, packetsReceived, bytesReceived,
                    finishedPublishers>>
    BY <1>15 DEF vars
  <2> QED BY <1>1, <1>2, <2>1 DEF CountInv, Rigid
<1> QED
  BY <1>4, <1>5, <1>6, <1>7, <1>8, <1>9, <1>10, <1>11, <1>12, <1>13, <1>14, <1>15
     DEF Next, Listener, Terminated

-----------------------------------------------------------------------------
(* The gaps between the samples that were taken, and the missing packets.   *)

\* The turns outside f between two of its publisher in f, the first from `first'.
Gaps(f, first) ==
  {s \in Pubs \X Turns :
     /\ s[2] \notin f[s[1]]
     /\ \E a, b \in f[s[1]] : first <= a /\ a < s[2] /\ s[2] < b}

LEMMA GapsAreFinite ==
  ASSUME test \in Tests, NEW f, NEW first
  PROVE  IsFiniteSet(Gaps(f, first)) /\ Cardinality(Gaps(f, first)) \in Nat
<1>1. Gaps(f, first) \in SUBSET (Pubs \X Turns)
  BY DEF Gaps
<1> QED BY <1>1, SamplesAreFinite

\* The turns of one publisher from a to b.
LEMMA TurnsOfOne ==
  ASSUME NEW p, NEW a \in Nat, NEW b \in Int, a <= b + 1
  PROVE  IsFiniteSet({p} \X (a .. b)) /\ Cardinality({p} \X (a .. b)) = b + 1 - a
<1>1. IsFiniteSet({p}) /\ Cardinality({p}) = 1
  BY FS_Singleton
<1>2. IsFiniteSet(a .. b) /\ Cardinality(a .. b) = b + 1 - a
  <2>1. IsFiniteSet(a .. b) /\ Cardinality(a .. b) = IF a > b THEN 0 ELSE b - a + 1
    BY FS_Interval
  <2> QED BY <2>1
<1>3. /\ IsFiniteSet({p} \X (a .. b))
      /\ Cardinality({p} \X (a .. b)) = Cardinality({p}) * Cardinality(a .. b)
  BY <1>1, <1>2, FS_Product
<1> QED BY <1>1, <1>2, <1>3

\* One more turn n of p, after all the others.
OneMore(f, g, p, n) ==
  /\ f \in [Pubs -> SUBSET Turns]
  /\ g = [f EXCEPT ![p] = f[p] \cup {n}]
  /\ \A k \in f[p] : k < n

\* When nothing came before it that counts as a first number it opens no gap.
LEMMA FirstOpensNoGap ==
  ASSUME test \in Tests, NEW f, NEW g, NEW p \in Pubs, NEW n \in Turns, OneMore(f, g, p, n),
         NEW first \in Nat, \A k \in f[p] : k < first
  PROVE  Gaps(g, first) = Gaps(f, first)
<1>1. /\ f[p] \subseteq Turns /\ g[p] = f[p] \cup {n}
      /\ \A q \in Pubs : q # p => g[q] = f[q]
      /\ \A k \in Turns : k \in Nat
      /\ \A k \in f[p] : k < n
  BY TestFacts DEF OneMore, Turns
<1>2. ASSUME NEW k \in f[p] \cup {n}, NEW j \in Turns, NEW b \in f[p] \cup {n},
             first <= k, k < j, j < b
      PROVE  FALSE
  <2>1. k \in Nat /\ b \in Nat /\ j \in Nat /\ n \in Nat
    BY <1>1, <1>2
  <2>2. b <= n
    BY <1>1, <1>2, <2>1
  <2>3. k < n
    BY <1>2, <2>1, <2>2
  <2>4. k \in f[p]
    BY <1>2, <2>1, <2>3
  <2> QED BY <1>2, <2>1, <2>4
<1>3. ASSUME NEW s \in Pubs \X Turns
      PROVE  (/\ s[2] \notin g[s[1]]
              /\ \E a, b \in g[s[1]] : first <= a /\ a < s[2] /\ s[2] < b)
             <=>
             (/\ s[2] \notin f[s[1]]
              /\ \E a, b \in f[s[1]] : first <= a /\ a < s[2] /\ s[2] < b)
  <2>0. s[1] \in Pubs /\ s[2] \in Turns
    OBVIOUS
  <2>1. CASE s[1] # p
    <3>1. g[s[1]] = f[s[1]]
      BY <1>1, <2>0, <2>1
    <3> QED BY <3>1
  <2>2. CASE s[1] = p
    <3>1. ~ \E a, b \in g[s[1]] : first <= a /\ a < s[2] /\ s[2] < b
      BY <1>1, <1>2, <2>0, <2>2
    <3>2. ~ \E a, b \in f[s[1]] : first <= a /\ a < s[2] /\ s[2] < b
      BY <1>1, <1>2, <2>0, <2>2
    <3> QED BY <3>1, <3>2
  <2> QED BY <2>1, <2>2
<1> QED BY <1>3 DEF Gaps

\* When m is the last one before it, the gaps grow by the turns between them.
LEMMA NextOpensGap ==
  ASSUME test \in Tests, NEW f, NEW g, NEW p \in Pubs, NEW n \in Turns, OneMore(f, g, p, n),
         NEW first \in Nat, NEW m \in f[p], \A k \in f[p] : k <= m, first <= m
  PROVE  Cardinality(Gaps(g, first)) = Cardinality(Gaps(f, first)) + (n - 1 - m)
<1> DEFINE opened == {p} \X ((m + 1) .. (n - 1))
<1>1. /\ f[p] \subseteq Turns /\ g[p] = f[p] \cup {n}
      /\ \A q \in Pubs : q # p => g[q] = f[q]
      /\ \A k \in Turns : k \in Nat
      /\ \A k \in f[p] : k < n
      /\ NumIter \in Nat
  BY TestFacts DEF OneMore, Turns
<1>2. m \in Nat /\ n \in Nat /\ m < n
  BY <1>1
<1>3. (m + 1) .. (n - 1) \subseteq Turns
  BY <1>1, <1>2 DEF Turns
<1>4. ASSUME NEW j \in Turns
      PROVE  (/\ j \notin g[p]
              /\ \E a, b \in g[p] : first <= a /\ a < j /\ j < b)
             <=>
             \/ /\ j \notin f[p]
                /\ \E a, b \in f[p] : first <= a /\ a < j /\ j < b
             \/ j \in (m + 1) .. (n - 1)
  <2>0. j \in Nat
    BY <1>1
  <2>1. ASSUME j \notin g[p], NEW a \in g[p], NEW b \in g[p], first <= a, a < j, j < b
        PROVE  \/ /\ j \notin f[p]
                  /\ \E c, d \in f[p] : first <= c /\ c < j /\ j < d
               \/ j \in (m + 1) .. (n - 1)
    <3>0. a \in f[p] \cup {n} /\ b \in f[p] \cup {n}
      BY <1>1
    <3>1. a \in Nat /\ b \in Nat /\ b <= n
      <4>1. a \in Turns /\ b \in Turns
        BY <1>1, <3>0
      <4>2. a \in Nat /\ b \in Nat
        BY <1>1, <4>1
      <4>3. b < n \/ b = n
        BY <1>1, <3>0
      <4> QED BY <1>2, <4>2, <4>3
    <3>2. j < n /\ a \in f[p] /\ j \notin f[p]
      BY <1>1, <1>2, <2>0, <2>1, <3>1
    <3>3. CASE j > m
      BY <1>2, <2>0, <3>2, <3>3
    <3>4. CASE j <= m
      <4>1. j # m
        BY <3>2
      <4>2. j < m
        BY <1>2, <2>0, <3>4, <4>1
      <4> QED BY <2>1, <3>2, <4>2
    <3> QED BY <1>2, <2>0, <3>3, <3>4
  <2>2. ASSUME j \notin f[p], NEW a \in f[p], NEW b \in f[p], first <= a, a < j, j < b
        PROVE  /\ j \notin g[p]
               /\ \E c, d \in g[p] : first <= c /\ c < j /\ j < d
    <3>1. j # n
      <4>1. b \in Nat /\ b < n
        BY <1>1
      <4> QED BY <1>2, <2>0, <2>2, <4>1
    <3> QED BY <1>1, <2>2, <3>1
  <2>3. ASSUME j \in (m + 1) .. (n - 1)
        PROVE  /\ j \notin g[p]
               /\ \E c, d \in g[p] : first <= c /\ c < j /\ j < d
    <3>1. m < j /\ j < n
      BY <1>2, <2>0, <2>3
    <3>2. j \notin f[p] /\ j # n
      BY <1>1, <1>2, <2>0, <3>1
    <3>3. m \in g[p] /\ n \in g[p]
      BY <1>1
    <3> QED BY <1>1, <3>1, <3>2, <3>3
  <2> QED BY <2>1, <2>2, <2>3
<1>5. Gaps(g, first) = Gaps(f, first) \cup opened
  <2>1. opened \subseteq Pubs \X Turns
    BY <1>3
  <2>2. ASSUME NEW s \in Pubs \X Turns
        PROVE  s \in Gaps(g, first) <=> s \in Gaps(f, first) \/ s \in opened
    <3>0. s = <<s[1], s[2]>> /\ s[1] \in Pubs /\ s[2] \in Turns
      OBVIOUS
    <3>1. CASE s[1] # p
      <4>1. g[s[1]] = f[s[1]] /\ s \notin opened
        BY <1>1, <3>0, <3>1
      <4> QED BY <4>1 DEF Gaps
    <3>2. CASE s[1] = p
      <4>1. s \in opened <=> s[2] \in (m + 1) .. (n - 1)
        BY <3>0, <3>2
      <4> QED BY <1>4, <3>0, <3>2, <4>1 DEF Gaps
    <3> QED BY <3>1, <3>2
  <2>3. Gaps(g, first) \subseteq Pubs \X Turns /\ Gaps(f, first) \subseteq Pubs \X Turns
    BY DEF Gaps
  <2> QED BY <2>1, <2>2, <2>3
<1>6. Gaps(f, first) \cap opened = {}
  <2> SUFFICES ASSUME NEW s \in Gaps(f, first), s \in opened PROVE FALSE
    OBVIOUS
  <2>1. s[1] = p /\ s[2] \in (m + 1) .. (n - 1)
    OBVIOUS
  <2>2. PICK b \in f[p] : s[2] < b
    BY <2>1 DEF Gaps
  <2>3. b \in Nat /\ b <= m
    BY <1>1, <2>2
  <2> QED BY <1>2, <2>1, <2>2, <2>3
<1>7. IsFiniteSet(opened) /\ Cardinality(opened) = n - 1 - m
  <2>1. m + 1 \in Nat /\ n - 1 \in Int /\ m + 1 <= (n - 1) + 1
    BY <1>2
  <2>2. IsFiniteSet(opened) /\ Cardinality(opened) = (n - 1) + 1 - (m + 1)
    BY <2>1, TurnsOfOne
  <2> QED BY <1>2, <2>2
<1>8. IsFiniteSet(Gaps(f, first)) /\ Cardinality(Gaps(f, first)) \in Nat
  BY GapsAreFinite
<1>9. Cardinality(Gaps(f, first) \cap opened) = 0
  BY <1>6, FS_EmptySet
<1> HIDE DEF opened
<1>10. Cardinality(Gaps(g, first))
         = Cardinality(Gaps(f, first)) + Cardinality(opened)
           - Cardinality(Gaps(f, first) \cap opened)
  BY <1>5, <1>7, <1>8, FS_Union
<1>11. n - 1 - m \in Int
  BY <1>2
<1> QED BY <1>7, <1>8, <1>9, <1>10, <1>11

LEMMA Quotient ==
  ASSUME NEW a \in Nat, NEW w \in Nat \ {0}
  PROVE  a \div w \in Nat /\ a = w * (a \div w) + (a % w) /\ a % w \in 0 .. w - 1
OBVIOUS

\* Sequence numbers are never further apart than the turns they stand for.
LEMMA NumbersAreNearer ==
  ASSUME NEW m \in Nat, NEW n \in Nat, m <= n, NEW w \in Nat \ {0}
  PROVE  (n % w) - (m % w) <= n - m
<1> DEFINE q == m \div w
           k == n \div w
<1>1. q \in Nat /\ k \in Nat /\ m = w * q + (m % w) /\ n = w * k + (n % w)
  BY Quotient
<1>2. m % w \in 0 .. w - 1 /\ n % w \in 0 .. w - 1
  BY Quotient
<1> HIDE DEF q, k
<1>3. CASE k >= q
  <2>1. PICK d \in Nat : k = q + d
    BY <1>1, <1>3
  <2>2. w * k = w * q + w * d
    BY <1>1, <2>1
  <2>3. w * d \in Nat /\ w * q \in Nat
    BY <1>1, <2>1
  <2> QED BY <1>1, <1>2, <2>2, <2>3
<1>4. CASE k < q
  <2>1. PICK d \in Nat : q = k + 1 + d
    BY <1>1, <1>4
  <2>2. w * q = w * k + w + w * d
    BY <1>1, <2>1
  <2>3. w * d \in Nat /\ w * k \in Nat
    BY <1>1, <2>1
  <2> QED BY <1>1, <1>2, <2>2, <2>3
<1> QED BY <1>1, <1>3, <1>4

\* What the listener counts for a sample, from the number m before it.
LEMMA SkippedFacts ==
  ASSUME test \in Tests, ~UseCft, NEW m \in Nat, NEW n \in Nat, m < n
  PROVE  /\ Skipped(SeqNum(m), SeqNum(n)) \in Nat
         /\ Skipped(SeqNum(m), SeqNum(n)) <= n - 1 - m
         /\ n < SeqWord => Skipped(SeqNum(m), SeqNum(n)) = IF m = 0 THEN 0 ELSE n - 1 - m
         /\ Skipped(0, SeqNum(n)) = 0
<1>0. SeqWord \in Nat \ {0}
  BY TestFacts
<1> DEFINE a == SeqNum(m)
           b == SeqNum(n)
<1>1. b - a <= n - m
  <2>1. m <= n
    OBVIOUS
  <2> QED BY <1>0, <2>1, NumbersAreNearer DEF SeqNum
<1>2. a \in Nat /\ b \in Nat
  BY <1>0, Remainder DEF SeqNum
<1>3. n < SeqWord => a = m /\ b = n
  BY <1>0 DEF SeqNum
<1> HIDE DEF a, b
<1>4. Skipped(a, b) \in Nat /\ Skipped(a, b) <= n - 1 - m
  BY <1>1, <1>2 DEF Skipped
<1>5. n < SeqWord => Skipped(a, b) = IF m = 0 THEN 0 ELSE n - 1 - m
  BY <1>2, <1>3 DEF Skipped
<1>6. Skipped(0, b) = 0
  BY <1>2 DEF Skipped
<1> QED BY <1>4, <1>5, <1>6 DEF a, b

\* What the summary adds for the publisher that finished last.
LEMMA TailFacts ==
  ASSUME NEW m \in Nat, NEW n \in Nat, m <= n, SeqWord \in Nat \ {0}
  PROVE  (IF SeqNum(n) > SeqNum(m) THEN SeqNum(n) - SeqNum(m) ELSE 0) <= n - m
<1>1. SeqNum(n) - SeqNum(m) <= n - m
  BY NumbersAreNearer DEF SeqNum
<1>2. SeqNum(n) \in Nat /\ SeqNum(m) \in Nat
  BY Remainder DEF SeqNum
<1> QED BY <1>1, <1>2

\* The turns whose gaps have been counted: all that were taken but the one in hand.
Counted ==
  [q \in Pubs |-> IF listener \in CountingStates /\ q = Hand
                    THEN taken[q] \ {next[q] - 1} ELSE taken[q]]

Open == ~endTest /\ listener \in {"idle", "summary"} \cup CountingStates

\* lastSeqNum is the number of the last turn counted, 0 when there is none yet.
LastCounted(p, m) ==
  /\ \A k \in Counted[p] : k <= m
  /\ m \in Counted[p] \/ (Counted[p] = {} /\ m = 0)
  /\ lastSeqNum[p] = SeqNum(m)

\* missingPackets counts no turn but those in gaps, and all of those behind the first
\* number that is not 0 when the numbers do not wrap around.
GapInv ==
  Open /\ ~UseCft =>
    /\ \A p \in Pubs : \E m \in Nat : LastCounted(p, m)
    /\ missingPackets <= Cardinality(Gaps(Counted, 0))
    /\ SeqWord > NumIter => missingPackets = Cardinality(Gaps(Counted, 1))

LEMMA InitGap == Init => GapInv
<1> SUFFICES ASSUME Init PROVE GapInv
  OBVIOUS
<1>1. \A p \in Pubs : Counted[p] = {}
  BY DEF Init, Counted
<1>2. ASSUME NEW first PROVE Cardinality(Gaps(Counted, first)) = 0
  <2>1. Gaps(Counted, first) = {}
    BY <1>1 DEF Gaps
  <2> QED BY <2>1, FS_EmptySet
<1>3. SeqNum(0) = 0
  BY TestFacts DEF Init, SeqNum
<1>4. ASSUME NEW p \in Pubs PROVE LastCounted(p, 0)
  BY <1>1, <1>3 DEF LastCounted, Init
<1>5. missingPackets = 0
  BY DEF Init
<1> QED BY <1>2, <1>4, <1>5 DEF GapInv

LEMMA GapKept ==
  ASSUME GapInv, Rigid, UNCHANGED <<test, missingPackets, lastSeqNum>>, Open' => Open,
         Open' => Counted' = Counted
  PROVE  GapInv'
<1> SUFFICES ASSUME Open', ~UseCft'
             PROVE  /\ \A p \in Pubs' : \E m \in Nat : LastCounted(p, m)'
                    /\ missingPackets' <= Cardinality(Gaps(Counted, 0)')
                    /\ (SeqWord > NumIter)' => missingPackets' = Cardinality(Gaps(Counted, 1)')
  BY DEF GapInv
<1>1. /\ Open /\ ~UseCft /\ Counted' = Counted /\ Pubs' = Pubs /\ Turns' = Turns
      /\ SeqWord' = SeqWord /\ NumIter' = NumIter
  BY DEF Rigid, NumIter
<1>2. \A p, m : LastCounted(p, m)' <=> LastCounted(p, m)
  BY <1>1 DEF LastCounted, SeqNum
<1>3. \A first \in Nat : Gaps(Counted, first)' = Gaps(Counted, first)
  BY <1>1 DEF Gaps
<1> QED BY <1>1, <1>2, <1>3 DEF GapInv

\* The sample in hand is counted: its gap, if there is one, begins at the last one.
LEMMA MissingKeepsGap ==
  ASSUME TypeOK, StreamInv, GapInv, CountInv, Rigid, CountMissing, UNCHANGED test
  PROVE  GapInv'
<1> DEFINE p == Hand
           n == next[Hand] - 1
           f == Counted
           g == taken
<1>1. /\ listener = "missing" /\ listener' = "idle" /\ p \in Pubs
      /\ missingPackets' = missingPackets + Skipped(lastSeqNum[p], message.seqNum)
      /\ lastSeqNum' = IF UseCft THEN lastSeqNum
                       ELSE [lastSeqNum EXCEPT ![p] = message.seqNum]
      /\ UNCHANGED <<next, taken, message, endTest>>
  BY DEF CountMissing, Hand, streamVars, endVars, TypeOK
<1>2. /\ taken \in [Pubs -> SUBSET Turns] /\ next \in [Pubs -> Nat]
      /\ n \in taken[p] /\ message.seqNum = SeqNum(n)
      /\ \A q \in Pubs : \A k \in taken[q] : k < next[q]
  BY <1>1 DEF StreamInv, TypeOK, CountingStates
<1>3. n \in Turns /\ n \in Nat /\ \A k \in Turns : k \in Nat /\ k < NumIter
  BY <1>1, <1>2, TestFacts DEF TypeOK, Turns
<1>4. /\ f = [q \in Pubs |-> IF q = p THEN taken[q] \ {n} ELSE taken[q]]
      /\ Counted' = [q \in Pubs |-> taken[q]]
  BY <1>1 DEF Counted, CountingStates, Rigid
<1>5. Counted' = g
  BY <1>2, <1>4
<1>6. OneMore(f, g, p, n)
  <2>1. f \in [Pubs -> SUBSET Turns] /\ f[p] = taken[p] \ {n}
    BY <1>1, <1>2, <1>4
  <2>2. g = [f EXCEPT ![p] = f[p] \cup {n}]
    BY <1>1, <1>2, <1>4
  <2>3. ASSUME NEW k \in f[p] PROVE k < n
    <3>1. k \in taken[p] /\ k # n /\ k < next[p] /\ k \in Nat /\ next[p] \in Nat
      BY <1>1, <1>2, <1>3, <2>1, <2>3
    <3> QED BY <3>1
  <2> QED BY <2>1, <2>2, <2>3 DEF OneMore
<1> SUFFICES ASSUME Open', ~UseCft'
             PROVE  /\ \A q \in Pubs' : \E m \in Nat : LastCounted(q, m)'
                    /\ missingPackets' <= Cardinality(Gaps(Counted, 0)')
                    /\ (SeqWord > NumIter)' => missingPackets' = Cardinality(Gaps(Counted, 1)')
  BY DEF GapInv
<1>7. ~UseCft /\ Open /\ Pubs' = Pubs /\ SeqWord' = SeqWord /\ NumIter' = NumIter
      /\ Turns' = Turns
  BY <1>1 DEF Rigid, NumIter, Open, CountingStates
<1>8. PICK m \in Nat : LastCounted(p, m)
  BY <1>1, <1>7 DEF GapInv
<1>9. lastSeqNum[p] = SeqNum(m) /\ (m \in f[p] \/ (f[p] = {} /\ m = 0))
      /\ \A k \in f[p] : k <= m
  BY <1>8 DEF LastCounted
<1>10. /\ missingPackets <= Cardinality(Gaps(f, 0))
       /\ SeqWord > NumIter => missingPackets = Cardinality(Gaps(f, 1))
  BY <1>7 DEF GapInv
<1>11. \A q \in Pubs : \E k \in Nat : LastCounted(q, k)'
  <2>1. ASSUME NEW q \in Pubs, q # p PROVE \E k \in Nat : LastCounted(q, k)'
    <3>1. PICK k \in Nat : LastCounted(q, k)
      BY <1>7 DEF GapInv
    <3>2. Counted'[q] = Counted[q] /\ lastSeqNum'[q] = lastSeqNum[q] /\ SeqNum(k)' = SeqNum(k)
      <4>1. Counted'[q] = Counted[q]
        BY <1>4, <1>5, <2>1
      <4>2. lastSeqNum'[q] = lastSeqNum[q]
        BY <1>1, <2>1 DEF TypeOK
      <4> QED BY <1>7, <4>1, <4>2 DEF SeqNum
    <3>3. LastCounted(q, k)'
      BY <3>1, <3>2 DEF LastCounted
    <3> QED BY <3>3
  <2>2. ASSUME NEW q \in Pubs, q = p PROVE \E k \in Nat : LastCounted(q, k)'
    <3>1. PICK k \in Nat : k = n
      BY <1>3
    <3>2. lastSeqNum'[q] = SeqNum(k)'
      <4>1. lastSeqNum'[q] = message.seqNum
        BY <1>1, <1>7, <2>2 DEF TypeOK
      <4> QED BY <1>2, <1>7, <3>1, <4>1 DEF SeqNum
    <3>3. k \in Counted'[q] /\ \A j \in Counted'[q] : j <= k
      <4>1. \A j \in taken[q] : j < next[q] /\ j \in Nat
        BY <1>2, <1>3
      <4>2. next[q] \in Nat /\ k = next[q] - 1 /\ k \in taken[q]
        BY <1>2, <2>2, <3>1
      <4> QED BY <1>5, <4>1, <4>2
    <3>4. LastCounted(q, k)'
      BY <3>2, <3>3 DEF LastCounted
    <3> QED BY <3>4
  <2> QED BY <2>1, <2>2
<1>12. Gaps(Counted, 0)' = Gaps(g, 0) /\ Gaps(Counted, 1)' = Gaps(g, 1)
  BY <1>5, <1>7 DEF Gaps
<1> DEFINE added == Skipped(lastSeqNum[p], message.seqNum)
<1>13. test \in Tests /\ SeqNum(0) = 0
  BY TestFacts DEF TypeOK, SeqNum
<1>14. /\ missingPackets \in Nat
       /\ Cardinality(Gaps(f, 0)) \in Nat /\ Cardinality(Gaps(f, 1)) \in Nat
  BY <1>13, GapsAreFinite DEF TypeOK
<1> HIDE DEF p, n, f, g
<1>15. m = 0 => added = 0
  <2>1. CASE n > 0
    BY <1>2, <1>3, <1>7, <1>9, <1>13, <2>1, SkippedFacts
  <2>2. CASE ~ n > 0
    <3>1. n = 0
      BY <1>3, <2>2
    <3> QED BY <1>2, <1>9, <1>13, <3>1 DEF Skipped
  <2> QED BY <2>1, <2>2
<1>16. added \in Nat
  BY Amounts, <1>1 DEF TypeOK
<1> HIDE DEF added
<1>17. Cardinality(Gaps(g, 0)) >= missingPackets + added
  <2>1. CASE m \in f[p]
    <3>1. Cardinality(Gaps(g, 0)) = Cardinality(Gaps(f, 0)) + (n - 1 - m)
      BY <1>1, <1>3, <1>6, <1>9, <1>13, <2>1, NextOpensGap
    <3>2. m < n
      BY <1>6, <2>1 DEF OneMore
    <3>3. added <= n - 1 - m
      BY <1>2, <1>3, <1>7, <1>9, <1>13, <3>2, SkippedFacts DEF added
    <3> QED BY <1>3, <1>10, <1>14, <1>16, <3>1, <3>3
  <2>2. CASE f[p] = {} /\ m = 0
    <3>1. Gaps(g, 0) = Gaps(f, 0)
      BY <1>1, <1>3, <1>6, <1>13, <2>2, FirstOpensNoGap
    <3> QED BY <1>10, <1>14, <1>15, <2>2, <3>1
  <2> QED BY <1>9, <2>1, <2>2
<1>18. SeqWord > NumIter => Cardinality(Gaps(g, 1)) = missingPackets + added
  <2> SUFFICES ASSUME SeqWord > NumIter
               PROVE  Cardinality(Gaps(g, 1)) = missingPackets + added
    OBVIOUS
  <2>1. CASE m # 0
    <3>1. m \in f[p] /\ 1 <= m
      BY <1>9, <2>1
    <3>2. Cardinality(Gaps(g, 1)) = Cardinality(Gaps(f, 1)) + (n - 1 - m)
      BY <1>1, <1>3, <1>6, <1>9, <1>13, <3>1, NextOpensGap
    <3>3. m < n /\ n < SeqWord
      BY <1>3, <1>6, <1>13, <3>1, TestFacts DEF OneMore
    <3>4. added = n - 1 - m
      BY <1>2, <1>3, <1>7, <1>9, <1>13, <2>1, <3>3, SkippedFacts DEF added
    <3> QED BY <1>3, <1>10, <1>14, <1>16, <3>2, <3>4
  <2>2. CASE m = 0
    <3>1. \A k \in f[p] : k < 1
      <4>1. f[p] \subseteq Turns
        BY <1>1, <1>6 DEF OneMore
      <4>2. ASSUME NEW k \in f[p] PROVE k < 1
        <5>1. k \in Nat /\ k <= m
          BY <1>3, <1>9, <4>1
        <5> QED BY <2>2, <5>1
      <4> QED BY <4>2
    <3>2. Gaps(g, 1) = Gaps(f, 1)
      BY <1>1, <1>3, <1>6, <1>13, <3>1, FirstOpensNoGap
    <3> QED BY <1>10, <1>14, <1>15, <2>2, <3>2
  <2> QED BY <2>1, <2>2
<1>19. missingPackets' = missingPackets + added
  BY <1>1 DEF added
<1> QED BY <1>7, <1>11, <1>12, <1>17, <1>18, <1>19

LEMMA NextKeepsGap ==
  ASSUME TypeOK, StreamInv, CountInv, GapInv, [Next]_vars
  PROVE  GapInv'
<1>1. UNCHANGED test /\ Rigid
  BY TestIsRigid DEF Next, Terminated, vars
<1> USE DEF streamVars, counterVars, endVars
<1>2. ASSUME NEW p \in Pubs, NEW n \in Turns, ProcessData(p, n) PROVE GapInv'
  <2>1. /\ listener = "idle" /\ listener' = "packets"
        /\ next' = [next EXCEPT ![p] = n + 1] /\ taken' = [taken EXCEPT ![p] = taken[p] \cup {n}]
        /\ message'.entityId = p /\ n >= next[p]
        /\ UNCHANGED <<missingPackets, lastSeqNum, endTest>>
    BY <1>2 DEF ProcessData, Arrives
  <2>2. taken \in [Pubs -> SUBSET Turns] /\ next \in [Pubs -> Nat] /\ n \in Nat
    BY TestFacts DEF TypeOK, Turns
  <2>3. n \notin taken[p]
    <3> SUFFICES ASSUME n \in taken[p] PROVE FALSE
      OBVIOUS
    <3>1. n < next[p]
      BY DEF StreamInv
    <3>2. next[p] \in Nat
      BY <2>2
    <3> QED BY <2>1, <2>2, <3>1, <3>2
  <2>4. Counted = [q \in Pubs |-> taken[q]]
    BY <2>1 DEF Counted, CountingStates
  <2>5. Counted' = [q \in Pubs |-> IF q = p THEN taken'[q] \ {next'[q] - 1} ELSE taken'[q]]
    BY <1>1, <2>1 DEF Counted, CountingStates, Hand, Rigid
  <2>6. ASSUME NEW q \in Pubs
        PROVE  (IF q = p THEN taken'[q] \ {next'[q] - 1} ELSE taken'[q]) = taken[q]
    <3>1. CASE q = p
      <4>1. taken'[q] = taken[q] \cup {n} /\ next'[q] - 1 = n
        BY <2>1, <2>2, <3>1
      <4> QED BY <2>3, <3>1, <4>1
    <3>2. CASE q # p
      BY <2>1, <2>2, <3>2
    <3> QED BY <3>1, <3>2
  <2>7. Counted' = Counted
    BY <2>4, <2>5, <2>6
  <2>8. Open' => Open
    BY <2>1 DEF Open
  <2> QED BY <1>1, <2>1, <2>7, <2>8, GapKept
<1>3. ASSUME NEW p \in Pubs, NEW n \in Turns \cup {-1}, ProcessFinished(p, n) PROVE GapInv'
  <2>1. /\ listener = "idle" /\ listener' \in {"summary", "idle"}
        /\ UNCHANGED <<next, taken, missingPackets, lastSeqNum, endTest>>
    BY <1>3 DEF ProcessFinished
  <2>2. Counted' = Counted /\ (Open' => Open)
    BY <1>1, <2>1 DEF Counted, CountingStates, Open, Rigid
  <2> QED BY <1>1, <2>1, <2>2, GapKept
<1>4. CASE CountPacket \/ CountBytes
  <2>1. /\ listener \in CountingStates /\ listener' \in CountingStates
        /\ UNCHANGED <<next, taken, message, missingPackets, lastSeqNum, endTest>>
    BY <1>4 DEF CountPacket, CountBytes, CountingStates
  <2>2. Counted' = Counted
    BY <1>1, <2>1 DEF Counted, Hand, Rigid
  <2>3. Open' => Open
    BY <2>1 DEF Open
  <2> QED BY <1>1, <2>1, <2>2, <2>3, GapKept
<1>5. CASE CountMissing
  BY <1>1, <1>5, MissingKeepsGap
<1>6. CASE PrintSummary \/ ResetPackets \/ ResetBytes \/ ResetMissing \/ EndTest
  <2>1. ~Open'
    BY <1>6 DEF PrintSummary, ResetPackets, ResetBytes, ResetMissing, EndTest, Open,
                CountingStates
  <2> QED BY <2>1 DEF GapInv
<1>7. CASE Poll \/ UNCHANGED vars
  <2>1. UNCHANGED <<next, taken, listener, message, missingPackets, lastSeqNum, endTest>>
    BY <1>7 DEF vars,
       Poll, PollEndTest, PollNewSize, PollNewBytes, PollPackets, PollBytes, PrintInterval
  <2>2. Counted' = Counted /\ (Open' => Open)
    BY <1>1, <2>1 DEF Counted, CountingStates, Open, Hand, Rigid
  <2> QED BY <1>1, <2>1, <2>2, GapKept
<1> QED BY <1>2, <1>3, <1>4, <1>5, <1>6, <1>7 DEF Next, Listener, Terminated

SampleInv == PollInv /\ StreamInv /\ CountInv /\ GapInv

THEOREM SampleInvariance == Spec => []SampleInv
<1>1. Init => SampleInv
  BY InitPoll, InitStream, InitCount, InitGap DEF SampleInv
<1>2. SampleInv /\ [Next]_vars => SampleInv'
  <2> SUFFICES ASSUME SampleInv, [Next]_vars PROVE SampleInv'
    OBVIOUS
  <2>1. PollInv /\ TypeOK /\ ListenerInStep /\ StreamInv /\ CountInv /\ GapInv
    BY DEF SampleInv, PollInv
  <2> QED
    BY <2>1, NextKeepsPoll, NextKeepsStream, NextKeepsCount, NextKeepsGap DEF SampleInv
<1> QED BY <1>1, <1>2, PTL DEF Spec

\* Between two messages missingPackets is the number of the gaps between the samples
\* taken, from the first number that is not 0, for every interleaving with the poll
\* loop, every loss and every number of publishers, as long as the numbers fit
\* their 32 bits (ThroughputListener.cs:156-174, perftest_cpp.cxx:1024-1038).
THEOREM MissingCountsGaps == Spec => []MissingAreGaps
<1>1. SampleInv => MissingAreGaps
  <2> SUFFICES ASSUME SampleInv, listener = "idle", ~endTest, ~UseCft, SeqWord > NumIter
               PROVE  missingPackets = Cardinality(GapsAfterZero)
    BY DEF MissingAreGaps
  <2>1. GapInv /\ Open
    BY DEF SampleInv, Open
  <2>2. \A p \in Pubs : Counted[p] = taken[p]
    BY DEF Counted, CountingStates
  <2>3. Gaps(Counted, 1) = GapsAfterZero
    BY <2>2 DEF Gaps, GapsAfterZero, Between
  <2> QED BY <2>1, <2>3 DEF GapInv
<1> QED BY <1>1, SampleInvariance, PTL

-----------------------------------------------------------------------------
(* The bytes of an interval line.                                           *)

\* Until the summary the bytes are read in growing order; what a line shows of
\* them was received.
BytesInv ==
  /\ finishedPublishers # Pubs =>
       /\ prevBytes <= bytesReceived
       /\ main = "line" => prevBytes <= lastBytes /\ lastBytes <= bytesReceived
  /\ line.bytes <= Cardinality(Taken) \/ finishedPublishers = Pubs

LEMMA InitBytes == Init => BytesInv
<1> SUFFICES ASSUME Init PROVE BytesInv
  OBVIOUS
<1>1. Taken = {}
  BY DEF Init, Taken
<1>2. Cardinality(Taken) = 0
  BY <1>1, FS_EmptySet
<1> QED BY <1>2 DEF Init, BytesInv, NoLine

\* Bytes, samples taken and publishers finished never grow fewer before the summary.
LEMMA BytesKept ==
  ASSUME BytesInv, TypeOK, Rigid, UNCHANGED <<main, prevBytes, lastBytes, line>>,
         Cardinality(Taken') \in Nat, Cardinality(Taken) <= Cardinality(Taken'),
         finishedPublishers = Pubs => finishedPublishers' = Pubs,
         finishedPublishers # Pubs => bytesReceived' \in Nat /\ bytesReceived <= bytesReceived'
  PROVE  BytesInv'
<1>1. Pubs' = Pubs /\ Cardinality(Taken) \in Nat
  BY TakenIsFinite DEF Rigid, TypeOK
<1>2. prevBytes \in Nat /\ lastBytes \in Nat /\ bytesReceived \in Nat /\ line.bytes \in Int
  BY TestFacts DEF TypeOK
<1> DEFINE more == Cardinality(Taken')
<1>3. line.bytes <= Cardinality(Taken) => line.bytes <= more
  <2>1. more \in Nat /\ Cardinality(Taken) <= more
    OBVIOUS
  <2> HIDE DEF more
  <2> QED BY <1>1, <1>2, <2>1
<1>4. line.bytes <= more \/ finishedPublishers' = Pubs
  BY <1>3 DEF BytesInv
<1>5. finishedPublishers' # Pubs =>
        /\ prevBytes <= bytesReceived'
        /\ main = "line" => prevBytes <= lastBytes /\ lastBytes <= bytesReceived'
  <2> DEFINE bytes == bytesReceived'
  <2> SUFFICES ASSUME finishedPublishers' # Pubs
               PROVE  /\ prevBytes <= bytes
                      /\ main = "line" => prevBytes <= lastBytes /\ lastBytes <= bytes
    OBVIOUS
  <2>1. finishedPublishers # Pubs /\ bytes \in Nat /\ bytesReceived <= bytes
    OBVIOUS
  <2> HIDE DEF bytes
  <2> QED BY <1>2, <2>1 DEF BytesInv
<1> QED BY <1>1, <1>4, <1>5 DEF BytesInv

LEMMA NextKeepsBytes ==
  ASSUME SampleInv, BytesInv, [Next]_vars
  PROVE  BytesInv'
<1>1. /\ UNCHANGED test /\ Rigid
      /\ TypeOK /\ TypeOK' /\ StreamInv /\ CountInv /\ ListenerInStep
  BY TestIsRigid, NextKeepsTypes DEF Next, Terminated, vars, SampleInv, PollInv
<1>2. /\ Cardinality(Taken) \in Nat /\ Cardinality(Taken') \in Nat
  <2>1. Cardinality(Taken) \in Nat
    BY <1>1, TakenIsFinite DEF TypeOK
  <2>2. test \in Tests /\ taken' \in [Pubs -> SUBSET Turns] /\ Taken' \subseteq Pubs \X Turns
    BY <1>1 DEF TypeOK, Taken, Rigid
  <2> QED BY <2>1, <2>2, SamplesAreFinite
<1>3. UNCHANGED taken => Taken' = Taken
  BY <1>1 DEF Taken, Rigid
<1>4. bytesReceived \in Nat /\ bytesReceived' \in Nat /\ prevBytes \in Nat /\ lastBytes \in Nat
      /\ line.bytes \in Int /\ Pubs' = Pubs
  BY <1>1, TestFacts DEF TypeOK, Rigid
<1> USE DEF streamVars, counterVars, endVars, pollVars
<1>5. ASSUME NEW p \in Pubs, NEW n \in Turns, ProcessData(p, n) PROVE BytesInv'
  <2>1. /\ UNCHANGED <<main, prevBytes, lastBytes, line, finishedPublishers, bytesReceived>>
    BY <1>5 DEF ProcessData
  <2>2. Cardinality(Taken') = Cardinality(Taken) + 1
    BY <1>1, <1>5, OneMoreTaken
  <2>3. Cardinality(Taken) <= Cardinality(Taken')
    BY <1>2, <2>2
  <2> QED BY <1>1, <1>2, <1>4, <2>1, <2>3, BytesKept
<1>6. ASSUME NEW p \in Pubs, NEW n \in Turns \cup {-1}, ProcessFinished(p, n) PROVE BytesInv'
  <2>1. /\ UNCHANGED <<main, prevBytes, lastBytes, line, bytesReceived, taken>>
        /\ p \notin finishedPublishers
    BY <1>6 DEF ProcessFinished
  <2>2. Cardinality(Taken) <= Cardinality(Taken')
    BY <1>2, <1>3, <2>1
  <2> QED BY <1>1, <1>2, <1>4, <2>1, <2>2, BytesKept
<1>7. CASE CountPacket \/ CountBytes \/ CountMissing \/ PrintSummary \/ ResetPackets
           \/ ResetMissing \/ EndTest
  <2>1. /\ UNCHANGED <<main, prevBytes, lastBytes, line, finishedPublishers, taken>>
        /\ bytesReceived' = bytesReceived \/ bytesReceived' = bytesReceived + 1
    BY <1>7 DEF CountPacket, CountBytes, CountMissing, PrintSummary, ResetPackets,
                ResetMissing, EndTest
  <2>2. Cardinality(Taken) <= Cardinality(Taken') /\ bytesReceived <= bytesReceived'
    BY <1>2, <1>3, <1>4, <2>1
  <2> QED BY <1>1, <1>2, <1>4, <2>1, <2>2, BytesKept
<1>8. CASE ResetBytes
  <2>1. finishedPublishers = Pubs /\ finishedPublishers' = finishedPublishers
    BY <1>1, <1>8 DEF ResetBytes, ListenerInStep, SummaryStates
  <2> QED BY <1>4, <2>1 DEF BytesInv
<1>9. CASE UNCHANGED vars
  BY <1>3, <1>4, <1>9 DEF BytesInv, vars
<1>10. CASE PollEndTest \/ PollNewSize \/ PollNewBytes \/ PollPackets \/ PollBytes
  <2>1. UNCHANGED <<taken, finishedPublishers, bytesReceived, line>>
    BY <1>10 DEF PollEndTest, PollNewSize, PollNewBytes, PollPackets, PollBytes
  <2>2. \/ prevBytes' = prevBytes /\ main' # "line"
        \/ prevBytes' = bytesReceived /\ main' # "line"
        \/ prevBytes' = prevBytes /\ lastBytes' = bytesReceived
    BY <1>10 DEF PollEndTest, PollNewSize, PollNewBytes, PollPackets, PollBytes
  <2> QED BY <1>3, <1>4, <2>1, <2>2 DEF BytesInv
<1>11. CASE PrintInterval
  <2>1. /\ UNCHANGED <<taken, finishedPublishers, bytesReceived>> /\ main = "line"
        /\ prevBytes' = lastBytes /\ main' = "sleep"
        /\ line'.bytes = line.bytes \/ line'.bytes = (lastBytes - prevBytes) % Word
    BY <1>11 DEF PrintInterval
  <2>2. CASE finishedPublishers = Pubs
    BY <1>4, <2>1, <2>2 DEF BytesInv
  <2>3. CASE finishedPublishers # Pubs
    <3>1. prevBytes <= lastBytes /\ lastBytes <= bytesReceived
      BY <2>1, <2>3 DEF BytesInv
    <3>2. lastBytes - prevBytes \in Nat /\ Word \in Nat \ {0}
      BY <1>1, <1>4, <3>1, TestFacts DEF TypeOK
    <3>3. (lastBytes - prevBytes) % Word <= lastBytes - prevBytes
      BY <3>2, RemainderShrinks
    <3>4. (lastBytes - prevBytes) % Word \in Nat
      BY <3>2, Remainder
    <3>5. bytesReceived <= Cardinality(Taken)
      BY <1>1, <1>2, <1>4 DEF CountInv
    <3>6. (lastBytes - prevBytes) % Word <= Cardinality(Taken)
      BY <1>2, <1>4, <3>1, <3>3, <3>4, <3>5
    <3>7. line.bytes <= Cardinality(Taken)
      BY <2>3 DEF BytesInv
    <3> QED BY <1>3, <1>4, <2>1, <3>1, <3>6, <3>7 DEF BytesInv
  <2> QED BY <2>2, <2>3
<1> QED
  BY <1>5, <1>6, <1>7, <1>8, <1>9, <1>10, <1>11 DEF Next, Listener, Poll, Terminated

\* An interval line shows no more packets than were counted and no more bytes than
\* were received, though the poll loop reads each counter on its own between two steps
\* of the listener; only when all publishers have finished, and the summary resets the
\* bytes, may the difference wrap around (Perftest.cs:791-829,
\* perftest_cpp.cxx:1306-1325).
THEOREM OnlySummaryWraps == Spec => []IntervalWrapsOnlyAtSummary
<1>1. Init => BytesInv
  BY InitBytes
<1>2. SampleInv /\ BytesInv /\ [Next]_vars => BytesInv'
  BY NextKeepsBytes
<1>3. SampleInv /\ BytesInv => IntervalWrapsOnlyAtSummary
  BY DEF SampleInv, PollInv, BytesInv, IntervalWrapsOnlyAtSummary
<1> QED BY <1>1, <1>2, <1>3, SampleInvariance, PTL DEF Spec

-----------------------------------------------------------------------------
(* The summary.                                                             *)

\* When all publishers have finished, the samples taken are among those sent, and so
\* are the gaps between them.
LEMMA SentAreTakenOrLost ==
  ASSUME TypeOK, StreamInv, finishedPublishers = Pubs
  PROVE  /\ Taken \subseteq Sent
         /\ Gaps(taken, 0) \subseteq Sent \ Taken
         /\ IsFiniteSet(Sent \ Taken) /\ Cardinality(Sent \ Taken) \in Nat
         /\ Cardinality(Sent) = Cardinality(Taken) + Cardinality(Sent \ Taken)
         /\ ~Lossy => Cardinality(Sent \ Taken) = 0
<1>1. /\ taken \in [Pubs -> SUBSET Turns] /\ lastTurn \in [Pubs -> Turns \cup {-1}]
      /\ next \in [Pubs -> Nat] /\ test \in Tests
      /\ \A k \in Turns : k \in Nat
      /\ \A p \in Pubs : \A n \in taken[p] : n <= lastTurn[p]
  BY TestFacts DEF TypeOK, Turns, StreamInv
<1>2. Taken \subseteq Sent
  BY <1>1 DEF Taken, Sent
<1>3. Gaps(taken, 0) \subseteq Sent \ Taken
  <2> SUFFICES ASSUME NEW s \in Gaps(taken, 0) PROVE s \in Sent /\ s \notin Taken
    OBVIOUS
  <2>1. s \in Pubs \X Turns /\ s[1] \in Pubs /\ s[2] \in Turns /\ s[2] \notin taken[s[1]]
    BY DEF Gaps
  <2>2. PICK b \in taken[s[1]] : s[2] < b
    BY DEF Gaps
  <2>3. b <= lastTurn[s[1]] /\ b \in Nat /\ s[2] \in Nat
    BY <1>1, <2>1, <2>2
  <2>4. lastTurn[s[1]] \in Int
    BY <1>1, <2>1
  <2>5. s[2] <= lastTurn[s[1]]
    BY <2>2, <2>3, <2>4
  <2> QED BY <2>1, <2>5 DEF Sent, Taken
<1>4. IsFiniteSet(Sent) /\ IsFiniteSet(Taken) /\ Cardinality(Sent) \in Nat
      /\ Cardinality(Taken) \in Nat
  BY <1>1, TakenIsFinite
<1>5. IsFiniteSet(Sent \ Taken) /\ Cardinality(Sent \ Taken) = Cardinality(Sent) - Cardinality(Taken)
  <2>1. Sent \cap Taken = Taken
    BY <1>2
  <2> QED BY <1>4, <2>1, FS_Difference
<1>6. Cardinality(Sent \ Taken) \in Nat
  BY <1>5, FS_CardinalityType
<1>7. ASSUME ~Lossy PROVE Cardinality(Sent \ Taken) = 0
  <2>1. ASSUME NEW s \in Sent PROVE s \in Taken
    <3>1. s \in Pubs \X Turns /\ s[1] \in Pubs /\ s[2] \in Turns /\ s[2] <= lastTurn[s[1]]
      BY DEF Sent
    <3>2. lastTurn[s[1]] = next[s[1]] - 1
      BY <1>7, <3>1 DEF StreamInv
    <3>3. next[s[1]] \in Nat /\ s[2] \in Nat
      BY <1>1, <3>1
    <3>4. s[2] < next[s[1]]
      BY <3>1, <3>2, <3>3
    <3> QED BY <1>7, <3>1, <3>4 DEF StreamInv, Taken
  <2>2. Sent \ Taken = {}
    BY <2>1
  <2> QED BY <2>2, FS_EmptySet
<1> QED BY <1>2, <1>3, <1>4, <1>5, <1>6, <1>7

\* The missing packets of the summary are samples that were sent and not taken: the
\* gaps, and what the last publisher sent after its last sample that was taken.
LEMMA SummaryCountsLost ==
  ASSUME SampleInv, listener = "summary", sizeKnown, ~UseCft
  PROVE  missingPackets + TailMissing <= Cardinality(Sent \ Taken)
<1> DEFINE p == Hand
           n == lastTurn[Hand]
<1>1. /\ TypeOK /\ StreamInv /\ CountInv /\ GapInv /\ finishedPublishers = Pubs
  BY DEF SampleInv, PollInv, ListenerInStep, SummaryStates
<1>2. Open
  BY <1>1 DEF CountInv, Open
<1>3. /\ p \in Pubs /\ SeqWord \in Nat \ {0} /\ n \in Turns \cup {-1}
      /\ test \in Tests /\ NumIter \in Nat /\ missingPackets \in Nat
      /\ taken[p] \subseteq Turns
  BY <1>1, TestFacts DEF TypeOK, Hand
<1>4. /\ \A k \in Turns : k \in Nat /\ k < NumIter
      /\ \A k \in Nat : k < NumIter => k \in Turns
  BY <1>3 DEF Turns
<1>5. Counted = taken
  <2>1. Counted = [q \in Pubs |-> taken[q]]
    BY DEF Counted, CountingStates
  <2> QED BY <1>1, <2>1 DEF TypeOK
<1>6. /\ missingPackets <= Cardinality(Gaps(taken, 0))
      /\ IsFiniteSet(Gaps(taken, 0)) /\ Cardinality(Gaps(taken, 0)) \in Nat
  BY <1>1, <1>2, <1>3, <1>5, GapsAreFinite DEF GapInv
<1>7. /\ Gaps(taken, 0) \subseteq Sent \ Taken
      /\ IsFiniteSet(Sent \ Taken) /\ Cardinality(Sent \ Taken) \in Nat
  BY <1>1, SentAreTakenOrLost
<1>8. PICK m \in Nat : LastCounted(p, m)
  BY <1>1, <1>2, <1>3 DEF GapInv
<1>9. /\ lastSeqNum[p] = SeqNum(m) /\ SeqNum(m) \in Nat
      /\ m \in taken[p] \/ m = 0
      /\ \A k \in taken[p] : k <= m
  BY <1>1, <1>5, <1>8, Amounts DEF LastCounted
<1>10. CASE n < 0
  <2>1. message.seqNum = 0
    BY <1>1, <1>10 DEF StreamInv
  <2>2. TailMissing = 0
    BY <1>9, <2>1 DEF TailMissing, Hand
  <2>3. Cardinality(Gaps(taken, 0)) <= Cardinality(Sent \ Taken)
    BY <1>7, FS_Subset
  <2> QED BY <1>3, <1>6, <1>7, <2>2, <2>3
<1>11. CASE ~ n < 0
  <2>1. n \in Nat /\ n \in Turns
    <3>1. n # -1
      BY <1>11
    <3> QED BY <1>3, <1>4, <3>1
  <2>2. m <= n
    <3>1. \A k \in taken[p] : k <= n
      BY <1>1, <1>3 DEF StreamInv
    <3> QED BY <1>9, <2>1, <3>1
  <2>3. message.seqNum = SeqNum(n)
    BY <1>1, <1>11 DEF StreamInv
  <2> DEFINE tail == {p} \X ((m + 1) .. n)
  <2>4. TailMissing <= n - m /\ TailMissing \in Nat
    <3>1. TailMissing = IF SeqNum(n) > SeqNum(m) THEN SeqNum(n) - SeqNum(m) ELSE 0
      BY <1>9, <2>3 DEF TailMissing, Hand
    <3> QED BY <1>1, <1>3, <2>1, <2>2, <3>1, TailFacts, Amounts
  <2>5. IsFiniteSet(tail) /\ Cardinality(tail) = n - m
    <3>1. m + 1 \in Nat /\ n \in Int /\ m + 1 <= n + 1
      BY <2>1, <2>2
    <3>2. IsFiniteSet(tail) /\ Cardinality(tail) = n + 1 - (m + 1)
      BY <3>1, TurnsOfOne
    <3> QED BY <2>1, <3>2
  <2>6. tail \subseteq Sent \ Taken
    <3> SUFFICES ASSUME NEW j \in (m + 1) .. n PROVE <<p, j>> \in Sent \ Taken
      OBVIOUS
    <3>1. j \in Nat /\ m < j /\ j <= n
      BY <2>1
    <3>2. j \in Turns
      BY <1>3, <1>4, <2>1, <3>1
    <3>3. j \notin taken[p]
      BY <1>9, <3>1
    <3> QED BY <1>3, <3>1, <3>2, <3>3 DEF Sent, Taken
  <2>7. Gaps(taken, 0) \cap tail = {}
    <3> SUFFICES ASSUME NEW s \in Gaps(taken, 0), s \in tail PROVE FALSE
      OBVIOUS
    <3>1. s[1] = p /\ s[2] \in (m + 1) .. n
      OBVIOUS
    <3>2. PICK b \in taken[p] : s[2] < b
      BY <3>1 DEF Gaps
    <3>3. b \in Nat /\ b <= m
      BY <1>3, <1>4, <1>9, <3>2
    <3> QED BY <2>1, <3>1, <3>2, <3>3
  <2> HIDE DEF tail
  <2>8. Cardinality(Gaps(taken, 0) \cup tail) = Cardinality(Gaps(taken, 0)) + (n - m)
    <3>1. Cardinality(Gaps(taken, 0) \cap tail) = 0
      BY <2>7, FS_EmptySet
    <3>2. Cardinality(Gaps(taken, 0) \cup tail)
            = Cardinality(Gaps(taken, 0)) + Cardinality(tail)
              - Cardinality(Gaps(taken, 0) \cap tail)
      BY <1>6, <2>5, FS_Union
    <3> QED BY <1>6, <2>1, <2>5, <3>1, <3>2
  <2>9. Cardinality(Gaps(taken, 0) \cup tail) <= Cardinality(Sent \ Taken)
    BY <1>7, <2>6, FS_Subset
  <2> HIDE DEF n
  <2> QED BY <1>3, <1>6, <1>7, <2>1, <2>4, <2>8, <2>9
<1> QED BY <1>10, <1>11

\* The summary is written when all publishers have finished; no sample is taken or
\* sent from then on.
SummaryInv == SummaryAccounts /\ (summary # NoSummary => finishedPublishers = Pubs)

LEMMA SummaryKept ==
  ASSUME SummaryInv, Rigid,
         UNCHANGED <<test, taken, lastTurn, summary, finishedPublishers>>
  PROVE  SummaryInv'
<1>1. Taken' = Taken /\ Sent' = Sent
  BY DEF Taken, Sent, Rigid
<1> QED BY <1>1 DEF SummaryInv, SummaryAccounts, Rigid, NoSummary

LEMMA PrintKeepsSummary ==
  ASSUME SampleInv, FilteredMissNothing, Rigid, PrintSummary, UNCHANGED test
  PROVE  SummaryInv'
<1>1. /\ TypeOK /\ StreamInv /\ CountInv /\ finishedPublishers = Pubs /\ listener = "summary"
  BY DEF SampleInv, PollInv, ListenerInStep, SummaryStates, PrintSummary
<1>2. /\ UNCHANGED <<taken, lastTurn, finishedPublishers>>
      /\ IF sizeKnown
           THEN /\ missingPackets' = missingPackets + TailMissing
                /\ summary' = [packets |-> packetsReceived, missing |-> missingPackets']
           ELSE summary' = [packets |-> 0, missing |-> 0]
  BY DEF PrintSummary, streamVars
<1>3. Taken' = Taken /\ Sent' = Sent /\ Pubs' = Pubs /\ Lossy' = Lossy /\ UseCft' = UseCft
  BY <1>2 DEF Taken, Sent, Rigid
<1>4. /\ Cardinality(Sent \ Taken) \in Nat /\ Cardinality(Taken) \in Nat
      /\ Cardinality(Sent) = Cardinality(Taken) + Cardinality(Sent \ Taken)
      /\ ~Lossy => Cardinality(Sent \ Taken) = 0
  BY <1>1, SentAreTakenOrLost, TakenIsFinite DEF TypeOK
<1>5. UseCft \in BOOLEAN /\ missingPackets \in Nat /\ TailMissing \in Nat
      /\ packetsReceived \in Nat
  BY <1>1, TestFacts, Amounts DEF TypeOK
<1>6. /\ summary'.packets = Cardinality(Taken)
      /\ summary'.missing \in Nat /\ summary'.missing <= Cardinality(Sent \ Taken)
      /\ UseCft => summary'.missing = 0
  <2>1. CASE sizeKnown
    <3>1. summary'.packets = packetsReceived /\ summary'.missing = missingPackets + TailMissing
      BY <1>2, <2>1
    <3>2. packetsReceived = Cardinality(Taken)
      BY <1>1, <1>4, <1>5 DEF CountInv
    <3>3. CASE UseCft
      <4>1. missingPackets = 0 /\ TailMissing = 0
        BY <1>1, <3>3, Amounts DEF FilteredMissNothing
      <4> QED BY <1>4, <3>1, <3>2, <4>1
    <3>4. CASE ~UseCft
      <4>1. missingPackets + TailMissing <= Cardinality(Sent \ Taken)
        BY <1>1, <2>1, <3>4, SummaryCountsLost
      <4> QED BY <1>5, <3>1, <3>2, <3>4, <4>1
    <3> QED BY <3>3, <3>4
  <2>2. CASE ~sizeKnown
    <3>1. summary'.packets = 0 /\ summary'.missing = 0
      BY <1>2, <2>2
    <3>2. Taken = {}
      BY <1>1, <2>2 DEF StreamInv, Taken
    <3>3. Cardinality(Taken) = 0
      BY <3>2, FS_EmptySet
    <3> QED BY <1>4, <3>1, <3>3
  <2> QED BY <2>1, <2>2
<1> DEFINE packets == summary'.packets
           missing == summary'.missing
<1>7. /\ packets = Cardinality(Taken)
      /\ packets + missing <= Cardinality(Sent)
      /\ ~Lossy \/ UseCft => missing = 0
  <2>1. /\ packets = Cardinality(Taken) /\ missing \in Nat
        /\ missing <= Cardinality(Sent \ Taken) /\ (UseCft => missing = 0)
    BY <1>6
  <2> HIDE DEF packets, missing
  <2> QED BY <1>4, <2>1
<1> QED BY <1>1, <1>2, <1>3, <1>7 DEF SummaryInv, SummaryAccounts

LEMMA NextKeepsSummary ==
  ASSUME SampleInv, FilteredMissNothing, SummaryInv, [Next]_vars
  PROVE  SummaryInv'
<1>1. UNCHANGED test /\ Rigid
  BY TestIsRigid DEF Next, Terminated, vars
<1> USE DEF streamVars, endVars
<1>2. ASSUME NEW p \in Pubs, NEW n \in Turns, ProcessData(p, n) PROVE SummaryInv'
  <2>1. finishedPublishers # Pubs /\ summary' = summary
    BY <1>2 DEF ProcessData
  <2>2. summary' = NoSummary
    BY <2>1 DEF SummaryInv
  <2> QED BY <2>2 DEF SummaryInv, SummaryAccounts, NoSummary
<1>3. ASSUME NEW p \in Pubs, NEW n \in Turns \cup {-1}, ProcessFinished(p, n)
      PROVE  SummaryInv'
  <2>1. finishedPublishers # Pubs /\ summary' = summary
    BY <1>3 DEF ProcessFinished
  <2>2. summary' = NoSummary
    BY <2>1 DEF SummaryInv
  <2> QED BY <2>2 DEF SummaryInv, SummaryAccounts, NoSummary
<1>4. CASE PrintSummary
  BY <1>1, <1>4, PrintKeepsSummary
<1>5. CASE CountPacket \/ CountBytes \/ CountMissing \/ ResetPackets \/ ResetBytes
           \/ ResetMissing \/ EndTest
  BY <1>1, <1>5, SummaryKept DEF CountPacket, CountBytes, CountMissing, ResetPackets,
     ResetBytes, ResetMissing, EndTest
<1>6. CASE Poll \/ UNCHANGED vars
  BY <1>1, <1>6, SummaryKept DEF vars,
     Poll, PollEndTest, PollNewSize, PollNewBytes, PollPackets, PollBytes, PrintInterval
<1> QED BY <1>2, <1>3, <1>4, <1>5, <1>6 DEF Next, Listener, Terminated

\* The summary accounts for the samples: it shows all that were taken, never more
\* than were sent together with the missing ones, and no missing one when none is
\* lost or content filters are on, for every number of publishers, every loss and
\* every width of the sequence numbers (ThroughputListener.cs:190-265,
\* perftest_cpp.cxx:1042-1112).
THEOREM SummaryIsSound == Spec => []SummaryAccounts
<1>1. Init => SummaryInv
  BY DEF Init, SummaryInv, SummaryAccounts
<1>2. SampleInv /\ FilteredMissNothing /\ SummaryInv /\ [Next]_vars => SummaryInv'
  BY NextKeepsSummary
<1>3. SummaryInv => SummaryAccounts
  BY DEF SummaryInv
<1> QED BY <1>1, <1>2, <1>3, SampleInvariance, FiltersHoldBack, PTL DEF Spec
=============================================================================
