--------------------------- MODULE CsSessionProofs ---------------------------
(***************************************************************************)
(* TLAPS proofs about CsSession: its safety properties, for every number   *)
(* of publishers, subscribers and samples and in every mode.  What depends *)
(* on FINISHED samples needs data samples that cannot be taken for them:   *)
(* DistinctSizes, which ParseConfig does not ensure.                       *)
(***************************************************************************)
EXTENDS CsSession, FiniteSetTheorems, TLAPS

(* Types.                                                                   *)

\* The state of every behaviour of the port stays within its types.
THEOREM TypeCorrect == Spec => []TypeOK
<1> USE CountAssumption DEF PubPhases, SubPhases
<1>1. Init => TypeOK
  BY DEF Init, TypeOK
<1>2. TypeOK /\ [Next]_vars => TypeOK'
  <2> SUFFICES ASSUME TypeOK, [Next]_vars PROVE TypeOK'
    OBVIOUS
  <2>0. mode' = mode /\ (Step \/ UNCHANGED vars)
    BY DEF Next, vars
  <2> USE <2>0
  <2> USE DEF TypeOK, pubVars, subVars, listenerVars, annVars, PubGoto, SubGoto
  <2>1. ASSUME NEW p \in Pubs, PubStep(p) PROVE TypeOK'
    <3>1. CASE \/ PubDiscovered(p) \/ PubAnnounced(p) \/ PubAborted(p)
               \/ StartSending(p) \/ PingAnswered(p) \/ StopSending(p)
               \/ AckWaited(p) \/ PubExit(p)
      BY <3>1 DEF PubDiscovered, PubAnnounced, PubAborted, StartSending,
                  PingAnswered, StopSending, AckWaited, PubExit
    <3>2. CASE SendInitialize(p)
      BY <3>2 DEF SendInitialize
    <3>3. CASE SendData(p)
      BY <3>3 DEF SendData
    <3>4. CASE SendFinished(p)
      BY <3>4 DEF SendFinished, KeepsFinishing
    <3> QED BY <2>1, <3>1, <3>2, <3>3, <3>4 DEF PubStep
  <2>2. ASSUME NEW p \in Pubs, CompletePub(p) PROVE TypeOK'
    BY <2>2 DEF CompletePub
  <2>3. ASSUME NEW s \in Subs, SubStep(s) \/ CompleteSub(s) PROVE TypeOK'
    <3>1. CASE SubAnnounce(s)
      BY <3>1 DEF SubAnnounce
    <3>2. CASE SubFinish(s)
      BY <3>2 DEF SubFinish
    <3>3. CASE SubAborted(s) \/ SubInterrupted(s) \/ SubExit(s)
      BY <3>3 DEF SubAborted, SubInterrupted, SubExit
    <3>4. CASE CompleteSub(s)
      BY <3>4 DEF CompleteSub
    <3> QED BY <2>3, <3>1, <3>2, <3>3, <3>4 DEF SubStep
  <2>4. ASSUME NEW p \in Pubs, NEW s \in Subs, Matching(p, s) PROVE TypeOK'
    <3>1. CASE PubDiscoversSub(p, s) \/ PubForgetsSub(p, s)
      <4>1. pubSees' \in [Pubs -> SUBSET Subs]
        <5>1. PICK S \in SUBSET Subs : pubSees' = [pubSees EXCEPT ![p] = S]
          BY <3>1 DEF PubDiscoversSub, PubForgetsSub
        <5> QED BY <5>1
      <4> QED BY <3>1, <4>1 DEF PubDiscoversSub, PubForgetsSub
    <3>2. CASE SubDiscoversPub(s, p) \/ SubForgetsPub(s, p)
      <4>1. subSees' \in [Subs -> SUBSET Pubs]
        <5>1. PICK S \in SUBSET Pubs : subSees' = [subSees EXCEPT ![s] = S]
          BY <3>2 DEF SubDiscoversPub, SubForgetsPub
        <5> QED BY <5>1
      <4> QED BY <3>2, <4>1 DEF SubDiscoversPub, SubForgetsPub
    <3> QED BY <2>4, <3>1, <3>2 DEF Matching
  <2>5. ASSUME NEW p \in Pubs, NEW s \in Subs, LoseSample(p, s) PROVE TypeOK'
    BY <2>5 DEF LoseSample
  <2>6. ASSUME NEW p \in Pubs, NEW s \in Subs, ProcessAnnouncement(p, s)
        PROVE TypeOK'
    <3>1. annRead' \in [Pubs -> [Subs -> 0 .. 2]]
      <4>1. annRead[p] \in [Subs -> 0 .. 2] /\ annRead[p][s] + 1 \in 0 .. 2
        <5>1. annRead[p] \in [Subs -> 0 .. 2]
          OBVIOUS
        <5>2. annRead[p][s] \in 0 .. 2 /\ annSent[s] \in 0 .. 2
          BY <5>1
        <5>3. annRead[p][s] < annSent[s]
          BY <2>6 DEF ProcessAnnouncement
        <5> QED BY <5>1, <5>2, <5>3
      <4>2. [annRead[p] EXCEPT ![s] = @ + 1] \in [Subs -> 0 .. 2]
        BY <4>1
      <4> QED BY <2>6, <4>2 DEF ProcessAnnouncement
    <3>2. activeSubscribers' \in [Pubs -> SUBSET Subs]
      BY <2>6 DEF ProcessAnnouncement
    <3> QED BY <2>6, <3>1, <3>2 DEF ProcessAnnouncement
  <2>7. ASSUME NEW p \in Pubs, NEW s \in Subs, ProcessMessage(s, p)
        PROVE TypeOK'
    <3>1. read' \in [Pubs -> [Subs -> Nat]]
      BY <2>7 DEF ProcessMessage
    <3>2. finishedPublishers' \in [Subs -> SUBSET Pubs]
      <4>1. PICK F \in SUBSET Pubs :
              finishedPublishers' = [finishedPublishers EXCEPT ![s] = F]
        <5>1. finishedPublishers[s] \cup {p} \in SUBSET Pubs
          OBVIOUS
        <5>2. finishedPublishers = [finishedPublishers EXCEPT ![s] = finishedPublishers[s]]
          OBVIOUS
        <5> QED BY <2>7, <5>1, <5>2 DEF ProcessMessage
      <4> QED BY <4>1
    <3>3. endTest' \in [Subs -> BOOLEAN]
      <4>1. CASE Kind(p, read[p][s] + 1) = "FINISHED" /\ ~endTest[s]
        <5>1. endTest' = [endTest EXCEPT ![s] =
                            Cardinality(finishedPublishers'[s]) >= NumPublishers]
          BY <2>7, <4>1 DEF ProcessMessage, AllFinished
        <5>2. (Cardinality(finishedPublishers'[s]) >= NumPublishers) \in BOOLEAN
          BY SMT
        <5> QED BY <5>1, <5>2, Zenon
      <4>2. CASE ~(Kind(p, read[p][s] + 1) = "FINISHED" /\ ~endTest[s])
        BY <2>7, <4>2 DEF ProcessMessage
      <4> QED BY <4>1, <4>2
    <3> QED BY <2>7, <3>1, <3>2, <3>3 DEF ProcessMessage
  <2>8. CASE UNCHANGED vars
    BY <2>8 DEF vars
  <2> QED
    BY <2>0, <2>1, <2>2, <2>3, <2>4, <2>5, <2>6, <2>7, <2>8 DEF Step, Terminated
<1> QED BY <1>1, <1>2, PTL DEF Spec

-----------------------------------------------------------------------------
(* The inductive invariant.                                                 *)

\* A set of publishers, or of subscribers, that is as large as the count the
\* code compares it with holds all of them.
LEMMA EnoughIsAll ==
  /\ \A P \in SUBSET Pubs : Cardinality(P) >= NumPublishers => P = Pubs
  /\ \A S \in SUBSET Subs : Cardinality(S) >= NumSubscribers => S = Subs
<1>1. IsFiniteSet(Pubs) /\ Cardinality(Pubs) = NumPublishers
  BY CountAssumption, FS_Interval DEF Pubs
<1>2. IsFiniteSet(Subs) /\ Cardinality(Subs) = NumSubscribers
  BY CountAssumption, FS_Interval DEF Subs
<1>3. ASSUME NEW P \in SUBSET Pubs, Cardinality(P) >= NumPublishers PROVE P = Pubs
  <2>1. Cardinality(P) <= Cardinality(Pubs) /\ Cardinality(P) \in Nat
    BY <1>1, FS_Subset, FS_CardinalityType
  <2> QED BY <1>1, <1>3, <2>1, FS_Subset, CountAssumption
<1>4. ASSUME NEW S \in SUBSET Subs, Cardinality(S) >= NumSubscribers PROVE S = Subs
  <2>1. Cardinality(S) <= Cardinality(Subs) /\ Cardinality(S) \in Nat
    BY <1>2, FS_Subset, FS_CardinalityType
  <2> QED BY <1>2, <1>4, <2>1, FS_Subset, CountAssumption
<1> QED BY <1>3, <1>4

Parts == /\ AnnouncementsTaken /\ AnnouncedSubscribers /\ StartedPublishers
         /\ FinishedPublishersSeen /\ LosslessWhenReliable

\* The parts of the inductive invariant survive every step of a publisher.
LEMMA PubStepKeepsParts ==
  ASSUME TypeOK, TypeOK', Parts, UNCHANGED mode, NEW p \in Pubs,
         PubStep(p) \/ CompletePub(p)
  PROVE  Parts'
<1> USE CountAssumption
<1> USE DEF TypeOK, Parts, PubPhases, PubGoto, PubExited, PubStarted, Written,
            subVars, listenerVars, annVars
<1>1. AnnouncementsTaken'
  BY DEF PubStep, PubDiscovered, PubAnnounced, PubAborted, SendInitialize,
         StartSending, SendData, PingAnswered, StopSending, SendFinished,
         AckWaited, PubExit, CompletePub, AnnouncementsTaken
<1>2. LosslessWhenReliable'
  BY DEF PubStep, PubDiscovered, PubAnnounced, PubAborted, SendInitialize,
         StartSending, SendData, PingAnswered, StopSending, SendFinished,
         AckWaited, PubExit, CompletePub, LosslessWhenReliable, Reliable
<1>3. AnnouncedSubscribers'
  <2>1. \A q \in Pubs : PubExited(q) => PubExited(q)'
    BY DEF PubStep, PubDiscovered, PubAnnounced, PubAborted, SendInitialize,
           StartSending, SendData, PingAnswered, StopSending, SendFinished,
           AckWaited, PubExit, CompletePub
  <2>2. UNCHANGED <<subPc, subSees, annSent, endTest>>
    BY DEF PubStep, PubDiscovered, PubAnnounced, PubAborted, SendInitialize,
           StartSending, SendData, PingAnswered, StopSending, SendFinished,
           AckWaited, PubExit, CompletePub
  <2> QED BY <2>1, <2>2 DEF AnnouncedSubscribers
<1>4. StartedPublishers'
  <2> USE DEF StartedPublishers
  <2>1. CASE PubDiscovered(p)
    BY <2>1 DEF PubDiscovered
  <2>2. CASE PubAnnounced(p)
    <3>1. activeSubscribers[p] = Subs
      BY <2>2, EnoughIsAll DEF PubAnnounced, AllAnnounced
    <3>2. \A s \in Subs : annRead[p][s] > 0
      BY <3>1 DEF AnnouncementsTaken
    <3> QED BY <2>2, <3>2 DEF PubAnnounced
  <2>3. CASE PubAborted(p)
    BY <2>3 DEF PubAborted, WaitCutShort
  <2>4. CASE SendInitialize(p)
    BY <2>4 DEF SendInitialize
  <2>5. CASE SendData(p)
    BY <2>5 DEF SendData
  <2>6. CASE SendFinished(p)
    BY <2>6 DEF SendFinished
  <2>7. CASE StartSending(p)
    BY <2>7 DEF StartSending
  <2>8. CASE PingAnswered(p)
    BY <2>8 DEF PingAnswered
  <2>9. CASE StopSending(p)
    BY <2>9 DEF StopSending
  <2>10. CASE AckWaited(p)
    BY <2>10 DEF AckWaited
  <2>11. CASE PubExit(p)
    BY <2>11 DEF PubExit
  <2>12. CASE CompletePub(p)
    BY <2>12 DEF CompletePub
  <2> QED
    BY <2>1, <2>2, <2>3, <2>4, <2>5, <2>6, <2>7, <2>8, <2>9, <2>10, <2>11, <2>12
       DEF PubStep
<1>5. FinishedPublishersSeen'
  <2>1. UNCHANGED <<finishedPublishers, endTest, read>>
    BY DEF PubStep, PubDiscovered, PubAnnounced, PubAborted, SendInitialize,
           StartSending, SendData, PingAnswered, StopSending, SendFinished,
           AckWaited, PubExit, CompletePub
  <2>2. \A q \in Pubs : tries[q] > 0 =>
          tries'[q] > 0 /\ burst'[q] = burst[q] /\ loop'[q] = loop[q]
    <3> USE DEF StartedPublishers
    <3>1. CASE SendInitialize(p)
      <4>1. ~(tries[p] > 0)
        BY <3>1 DEF SendInitialize
      <4>2. /\ UNCHANGED <<loop, tries>>
            /\ \A q \in Pubs : q # p => burst'[q] = burst[q]
        BY <3>1 DEF SendInitialize
      <4> QED BY <4>1, <4>2
    <3>2. CASE SendData(p)
      <4>1. ~(tries[p] > 0)
        BY <3>2 DEF SendData
      <4>2. /\ UNCHANGED <<burst, tries>>
            /\ \A q \in Pubs : q # p => loop'[q] = loop[q]
        BY <3>2 DEF SendData
      <4> QED BY <4>1, <4>2
    <3>3. CASE SendFinished(p)
      BY <3>3 DEF SendFinished
    <3>4. CASE UNCHANGED <<burst, loop, tries>>
      BY <3>4
    <3> QED
      BY <3>1, <3>2, <3>3, <3>4
         DEF PubStep, PubDiscovered, PubAnnounced, PubAborted, StartSending,
             PingAnswered, StopSending, AckWaited, PubExit, CompletePub
  <2> QED BY <2>1, <2>2 DEF FinishedPublishersSeen
<1> QED BY <1>1, <1>2, <1>3, <1>4, <1>5

\* ... and every step of a subscriber.
LEMMA SubStepKeepsParts ==
  ASSUME TypeOK, TypeOK', Parts, UNCHANGED mode, NEW s \in Subs,
         SubStep(s) \/ CompleteSub(s)
  PROVE  Parts'
<1> USE DEF TypeOK, Parts, SubPhases, SubGoto, PubExited, PubStarted, Written,
            pubVars, listenerVars, annVars
<1>1. UNCHANGED <<pubPc, burst, loop, tries, finishedPublishers, endTest, read,
                  lost, activeSubscribers, annRead, subSees>>
  BY DEF SubStep, SubAnnounce, SubAborted, SubFinish, SubInterrupted, SubExit,
         CompleteSub
<1>2. StartedPublishers' /\ FinishedPublishersSeen' /\ LosslessWhenReliable'
  BY <1>1 DEF StartedPublishers, FinishedPublishersSeen, LosslessWhenReliable, Reliable
<1>3. AnnouncedSubscribers'
  <2> USE <1>1 DEF AnnouncedSubscribers
  <2>1. CASE SubAnnounce(s)
    <3>1. subSees[s] = Pubs
      BY <2>1, EnoughIsAll DEF SubAnnounce, AllWritersMatched
    <3> QED BY <2>1, <3>1 DEF SubAnnounce
  <2>2. CASE SubFinish(s)
    BY <2>2 DEF SubFinish
  <2>3. CASE SubAborted(s) \/ SubInterrupted(s) \/ SubExit(s)
    BY <2>3 DEF SubAborted, SubInterrupted, SubExit
  <2>4. CASE CompleteSub(s)
    BY <2>4 DEF CompleteSub
  <2> QED BY <2>1, <2>2, <2>3, <2>4 DEF SubStep
<1>4. AnnouncementsTaken'
  <2>1. annSent \in [Subs -> 0 .. 2] /\ annSent' \in [Subs -> 0 .. 2]
    OBVIOUS
  <2>2. annRead \in [Pubs -> [Subs -> 0 .. 2]]
    OBVIOUS
  <2>3. AnnouncementsTaken /\ AnnouncedSubscribers
    OBVIOUS
  <2> HIDE DEF TypeOK, Parts
  <2>4. \/ annSent[s] = 0 /\ annSent' = [annSent EXCEPT ![s] = 1]
        \/ annSent[s] = 1 /\ annSent' = [annSent EXCEPT ![s] = 2]
        \/ annSent' = annSent
    BY <2>3 DEF SubStep, SubAnnounce, SubAborted, SubFinish, SubInterrupted,
                SubExit, CompleteSub, AnnouncedSubscribers
  <2>5. ASSUME NEW t \in Subs PROVE annSent'[t] >= annSent[t]
    <3>1. CASE t = s
      BY <2>1, <2>4, <3>1
    <3>2. CASE t # s
      BY <2>1, <2>4, <3>2
    <3> QED BY <3>1, <3>2
  <2>6. ASSUME NEW q \in Pubs, NEW t \in Subs
        PROVE  annRead[q][t] <= annSent'[t]
    <3>1. annRead[q][t] <= annSent[t]
      BY <2>3 DEF AnnouncementsTaken
    <3>2. annRead[q][t] \in 0 .. 2 /\ annSent[t] \in 0 .. 2 /\ annSent'[t] \in 0 .. 2
      BY <2>1, <2>2
    <3> QED BY <2>5, <3>1, <3>2
  <2> QED BY <1>1, <2>3, <2>6 DEF AnnouncementsTaken
<1> QED BY <1>2, <1>3, <1>4

\* ... discovery, and the loss of a sample.
LEMMA NetworkKeepsParts ==
  ASSUME TypeOK, TypeOK', Parts, UNCHANGED mode, NEW p \in Pubs, NEW s \in Subs,
         Matching(p, s) \/ LoseSample(p, s)
  PROVE  Parts'
<1>1. UNCHANGED <<pubPc, burst, loop, tries, subPc, finishedPublishers, endTest,
                  annSent, activeSubscribers, annRead>>
  BY DEF Matching, PubDiscoversSub, SubDiscoversPub, PubForgetsSub, SubForgetsPub,
         LoseSample, pubVars, subVars, listenerVars, annVars
<1>2. Reliable => lost' = lost
  BY DEF Matching, PubDiscoversSub, SubDiscoversPub, PubForgetsSub, SubForgetsPub,
         LoseSample, listenerVars
<1>3. \A q \in Pubs, t \in Subs : q \in subSees[t] => q \in subSees'[t] \/ PubExited(q)
  <2>1. CASE SubDiscoversPub(s, p)
    BY <2>1 DEF SubDiscoversPub, TypeOK
  <2>2. CASE SubForgetsPub(s, p)
    BY <2>2 DEF SubForgetsPub, TypeOK
  <2>3. CASE UNCHANGED subSees
    BY <2>3
  <2> QED
    BY <2>1, <2>2, <2>3
       DEF Matching, PubDiscoversSub, PubForgetsSub, LoseSample, subVars
<1>4. \A q \in Pubs, t \in Subs :
        read[q][t] \in Nat /\ (read'[q][t] = read[q][t] \/ read'[q][t] = read[q][t] + 1)
  <2>1. read \in [Pubs -> [Subs -> Nat]]
    BY DEF TypeOK
  <2>2. read' = read \/ read' = [read EXCEPT ![p][s] = @ + 1]
    BY DEF Matching, PubDiscoversSub, SubDiscoversPub, PubForgetsSub,
           SubForgetsPub, LoseSample, listenerVars
  <2> QED BY <2>1, <2>2
<1>5. \A q \in Pubs : burst[q] \in Nat /\ loop[q] \in Nat
  BY CountAssumption DEF TypeOK
<1>6. AnnouncementsTaken'
  BY <1>1 DEF Parts, AnnouncementsTaken
<1>7. AnnouncedSubscribers'
  BY <1>1, <1>3 DEF Parts, AnnouncedSubscribers, PubExited
<1>8. StartedPublishers'
  BY <1>1 DEF Parts, StartedPublishers, PubStarted, Written
<1>9. FinishedPublishersSeen'
  <2>1. ASSUME DistinctSizes, NEW t \in Subs, NEW q \in finishedPublishers[t]
        PROVE  tries[q] > 0 /\ read'[q][t] > burst[q] + loop[q]
    <3>1. q \in Pubs
      BY DEF TypeOK
    <3>2. tries[q] > 0 /\ read[q][t] > burst[q] + loop[q]
      BY <2>1 DEF Parts, FinishedPublishersSeen
    <3> QED BY <1>4, <1>5, <3>1, <3>2
  <2> QED BY <1>1, <2>1 DEF Parts, FinishedPublishersSeen
<1>10. LosslessWhenReliable'
  BY <1>2 DEF Parts, LosslessWhenReliable, Reliable
<1> QED BY <1>6, <1>7, <1>8, <1>9, <1>10 DEF Parts

\* ... an announcement that reaches a publisher.
LEMMA ProcessAnnouncementKeepsParts ==
  ASSUME TypeOK, TypeOK', Parts, UNCHANGED mode, NEW p \in Pubs, NEW s \in Subs,
         ProcessAnnouncement(p, s)
  PROVE  Parts'
<1>1. UNCHANGED <<pubPc, burst, loop, tries, subPc, subSees, finishedPublishers,
                  endTest, read, lost, annSent>>
  BY DEF ProcessAnnouncement, pubVars, subVars, listenerVars
<1>2. /\ annRead[p][s] < annSent[s]
      /\ annRead' = [annRead EXCEPT ![p][s] = @ + 1]
      /\ activeSubscribers' = [activeSubscribers EXCEPT ![p] =
           IF annRead[p][s] = 0 THEN @ \cup {s} ELSE @ \ {s}]
  BY DEF ProcessAnnouncement
<1>3. /\ annRead \in [Pubs -> [Subs -> 0 .. 2]]
      /\ annSent \in [Subs -> 0 .. 2]
      /\ activeSubscribers \in [Pubs -> SUBSET Subs]
  BY DEF TypeOK
<1>4. AnnouncementsTaken'
  <2>1. ASSUME NEW q \in Pubs, NEW t \in Subs
        PROVE  /\ annRead'[q][t] <= annSent[t]
               /\ t \in activeSubscribers'[q] <=> annRead'[q][t] = 1
    <3>1. /\ annRead[q][t] <= annSent[t]
          /\ t \in activeSubscribers[q] <=> annRead[q][t] = 1
      BY DEF Parts, AnnouncementsTaken
    <3>2. CASE q = p /\ t = s
      <4>1. annRead'[q][t] = annRead[q][t] + 1
        BY <1>2, <1>3, <3>2
      <4>2. annRead[q][t] \in 0 .. 2 /\ annSent[t] \in 0 .. 2
        BY <1>3
      <4>3. t \in activeSubscribers'[q] <=> annRead[q][t] = 0
        BY <1>2, <1>3, <3>2
      <4> QED BY <1>2, <3>2, <4>1, <4>2, <4>3
    <3>3. CASE ~(q = p /\ t = s)
      <4>1. annRead'[q][t] = annRead[q][t]
        BY <1>2, <1>3, <3>3
      <4>2. t \in activeSubscribers'[q] <=> t \in activeSubscribers[q]
        BY <1>2, <1>3, <3>3
      <4> QED BY <3>1, <4>1, <4>2
    <3> QED BY <3>2, <3>3
  <2> QED BY <1>1, <2>1 DEF AnnouncementsTaken
<1>5. AnnouncedSubscribers'
  BY <1>1 DEF Parts, AnnouncedSubscribers, PubExited
<1>6. StartedPublishers'
  <2>1. \A q \in Pubs, t \in Subs : annRead[q][t] > 0 => annRead'[q][t] > 0
    BY <1>2, <1>3
  <2> QED BY <1>1, <2>1 DEF Parts, StartedPublishers, PubStarted, Written
<1>7. FinishedPublishersSeen' /\ LosslessWhenReliable'
  BY <1>1 DEF Parts, FinishedPublishersSeen, LosslessWhenReliable, Reliable
<1> QED BY <1>4, <1>5, <1>6, <1>7 DEF Parts

\* ... and a sample that reaches a subscriber.
LEMMA ProcessMessageKeepsParts ==
  ASSUME TypeOK, TypeOK', Parts, UNCHANGED mode, NEW p \in Pubs, NEW s \in Subs,
         ProcessMessage(s, p)
  PROVE  Parts'
<1>1. UNCHANGED <<pubPc, burst, loop, tries, subPc, subSees, lost, annSent,
                  activeSubscribers, annRead>>
  BY DEF ProcessMessage, pubVars, subVars, annVars
<1>2. /\ read[p][s] < Written(p)
      /\ read' = [read EXCEPT ![p][s] = @ + 1]
  BY DEF ProcessMessage
<1>3. /\ read \in [Pubs -> [Subs -> Nat]]
      /\ finishedPublishers \in [Subs -> SUBSET Pubs]
      /\ finishedPublishers' \in [Subs -> SUBSET Pubs]
      /\ endTest \in [Subs -> BOOLEAN]
  BY DEF TypeOK
<1>4. \A q \in Pubs : burst[q] \in Nat /\ loop[q] \in Nat /\ tries[q] \in Nat
  BY CountAssumption DEF TypeOK
<1>5. \A q \in Pubs, t \in Subs : read'[q][t] \in Nat /\ read'[q][t] >= read[q][t]
  BY <1>2, <1>3
<1>6. /\ DistinctSizes => \A t \in Subs : \A q \in finishedPublishers'[t] :
                            tries[q] > 0 /\ read'[q][t] > burst[q] + loop[q]
      /\ \A t \in Subs : endTest'[t] => finishedPublishers'[t] = Pubs
      /\ \A t \in Subs : endTest[t] => endTest'[t]
  <2>1. DistinctSizes => \A t \in Subs : \A q \in finishedPublishers[t] :
                           tries[q] > 0 /\ read'[q][t] > burst[q] + loop[q]
    <3> SUFFICES ASSUME DistinctSizes, NEW t \in Subs, NEW q \in finishedPublishers[t]
                 PROVE  tries[q] > 0 /\ read'[q][t] > burst[q] + loop[q]
      OBVIOUS
    <3>1. q \in Pubs
      BY <1>3
    <3>2. tries[q] > 0 /\ read[q][t] > burst[q] + loop[q]
      BY DEF Parts, FinishedPublishersSeen
    <3>3. read[q][t] \in Nat
      BY <1>3, <3>1
    <3> QED BY <1>4, <1>5, <3>1, <3>2, <3>3
  <2>2. CASE Kind(p, read[p][s] + 1) = "FINISHED" /\ ~endTest[s]
    <3>1. /\ finishedPublishers' = [finishedPublishers EXCEPT ![s] = @ \cup {p}]
          /\ endTest' = [endTest EXCEPT ![s] =
               Cardinality(finishedPublishers'[s]) >= NumPublishers]
      BY <2>2 DEF ProcessMessage, AllFinished
    <3>2. DistinctSizes => tries[p] > 0 /\ read'[p][s] > burst[p] + loop[p]
      <4>1. read[p][s] \in Nat /\ read'[p][s] = read[p][s] + 1
        BY <1>2, <1>3
      <4> QED BY <1>2, <1>4, <2>2, <4>1 DEF Kind, Written, DistinctSizes
    <3>3. \A t \in Subs : \A q \in finishedPublishers'[t] :
            q \in finishedPublishers[t] \/ (q = p /\ t = s)
      BY <1>3, <3>1
    <3>4. endTest'[s] => Cardinality(finishedPublishers'[s]) >= NumPublishers
      <4>1. (Cardinality(finishedPublishers'[s]) >= NumPublishers) \in BOOLEAN
        BY SMT
      <4> QED BY <1>3, <3>1, <4>1, Zenon
    <3>5. endTest'[s] => finishedPublishers'[s] = Pubs
      BY <1>3, <3>4, EnoughIsAll
    <3>6. \A t \in Subs : t # s =>
            endTest'[t] = endTest[t] /\ finishedPublishers'[t] = finishedPublishers[t]
      BY <1>3, <3>1, Zenon
    <3>7. \A t \in Subs : endTest'[t] => finishedPublishers'[t] = Pubs
      BY <3>5, <3>6 DEF Parts, FinishedPublishersSeen
    <3>8. \A t \in Subs : endTest[t] => endTest'[t]
      BY <2>2, <3>6
    <3> QED BY <2>1, <3>2, <3>3, <3>7, <3>8
  <2>3. CASE ~(Kind(p, read[p][s] + 1) = "FINISHED" /\ ~endTest[s])
    <3>1. UNCHANGED <<finishedPublishers, endTest>>
      BY <2>3 DEF ProcessMessage
    <3> QED BY <2>1, <3>1 DEF Parts, FinishedPublishersSeen
  <2> QED BY <2>2, <2>3
<1>7. FinishedPublishersSeen'
  BY <1>1, <1>6 DEF FinishedPublishersSeen
<1>8. AnnouncedSubscribers'
  BY <1>1, <1>6 DEF Parts, AnnouncedSubscribers, PubExited
<1>9. AnnouncementsTaken' /\ StartedPublishers' /\ LosslessWhenReliable'
  BY <1>1 DEF Parts, AnnouncementsTaken, StartedPublishers, PubStarted, Written,
              LosslessWhenReliable, Reliable
<1> QED BY <1>7, <1>8, <1>9 DEF Parts

\* The parts of the invariant hold in every state of every session of the port.
THEOREM Invariance == Spec => []IndInv
<1>1. Init => Parts
  BY CountAssumption
     DEF Init, Parts, AnnouncementsTaken, AnnouncedSubscribers, StartedPublishers,
         PubStarted, Written, FinishedPublishersSeen, LosslessWhenReliable
<1>2. TypeOK /\ TypeOK' /\ Parts /\ [Next]_vars => Parts'
  <2> SUFFICES ASSUME TypeOK, TypeOK', Parts, [Next]_vars PROVE Parts'
    OBVIOUS
  <2>1. CASE UNCHANGED vars
    BY <2>1
       DEF vars, pubVars, subVars, listenerVars, annVars, Parts, Reliable,
           AnnouncementsTaken, AnnouncedSubscribers, PubExited, StartedPublishers,
           PubStarted, Written, FinishedPublishersSeen, LosslessWhenReliable
  <2> QED
    BY <2>1, PubStepKeepsParts, SubStepKeepsParts, NetworkKeepsParts,
       ProcessAnnouncementKeepsParts, ProcessMessageKeepsParts
       DEF Next, Step, Terminated
<1>3. TypeOK /\ Parts => IndInv
  BY DEF Parts, IndInv
<1> QED BY <1>1, <1>2, <1>3, TypeCorrect, PTL DEF Spec

-----------------------------------------------------------------------------
(* What the invariant says about the session.                               *)

\* No sample of a publisher meets a subscriber that does not know every
\* publisher that is still running.
THEOREM HandshakeHolds == Spec => []NoSampleBeforeDiscovery
<1>1. IndInv => NoSampleBeforeDiscovery
  <2> SUFFICES ASSUME IndInv, NEW p \in Pubs, NEW s \in Subs, NEW q \in Pubs,
                      Written(p) > 0, q \notin subSees[s]
               PROVE  PubExited(q)
    BY DEF NoSampleBeforeDiscovery
  <2>1. annRead[p][s] > 0
    BY DEF IndInv, StartedPublishers, PubStarted
  <2>2. annRead[p][s] <= annSent[s]
    BY DEF IndInv, AnnouncementsTaken
  <2>3. annRead[p][s] \in 0 .. 2 /\ annSent[s] \in 0 .. 2
    BY DEF IndInv, TypeOK
  <2>4. annSent[s] > 0
    BY <2>1, <2>2, <2>3
  <2> QED BY <2>4 DEF IndInv, AnnouncedSubscribers
<1> QED BY <1>1, Invariance, PTL

\* A subscriber that has counted the FINISHED samples of all publishers has
\* counted them of publishers that are past their sending loops.
LEMMA EndTestMeansFinished ==
  ASSUME DistinctSizes, IndInv, NEW s \in Subs, endTest[s], NEW p \in Pubs
  PROVE  /\ pubPc[p] \in {"finish", "ack", "done"}
         /\ read[p][s] > burst[p] + loop[p]
<1>1. p \in finishedPublishers[s]
  BY DEF IndInv, FinishedPublishersSeen
<1>2. tries[p] > 0 /\ read[p][s] > burst[p] + loop[p]
  BY <1>1 DEF IndInv, FinishedPublishersSeen
<1> QED BY <1>2 DEF IndInv, StartedPublishers

\* PERFTEST-97 holds: no test ends before every publisher stopped sending data.
THEOREM EndTestIsLate ==
  ASSUME DistinctSizes
  PROVE  Spec => []EndTestAfterAllPublishers
<1>1. IndInv => EndTestAfterAllPublishers
  BY EndTestMeansFinished DEF EndTestAfterAllPublishers
<1> QED BY <1>1, Invariance, PTL

\* With reliable delivery the summary of a subscriber covers every data sample.
THEOREM NothingMissed ==
  ASSUME DistinctSizes
  PROVE  Spec => []NothingMissedWhenReliable
<1>1. IndInv => NothingMissedWhenReliable
  BY EndTestMeansFinished DEF NothingMissedWhenReliable, IndInv, LosslessWhenReliable
<1> QED BY <1>1, Invariance, PTL

\* A publisher that has started holds every subscriber active or finished.
LEMMA StartedKnowsAll ==
  ASSUME IndInv, NEW p \in Pubs, PubStarted(p), NEW s \in Subs
  PROVE  /\ annSent[s] > 0
         /\ s \in activeSubscribers[p] \/ endTest[s]
<1>1. annRead[p][s] > 0
  BY DEF IndInv, StartedPublishers
<1>2. /\ annRead[p][s] <= annSent[s]
      /\ s \in activeSubscribers[p] <=> annRead[p][s] = 1
  BY DEF IndInv, AnnouncementsTaken
<1>3. annRead[p][s] \in 0 .. 2 /\ annSent[s] \in 0 .. 2
  BY DEF IndInv, TypeOK
<1>4. annRead[p][s] = 1 \/ annSent[s] = 2
  BY <1>1, <1>2, <1>3
<1>5. annSent[s] = 2 => endTest[s]
  BY DEF IndInv, AnnouncedSubscribers
<1> QED BY <1>1, <1>2, <1>3, <1>4, <1>5

\* No FINISHED announcement reaches a publisher that still sends data.
THEOREM AllActive ==
  ASSUME DistinctSizes
  PROVE  Spec => []AllActiveWhileSending
<1>1. IndInv => AllActiveWhileSending
  <2> SUFFICES ASSUME IndInv, NEW p \in Pubs, pubPc[p] \in {"burst", "data", "ping"}
               PROVE  activeSubscribers[p] = Subs
    BY DEF AllActiveWhileSending
  <2>1. \A s \in Subs : ~endTest[s]
    BY EndTestMeansFinished
  <2>2. \A s \in Subs : s \in activeSubscribers[p]
    BY <2>1, StartedKnowsAll DEF PubStarted
  <2>3. activeSubscribers[p] \subseteq Subs
    BY DEF IndInv, TypeOK
  <2> QED BY <2>2, <2>3
<1> QED BY <1>1, Invariance, PTL

\* A publisher that nobody keeps leaves a session that is over everywhere.
THEOREM QuietExit ==
  ASSUME DistinctSizes
  PROVE  Spec => []QuietExitIsGlobal
<1>1. IndInv => QuietExitIsGlobal
  <2> SUFFICES ASSUME IndInv, NEW p \in Pubs, pubPc[p] = "done",
                      activeSubscribers[p] = {}
               PROVE  /\ \A s \in Subs : endTest[s]
                      /\ \A q \in Pubs : pubPc[q] \in {"finish", "ack", "done"}
    BY DEF QuietExitIsGlobal
  <2>1. \A s \in Subs : endTest[s]
    BY StartedKnowsAll DEF PubStarted
  <2>2. 0 \in Subs
    BY CountAssumption DEF Subs
  <2> QED BY <2>1, <2>2, EndTestMeansFinished
<1> QED BY <1>1, Invariance, PTL

-----------------------------------------------------------------------------
(* The port implements the abstract session: a step of a process is a step *)
(* of TestSession or leaves the four sets alone.                            *)

\* A step of a publisher starts or stops it in the abstract session, or stutters.
LEMMA PubStepRefines ==
  ASSUME DistinctSizes, IndInv, IndInv', NEW p \in Pubs, PubStep(p) \/ CompletePub(p)
  PROVE  [Session!TSNext]_(Session!tsVars)
<1>1. Ready' = Ready /\ Ended' = Ended
  BY DEF Ready, Ended, PubStep, PubDiscovered, PubAnnounced, PubAborted,
         SendInitialize, StartSending, SendData, PingAnswered, StopSending,
         SendFinished, AckWaited, PubExit, CompletePub, subVars, listenerVars
<1>2. ASSUME NEW q \in Pubs, q # p
      PROVE  (PubStarted(q)' <=> PubStarted(q)) /\ (PubStopped(q)' <=> PubStopped(q))
  <2>1. /\ pubPc'[q] = pubPc[q] /\ burst'[q] = burst[q]
        /\ loop'[q] = loop[q] /\ tries'[q] = tries[q]
    BY <1>2 DEF PubStep, PubDiscovered, PubAnnounced, PubAborted, SendInitialize,
         StartSending, SendData, PingAnswered, StopSending, SendFinished, AckWaited,
         PubExit, CompletePub, PubGoto, IndInv, TypeOK
  <2> QED BY <2>1 DEF PubStarted, PubStopped, Written
<1>3. CASE PubAnnounced(p)
  <2>1. \A s \in Subs : annSent[s] > 0
    <3>1. pubPc'[p] = "burst"
      BY <1>3 DEF PubAnnounced, PubGoto, IndInv, TypeOK
    <3>2. \A s \in Subs : annRead'[p][s] > 0
      BY <3>1 DEF IndInv, StartedPublishers, PubStarted
    <3>3. \A s \in Subs : annRead'[p][s] <= annSent'[s]
      BY DEF IndInv, AnnouncementsTaken
    <3>4. \A s \in Subs : annRead'[p][s] \in 0 .. 2 /\ annSent'[s] \in 0 .. 2
      BY DEF IndInv, TypeOK
    <3>5. annSent' = annSent
      BY <1>3 DEF PubAnnounced, subVars
    <3> QED BY <3>2, <3>3, <3>4, <3>5
  <2>2. /\ PubStarted(p)'
        /\ PubStopped(p)' <=> PubStopped(p)
    BY <1>3 DEF PubAnnounced, PubGoto, PubStarted, PubStopped, IndInv, TypeOK
  <2>3. Ready = Subs
    BY <2>1 DEF Ready
  <2>4. Started' = Started \cup {p} /\ Stopped' = Stopped
    BY <1>2, <2>2 DEF Started, Stopped
  <2>5. Session!Start(p)
    BY <1>1, <2>3, <2>4 DEF Session!Start
  <2> QED BY <2>5 DEF Session!TSNext
<1>4. CASE StopSending(p) \/ PubAborted(p)
  <2>1. PubStarted(p)' <=> PubStarted(p)
    <3>1. pubPc[p] = "ping" => Written(p) > 0
      <4>1. pubPc[p] = "ping" => loop[p] > 0
        BY DEF IndInv, StartedPublishers
      <4>2. burst[p] \in Nat /\ loop[p] \in Nat /\ tries[p] \in Nat
        BY CountAssumption DEF IndInv, TypeOK
      <4> QED BY <4>1, <4>2 DEF Written
    <3>2. UNCHANGED <<burst, loop, tries>>
      BY <1>4 DEF StopSending, PubAborted
    <3>3. Written(p)' = Written(p)
      BY <3>2 DEF Written
    <3> QED
      BY <1>4, <3>1, <3>3
         DEF PubStarted, StopSending, PubAborted, WaitCutShort, PubGoto, IndInv, TypeOK
  <2>2. PubStopped(p) => PubStopped(p)'
    BY <1>4 DEF PubStopped, StopSending, PubAborted, WaitCutShort, PubGoto, IndInv, TypeOK
  <2>3. PubStopped(p)' => PubStarted(p)'
    BY DEF PubStopped, PubStarted
  <2>4. Started' = Started
    BY <1>2, <2>1 DEF Started
  <2>5. CASE Stopped' = Stopped
    BY <1>1, <2>4, <2>5 DEF Session!tsVars
  <2>6. CASE Stopped' # Stopped
    <3>1. PubStopped(p)' /\ p \in Started
      BY <1>2, <2>1, <2>2, <2>3, <2>6 DEF Started, Stopped
    <3>2. Stopped' = Stopped \cup {p}
      BY <1>2, <3>1 DEF Stopped
    <3>3. Session!Stop(p)
      BY <1>1, <2>4, <3>1, <3>2 DEF Session!Stop
    <3> QED BY <3>3 DEF Session!TSNext
  <2> QED BY <2>5, <2>6
<1>5. CASE ~(PubAnnounced(p) \/ StopSending(p) \/ PubAborted(p))
  <2>1. (PubStarted(p)' <=> PubStarted(p)) /\ (PubStopped(p)' <=> PubStopped(p))
    <3> USE DEF PubStarted, PubStopped, PubGoto, IndInv, TypeOK
    <3>1. CASE PubDiscovered(p)
      BY <3>1 DEF PubDiscovered, Written
    <3>2. CASE CompletePub(p)
      BY <3>2 DEF CompletePub, Written
    <3>3. CASE SendInitialize(p) \/ SendData(p) \/ SendFinished(p)
      BY <3>3 DEF SendInitialize, SendData, SendFinished
    <3>4. CASE StartSending(p) \/ PingAnswered(p) \/ AckWaited(p) \/ PubExit(p)
      BY <3>4 DEF StartSending, PingAnswered, AckWaited, PubExit
    <3> QED BY <1>5, <3>1, <3>2, <3>3, <3>4 DEF PubStep
  <2>2. Started' = Started /\ Stopped' = Stopped
    BY <1>2, <2>1 DEF Started, Stopped
  <2> QED BY <1>1, <2>2 DEF Session!tsVars
<1> QED BY <1>3, <1>4, <1>5

\* A step of a subscriber announces it there, or stutters.
LEMMA SubStepRefines ==
  ASSUME DistinctSizes, IndInv, IndInv', NEW s \in Subs, SubStep(s) \/ CompleteSub(s)
  PROVE  [Session!TSNext]_(Session!tsVars)
<1>1. UNCHANGED <<pubPc, burst, loop, tries, endTest>>
  BY DEF SubStep, SubAnnounce, SubAborted, SubFinish, SubInterrupted, SubExit,
         CompleteSub, pubVars, listenerVars
<1>2. Started' = Started /\ Stopped' = Stopped /\ Ended' = Ended
  BY <1>1 DEF Started, Stopped, Ended, PubStarted, PubStopped, Written
<1>3. CASE SubAnnounce(s)
  <2>1. Ready' = Ready \cup {s}
    BY <1>3 DEF SubAnnounce, Ready, IndInv, TypeOK
  <2>2. Session!Announce(s)
    BY <1>2, <2>1 DEF Session!Announce
  <2> QED BY <2>2 DEF Session!TSNext
<1>4. CASE SubFinish(s)
  <2>1. annSent[s] = 1 /\ annSent' = [annSent EXCEPT ![s] = 2]
    BY <1>4 DEF SubFinish, IndInv, AnnouncedSubscribers
  <2>2. \A t \in Subs : annSent'[t] > 0 <=> annSent[t] > 0
    BY <2>1 DEF IndInv, TypeOK
  <2>3. Ready' = Ready
    BY <2>2 DEF Ready
  <2> QED BY <1>2, <2>3 DEF Session!tsVars
<1>5. CASE UNCHANGED annSent
  BY <1>2, <1>5 DEF Ready, Session!tsVars
<1> QED
  BY <1>3, <1>4, <1>5 DEF SubStep, SubAborted, SubInterrupted, SubExit, CompleteSub

\* A sample that a subscriber processes ends its test there, or stutters.
LEMMA ProcessMessageRefines ==
  ASSUME DistinctSizes, IndInv, IndInv', NEW p \in Pubs, NEW s \in Subs,
         ProcessMessage(s, p)
  PROVE  [Session!TSNext]_(Session!tsVars)
<1>1. UNCHANGED <<pubPc, burst, loop, tries, annSent>>
  BY DEF ProcessMessage, pubVars, subVars
<1>2. Ready' = Ready /\ Started' = Started /\ Stopped' = Stopped
  BY <1>1 DEF Ready, Started, Stopped, PubStarted, PubStopped, Written
<1>3. CASE endTest' = endTest
  BY <1>2, <1>3 DEF Ended, Session!tsVars
<1>4. CASE endTest' # endTest
  <2>1. \E b \in BOOLEAN : endTest' = [endTest EXCEPT ![s] = b]
    BY <1>4 DEF ProcessMessage, IndInv, TypeOK
  <2>2. ~endTest[s] /\ endTest'[s] /\ \A t \in Subs : t # s => endTest'[t] = endTest[t]
    BY <1>4, <2>1 DEF ProcessMessage, IndInv, TypeOK
  <2>3. Ended' = Ended \cup {s}
    BY <2>2 DEF Ended
  <2>4. \A q \in Pubs : pubPc'[q] \in {"finish", "ack", "done"}
    <3>1. IndInv' /\ endTest'[s] => finishedPublishers'[s] = Pubs
      BY DEF IndInv, FinishedPublishersSeen
    <3>2. \A q \in Pubs : tries'[q] > 0
      BY <2>2, <3>1 DEF IndInv, FinishedPublishersSeen
    <3> QED BY <3>2 DEF IndInv, StartedPublishers
  <2>5. Stopped = Pubs
    BY <1>1, <2>4 DEF Stopped, PubStopped
  <2>6. Session!End(s)
    BY <1>2, <2>3, <2>5 DEF Session!End
  <2> QED BY <2>6 DEF Session!TSNext
<1> QED BY <1>3, <1>4

\* The C# port keeps the promise of a test session.
THEOREM Refinement ==
  ASSUME DistinctSizes
  PROVE  Spec => ImplementsTestSession
<1>1. Init => Session!TSInit
  BY CountAssumption
     DEF Init, Session!TSInit, Ready, Started, Stopped, Ended, PubStarted,
         PubStopped, Written
<1>2. IndInv /\ IndInv' /\ [Next]_vars => [Session!TSNext]_(Session!tsVars)
  <2> SUFFICES ASSUME IndInv, IndInv', [Next]_vars
               PROVE  [Session!TSNext]_(Session!tsVars)
    OBVIOUS
  <2>1. CASE UNCHANGED <<pubPc, burst, loop, tries, annSent, endTest>>
    BY <2>1 DEF Session!tsVars, Ready, Started, Stopped, Ended, PubStarted,
                PubStopped, Written
  <2>2. ASSUME NEW p \in Pubs, NEW s \in Subs,
               Matching(p, s) \/ LoseSample(p, s) \/ ProcessAnnouncement(p, s)
        PROVE  UNCHANGED <<pubPc, burst, loop, tries, annSent, endTest>>
    BY <2>2 DEF Matching, PubDiscoversSub, SubDiscoversPub, PubForgetsSub,
                SubForgetsPub, LoseSample, ProcessAnnouncement, pubVars, subVars,
                listenerVars, annVars
  <2>3. CASE UNCHANGED vars
    BY <2>1, <2>3 DEF vars, pubVars, subVars, listenerVars
  <2> QED
    BY <2>1, <2>2, <2>3, PubStepRefines, SubStepRefines, ProcessMessageRefines
       DEF Next, Step, Terminated
<1> QED BY <1>1, <1>2, Invariance, PTL DEF Spec, ImplementsTestSession, Session!TSSpec

\* In the C# port the parts of a test follow one another, over all publishers and
\* subscribers: Perftest.cs waits for announcements before the burst, and its listener for FINISHED.
THEOREM PhasesInOrder ==
  ASSUME DistinctSizes
  PROVE  Spec => []Session!InOrder
<1>1. Session!TSInit => Session!InOrder
  BY DEF Session!TSInit, Session!InOrder
<1>2. Session!InOrder /\ [Session!TSNext]_(Session!tsVars) => Session!InOrder'
  <2> SUFFICES ASSUME Session!InOrder, [Session!TSNext]_(Session!tsVars)
               PROVE  Session!InOrder'
    OBVIOUS
  <2>1. CASE Session!TSNext
    BY <2>1 DEF Session!TSNext, Session!Announce, Session!Start, Session!Stop, Session!End,
                Session!InOrder
  <2>2. CASE UNCHANGED Session!tsVars
    BY <2>2 DEF Session!tsVars, Session!InOrder
  <2> QED BY <2>1, <2>2
<1> QED BY <1>1, <1>2, Refinement, PTL DEF ImplementsTestSession, Session!TSSpec
=============================================================================
