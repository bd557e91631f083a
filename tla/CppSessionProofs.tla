--------------------------- MODULE CppSessionProofs ---------------------------
(***************************************************************************)
(* TLAPS proofs about CppSession: its safety properties, for every number  *)
(* of publishers, subscribers and samples.  Two things the code does not   *)
(* ensure are assumed where they are needed, and only there: that the list *)
(* of subscribers is read whole (NoTornSize), and that no data sample has  *)
(* the size of a FINISHED sample (DistinctSizes).                          *)
(***************************************************************************)
EXTENDS CppSession, FiniteSetTheorems, TLAPS

\* The size of the vector of subscribers is read as one number.
NoTornSize == \A m \in Modes : ~m.tornSize

\* No test is run with -dataLen 1263.
DistinctSizes == \A m \in Modes : m.dataSize # "FINISHED"

LEMMA ModeFacts ==
  ASSUME mode \in Modes
  PROVE  /\ AnnouncementSampleCount \in Nat \ {0} /\ MaxLosses \in Nat
         /\ NoTornSize => ~TornSize
         /\ DataSize \in {"DATA", "INITIALIZE", "FINISHED"}
         /\ DistinctSizes => DataSize # "FINISHED"
BY CppModeAssumption
   DEF AnnouncementSampleCount, MaxLosses, NoTornSize, TornSize, DataSize, DistinctSizes

Rigid ==
  /\ AnnouncementSampleCount' = AnnouncementSampleCount /\ MaxLosses' = MaxLosses
  /\ (Reliable' <=> Reliable) /\ (TornSize' <=> TornSize)
  /\ DataSize' = DataSize

LEMMA ModeIsRigid ==
  ASSUME UNCHANGED mode
  PROVE  Rigid
BY DEF Rigid, AnnouncementSampleCount, MaxLosses, Reliable, TornSize, DataSize

-----------------------------------------------------------------------------
(* Types.                                                                   *)

\* A field of a record that is set to a value of its type leaves the record typed.
LEMMA FieldsTyped ==
  /\ \A p \in Pubs, S \in SUBSET Subs :
       pub \in [Pubs -> PubRecord] =>
         /\ [pub EXCEPT ![p].sees = S] \in [Pubs -> PubRecord]
         /\ [pub EXCEPT ![p].list = S] \in [Pubs -> PubRecord]
  /\ \A s \in Subs, P \in SUBSET Pubs :
       sub \in [Subs -> SubRecord] =>
         [sub EXCEPT ![s].sees = P] \in [Subs -> SubRecord]
BY DEF PubRecord, SubRecord

\* A main thread that goes to another phase leaves the rest of its record alone.
LEMMA GotoTyped ==
  /\ \A p \in Pubs, phase \in PubPhases :
       pub \in [Pubs -> PubRecord] => [pub EXCEPT ![p].pc = phase] \in [Pubs -> PubRecord]
  /\ \A s \in Subs, phase \in SubPhases :
       sub \in [Subs -> SubRecord] => [sub EXCEPT ![s].pc = phase] \in [Subs -> SubRecord]
BY DEF PubRecord, SubRecord

\* Every step of a publisher keeps the types ...
LEMMA PubStepTyped ==
  ASSUME TypeOK, NEW p \in Pubs, PubStep(p) \/ Timeout(p), UNCHANGED mode
  PROVE  TypeOK'
<1>0. Rigid /\ AnnouncementSampleCount \in Nat \ {0}
  BY ModeIsRigid, ModeFacts DEF TypeOK
<1>1. UNCHANGED <<sub, read, lost, heard>>
  BY DEF PubStep, PubGoto, CreatePublisher, PubDiscovered, PubAnnounced, SendInitialize,
         StartSending, SendData, PingAnswered, StopSending, SendFinished, AckWaited,
         PubExit, Timeout
<1>2. pub \in [Pubs -> PubRecord]
  BY DEF TypeOK
<1>3. SUFFICES pub' \in [Pubs -> PubRecord]
  <2>1. PubRecord' = PubRecord
    BY <1>0 DEF Rigid, PubRecord
  <2> QED BY <1>0, <1>1, <2>1 DEF TypeOK, Rigid, SubRecord
<1>4. CASE \/ CreatePublisher(p) \/ PubDiscovered(p) \/ PubAnnounced(p)
           \/ StartSending(p) \/ PingAnswered(p) \/ StopSending(p) \/ AckWaited(p)
           \/ PubExit(p)
  <2>1. \E phase \in PubPhases : PubGoto(p, phase)
    BY <1>4 DEF CreatePublisher, PubDiscovered, PubAnnounced, StartSending,
                PingAnswered, StopSending, AckWaited, PubExit, PubPhases
  <2> QED BY <1>2, <2>1, GotoTyped DEF PubGoto
<1>5. CASE SendInitialize(p)
  <2>1. /\ pub' = [pub EXCEPT ![p].burst = @ + 1]
        /\ pub[p].burst < InitializeSampleCount
    BY <1>5 DEF SendInitialize
  <2>2. pub[p].burst + 1 \in 0 .. InitializeSampleCount
    BY <1>2, <2>1, CppCountAssumption DEF PubRecord
  <2>3. [pub[p] EXCEPT !.burst = @ + 1] \in PubRecord
    BY <1>2, <2>2 DEF PubRecord
  <2>4. pub' = [pub EXCEPT ![p] = [pub[p] EXCEPT !.burst = @ + 1]]
    BY <2>1
  <2> QED BY <1>2, <2>3, <2>4
<1>6. CASE SendData(p)
  <2>1. PICK phase \in {"ping", "data"} :
          pub' = [pub EXCEPT ![p].loop = @ + 1, ![p].pc = phase]
    BY <1>6 DEF SendData
  <2>2. pub[p].loop + 1 \in 0 .. NumIter
    BY <1>2, <1>6, CppCountAssumption DEF SendData, PubRecord
  <2>3. phase \in PubPhases
    BY DEF PubPhases
  <2>4. [pub[p] EXCEPT !.loop = @ + 1, !.pc = phase] \in PubRecord
    BY <1>2, <2>2, <2>3 DEF PubRecord
  <2>5. pub' = [pub EXCEPT ![p] = [pub[p] EXCEPT !.loop = @ + 1, !.pc = phase]]
    BY <2>1
  <2> QED BY <1>2, <2>4, <2>5
<1>7. CASE SendFinished(p)
  <2>1. pub' = [pub EXCEPT ![p].tries = @ + 1, ![p].pc = "ack"]
    BY <1>7 DEF SendFinished
  <2>2. pub[p].tries + 1 \in 0 .. AnnouncementSampleCount
    BY <1>0, <1>2, <1>7 DEF SendFinished, KeepsFinishing, PubRecord
  <2>3. [pub[p] EXCEPT !.tries = @ + 1, !.pc = "ack"] \in PubRecord
    BY <1>2, <2>2 DEF PubRecord, PubPhases
  <2>4. pub' = [pub EXCEPT ![p] = [pub[p] EXCEPT !.tries = @ + 1, !.pc = "ack"]]
    BY <2>1
  <2> QED BY <1>2, <2>3, <2>4
<1>8. CASE Timeout(p)
  <2>1. [pub[p] EXCEPT !.completed = TRUE] \in PubRecord
    BY <1>2 DEF PubRecord
  <2>2. pub' = [pub EXCEPT ![p] = [pub[p] EXCEPT !.completed = TRUE]]
    BY <1>8 DEF Timeout
  <2> QED BY <1>2, <2>1, <2>2
<1> QED BY <1>4, <1>5, <1>6, <1>7, <1>8 DEF PubStep

\* ... every step of a subscriber ...
LEMMA SubStepTyped ==
  ASSUME TypeOK, NEW s \in Subs, SubStep(s), UNCHANGED mode
  PROVE  TypeOK'
<1>0. Rigid
  BY ModeIsRigid
<1>1. UNCHANGED <<pub, read, lost, heard>>
  BY DEF SubStep, SubGoto, CreateSubscriber, SubDiscovered, SendAnnouncement, NapOver,
         SubFinish, SubExit
<1>2. sub \in [Subs -> SubRecord]
  BY DEF TypeOK
<1>3. SUFFICES sub' \in [Subs -> SubRecord]
  <2>1. PubRecord' = PubRecord
    BY <1>0 DEF Rigid, PubRecord
  <2> QED BY <1>0, <1>1, <2>1 DEF TypeOK, Rigid, SubRecord
<1>4. CASE CreateSubscriber(s) \/ SubDiscovered(s) \/ NapOver(s) \/ SubExit(s)
  <2>1. \E phase \in SubPhases : SubGoto(s, phase)
    BY <1>4 DEF CreateSubscriber, SubDiscovered, NapOver, SubExit, SubPhases
  <2> QED BY <1>2, <2>1, GotoTyped DEF SubGoto
<1>5. CASE SendAnnouncement(s)
  <2>1. PICK n \in 0 .. MaxAnnouncements :
          sub' = [sub EXCEPT ![s].pc = "nap", ![s].announced = n]
    <3>1. /\ sub[s].announced \in 0 .. MaxAnnouncements
          /\ sub[s].announced < MaxAnnouncements
               => sub[s].announced + 1 \in 0 .. MaxAnnouncements
      BY <1>2, CppCountAssumption DEF SubRecord
    <3>2. CASE sub[s].announced < MaxAnnouncements
      BY <1>5, <3>1, <3>2 DEF SendAnnouncement
    <3>3. CASE ~(sub[s].announced < MaxAnnouncements)
      BY <1>5, <3>1, <3>3 DEF SendAnnouncement
    <3> QED BY <3>2, <3>3
  <2>2. [sub[s] EXCEPT !.pc = "nap", !.announced = n] \in SubRecord
    BY <1>2 DEF SubRecord, SubPhases
  <2>3. sub' = [sub EXCEPT ![s] = [sub[s] EXCEPT !.pc = "nap", !.announced = n]]
    BY <2>1
  <2> QED BY <1>2, <2>2, <2>3
<1>6. CASE SubFinish(s)
  <2>1. [sub[s] EXCEPT !.pc = "drain", !.saidFinished = TRUE] \in SubRecord
    BY <1>2 DEF SubRecord, SubPhases
  <2>2. sub' = [sub EXCEPT ![s] = [sub[s] EXCEPT !.pc = "drain", !.saidFinished = TRUE]]
    BY <1>6 DEF SubFinish
  <2> QED BY <1>2, <2>1, <2>2
<1> QED BY <1>4, <1>5, <1>6 DEF SubStep

\* p becomes one of the finished publishers of s, perhaps the last.
BecomesFinished(s, p) ==
  \E e, r \in BOOLEAN :
    /\ e <=> AllFinished(sub[s].finished \cup {p})
    /\ sub' = [sub EXCEPT ![s] = [sub[s] EXCEPT !.finished = sub[s].finished \cup {p},
                                                !.endTest = e, !.received = r]]

\* What a data or FINISHED sample changes of a subscriber: ProcessMessage, in parts.
LEMMA ProcessedSample ==
  ASSUME TypeOK, NEW s \in Subs, NEW p \in Pubs, ProcessMessage(s, p)
  PROVE  \/ sub' = sub
         \/ sub' = [sub EXCEPT ![s].received = TRUE]
         \/ /\ Kind(p, read[p][s] + 1) = "FINISHED" /\ ~sub[s].endTest
            /\ BecomesFinished(s, p)
<1> DEFINE kind == Kind(p, read[p][s] + 1)
           finished == sub[s].finished \cup {p}
           e == AllFinished(finished)
           r == sub[s].received /\ ~e
<1>1. sub' = [sub EXCEPT ![s] = Processed(@, p, kind)] /\ sub \in [Subs -> SubRecord]
  BY DEF ProcessMessage, TypeOK
<1>2. kind \in {"INITIALIZE", "DATA", "FINISHED"}
  <2>1. DataSize \in {"DATA", "INITIALIZE", "FINISHED"}
    BY ModeFacts DEF TypeOK
  <2> QED BY <2>1 DEF Kind
<1> HIDE DEF kind
<1>3. CASE kind = "DATA"
  <2>1. Processed(sub[s], p, kind) = [sub[s] EXCEPT !.received = TRUE]
    BY <1>3 DEF Processed
  <2> QED BY <1>1, <2>1 DEF SubRecord
<1>4. CASE kind = "FINISHED" /\ p \notin sub[s].finished /\ ~sub[s].endTest
  <2>1. Processed(sub[s], p, kind)
          = [sub[s] EXCEPT !.finished = finished, !.endTest = e, !.received = r]
    BY <1>4 DEF Processed
  <2>2. e \in BOOLEAN /\ r \in BOOLEAN
    <3>1. AllFinished(finished) \in BOOLEAN
      BY DEF AllFinished
    <3> QED BY <3>1, Zenon
  <2> HIDE DEF e, r
  <2>3. sub' = [sub EXCEPT ![s] = [sub[s] EXCEPT !.finished = finished,
                                                !.endTest = e, !.received = r]]
    BY <1>1, <2>1
  <2>4. e <=> AllFinished(finished)
    BY DEF e
  <2>5. BecomesFinished(s, p)
    BY <2>2, <2>3, <2>4, Zenon DEF BecomesFinished
  <2> QED BY <1>4, <2>5 DEF kind
<1>5. CASE /\ kind # "DATA"
           /\ ~(kind = "FINISHED" /\ p \notin sub[s].finished /\ ~sub[s].endTest)
  <2>1. Processed(sub[s], p, kind) = sub[s]
    BY <1>2, <1>5 DEF Processed
  <2>2. sub' = [sub EXCEPT ![s] = sub[s]]
    BY <1>1, <2>1
  <2> QED BY <1>1, <2>2
<1> QED BY <1>3, <1>4, <1>5, Zenon

\* ... and every step of the middleware and of the listeners.
LEMMA NetworkTyped ==
  ASSUME TypeOK, NEW p \in Pubs, NEW s \in Subs, UNCHANGED mode,
         \/ Match(p, s) \/ Unmatch(p, s) \/ LoseSample(p, s)
         \/ ProcessAnnouncement(p, s) \/ ProcessMessage(s, p)
  PROVE  TypeOK'
<1>0. Rigid /\ MaxLosses \in Nat
  BY ModeIsRigid, ModeFacts DEF TypeOK
<1>1. PubRecord' = PubRecord /\ SubRecord' = SubRecord
  BY <1>0 DEF Rigid, PubRecord, SubRecord
<1>2. /\ pub \in [Pubs -> PubRecord] /\ sub \in [Subs -> SubRecord]
      /\ read \in [Pubs -> [Subs -> Nat]]
      /\ lost \in [Pubs -> [Subs -> 0 .. MaxLosses]]
      /\ heard \in [Pubs -> [Subs -> 0 .. MaxAnnouncements + 1]]
  BY DEF TypeOK
<1>3. SUFFICES /\ pub' \in [Pubs -> PubRecord] /\ sub' \in [Subs -> SubRecord]
               /\ read' \in [Pubs -> [Subs -> Nat]]
               /\ lost' \in [Pubs -> [Subs -> 0 .. MaxLosses]]
               /\ heard' \in [Pubs -> [Subs -> 0 .. MaxAnnouncements + 1]]
  BY <1>0, <1>1 DEF TypeOK, Rigid
<1>4. CASE Match(p, s) \/ Unmatch(p, s)
  <2>1. /\ UNCHANGED <<read, lost, heard>>
        /\ \/ /\ sub' = sub
              /\ \E S \in SUBSET Subs : pub' = [pub EXCEPT ![p].sees = S]
           \/ /\ pub' = pub
              /\ \E P \in SUBSET Pubs : sub' = [sub EXCEPT ![s].sees = P]
    <3>1. /\ pub[p].sees \cup {s} \in SUBSET Subs /\ pub[p].sees \ {s} \in SUBSET Subs
          /\ sub[s].sees \cup {p} \in SUBSET Pubs /\ sub[s].sees \ {p} \in SUBSET Pubs
      BY <1>2 DEF PubRecord, SubRecord
    <3> QED BY <1>4, <3>1 DEF Match, Unmatch
  <2>2. ASSUME NEW S \in SUBSET Subs, pub' = [pub EXCEPT ![p].sees = S]
        PROVE  pub' \in [Pubs -> PubRecord]
    BY <1>2, <2>2, FieldsTyped
  <2>3. ASSUME NEW P \in SUBSET Pubs, sub' = [sub EXCEPT ![s].sees = P]
        PROVE  sub' \in [Subs -> SubRecord]
    BY <1>2, <2>3, FieldsTyped
  <2> QED BY <1>2, <2>1, <2>2, <2>3
<1>5. CASE LoseSample(p, s)
  <2>1. lost[p][s] + 1 \in 0 .. MaxLosses
    BY <1>0, <1>2, <1>5 DEF LoseSample
  <2> QED BY <1>2, <1>5, <2>1 DEF LoseSample
<1>6. CASE ProcessAnnouncement(p, s)
  <2>1. heard[p][s] + 1 \in 0 .. MaxAnnouncements + 1
    <3>1. Announcements(s) \in 0 .. MaxAnnouncements + 1
      BY <1>2, CppCountAssumption DEF Announcements, SubRecord
    <3> QED BY <1>2, <1>6, <3>1, CppCountAssumption DEF ProcessAnnouncement
  <2>2. PICK L \in SUBSET Subs : pub' = [pub EXCEPT ![p].list = L]
    <3>1. pub[p].list \cup {s} \in SUBSET Subs /\ pub[p].list \ {s} \in SUBSET Subs
      BY <1>2 DEF PubRecord
    <3>2. AnnouncementKind(s, heard[p][s] + 1) \in {"INITIALIZE", "FINISHED"}
      BY DEF AnnouncementKind
    <3>3. UpdatedList(pub[p].list, s, AnnouncementKind(s, heard[p][s] + 1)) \in SUBSET Subs
      BY <3>1, <3>2 DEF UpdatedList
    <3> QED BY <1>6, <3>3 DEF ProcessAnnouncement
  <2>3. pub' \in [Pubs -> PubRecord]
    BY <1>2, <2>2, FieldsTyped
  <2>4. heard' \in [Pubs -> [Subs -> 0 .. MaxAnnouncements + 1]]
    BY <1>2, <1>6, <2>1 DEF ProcessAnnouncement
  <2> QED BY <1>2, <1>6, <2>3, <2>4 DEF ProcessAnnouncement
<1>7. CASE ProcessMessage(s, p)
  <2>1. UNCHANGED <<pub, lost, heard>> /\ read' \in [Pubs -> [Subs -> Nat]]
    BY <1>2, <1>7 DEF ProcessMessage
  <2>2. sub' \in [Subs -> SubRecord]
    <3>1. CASE sub' = sub
      BY <1>2, <3>1
    <3>2. CASE sub' = [sub EXCEPT ![s].received = TRUE]
      <4>1. [sub[s] EXCEPT !.received = TRUE] \in SubRecord
        BY <1>2 DEF SubRecord
      <4>2. sub' = [sub EXCEPT ![s] = [sub[s] EXCEPT !.received = TRUE]]
        BY <3>2
      <4> QED BY <1>2, <4>1, <4>2
    <3>3. ASSUME BecomesFinished(s, p)
          PROVE  sub' \in [Subs -> SubRecord]
      <4>1. PICK e \in BOOLEAN, r \in BOOLEAN :
              sub' = [sub EXCEPT ![s] = [sub[s] EXCEPT !.finished = sub[s].finished \cup {p},
                                                       !.endTest = e, !.received = r]]
        BY <3>3 DEF BecomesFinished
      <4>2. sub[s] \in SubRecord
        BY <1>2
      <4>3. sub[s].finished \cup {p} \in SUBSET Pubs
        BY <4>2 DEF SubRecord
      <4>4. \A f \in SUBSET Pubs :
              [sub[s] EXCEPT !.finished = f, !.endTest = e, !.received = r] \in SubRecord
        BY <4>2 DEF SubRecord
      <4> QED BY <1>2, <4>1, <4>3, <4>4
    <3> QED BY <1>7, <3>1, <3>2, <3>3, ProcessedSample
  <2> QED BY <1>2, <2>1, <2>2
<1> QED BY <1>4, <1>5, <1>6, <1>7

\* The state of every behaviour of the port stays within its types and bounds.
THEOREM TypeCorrect == Spec => []TypeOK
<1>1. Init => TypeOK
  BY ModeFacts, CppCountAssumption
     DEF Init, TypeOK, PubRecord, SubRecord, PubPhases, SubPhases
<1>2. TypeOK /\ [Next]_vars => TypeOK'
  <2> SUFFICES ASSUME TypeOK, [Next]_vars PROVE TypeOK'
    OBVIOUS
  <2>1. CASE UNCHANGED vars
    <3>1. Rigid
      BY <2>1, ModeIsRigid DEF vars
    <3>2. PubRecord' = PubRecord
      BY <3>1 DEF Rigid, PubRecord
    <3> QED BY <2>1, <3>1, <3>2 DEF vars, TypeOK, Rigid, SubRecord
  <2> QED
    BY <2>1, PubStepTyped, SubStepTyped, NetworkTyped DEF Next, Step, Terminated
<1> QED BY <1>1, <1>2, PTL DEF Spec

-----------------------------------------------------------------------------
(* The inductive invariant.                                                 *)

\* A set of publishers, or of subscribers, that is as large as the count the code
\* compares it with holds all of them.
LEMMA EnoughIsAll ==
  /\ \A P \in SUBSET Pubs : Cardinality(P) >= NumPublishers => P = Pubs
  /\ \A S \in SUBSET Subs : Cardinality(S) >= NumSubscribers => S = Subs
<1>0. NumPublishers \in Nat \ {0} /\ NumSubscribers \in Nat \ {0}
  BY CppCountAssumption
<1>1. IsFiniteSet(Pubs) /\ Cardinality(Pubs) = NumPublishers
  BY <1>0, FS_Interval DEF Pubs
<1>2. IsFiniteSet(Subs) /\ Cardinality(Subs) = NumSubscribers
  BY <1>0, FS_Interval DEF Subs
<1>3. ASSUME NEW P \in SUBSET Pubs, Cardinality(P) >= NumPublishers PROVE P = Pubs
  <2>1. Cardinality(P) <= Cardinality(Pubs) /\ Cardinality(P) \in Nat
    BY <1>1, FS_Subset, FS_CardinalityType
  <2> QED BY <1>0, <1>1, <1>3, <2>1, FS_Subset
<1>4. ASSUME NEW S \in SUBSET Subs, Cardinality(S) >= NumSubscribers PROVE S = Subs
  <2>1. Cardinality(S) <= Cardinality(Subs) /\ Cardinality(S) \in Nat
    BY <1>2, FS_Subset, FS_CardinalityType
  <2> QED BY <1>0, <1>2, <1>4, <2>1, FS_Subset
<1> QED BY <1>3, <1>4

Parts == /\ ListedHaveAnnounced /\ StartedKnowsAll /\ AnnouncingKnowsAll
         /\ FinishedSeen /\ LosslessWhenReliable

\* The numbers of samples that p has written.
Counted(p) == pub[p].burst \in Nat /\ pub[p].loop \in Nat /\ pub[p].tries \in Nat

LEMMA CountsTyped ==
  ASSUME TypeOK, NEW p \in Pubs
  PROVE  Counted(p)
BY ModeFacts, CppCountAssumption DEF TypeOK, PubRecord, Counted

\* A step of p is one of p alone, which has not gone and keeps its list; it writes
\* no sample but INITIALIZE and data ones before FINISHED ones, and no sample at all
\* before it has got past the wait for the announcements.
PubAdvances(p) ==
  /\ \A q \in Pubs : q # p => pub'[q] = pub[q]
  /\ ~PubGone(p) /\ pub'[p].list = pub[p].list
  /\ pub[p].tries > 0 =>
       /\ pub'[p].tries > 0
       /\ pub'[p].burst = pub[p].burst /\ pub'[p].loop = pub[p].loop
  /\ PubStarted(p) => PubStarted(p)'
  /\ PubStarted(p)' => PubStarted(p) \/ PubAnnounced(p)
  /\ Written(p)' > 0 => PubStarted(p)'
  /\ pub'[p].tries > 0 => pub'[p].pc \in {"finish", "ack", "done"}

LEMMA PubStepAdvances ==
  ASSUME TypeOK, StartedKnowsAll, NEW p \in Pubs, PubStep(p) \/ Timeout(p)
  PROVE  PubAdvances(p)
<1>1. /\ pub \in [Pubs -> PubRecord] /\ Counted(p)
      /\ Written(p) > 0 => PubStarted(p)
      /\ pub[p].tries > 0 => pub[p].pc \in {"finish", "ack", "done"}
  BY CountsTyped DEF TypeOK, StartedKnowsAll
<1> USE DEF PubRecord, Counted, Written
<1>2. ASSUME NEW phase \in PubPhases, PubGoto(p, phase)
      PROVE  /\ \A q \in Pubs : q # p => pub'[q] = pub[q]
             /\ pub'[p].pc = phase /\ pub'[p].list = pub[p].list
             /\ pub'[p].burst = pub[p].burst /\ pub'[p].loop = pub[p].loop
             /\ pub'[p].tries = pub[p].tries
  BY <1>1, <1>2 DEF PubGoto
<1>3. CASE CreatePublisher(p) \/ PubDiscovered(p) \/ PubAnnounced(p)
  <2>1. PICK phase \in {"discover", "failed", "announced", "burst"} :
          /\ PubGoto(p, phase) /\ pub[p].pc \in {"create", "discover", "announced"}
          /\ phase = "burst" => PubAnnounced(p)
    BY <1>3 DEF CreatePublisher, PubDiscovered, PubAnnounced
  <2>2. phase \in PubPhases
    BY DEF PubPhases
  <2> QED BY <1>1, <1>2, <2>1, <2>2 DEF PubAdvances, PubStarted, PubGone
<1>4. CASE \/ StartSending(p) \/ PingAnswered(p) \/ StopSending(p) \/ AckWaited(p)
           \/ PubExit(p)
  <2>1. PICK phase \in {"data", "finish", "done"} :
          /\ PubGoto(p, phase)
          /\ pub[p].pc \in {"burst", "data", "ping", "finish", "ack"}
          /\ phase = "data" => pub[p].pc \notin {"finish", "ack"}
    BY <1>4 DEF StartSending, PingAnswered, StopSending, AckWaited, PubExit
  <2>2. phase \in PubPhases
    BY DEF PubPhases
  <2> QED BY <1>1, <1>2, <2>1, <2>2 DEF PubAdvances, PubStarted, PubGone
<1>5. CASE SendInitialize(p)
  BY <1>1, <1>5 DEF SendInitialize, PubAdvances, PubStarted, PubGone
<1>6. CASE SendData(p)
  <2>1. /\ pub[p].pc = "data"
        /\ \E phase \in {"ping", "data"} :
             pub' = [pub EXCEPT ![p].loop = @ + 1, ![p].pc = phase]
    BY <1>6 DEF SendData
  <2> QED BY <1>1, <2>1 DEF PubAdvances, PubStarted, PubGone
<1>7. CASE SendFinished(p)
  BY <1>1, <1>7 DEF SendFinished, PubAdvances, PubStarted, PubGone
<1>8. CASE Timeout(p)
  BY <1>1, <1>8 DEF Timeout, PubAdvances, PubStarted, PubGone
<1> QED BY <1>3, <1>4, <1>5, <1>6, <1>7, <1>8 DEF PubStep

\* The parts of the inductive invariant survive every step of a publisher.
LEMMA PubStepKeepsParts ==
  ASSUME TypeOK, Parts, UNCHANGED mode, NEW p \in Pubs, PubStep(p) \/ Timeout(p)
  PROVE  Parts'
<1>0. /\ Rigid /\ PubAdvances(p)
      /\ UNCHANGED <<sub, read, lost, heard>>
  <2>1. UNCHANGED <<sub, read, lost, heard>>
    BY DEF PubStep, PubGoto, CreatePublisher, PubDiscovered, PubAnnounced,
           SendInitialize, StartSending, SendData, PingAnswered, StopSending,
           SendFinished, AckWaited, PubExit, Timeout
  <2> QED BY <2>1, ModeIsRigid, PubStepAdvances DEF Parts
<1>1. ListedHaveAnnounced'
  BY <1>0 DEF Parts, ListedHaveAnnounced, PubAdvances
<1>2. StartedKnowsAll'
  <2>1. ASSUME NEW q \in Pubs, q # p
        PROVE  /\ pub'[q] = pub[q] /\ Written(q)' = Written(q)
               /\ PubStarted(q)' <=> PubStarted(q)
    BY <1>0, <2>1 DEF PubAdvances, Written, PubStarted
  <2>2. PubStarted(p)' => TornSize \/ \A s \in Subs : sub[s].announced > 0
    <3>1. CASE PubStarted(p)
      BY <3>1 DEF Parts, StartedKnowsAll
    <3>2. CASE PubAnnounced(p)
      <4>1. ~TornSize => pub[p].list = Subs
        <5>1. pub[p].list \in SUBSET Subs
          BY DEF TypeOK, PubRecord
        <5>2. ~TornSize => Cardinality(pub[p].list) >= NumSubscribers
          BY <3>2 DEF PubAnnounced, AllAnnounced, SizesRead
        <5> QED BY <5>1, <5>2, EnoughIsAll
      <4> QED BY <4>1 DEF Parts, ListedHaveAnnounced
    <3> QED BY <1>0, <3>1, <3>2 DEF PubAdvances
  <2> QED BY <1>0, <2>1, <2>2 DEF Parts, StartedKnowsAll, PubAdvances, Rigid
<1>3. AnnouncingKnowsAll'
  BY <1>0 DEF Parts, AnnouncingKnowsAll, Announcing, PubGone, PubAdvances
<1>4. FinishedSeen'
  <2>1. \A q \in Pubs : pub[q].tries > 0 =>
          /\ pub'[q].tries > 0
          /\ pub'[q].burst = pub[q].burst /\ pub'[q].loop = pub[q].loop
    BY <1>0 DEF PubAdvances
  <2>2. \A s \in Subs : sub[s].finished \subseteq Pubs
    BY DEF TypeOK, SubRecord
  <2> QED BY <1>0, <2>1, <2>2 DEF Parts, FinishedSeen, Rigid
<1>5. LosslessWhenReliable'
  BY <1>0 DEF Parts, LosslessWhenReliable, Rigid
<1> QED BY <1>1, <1>2, <1>3, <1>4, <1>5 DEF Parts

\* ... every step of a subscriber ...
LEMMA SubStepKeepsParts ==
  ASSUME TypeOK, Parts, UNCHANGED mode, NEW s \in Subs, SubStep(s)
  PROVE  Parts'
<1>0. Rigid /\ UNCHANGED <<pub, read, lost, heard>>
  <2>1. UNCHANGED <<pub, read, lost, heard>>
    BY DEF SubStep, SubGoto, CreateSubscriber, SubDiscovered, SendAnnouncement,
           NapOver, SubFinish, SubExit
  <2> QED BY <2>1, ModeIsRigid
<1>1. sub \in [Subs -> SubRecord]
  BY DEF TypeOK
<1>2. /\ \A t \in Subs : t # s => sub'[t] = sub[t]
      /\ sub'[s].sees = sub[s].sees /\ sub'[s].finished = sub[s].finished
      /\ sub'[s].endTest = sub[s].endTest
      /\ sub[s].announced > 0 => sub'[s].announced > 0
      /\ sub'[s].announced > 0 => sub[s].announced > 0 \/ SendAnnouncement(s)
      /\ Announcing(s)' => Announcing(s) \/ SubDiscovered(s)
      /\ Announcing(s) => Announcing(s)'
  <2> USE DEF Announcing, SubRecord
  <2>1. CASE CreateSubscriber(s) \/ SubDiscovered(s) \/ NapOver(s) \/ SubExit(s)
    <3>1. PICK phase \in SubPhases :
            /\ SubGoto(s, phase)
            /\ Announcing(s) => phase \in {"announce", "nap", "poll", "drain", "done"}
            /\ phase \in {"announce", "nap", "poll", "drain", "done"} =>
                 Announcing(s) \/ SubDiscovered(s)
      BY <2>1 DEF CreateSubscriber, SubDiscovered, NapOver, SubExit, SubPhases
    <3> QED BY <1>1, <3>1 DEF SubGoto
  <2>2. CASE SendAnnouncement(s)
    <3>1. sub[s].announced \in Nat
      BY <1>1, CppCountAssumption
    <3>2. PICK n \in Nat :
            /\ sub' = [sub EXCEPT ![s].pc = "nap", ![s].announced = n]
            /\ sub[s].announced > 0 => n > 0
            /\ sub[s].pc = "announce"
      <4> DEFINE n == IF sub[s].announced < MaxAnnouncements THEN sub[s].announced + 1
                                                            ELSE sub[s].announced
      <4>1. sub' = [sub EXCEPT ![s].pc = "nap", ![s].announced = n]
            /\ sub[s].pc = "announce"
        BY <2>2 DEF SendAnnouncement
      <4>2. n \in Nat /\ (sub[s].announced > 0 => n > 0)
        BY <3>1
      <4> HIDE DEF n
      <4> QED BY <4>1, <4>2
    <3> QED BY <1>1, <2>2, <3>2
  <2>3. CASE SubFinish(s)
    BY <1>1, <2>3 DEF SubFinish
  <2> QED BY <2>1, <2>2, <2>3 DEF SubStep
<1>3. ListedHaveAnnounced'
  BY <1>0, <1>2 DEF Parts, ListedHaveAnnounced
<1>4. StartedKnowsAll'
  <2>1. \A t \in Subs : sub[t].announced > 0 => sub'[t].announced > 0
    BY <1>2
  <2> QED BY <1>0, <2>1 DEF Parts, StartedKnowsAll, PubStarted, Written, Rigid
<1>5. AnnouncingKnowsAll'
  <2>1. SubDiscovered(s) => sub[s].sees = Pubs
    <3>1. sub[s].sees \in SUBSET Pubs
      BY <1>1 DEF SubRecord
    <3> QED BY <3>1, EnoughIsAll DEF SubDiscovered, AllWritersFound
  <2>2. SendAnnouncement(s) => Announcing(s)
    BY DEF SendAnnouncement, Announcing
  <2>3. \A t \in Subs : t # s => (Announcing(t)' <=> Announcing(t))
    BY <1>2 DEF Announcing
  <2> QED BY <1>0, <1>2, <2>1, <2>2, <2>3 DEF Parts, AnnouncingKnowsAll, PubGone
<1>6. FinishedSeen' /\ LosslessWhenReliable'
  BY <1>0, <1>2 DEF Parts, FinishedSeen, LosslessWhenReliable, Rigid
<1> QED BY <1>3, <1>4, <1>5, <1>6 DEF Parts

\* ... discovery, a lost sample, an announcement that a publisher takes ...
LEMMA NetworkKeepsParts ==
  ASSUME TypeOK, Parts, UNCHANGED mode, NEW p \in Pubs, NEW s \in Subs,
         \/ Match(p, s) \/ Unmatch(p, s) \/ LoseSample(p, s)
         \/ ProcessAnnouncement(p, s)
  PROVE  Parts'
<1>0. /\ Rigid
      /\ pub \in [Pubs -> PubRecord] /\ sub \in [Subs -> SubRecord]
      /\ read \in [Pubs -> [Subs -> Nat]]
  BY ModeIsRigid DEF TypeOK
<1>1. \A q \in Pubs :
        /\ pub'[q].pc = pub[q].pc /\ pub'[q].burst = pub[q].burst
        /\ pub'[q].loop = pub[q].loop /\ pub'[q].tries = pub[q].tries
  <2>1. \/ pub' = pub
        \/ \E S : pub' = [pub EXCEPT ![p].sees = S]
        \/ \E L : pub' = [pub EXCEPT ![p].list = L]
    BY DEF Match, Unmatch, LoseSample, ProcessAnnouncement
  <2>2. CASE pub' = pub
    BY <2>2
  <2>3. CASE \E S : pub' = [pub EXCEPT ![p].sees = S]
    BY <1>0, <2>3 DEF PubRecord
  <2>4. CASE \E L : pub' = [pub EXCEPT ![p].list = L]
    BY <1>0, <2>4 DEF PubRecord
  <2> QED BY <2>1, <2>2, <2>3, <2>4
<1>2. \A t \in Subs :
        /\ sub'[t].pc = sub[t].pc /\ sub'[t].finished = sub[t].finished
        /\ sub'[t].endTest = sub[t].endTest /\ sub'[t].announced = sub[t].announced
  BY <1>0 DEF Match, Unmatch, LoseSample, ProcessAnnouncement, SubRecord
<1>3. \A t \in Subs, q \in Pubs :
        q \in sub[t].sees => q \in sub'[t].sees \/ PubGone(q)
  <2>1. CASE Match(p, s)
    <3>1. sub' = sub \/ sub' = [sub EXCEPT ![s].sees = @ \cup {p}]
      BY <2>1 DEF Match
    <3>2. CASE sub' = [sub EXCEPT ![s].sees = @ \cup {p}]
      <4>1. /\ sub'[s].sees = sub[s].sees \cup {p}
            /\ \A t \in Subs : t # s => sub'[t] = sub[t]
        BY <1>0, <3>2 DEF SubRecord
      <4> QED BY <4>1
    <3> QED BY <3>1, <3>2
  <2>2. CASE Unmatch(p, s)
    <3>1. CASE sub' = sub
      BY <3>1
    <3>2. CASE PubGone(p) /\ sub' = [sub EXCEPT ![s].sees = @ \ {p}]
      <4>1. sub'[s].sees = sub[s].sees \ {p} /\ \A t \in Subs : t # s => sub'[t] = sub[t]
        BY <1>0, <3>2 DEF SubRecord
      <4> QED BY <3>2, <4>1
    <3> QED BY <2>2, <3>1, <3>2 DEF Unmatch
  <2>3. CASE UNCHANGED sub
    BY <2>3
  <2> QED BY <2>1, <2>2, <2>3 DEF LoseSample, ProcessAnnouncement
<1>4. \A q \in Pubs, t \in Subs :
        read[q][t] \in Nat /\ (read'[q][t] = read[q][t] \/ read'[q][t] = read[q][t] + 1)
  BY <1>0 DEF Match, Unmatch, LoseSample, ProcessAnnouncement
<1>5. ListedHaveAnnounced'
  <2>1. \A q \in Pubs, t \in Subs : t \in pub'[q].list =>
          t \in pub[q].list \/ sub[t].announced > 0
    <3>1. CASE ProcessAnnouncement(p, s)
      <4> DEFINE kind == AnnouncementKind(s, heard[p][s] + 1)
      <4>1. \A q \in Pubs : q # p => pub'[q] = pub[q]
        BY <1>0, <3>1 DEF ProcessAnnouncement
      <4>2. pub'[p].list = UpdatedList(pub[p].list, s, kind)
        BY <1>0, <3>1 DEF ProcessAnnouncement, PubRecord
      <4>3. kind \in {"INITIALIZE", "FINISHED"}
        BY DEF AnnouncementKind
      <4>4. kind = "INITIALIZE" => sub[s].announced > 0
        <5>1. heard[p][s] \in Nat /\ sub[s].announced \in Nat
          BY <1>0, CppCountAssumption DEF TypeOK, SubRecord
        <5> QED BY <5>1 DEF AnnouncementKind
      <4> HIDE DEF kind
      <4>5. pub'[p].list = pub[p].list \cup {s} \/ pub'[p].list = pub[p].list \ {s}
        BY <4>2, <4>3 DEF UpdatedList
      <4>6. kind = "FINISHED" => pub'[p].list = pub[p].list \ {s}
        BY <4>2 DEF UpdatedList
      <4> QED BY <4>1, <4>3, <4>4, <4>5, <4>6
    <3>2. CASE Match(p, s) \/ Unmatch(p, s) \/ LoseSample(p, s)
      <4>1. pub' = pub \/ \E S : pub' = [pub EXCEPT ![p].sees = S]
        BY <3>2 DEF Match, Unmatch, LoseSample
      <4>2. ASSUME NEW S, pub' = [pub EXCEPT ![p].sees = S]
            PROVE  \A q \in Pubs : pub'[q].list = pub[q].list
        BY <1>0, <4>2 DEF PubRecord
      <4> QED BY <4>1, <4>2
    <3> QED BY <3>1, <3>2
  <2> QED BY <1>2, <2>1 DEF Parts, ListedHaveAnnounced
<1>6. StartedKnowsAll'
  BY <1>0, <1>1, <1>2 DEF Parts, StartedKnowsAll, PubStarted, Written, Rigid
<1>7. AnnouncingKnowsAll'
  BY <1>1, <1>2, <1>3 DEF Parts, AnnouncingKnowsAll, Announcing, PubGone
<1>8. FinishedSeen'
  <2>1. ASSUME NEW t \in Subs, NEW q \in sub[t].finished, DataSize # "FINISHED"
        PROVE  pub'[q].tries > 0 /\ read'[q][t] > pub'[q].burst + pub'[q].loop
    <3>1. q \in Pubs /\ Counted(q)
      BY <1>0, CountsTyped DEF SubRecord
    <3>2. pub[q].tries > 0 /\ read[q][t] > pub[q].burst + pub[q].loop
      BY <2>1 DEF Parts, FinishedSeen
    <3> QED BY <1>1, <1>4, <3>1, <3>2 DEF Counted
  <2> QED BY <1>0, <1>2, <2>1 DEF Parts, FinishedSeen, Rigid
<1>9. LosslessWhenReliable'
  <2>1. Reliable => lost' = lost
    BY DEF Match, Unmatch, LoseSample, ProcessAnnouncement
  <2> QED BY <1>0, <2>1 DEF Parts, LosslessWhenReliable, Rigid
<1> QED BY <1>5, <1>6, <1>7, <1>8, <1>9 DEF Parts

\* A sample that ProcessMessage takes for FINISHED comes after the data samples, if
\* those are of another size.
LEMMA FinishedComesLast ==
  ASSUME TypeOK, NEW p \in Pubs, NEW s \in Subs, ProcessMessage(s, p),
         Kind(p, read[p][s] + 1) = "FINISHED", DataSize # "FINISHED"
  PROVE  pub[p].tries > 0 /\ read[p][s] + 1 > pub[p].burst + pub[p].loop
<1>1. Counted(p) /\ read[p][s] \in Nat
  BY CountsTyped DEF TypeOK
<1>2. read[p][s] + 1 > pub[p].burst + pub[p].loop
  BY <1>1 DEF Kind, Counted
<1>3. read[p][s] < Written(p)
  BY DEF ProcessMessage
<1> QED BY <1>1, <1>2, <1>3 DEF Written, Counted

\* ... and a sample that a subscriber takes.
LEMMA ProcessMessageKeepsParts ==
  ASSUME TypeOK, Parts, UNCHANGED mode, NEW p \in Pubs, NEW s \in Subs,
         ProcessMessage(s, p)
  PROVE  Parts'
<1>0. /\ Rigid /\ UNCHANGED <<pub, lost, heard>>
      /\ sub \in [Subs -> SubRecord] /\ read \in [Pubs -> [Subs -> Nat]]
      /\ read' = [read EXCEPT ![p][s] = @ + 1]
  BY ModeIsRigid DEF ProcessMessage, TypeOK
<1>1. \A q \in Pubs, t \in Subs :
        /\ read[q][t] \in Nat
        /\ read'[q][t] = IF q = p /\ t = s THEN read[q][t] + 1 ELSE read[q][t]
  BY <1>0
<1>2. /\ \A t \in Subs : t # s => sub'[t] = sub[t]
      /\ sub'[s].pc = sub[s].pc /\ sub'[s].sees = sub[s].sees
      /\ sub'[s].announced = sub[s].announced
      /\ \/ sub'[s].finished = sub[s].finished /\ sub'[s].endTest = sub[s].endTest
         \/ /\ sub'[s].finished = sub[s].finished \cup {p}
            /\ Kind(p, read[p][s] + 1) = "FINISHED" /\ ~sub[s].endTest
            /\ sub'[s].endTest => AllFinished(sub'[s].finished)
  <2>1. CASE sub' = sub \/ sub' = [sub EXCEPT ![s].received = TRUE]
    BY <1>0, <2>1 DEF SubRecord
  <2>2. CASE /\ Kind(p, read[p][s] + 1) = "FINISHED" /\ ~sub[s].endTest
             /\ BecomesFinished(s, p)
    <3>1. PICK e \in BOOLEAN, r \in BOOLEAN :
            /\ e <=> AllFinished(sub[s].finished \cup {p})
            /\ sub' = [sub EXCEPT ![s] = [sub[s] EXCEPT !.finished = sub[s].finished \cup {p},
                                                       !.endTest = e, !.received = r]]
      BY <2>2 DEF BecomesFinished
    <3>2. sub'[s] = [sub[s] EXCEPT !.finished = sub[s].finished \cup {p}, !.endTest = e,
                                   !.received = r]
      BY <1>0, <3>1
    <3>3. sub[s] \in SubRecord
      BY <1>0
    <3>4. /\ sub'[s].pc = sub[s].pc /\ sub'[s].sees = sub[s].sees
          /\ sub'[s].announced = sub[s].announced
          /\ sub'[s].finished = sub[s].finished \cup {p} /\ sub'[s].endTest = e
      BY <3>2, <3>3 DEF SubRecord
    <3>5. \A t \in Subs : t # s => sub'[t] = sub[t]
      BY <1>0, <3>1
    <3>6. sub'[s].endTest => AllFinished(sub'[s].finished)
      BY <3>1, <3>4, Zenon
    <3> QED BY <2>2, <3>4, <3>5, <3>6
  <2> QED BY <2>1, <2>2, ProcessedSample
<1>3. ListedHaveAnnounced' /\ StartedKnowsAll'
  BY <1>0, <1>2
     DEF Parts, ListedHaveAnnounced, StartedKnowsAll, PubStarted, Written, Rigid
<1>4. AnnouncingKnowsAll'
  BY <1>0, <1>2 DEF Parts, AnnouncingKnowsAll, Announcing, PubGone
<1>5. FinishedSeen'
  <2>1. ASSUME NEW t \in Subs, NEW q \in sub'[t].finished, DataSize # "FINISHED"
        PROVE  pub'[q].tries > 0 /\ read'[q][t] > pub'[q].burst + pub'[q].loop
    <3>1. CASE q \in sub[t].finished
      <4>1. q \in Pubs /\ Counted(q)
        BY <1>0, <3>1, CountsTyped DEF SubRecord
      <4>2. pub[q].tries > 0 /\ read[q][t] > pub[q].burst + pub[q].loop
        BY <2>1, <3>1 DEF Parts, FinishedSeen
      <4> QED BY <1>0, <1>1, <4>1, <4>2 DEF Counted
    <3>2. CASE q \notin sub[t].finished
      <4>1. q = p /\ t = s /\ Kind(p, read[p][s] + 1) = "FINISHED"
        BY <1>2, <2>1, <3>2
      <4> QED BY <1>0, <1>1, <2>1, <4>1, FinishedComesLast
    <3> QED BY <3>1, <3>2
  <2>2. ASSUME NEW t \in Subs, sub'[t].endTest
        PROVE  sub'[t].finished = Pubs
    <3>1. CASE sub'[t].finished = sub[t].finished /\ sub'[t].endTest = sub[t].endTest
      BY <2>2, <3>1 DEF Parts, FinishedSeen
    <3>2. CASE t = s /\ AllFinished(sub'[s].finished) /\ sub'[s].finished = sub[s].finished \cup {p}
      <4>1. sub'[s].finished \in SUBSET Pubs
        BY <1>0, <3>2 DEF SubRecord
      <4> QED BY <3>2, <4>1, EnoughIsAll DEF AllFinished
    <3> QED BY <1>2, <2>2, <3>1, <3>2
  <2> QED BY <1>0, <2>1, <2>2 DEF FinishedSeen, Rigid
<1>6. LosslessWhenReliable'
  BY <1>0 DEF Parts, LosslessWhenReliable, Rigid
<1> QED BY <1>3, <1>4, <1>5, <1>6 DEF Parts

\* The parts of the invariant hold in every state of every session of the port.
THEOREM Invariance == Spec => []IndInv
<1>1. Init => Parts
  <2> SUFFICES ASSUME Init PROVE Parts
    OBVIOUS
  <2>1. \A p \in Pubs : /\ pub[p].list = {} /\ pub[p].tries = 0 /\ Written(p) = 0
                        /\ pub[p].pc = "create"
    BY DEF Init, Written
  <2>2. \A s \in Subs : /\ sub[s].announced = 0 /\ sub[s].pc = "create"
                        /\ sub[s].finished = {} /\ ~sub[s].endTest
    BY DEF Init
  <2>3. \A p \in Pubs, s \in Subs : lost[p][s] = 0
    BY DEF Init
  <2> QED BY <2>1, <2>2, <2>3
          DEF Parts, ListedHaveAnnounced, StartedKnowsAll, PubStarted, Announcing,
              AnnouncingKnowsAll, FinishedSeen, LosslessWhenReliable
<1>2. TypeOK /\ Parts /\ [Next]_vars => Parts'
  <2> SUFFICES ASSUME TypeOK, Parts, [Next]_vars PROVE Parts'
    OBVIOUS
  <2>1. CASE UNCHANGED vars
    <3>1. Rigid
      BY <2>1, ModeIsRigid DEF vars
    <3> QED BY <2>1, <3>1
        DEF vars, Rigid, Parts, ListedHaveAnnounced, StartedKnowsAll, PubStarted,
            Announcing, Written, AnnouncingKnowsAll, PubGone, FinishedSeen,
            LosslessWhenReliable
  <2> QED
    BY <2>1, PubStepKeepsParts, SubStepKeepsParts, NetworkKeepsParts,
       ProcessMessageKeepsParts
       DEF Next, Step, Terminated
<1>3. TypeOK /\ Parts => IndInv
  BY DEF Parts, IndInv
<1> QED BY <1>1, <1>2, <1>3, TypeCorrect, PTL DEF Spec

-----------------------------------------------------------------------------
(* What the invariant says about the session.                               *)

\* The announcements hold every publisher back until all readers know all writers,
\* as long as the list of subscribers is read whole.
THEOREM HandshakeHolds ==
  ASSUME NoTornSize
  PROVE  Spec => []NoSampleBeforeDiscovery
<1>1. IndInv => NoSampleBeforeDiscovery
  <2> SUFFICES ASSUME IndInv, NEW p \in Pubs, NEW s \in Subs, NEW q \in Pubs,
                      Written(p) > 0, q \notin sub[s].sees
               PROVE  PubGone(q)
    BY DEF NoSampleBeforeDiscovery
  <2>1. ~TornSize
    BY ModeFacts DEF IndInv, TypeOK
  <2>2. sub[s].announced > 0
    BY <2>1 DEF IndInv, StartedKnowsAll
  <2> QED BY <2>2 DEF IndInv, AnnouncingKnowsAll
<1> QED BY <1>1, Invariance, PTL

\* A subscriber that ends the test has counted FINISHED samples of publishers that
\* are all past their sending loops, whatever the size of the list was read as.
LEMMA EndTestMeansFinished ==
  ASSUME DistinctSizes, IndInv, NEW s \in Subs, sub[s].endTest, NEW p \in Pubs
  PROVE  /\ pub[p].pc \in {"finish", "ack", "done"}
         /\ read[p][s] > pub[p].burst + pub[p].loop
<1>1. p \in sub[s].finished
  BY DEF IndInv, FinishedSeen
<1>2. pub[p].tries > 0 /\ read[p][s] > pub[p].burst + pub[p].loop
  BY <1>1, ModeFacts DEF IndInv, FinishedSeen, TypeOK
<1> QED BY <1>2 DEF IndInv, StartedKnowsAll

\* PERFTEST-97 holds of the classic port, with and without reliability and whatever
\* the size of the list is read as, when no data sample has the size of a FINISHED one.
THEOREM EndTestIsLate ==
  ASSUME DistinctSizes
  PROVE  Spec => []EndTestAfterAllPublishers
<1>1. IndInv => EndTestAfterAllPublishers
  BY EndTestMeansFinished DEF EndTestAfterAllPublishers
<1> QED BY <1>1, Invariance, PTL

\* With reliable delivery the summary of a subscriber covers every data sample, when
\* none has the size of a FINISHED sample.
THEOREM NothingMissed ==
  ASSUME DistinctSizes
  PROVE  Spec => []NothingMissedWhenReliable
<1>1. IndInv => NothingMissedWhenReliable
  BY EndTestMeansFinished DEF NothingMissedWhenReliable, IndInv, LosslessWhenReliable
<1> QED BY <1>1, Invariance, PTL

-----------------------------------------------------------------------------
(* The port implements the abstract session.                                *)

\* A step of a publisher starts or stops it in the abstract session, or stutters.
LEMMA PubStepRefines ==
  ASSUME NoTornSize, IndInv, IndInv', NEW p \in Pubs, PubStep(p) \/ Timeout(p)
  PROVE  [Session!TSNext]_(Session!tsVars)
<1>1. UNCHANGED sub
  BY DEF PubStep, PubGoto, CreatePublisher, PubDiscovered, PubAnnounced,
         SendInitialize, StartSending, SendData, PingAnswered, StopSending,
         SendFinished, AckWaited, PubExit, Timeout
<1>2. Ready' = Ready /\ Ended' = Ended
  BY <1>1 DEF Ready, Ended
<1>3. PubAdvances(p) /\ pub \in [Pubs -> PubRecord]
  BY PubStepAdvances DEF IndInv, TypeOK
<1>4. \A q \in Pubs : q # p => pub'[q] = pub[q]
  BY <1>3 DEF PubAdvances
<1> DEFINE Past == {"finish", "ack", "done"}
<1>5. CASE pub'[p].pc \in Past /\ pub[p].pc \notin Past
  <2>1. StopSending(p)
    BY <1>3, <1>5
       DEF PubStep, PubGoto, CreatePublisher, PubDiscovered, PubAnnounced,
           SendInitialize, StartSending, SendData, PingAnswered, SendFinished,
           AckWaited, PubExit, Timeout, PubRecord
  <2>2. p \in Started
    BY <2>1 DEF StopSending, Started, PubStarted
  <2>3. Started' = Started
    BY <1>4, <1>5, <2>2 DEF Started, PubStarted
  <2>4. Stopped' = Stopped \cup {p}
    BY <1>4, <1>5 DEF Stopped
  <2>5. Session!Stop(p)
    BY <1>2, <2>2, <2>3, <2>4 DEF Session!Stop
  <2> QED BY <2>5 DEF Session!TSNext
<1>6. CASE ~(pub'[p].pc \in Past /\ pub[p].pc \notin Past)
  <2>1. pub[p].pc \in Past => pub'[p].pc \in Past
    BY <1>3
       DEF PubStep, PubGoto, CreatePublisher, PubDiscovered, PubAnnounced,
           SendInitialize, StartSending, SendData, PingAnswered, StopSending,
           SendFinished, AckWaited, PubExit, Timeout, PubRecord
  <2>2. Stopped' = Stopped
    BY <1>4, <1>6, <2>1 DEF Stopped
  <2>3. CASE PubStarted(p)' /\ ~PubStarted(p)
    <3>1. ~TornSize'
      BY ModeFacts DEF IndInv, TypeOK, NoTornSize, TornSize
    <3>2. \A s \in Subs : sub[s].announced > 0
      BY <1>1, <2>3, <3>1 DEF IndInv, StartedKnowsAll
    <3>3. Ready = Subs
      BY <3>2 DEF Ready
    <3>4. Started' = Started \cup {p}
      BY <1>4, <2>3 DEF Started, PubStarted
    <3>5. Session!Start(p)
      BY <1>2, <2>2, <3>3, <3>4 DEF Session!Start
    <3> QED BY <3>5 DEF Session!TSNext
  <2>4. CASE ~(PubStarted(p)' /\ ~PubStarted(p))
    <3>1. PubStarted(p)' <=> PubStarted(p)
      BY <1>3, <2>4 DEF PubAdvances
    <3>2. Started' = Started
      BY <1>4, <3>1 DEF Started, PubStarted
    <3> QED BY <1>2, <2>2, <3>2 DEF Session!tsVars
  <2> QED BY <2>3, <2>4
<1> QED BY <1>5, <1>6

\* A step of a subscriber announces it there, or stutters.
LEMMA SubStepRefines ==
  ASSUME IndInv, IndInv', NEW s \in Subs, SubStep(s)
  PROVE  [Session!TSNext]_(Session!tsVars)
<1>1. UNCHANGED pub
  BY DEF SubStep, SubGoto, CreateSubscriber, SubDiscovered, SendAnnouncement,
         NapOver, SubFinish, SubExit
<1>2. Started' = Started /\ Stopped' = Stopped
  BY <1>1 DEF Started, Stopped, PubStarted
<1>3. sub \in [Subs -> SubRecord]
  BY DEF IndInv, TypeOK
<1>4. /\ \A t \in Subs : t # s => sub'[t] = sub[t]
      /\ sub'[s].endTest = sub[s].endTest
      /\ sub[s].announced > 0 => sub'[s].announced > 0
  <2> USE DEF SubRecord
  <2>1. CASE SendAnnouncement(s)
    <3>1. sub[s].announced \in Nat
      BY <1>3, CppCountAssumption
    <3> QED BY <1>3, <2>1, <3>1 DEF SendAnnouncement
  <2>2. CASE ~SendAnnouncement(s)
    BY <1>3, <2>2 DEF SubStep, SubGoto, CreateSubscriber, SubDiscovered, NapOver,
                      SubFinish, SubExit
  <2> QED BY <2>1, <2>2
<1>5. Ended' = Ended
  BY <1>4 DEF Ended
<1>6. CASE sub'[s].announced > 0 /\ ~(sub[s].announced > 0)
  <2>1. Ready' = Ready \cup {s}
    BY <1>4, <1>6 DEF Ready
  <2>2. Session!Announce(s)
    BY <1>2, <1>5, <2>1 DEF Session!Announce
  <2> QED BY <2>2 DEF Session!TSNext
<1>7. CASE ~(sub'[s].announced > 0 /\ ~(sub[s].announced > 0))
  <2>1. Ready' = Ready
    BY <1>4, <1>7 DEF Ready
  <2> QED BY <1>2, <1>5, <2>1 DEF Session!tsVars
<1> QED BY <1>6, <1>7

\* A sample that a subscriber takes ends its test there, or stutters.
LEMMA ProcessMessageRefines ==
  ASSUME DistinctSizes, IndInv, IndInv', NEW p \in Pubs, NEW s \in Subs, ProcessMessage(s, p)
  PROVE  [Session!TSNext]_(Session!tsVars)
<1>1. UNCHANGED pub /\ sub \in [Subs -> SubRecord]
  BY DEF ProcessMessage, IndInv, TypeOK
<1>2. Started' = Started /\ Stopped' = Stopped
  BY <1>1 DEF Started, Stopped, PubStarted
<1>3. \E state : sub' = [sub EXCEPT ![s] = state] /\ state.announced = sub[s].announced
  <2>1. CASE sub' = sub
    <3>1. sub' = [sub EXCEPT ![s] = sub[s]]
      BY <1>1, <2>1
    <3> QED BY <3>1
  <2>2. CASE sub' = [sub EXCEPT ![s].received = TRUE]
    <3>1. sub' = [sub EXCEPT ![s] = [sub[s] EXCEPT !.received = TRUE]]
      BY <2>2
    <3>2. [sub[s] EXCEPT !.received = TRUE].announced = sub[s].announced
      BY <1>1 DEF SubRecord
    <3> QED BY <3>1, <3>2
  <2>3. CASE BecomesFinished(s, p)
    <3>1. PICK e \in BOOLEAN, r \in BOOLEAN :
            sub' = [sub EXCEPT ![s] = [sub[s] EXCEPT !.finished = sub[s].finished \cup {p},
                                                     !.endTest = e, !.received = r]]
      BY <2>3 DEF BecomesFinished
    <3>2. [sub[s] EXCEPT !.finished = sub[s].finished \cup {p}, !.endTest = e,
                         !.received = r].announced = sub[s].announced
      BY <1>1 DEF SubRecord
    <3> QED BY <3>1, <3>2
  <2>4. TypeOK
    BY DEF IndInv
  <2> QED BY <2>1, <2>2, <2>3, <2>4, ProcessedSample
<1>4. /\ \A t \in Subs : t # s => sub'[t] = sub[t]
      /\ sub'[s].announced = sub[s].announced
  BY <1>1, <1>3
<1>5. Ready' = Ready
  BY <1>4 DEF Ready
<1>6. sub[s].endTest => sub'[s].endTest
  <2>1. sub[s].endTest => sub'[s].endTest = sub[s].endTest
    <3>1. TypeOK
      BY DEF IndInv
    <3> QED BY <1>1, <3>1, ProcessedSample DEF SubRecord
  <2> QED BY <2>1
<1>7. CASE sub'[s].endTest /\ ~sub[s].endTest
  <2>1. Ended' = Ended \cup {s}
    BY <1>4, <1>7 DEF Ended
  <2>2. \A q \in Pubs : pub'[q].pc \in {"finish", "ack", "done"}
    <3>1. \A q \in Pubs : q \in sub'[s].finished
      BY <1>7 DEF IndInv, FinishedSeen
    <3>2. \A q \in Pubs : pub'[q].tries > 0
      <4>1. DataSize' # "FINISHED"
        BY DEF IndInv, TypeOK, DistinctSizes, DataSize
      <4> QED BY <3>1, <4>1 DEF IndInv, FinishedSeen
    <3> QED BY <3>2 DEF IndInv, StartedKnowsAll
  <2>3. Stopped = Pubs
    BY <1>1, <2>2 DEF Stopped
  <2>4. Session!End(s)
    BY <1>2, <1>5, <2>1, <2>3 DEF Session!End
  <2> QED BY <2>4 DEF Session!TSNext
<1>8. CASE ~(sub'[s].endTest /\ ~sub[s].endTest)
  <2>1. Ended' = Ended
    BY <1>4, <1>6, <1>8 DEF Ended
  <2> QED BY <1>2, <1>5, <2>1 DEF Session!tsVars
<1> QED BY <1>7, <1>8

\* The classic port keeps the promise of a test session, as long as the list of
\* subscribers is read whole and no data sample has the size of a FINISHED one.
THEOREM Refinement ==
  ASSUME NoTornSize, DistinctSizes
  PROVE  Spec => ImplementsTestSession
<1>1. Init => Session!TSInit
  BY DEF Init, Session!TSInit, Ready, Started, Stopped, Ended, PubStarted
<1>2. IndInv /\ IndInv' /\ [Next]_vars => [Session!TSNext]_(Session!tsVars)
  <2> SUFFICES ASSUME IndInv, IndInv', [Next]_vars
               PROVE  [Session!TSNext]_(Session!tsVars)
    OBVIOUS
  <2>1. ASSUME \A q \in Pubs : pub'[q].pc = pub[q].pc,
               \A t \in Subs : /\ sub'[t].announced = sub[t].announced
                               /\ sub'[t].endTest = sub[t].endTest
        PROVE  UNCHANGED Session!tsVars
    BY <2>1 DEF Session!tsVars, Ready, Started, Stopped, Ended, PubStarted
  <2>2. ASSUME NEW p \in Pubs, NEW s \in Subs,
               \/ Match(p, s) \/ Unmatch(p, s) \/ LoseSample(p, s)
               \/ ProcessAnnouncement(p, s)
        PROVE  UNCHANGED Session!tsVars
    <3>1. pub \in [Pubs -> PubRecord] /\ sub \in [Subs -> SubRecord]
      BY DEF IndInv, TypeOK
    <3>2. \A q \in Pubs : pub'[q].pc = pub[q].pc
      BY <2>2, <3>1 DEF Match, Unmatch, LoseSample, ProcessAnnouncement, PubRecord
    <3>3. \A t \in Subs : /\ sub'[t].announced = sub[t].announced
                          /\ sub'[t].endTest = sub[t].endTest
      BY <2>2, <3>1 DEF Match, Unmatch, LoseSample, ProcessAnnouncement, SubRecord
    <3> QED BY <2>1, <3>2, <3>3
  <2>3. CASE UNCHANGED vars
    BY <2>1, <2>3 DEF vars
  <2> QED
    BY <2>2, <2>3, PubStepRefines, SubStepRefines, ProcessMessageRefines
       DEF Next, Step, Terminated
<1> QED BY <1>1, <1>2, Invariance, PTL DEF Spec, ImplementsTestSession, Session!TSSpec

\* In the classic C++ port the parts of a test follow one another, over all publishers and
\* subscribers: perftest_cpp waits for announcements before the burst, and its listener for FINISHED,
\* which holds under the same two assumptions.
THEOREM PhasesInOrder ==
  ASSUME NoTornSize, DistinctSizes
  PROVE  Spec => []Session!InOrder
<1>1. Session!TSInit => Session!InOrder
  BY DEF Session!TSInit, Session!InOrder
<1>2. Session!InOrder /\ [Session!TSNext]_(Session!tsVars) => Session!InOrder'
  <2> SUFFICES ASSUME Session!InOrder, [Session!TSNext]_(Session!tsVars)
               PROVE  Session!InOrder'
    OBVIOUS
  <2>1. CASE Session!TSNext
    BY <2>1 DEF Session!TSNext, Session!Announce, Session!Start, Session!Stop, Session!End,
                Session!InOrder
  <2>2. CASE UNCHANGED Session!tsVars
    BY <2>2 DEF Session!tsVars, Session!InOrder
  <2> QED BY <2>1, <2>2
<1> QED BY <1>1, <1>2, Refinement, PTL DEF ImplementsTestSession, Session!TSSpec
=============================================================================
