------------------------- MODULE ModernSessionProofs -------------------------
(***************************************************************************)
(* TLAPS proofs about ModernSession, for every number of publishers,       *)
(* subscribers and samples: that a subscriber uses no object that it has   *)
(* deleted, that the port implements the abstract session, and that a      *)
(* publisher that takes pongs with its listener counts all of them but the *)
(* first.  The pongs matter for the last result only.                      *)
(*                                                                         *)
(* The results hold in every mode.  The abstract session needs that the    *)
(* list of subscribers is read whole (NoTornSize), and that no data sample *)
(* has the size of a FINISHED sample (DistinctSizes).                      *)
(***************************************************************************)
EXTENDS ModernSession, FiniteSetTheorems, TLAPS

\* The size of subscriber_list is never read while the vector changes.
NoTornSize == \A m \in Modes : ~m.tornSize

\* -dataLen is not 1263.
DistinctSizes == \A m \in Modes : m.dataSize # "FINISHED"

LEMMA Counts ==
  /\ NumPublishers \in Nat \ {0} /\ NumSubscribers \in Nat \ {0}
  /\ 0 \in Pubs /\ Subs # {}
<1>1. NumPublishers \in Nat \ {0} /\ NumSubscribers \in Nat \ {0}
  BY ModernCountAssumption
<1> QED BY <1>1 DEF Pubs, Subs

\* A set of publishers, or of subscribers, that is as large as the count the code
\* compares it with holds all of them.
LEMMA EnoughIsAll ==
  /\ \A P \in SUBSET Pubs : Cardinality(P) >= NumPublishers => P = Pubs
  /\ \A S \in SUBSET Subs : Cardinality(S) >= NumSubscribers => S = Subs
<1>1. IsFiniteSet(Pubs) /\ Cardinality(Pubs) = NumPublishers
  BY Counts, FS_Interval DEF Pubs
<1>2. IsFiniteSet(Subs) /\ Cardinality(Subs) = NumSubscribers
  BY Counts, FS_Interval DEF Subs
<1>3. ASSUME NEW P \in SUBSET Pubs, Cardinality(P) >= NumPublishers PROVE P = Pubs
  <2>1. Cardinality(P) <= Cardinality(Pubs) /\ Cardinality(P) \in Nat
    BY <1>1, FS_Subset, FS_CardinalityType
  <2> QED BY <1>1, <1>3, <2>1, FS_Subset, Counts
<1>4. ASSUME NEW S \in SUBSET Subs, Cardinality(S) >= NumSubscribers PROVE S = Subs
  <2>1. Cardinality(S) <= Cardinality(Subs) /\ Cardinality(S) \in Nat
    BY <1>2, FS_Subset, FS_CardinalityType
  <2> QED BY <1>2, <1>4, <2>1, FS_Subset, Counts
<1> QED BY <1>3, <1>4

-----------------------------------------------------------------------------
(* Types.                                                                   *)

\* A field of a record that is set to a value of its type leaves the record typed:
\* the sets of a publisher ...
LEMMA SetsTyped ==
  \A p \in Pubs, S \in SUBSET Subs :
    pub \in [Pubs -> PubRecord] =>
      /\ [pub EXCEPT ![p].sees = S] \in [Pubs -> PubRecord]
      /\ [pub EXCEPT ![p].list = S] \in [Pubs -> PubRecord]
<1> SUFFICES ASSUME NEW p \in Pubs, NEW S \in SUBSET Subs, pub \in [Pubs -> PubRecord]
             PROVE  /\ [pub EXCEPT ![p].sees = S] \in [Pubs -> PubRecord]
                    /\ [pub EXCEPT ![p].list = S] \in [Pubs -> PubRecord]
  OBVIOUS
<1>1. [pub[p] EXCEPT !.sees = S] \in PubRecord /\ [pub[p] EXCEPT !.list = S] \in PubRecord
  BY DEF PubRecord
<1> QED BY <1>1

\* ... where its main thread is ...
LEMMA GotoTyped ==
  \A p \in Pubs, phase \in PubPhases :
    pub \in [Pubs -> PubRecord] => [pub EXCEPT ![p].pc = phase] \in [Pubs -> PubRecord]
BY DEF PubRecord

\* ... its counters ...
LEMMA BurstTyped ==
  \A p \in Pubs, n \in Nat :
    pub \in [Pubs -> PubRecord] => [pub EXCEPT ![p].burst = n] \in [Pubs -> PubRecord]
BY DEF PubRecord

LEMMA TriesTyped ==
  \A p \in Pubs, n \in Nat, phase \in PubPhases :
    pub \in [Pubs -> PubRecord] =>
      [pub EXCEPT ![p].tries = n, ![p].pc = phase] \in [Pubs -> PubRecord]
<1> SUFFICES ASSUME NEW p \in Pubs, NEW n \in Nat, NEW phase \in PubPhases,
                    pub \in [Pubs -> PubRecord]
             PROVE  [pub EXCEPT ![p].tries = n, ![p].pc = phase] \in [Pubs -> PubRecord]
  OBVIOUS
<1>1. [pub[p] EXCEPT !.tries = n, !.pc = phase] \in PubRecord
  BY DEF PubRecord
<1>2. [pub EXCEPT ![p].tries = n, ![p].pc = phase]
        = [pub EXCEPT ![p] = [pub[p] EXCEPT !.tries = n, !.pc = phase]]
  OBVIOUS
<1> QED BY <1>1, <1>2

\* ... and the fields of a subscriber.
LEMMA SubFieldsTyped ==
  /\ \A s \in Subs, P \in SUBSET Pubs :
       sub \in [Subs -> SubRecord] => [sub EXCEPT ![s].sees = P] \in [Subs -> SubRecord]
  /\ \A s \in Subs, phase \in SubPhases :
       sub \in [Subs -> SubRecord] => [sub EXCEPT ![s].pc = phase] \in [Subs -> SubRecord]
BY DEF SubRecord

\* The number of the subscriber that a ping is for, or NoPing.
LEMMA NextPingType ==
  ASSUME TypeOK, NEW p \in Pubs
  PROVE  NextPing(p) \in Int
<1> DEFINE n == Cardinality(Pings(p))
<1>1. n \in Nat
  <2>1. pub[p].asked \in Seq(Int)
    BY DEF TypeOK, PubRecord
  <2>2. IsFiniteSet(DOMAIN pub[p].asked)
    <3>1. DOMAIN pub[p].asked = 1 .. Len(pub[p].asked) /\ Len(pub[p].asked) \in Nat
      BY <2>1
    <3> QED BY <3>1, FS_Interval
  <2>3. IsFiniteSet(Pings(p))
    BY <2>2, FS_Subset DEF Pings
  <2> QED BY <2>3, FS_CardinalityType
<1> HIDE DEF n
<1>2. n % NumSubscribers \in Int
  BY <1>1, Counts
<1> QED BY <1>2 DEF NextPing, NoPing, n

\* Every step of a publisher keeps the types ...
LEMMA PubStepTyped ==
  ASSUME TypeOK, NEW p \in Pubs, PubStep(p) \/ Timeout(p)
  PROVE  TypeOK'
<1>1. UNCHANGED <<sub, read, heard>>
  BY DEF PubStep, PubGoto, CreatePublisher, PubDiscovered, PubAnnounced, SendInitialize,
         StartSending, SendData, PingAnswered, StopSending, SendFinished, AckWaited,
         PrintSummary, DeleteListeners, CloseReader, CloseAnnouncementReader, Timeout
<1>2. pub \in [Pubs -> PubRecord]
  BY DEF TypeOK
<1>3. SUFFICES pub' \in [Pubs -> PubRecord]
  BY <1>1 DEF TypeOK
<1>4. CASE \/ CreatePublisher(p) \/ PubDiscovered(p) \/ PubAnnounced(p)
           \/ StartSending(p) \/ StopSending(p) \/ AckWaited(p) \/ PrintSummary(p)
           \/ DeleteListeners(p) \/ CloseAnnouncementReader(p)
           \/ p = 0 /\ (PingAnswered \/ CloseReader)
  <2>1. \E phase \in PubPhases : pub' = [pub EXCEPT ![p].pc = phase]
    BY <1>4 DEF CreatePublisher, PubDiscovered, PubAnnounced, StartSending, StopSending,
                AckWaited, PrintSummary, DeleteListeners, CloseAnnouncementReader,
                PingAnswered, CloseReader, PubGoto, PubPhases, PubClosing
  <2> QED BY <1>2, <2>1, GotoTyped
<1>5. CASE SendInitialize(p)
  <2>1. /\ pub' = [pub EXCEPT ![p].burst = pub[p].burst + 1]
        /\ pub[p].burst + 1 \in Nat
    BY <1>2, <1>5 DEF SendInitialize, PubRecord
  <2> QED BY <1>2, <2>1, BurstTyped
<1>6. CASE SendData(p)
  <2>1. PICK phase \in {"ping", "data"} :
          pub' = [pub EXCEPT ![p] = [pub[p] EXCEPT !.loop = pub[p].loop + 1,
                                       !.asked = Append(pub[p].asked, NextPing(p)),
                                       !.pc = phase]]
    BY <1>2, <1>6 DEF SendData
  <2>2. Append(pub[p].asked, NextPing(p)) \in Seq(Int) /\ pub[p].loop + 1 \in Nat
    BY <1>2, NextPingType DEF PubRecord
  <2>3. phase \in PubPhases
    BY DEF PubPhases
  <2>4. [pub[p] EXCEPT !.loop = pub[p].loop + 1,
                       !.asked = Append(pub[p].asked, NextPing(p)), !.pc = phase]
          \in PubRecord
    BY <1>2, <2>2, <2>3 DEF PubRecord
  <2> QED BY <1>2, <2>1, <2>4
<1>7. CASE SendFinished(p)
  <2>1. /\ pub' = [pub EXCEPT ![p].tries = pub[p].tries + 1, ![p].pc = "ack"]
        /\ pub[p].tries + 1 \in Nat /\ "ack" \in PubPhases
    BY <1>2, <1>7 DEF SendFinished, PubRecord, PubPhases
  <2> QED BY <1>2, <2>1, TriesTyped
<1>8. CASE Timeout(p)
  BY <1>2, <1>8 DEF Timeout, PubRecord
<1> QED BY <1>4, <1>5, <1>6, <1>7, <1>8 DEF PubStep

\* ... every step of a subscriber ...
LEMMA SubStepTyped ==
  ASSUME TypeOK, NEW s \in Subs, SubStep(s)
  PROVE  TypeOK'
<1>1. /\ UNCHANGED <<pub, read, heard>>
      /\ \E phase \in SubPhases : sub' = [sub EXCEPT ![s].pc = phase]
  BY DEF SubStep, SubGoto, CreateSubscriber, AnnounceSubscriber, SubFinish,
         DeleteWriters, SubExit, SubPhases
<1>2. sub' \in [Subs -> SubRecord]
  BY <1>1, SubFieldsTyped DEF TypeOK
<1> QED BY <1>1, <1>2 DEF TypeOK

\* p becomes one of the finished publishers of s, perhaps the last.
BecomesFinished(s, p) ==
  \E e \in BOOLEAN :
    /\ e <=> AllFinished(sub[s].finished \cup {p})
    /\ sub' = [sub EXCEPT ![s] = [sub[s] EXCEPT !.finished = sub[s].finished \cup {p},
                                                !.endTest = e]]

\* What a sample changes of a subscriber: ProcessMessage, in parts.
LEMMA ProcessedSample ==
  ASSUME TypeOK, NEW s \in Subs, NEW p \in Pubs, ProcessMessage(s, p)
  PROVE  \/ sub' = sub
         \/ /\ Kind(p, read[p][s] + 1) = "FINISHED" /\ ~sub[s].endTest
            /\ BecomesFinished(s, p)
<1> DEFINE kind == Kind(p, read[p][s] + 1)
           finished == sub[s].finished \cup {p}
           e == AllFinished(finished)
<1>1. /\ sub \in [Subs -> SubRecord]
      /\ sub' = [sub EXCEPT ![s] = IF Listens(s) THEN Processed(sub[s], p, kind)
                                                ELSE sub[s]]
  BY DEF ProcessMessage, TypeOK
<1> HIDE DEF kind
<1>2. CASE Listens(s) /\ kind = "FINISHED" /\ p \notin sub[s].finished /\ ~sub[s].endTest
  <2>1. Processed(sub[s], p, kind) = [sub[s] EXCEPT !.finished = finished, !.endTest = e]
    BY <1>2 DEF Processed
  <2>2. e \in BOOLEAN
    BY DEF AllFinished
  <2> HIDE DEF e
  <2>3. sub' = [sub EXCEPT ![s] = [sub[s] EXCEPT !.finished = finished, !.endTest = e]]
    BY <1>1, <1>2, <2>1
  <2>4. e <=> AllFinished(finished)
    BY DEF e
  <2>5. BecomesFinished(s, p)
    BY <2>2, <2>3, <2>4, Zenon DEF BecomesFinished
  <2> QED BY <1>2, <2>5 DEF kind
<1>3. CASE ~(/\ Listens(s) /\ kind = "FINISHED" /\ p \notin sub[s].finished
             /\ ~sub[s].endTest)
  <2>1. Listens(s) => Processed(sub[s], p, kind) = sub[s]
    BY <1>3 DEF Processed
  <2>2. sub' = [sub EXCEPT ![s] = sub[s]]
    BY <1>1, <2>1
  <2> QED BY <1>1, <2>2
<1> QED BY <1>2, <1>3, Zenon

\* ... and every step of the middleware and of the listeners.
LEMMA NetworkTyped ==
  ASSUME TypeOK, NEW p \in Pubs, NEW s \in Subs,
         \/ Match(p, s) \/ Unmatch(p, s) \/ LoseSample(p, s)
         \/ ProcessAnnouncement(p, s) \/ ProcessMessage(s, p)
  PROVE  TypeOK'
<1>1. /\ pub \in [Pubs -> PubRecord] /\ sub \in [Subs -> SubRecord]
      /\ read \in [Pubs -> [Subs -> Nat]] /\ heard \in [Pubs -> [Subs -> Nat]]
  BY DEF TypeOK
<1>2. CASE Match(p, s) \/ Unmatch(p, s)
  <2>1. /\ UNCHANGED <<read, heard>>
        /\ \/ /\ sub' = sub
              /\ \E S \in SUBSET Subs : pub' = [pub EXCEPT ![p].sees = S]
           \/ /\ pub' = pub
              /\ \E P \in SUBSET Pubs : sub' = [sub EXCEPT ![s].sees = P]
    <3>1. /\ pub[p].sees \cup {s} \in SUBSET Subs /\ pub[p].sees \ {s} \in SUBSET Subs
          /\ sub[s].sees \cup {p} \in SUBSET Pubs
      BY <1>1 DEF PubRecord, SubRecord
    <3> QED BY <1>2, <3>1 DEF Match, Unmatch
  <2>2. ASSUME NEW S \in SUBSET Subs, pub' = [pub EXCEPT ![p].sees = S]
        PROVE  pub' \in [Pubs -> PubRecord]
    BY <1>1, <2>2, SetsTyped
  <2>3. ASSUME NEW P \in SUBSET Pubs, sub' = [sub EXCEPT ![s].sees = P]
        PROVE  sub' \in [Subs -> SubRecord]
    BY <1>1, <2>3, SubFieldsTyped
  <2> QED BY <1>1, <2>1, <2>2, <2>3 DEF TypeOK
<1>3. CASE LoseSample(p, s)
  <2>1. UNCHANGED <<pub, sub, heard>>
    BY <1>3 DEF LoseSample
  <2>2. read' \in [Pubs -> [Subs -> Nat]]
    BY <1>1, <1>3 DEF LoseSample
  <2> QED BY <1>1, <2>1, <2>2 DEF TypeOK
<1>4. CASE ProcessAnnouncement(p, s)
  <2>1. UNCHANGED <<sub, read>> /\ heard' \in [Pubs -> [Subs -> Nat]]
    BY <1>1, <1>4 DEF ProcessAnnouncement
  <2>2. pub' = pub \/ \E L \in SUBSET Subs : pub' = [pub EXCEPT ![p].list = L]
    <3>1. pub[p].list \cup {s} \in SUBSET Subs /\ pub[p].list \ {s} \in SUBSET Subs
      BY <1>1 DEF PubRecord
    <3>2. AnnouncementKind(heard[p][s] + 1) \in {"INITIALIZE", "FINISHED"}
      BY DEF AnnouncementKind
    <3>3. UpdatedList(pub[p].list, s, AnnouncementKind(heard[p][s] + 1)) \in SUBSET Subs
      BY <3>1, <3>2 DEF UpdatedList
    <3> QED BY <1>4, <3>3 DEF ProcessAnnouncement
  <2>3. pub' \in [Pubs -> PubRecord]
    <3>1. ASSUME NEW L \in SUBSET Subs, pub' = [pub EXCEPT ![p].list = L]
          PROVE  pub' \in [Pubs -> PubRecord]
      BY <1>1, <3>1, SetsTyped
    <3> QED BY <1>1, <2>2, <3>1
  <2> QED BY <1>1, <2>1, <2>3 DEF TypeOK
<1>5. CASE ProcessMessage(s, p)
  <2>1. UNCHANGED <<pub, heard>>
        /\ read' = [read EXCEPT ![p][s] = read[p][s] + 1]
    BY <1>5 DEF ProcessMessage
  <2>4. read' \in [Pubs -> [Subs -> Nat]]
    BY <1>1, <2>1
  <2>2. sub' \in [Subs -> SubRecord]
    <3>1. ASSUME BecomesFinished(s, p)
          PROVE  sub' \in [Subs -> SubRecord]
      <4>1. PICK e \in BOOLEAN :
              sub' = [sub EXCEPT ![s] = [sub[s] EXCEPT !.finished = sub[s].finished \cup {p},
                                                       !.endTest = e]]
        BY <3>1 DEF BecomesFinished
      <4>2. [sub[s] EXCEPT !.finished = sub[s].finished \cup {p}, !.endTest = e]
              \in SubRecord
        BY <1>1 DEF SubRecord
      <4> QED BY <1>1, <4>1, <4>2
    <3> QED BY <1>1, <1>5, <3>1, ProcessedSample
  <2> QED BY <1>1, <2>1, <2>2, <2>4 DEF TypeOK
<1> QED BY <1>2, <1>3, <1>4, <1>5

\* The processes of every session stay within their types.
THEOREM TypeCorrect == Spec => []TypeOK
<1>1. Init => TypeOK
  BY DEF Init, TypeOK, PubRecord, SubRecord, PubPhases, SubPhases
<1>2. TypeOK /\ [Next]_vars => TypeOK'
  <2> SUFFICES ASSUME TypeOK, [Next]_vars PROVE TypeOK'
    OBVIOUS
  <2>1. CASE UNCHANGED <<pub, sub, read, heard>>
    BY <2>1 DEF TypeOK
  <2> QED
    BY <2>1, PubStepTyped, SubStepTyped, NetworkTyped
       DEF Next, Step, Terminated, vars, ProcessPong, LosePong
<1> QED BY <1>1, <1>2, PTL DEF Spec

-----------------------------------------------------------------------------
(* The inductive invariant.                                                 *)

Parts == ListedHaveAnnounced /\ StartedKnowsAll /\ FinishedSeen

Announced == {"poll", "drain", "closing", "done"}
Drained == {"drain", "closing", "done"}

\* How often a subscriber has announced itself is where its main thread is.
LEMMA AnnouncementsOf ==
  ASSUME NEW s \in Subs
  PROVE  /\ sub[s].pc \in SubPhases =>
              /\ Announcements(s) \in 0 .. 2
              /\ Announcements(s) > 0 <=> sub[s].pc \in Announced
              /\ Announcements(s) = 2 <=> sub[s].pc \in Drained
         /\ sub'[s].pc \in SubPhases =>
              (Announcements(s)' > 0 <=> sub'[s].pc \in Announced)
<1>1. ASSUME sub[s].pc \in {"create", "discover", "failed"} PROVE Announcements(s) = 0
  BY <1>1 DEF Announcements
<1>2. ASSUME sub[s].pc = "poll" PROVE Announcements(s) = 1
  BY <1>2 DEF Announcements
<1>3. ASSUME sub[s].pc \in Drained PROVE Announcements(s) = 2
  BY <1>3 DEF Announcements, Drained
<1>4. ASSUME sub'[s].pc \in {"create", "discover", "failed"} PROVE Announcements(s)' = 0
  BY <1>4 DEF Announcements
<1>5. ASSUME sub'[s].pc = "poll" PROVE Announcements(s)' = 1
  BY <1>5 DEF Announcements
<1>6. ASSUME sub'[s].pc \in Drained PROVE Announcements(s)' = 2
  BY <1>6 DEF Announcements, Drained
<1> QED BY <1>1, <1>2, <1>3, <1>4, <1>5, <1>6 DEF SubPhases, Announced, Drained

\* The numbers of samples that p has written.
Counted(p) == pub[p].burst \in Nat /\ pub[p].loop \in Nat /\ pub[p].tries \in Nat

LEMMA UnfinishedFacts ==
  ASSUME NEW p \in Pubs, Counted(p)
  PROVE  /\ Unfinished(p) \in Nat /\ Written(p) \in Nat
         /\ Unfinished(p) \in {pub[p].burst, pub[p].burst + pub[p].loop}
         /\ Written(p) > Unfinished(p) => pub[p].loop > 0 \/ pub[p].tries > 0
BY DEF Counted, Unfinished, Written

\* A subscriber whose test has ended has taken a sample of FINISHED size of every
\* publisher, which none sends before its sending loop.
LEMMA EndedMeansSending ==
  ASSUME TypeOK, Parts, NEW s \in Subs, sub[s].endTest, NEW p \in Pubs
  PROVE  pub[p].pc # "burst" /\ read[p][s] > Unfinished(p)
<1>1. p \in sub[s].finished
  BY DEF Parts, FinishedSeen
<1>2. Written(p) > Unfinished(p) /\ read[p][s] > Unfinished(p)
  BY <1>1 DEF Parts, FinishedSeen
<1>3. Counted(p)
  BY DEF TypeOK, PubRecord, Counted
<1>4. pub[p].loop > 0 \/ pub[p].tries > 0
  BY <1>2, <1>3, UnfinishedFacts
<1> QED BY <1>2, <1>4 DEF Parts, StartedKnowsAll, PubStopped, PubClosing

\* p never sends less than before, nothing for its burst after a data sample, and no
\* data sample after a FINISHED one.
SendsOn(p) ==
  /\ pub'[p].loop >= pub[p].loop /\ pub'[p].tries >= pub[p].tries
  /\ pub[p].loop > 0 \/ pub[p].tries > 0 => pub'[p].burst = pub[p].burst
  /\ pub[p].tries > 0 => pub'[p].loop = pub[p].loop

\* A step of p is one of p alone, which has not gone and keeps its list.
PubAdvances(p) ==
  /\ \A q \in Pubs : q # p => pub'[q] = pub[q]
  /\ ~PubGone(p) /\ pub'[p].list = pub[p].list
  /\ SendsOn(p)
  /\ pub'[p].pc # "create"
  /\ pub'[p].pc = "burst" => pub[p].pc = "burst" \/ PubAnnounced(p)
  /\ pub'[p].pc = "failed" => pub[p].pc \in {"create", "burst"}
  /\ PubStarted(p)' => PubStarted(p) \/ PubAnnounced(p)
  /\ PubStarted(p) => PubStarted(p)' \/ (pub[p].pc = "burst" /\ pub'[p].pc = "failed")
  /\ PubStopped(p) => PubStopped(p)'
  /\ PubStopped(p)' => PubStopped(p) \/ pub[p].pc = "data"
  /\ pub'[p].loop > 0 => pub'[p].pc \in {"data", "ping"} \/ PubStopped(p)'
  /\ pub'[p].tries > 0 => PubStopped(p)'

LEMMA PubStepAdvances ==
  ASSUME TypeOK, StartedKnowsAll, NEW p \in Pubs, PubStep(p) \/ Timeout(p)
  PROVE  PubAdvances(p)
<1>1. /\ pub \in [Pubs -> PubRecord] /\ Counted(p)
      /\ pub[p].loop > 0 => pub[p].pc \in {"data", "ping"} \/ PubStopped(p)
      /\ pub[p].tries > 0 => PubStopped(p)
  BY DEF TypeOK, StartedKnowsAll, PubRecord, Counted
<1>2. ASSUME NEW phase \in PubPhases, pub' = [pub EXCEPT ![p].pc = phase]
      PROVE  /\ \A q \in Pubs : q # p => pub'[q] = pub[q]
             /\ pub'[p].pc = phase /\ pub'[p].list = pub[p].list
             /\ pub'[p].burst = pub[p].burst /\ pub'[p].loop = pub[p].loop
             /\ pub'[p].tries = pub[p].tries
  BY <1>1, <1>2 DEF PubRecord
<1> USE DEF PubStarted, PubStopped, PubGone, PubClosing, SendsOn
<1>3. CASE CreatePublisher(p) \/ PubDiscovered(p) \/ PubAnnounced(p)
  <2>1. PICK phase \in {"discover", "failed", "announced", "burst"} :
          /\ pub' = [pub EXCEPT ![p].pc = phase]
          /\ pub[p].pc \in {"create", "discover", "announced"}
          /\ phase = "burst" => PubAnnounced(p)
          /\ phase = "failed" => pub[p].pc = "create"
    BY <1>3 DEF CreatePublisher, PubDiscovered, PubAnnounced, PubGoto
  <2>2. phase \in PubPhases
    BY DEF PubPhases
  <2> QED BY <1>1, <1>2, <2>1, <2>2 DEF PubAdvances, Counted
<1>4. CASE StartSending(p) \/ (p = 0 /\ PingAnswered)
  <2>1. PICK phase \in {"data", "failed"} :
          /\ pub' = [pub EXCEPT ![p].pc = phase]
          /\ pub[p].pc \in {"burst", "ping"}
          /\ phase = "failed" => pub[p].pc = "burst"
    BY <1>4 DEF StartSending, PingAnswered, PubGoto
  <2>2. phase \in PubPhases
    BY DEF PubPhases
  <2> QED BY <1>1, <1>2, <2>1, <2>2 DEF PubAdvances, Counted
<1>5. CASE \/ StopSending(p) \/ AckWaited(p) \/ PrintSummary(p) \/ DeleteListeners(p)
           \/ CloseAnnouncementReader(p) \/ (p = 0 /\ CloseReader)
  <2>1. PICK phase \in {"finish", "closing", "unheard", "unread", "done"} :
          /\ pub' = [pub EXCEPT ![p].pc = phase]
          /\ pub[p].pc \in {"data", "finish", "ack", "closing", "unheard", "unread"}
    BY <1>5 DEF StopSending, AckWaited, PrintSummary, DeleteListeners,
                CloseAnnouncementReader, CloseReader, PubGoto
  <2>2. phase \in PubPhases
    BY DEF PubPhases
  <2> QED BY <1>1, <1>2, <2>1, <2>2 DEF PubAdvances, Counted
<1>6. CASE SendInitialize(p)
  <2>1. /\ pub[p].pc = "burst"
        /\ pub' = [pub EXCEPT ![p].burst = pub[p].burst + 1]
    BY <1>6 DEF SendInitialize
  <2> QED BY <1>1, <2>1 DEF PubAdvances, PubRecord, Counted
<1>7. CASE SendData(p)
  <2>1. /\ pub[p].pc = "data"
        /\ \E phase \in {"ping", "data"} :
             pub' = [pub EXCEPT ![p] = [pub[p] EXCEPT !.loop = pub[p].loop + 1,
                                          !.asked = Append(pub[p].asked, NextPing(p)),
                                          !.pc = phase]]
    BY <1>1, <1>7 DEF SendData
  <2> QED BY <1>1, <2>1 DEF PubAdvances, PubRecord, Counted
<1>8. CASE SendFinished(p)
  <2>1. /\ pub[p].pc = "finish"
        /\ pub' = [pub EXCEPT ![p].tries = pub[p].tries + 1, ![p].pc = "ack"]
    BY <1>8 DEF SendFinished
  <2> QED BY <1>1, <2>1 DEF PubAdvances, PubRecord, Counted
<1>9. CASE Timeout(p)
  <2>1. /\ pub[p].pc \in {"data", "ping"}
        /\ pub' = [pub EXCEPT ![p].completed = TRUE]
    BY <1>9 DEF Timeout
  <2> QED BY <1>1, <2>1 DEF PubAdvances, PubRecord, Counted
<1> HIDE DEF PubStarted, PubStopped, PubGone, SendsOn
<1> QED BY <1>3, <1>4, <1>5, <1>6, <1>7, <1>8, <1>9 DEF PubStep

\* What is not of FINISHED size grows no more after a sample of that size.
LEMMA UnfinishedKept ==
  ASSUME NEW p \in Pubs, Counted(p), Counted(p)', SendsOn(p), UNCHANGED mode,
         Written(p) > Unfinished(p)
  PROVE  Unfinished(p)' = Unfinished(p) /\ Written(p)' > Unfinished(p)'
<1>1. CASE DataSize = "FINISHED"
  BY <1>1 DEF Counted, Unfinished, Written, SendsOn, DataSize
<1>2. CASE DataSize # "FINISHED"
  BY <1>2 DEF Counted, Unfinished, Written, SendsOn, DataSize
<1> QED BY <1>1, <1>2

\* The parts of the inductive invariant survive every step of a publisher.
LEMMA PubStepKeepsParts ==
  ASSUME TypeOK, Parts, NEW p \in Pubs, PubStep(p) \/ Timeout(p), UNCHANGED mode
  PROVE  Parts'
<1>0. PubAdvances(p) /\ UNCHANGED <<sub, read>> /\ pub \in [Pubs -> PubRecord]
  <2>1. UNCHANGED <<sub, read>>
    BY DEF PubStep, PubGoto, CreatePublisher, PubDiscovered, PubAnnounced, SendInitialize,
           StartSending, SendData, PingAnswered, StopSending, SendFinished, AckWaited,
           PrintSummary, DeleteListeners, CloseReader, CloseAnnouncementReader, Timeout
  <2> QED BY <2>1, PubStepAdvances DEF Parts, TypeOK
<1>1. \A s \in Subs : Announcements(s)' = Announcements(s)
  BY <1>0 DEF Announcements
<1>2. PubAnnounced(p) /\ ~TornSize => pub[p].list = Subs
  <2>1. pub[p].list \in SUBSET Subs
    BY <1>0 DEF PubRecord
  <2> QED BY <2>1, EnoughIsAll DEF PubAnnounced, AllAnnounced, SizesRead
<1>3. ListedHaveAnnounced'
  <2>1. ASSUME NEW q \in Pubs, q # p
        PROVE  pub'[q] = pub[q]
    BY <1>0, <2>1 DEF PubAdvances
  <2>2. /\ pub'[p].list = pub[p].list /\ pub'[p].pc # "create"
        /\ pub'[p].pc = "burst" => pub[p].pc = "burst" \/ PubAnnounced(p)
    BY <1>0 DEF PubAdvances
  <2>3. \A q \in Pubs : pub[q].list \subseteq Subs
    BY <1>0 DEF PubRecord
  <2> QED BY <1>1, <1>2, <2>1, <2>2, <2>3 DEF Parts, ListedHaveAnnounced, TornSize
<1>4. StartedKnowsAll'
  <2>1. ASSUME NEW q \in Pubs, q # p
        PROVE  /\ pub'[q] = pub[q] /\ PubStarted(q)' = PubStarted(q)
               /\ PubStopped(q)' = PubStopped(q)
    BY <1>0, <2>1 DEF PubAdvances, PubStarted, PubStopped
  <2>2. PubStarted(p)' => TornSize \/ \A s \in Subs : Announcements(s) > 0
    <3>1. CASE PubStarted(p)
      BY <3>1 DEF Parts, StartedKnowsAll
    <3>2. CASE PubAnnounced(p)
      BY <1>2, <3>2 DEF Parts, ListedHaveAnnounced
    <3> QED BY <1>0, <3>1, <3>2 DEF PubAdvances
  <2>3. /\ pub'[p].tries > 0 => PubStopped(p)'
        /\ pub'[p].loop > 0 => pub'[p].pc \in {"data", "ping"} \/ PubStopped(p)'
    BY <1>0 DEF PubAdvances
  <2> QED BY <1>1, <2>1, <2>2, <2>3 DEF Parts, StartedKnowsAll, TornSize
<1>5. FinishedSeen'
  <2>1. ASSUME NEW q \in Pubs, Written(q) > Unfinished(q)
        PROVE  Unfinished(q)' = Unfinished(q) /\ Written(q)' > Unfinished(q)'
    <3>1. Counted(q) /\ Counted(q)'
      BY PubStepTyped DEF TypeOK, PubRecord, Counted
    <3>2. SendsOn(q)
      BY <1>0, <3>1 DEF PubAdvances, SendsOn, Counted
    <3> QED BY <2>1, <3>1, <3>2, UnfinishedKept
  <2>2. \A s \in Subs : sub[s].finished \subseteq Pubs
    BY DEF TypeOK, SubRecord
  <2> QED BY <1>0, <2>1, <2>2 DEF Parts, FinishedSeen
<1> QED BY <1>3, <1>4, <1>5 DEF Parts

\* A subscriber goes from phase to phase, and drains when its test has ended.
SubAdvances(s) ==
  /\ \A t \in Subs : t # s => sub'[t] = sub[t]
  /\ sub'[s].finished = sub[s].finished /\ sub'[s].endTest = sub[s].endTest
  /\ Announcements(s) > 0 => Announcements(s)' > 0
  /\ sub'[s].pc \in Drained => sub[s].endTest

LEMMA SubStepAdvances ==
  ASSUME TypeOK, FinishedSeen, NEW s \in Subs, SubStep(s)
  PROVE  SubAdvances(s) /\ UNCHANGED <<pub, read, dangling>>
<1>1. UNCHANGED <<pub, read, dangling>>
  BY DEF SubStep, SubGoto, CreateSubscriber, AnnounceSubscriber, SubFinish,
         DeleteWriters, SubExit
<1>2. PICK phase \in SubPhases :
        /\ sub' = [sub EXCEPT ![s].pc = phase]
        /\ sub[s].pc \in Announced => phase \in Announced
        /\ phase \in Drained => sub[s].pc \in Drained \/ sub[s].endTest
  BY DEF SubStep, SubGoto, CreateSubscriber, AnnounceSubscriber, SubFinish,
         DeleteWriters, SubExit, SubPhases, Announced, Drained
<1>3. sub \in [Subs -> SubRecord]
  BY DEF TypeOK
<1>4. /\ \A t \in Subs : t # s => sub'[t] = sub[t]
      /\ sub'[s].pc = phase /\ sub[s].pc \in SubPhases
      /\ sub'[s].finished = sub[s].finished /\ sub'[s].endTest = sub[s].endTest
  BY <1>2, <1>3 DEF SubRecord
<1>5. sub[s].pc \in Drained => sub[s].endTest
  BY DEF FinishedSeen, Drained
<1>6. Announcements(s) > 0 => Announcements(s)' > 0
  BY <1>2, <1>4, AnnouncementsOf
<1> QED BY <1>1, <1>2, <1>4, <1>5, <1>6 DEF SubAdvances

\* ... every step of a subscriber ...
LEMMA SubStepKeepsParts ==
  ASSUME TypeOK, Parts, NEW s \in Subs, SubStep(s), UNCHANGED mode
  PROVE  Parts'
<1>1. SubAdvances(s) /\ UNCHANGED <<pub, read>>
  BY SubStepAdvances DEF Parts
<1>2. \A t \in Subs : Announcements(t) > 0 => Announcements(t)' > 0
  BY <1>1 DEF SubAdvances, Announcements
<1>3. ListedHaveAnnounced'
  <2>1. \A p \in Pubs : pub[p].list \subseteq Subs
    BY DEF TypeOK, PubRecord
  <2> QED BY <1>1, <1>2, <2>1 DEF Parts, ListedHaveAnnounced, TornSize
<1>4. StartedKnowsAll'
  <2>1. \A p \in Pubs : /\ PubStarted(p)' = PubStarted(p)
                        /\ PubStopped(p)' = PubStopped(p)
    BY <1>1 DEF PubStarted, PubStopped
  <2> QED BY <1>1, <1>2, <2>1 DEF Parts, StartedKnowsAll, TornSize
<1>5. FinishedSeen'
  <2>1. ASSUME NEW t \in Subs
        PROVE  /\ sub'[t].finished = sub[t].finished /\ sub'[t].endTest = sub[t].endTest
               /\ sub'[t].pc \in Drained => sub[t].endTest
    BY <1>1 DEF SubAdvances, Parts, FinishedSeen, Drained
  <2>2. \A p \in Pubs : Written(p)' = Written(p) /\ Unfinished(p)' = Unfinished(p)
    BY <1>1 DEF Written, Unfinished, DataSize
  <2>3. \A t \in Subs : sub[t].finished \subseteq Pubs
    BY DEF TypeOK, SubRecord
  <2> QED BY <1>1, <2>1, <2>2, <2>3 DEF Parts, FinishedSeen, Drained
<1> QED BY <1>3, <1>4, <1>5 DEF Parts

\* ... discovery, a lost sample, an announcement that a publisher takes ...
NetworkStep(p, s) ==
  Match(p, s) \/ Unmatch(p, s) \/ LoseSample(p, s) \/ ProcessAnnouncement(p, s)

\* None of them changes where a main thread is or what has been written; the
\* samples of a publisher only move on, and its list changes by what it heard.
LEMMA NetworkLeaves ==
  ASSUME TypeOK, NEW p \in Pubs, NEW s \in Subs, NetworkStep(p, s)
  PROVE  /\ \A q \in Pubs :
              /\ pub'[q].pc = pub[q].pc /\ pub'[q].burst = pub[q].burst
              /\ pub'[q].loop = pub[q].loop /\ pub'[q].tries = pub[q].tries
         /\ \A t \in Subs :
              /\ sub'[t].pc = sub[t].pc /\ sub'[t].finished = sub[t].finished
              /\ sub'[t].endTest = sub[t].endTest
         /\ \A q \in Pubs, t \in Subs :
              read[q][t] \in Nat /\ read'[q][t] \in {read[q][t], read[q][t] + 1}
<1>0. /\ pub \in [Pubs -> PubRecord] /\ sub \in [Subs -> SubRecord]
      /\ read \in [Pubs -> [Subs -> Nat]]
  BY DEF TypeOK
<1>1. \A q \in Pubs :
        /\ pub'[q].pc = pub[q].pc /\ pub'[q].burst = pub[q].burst
        /\ pub'[q].loop = pub[q].loop /\ pub'[q].tries = pub[q].tries
  <2>1. \/ pub' = pub
        \/ \E S : pub' = [pub EXCEPT ![p].sees = S]
        \/ \E L : pub' = [pub EXCEPT ![p].list = L]
    BY DEF NetworkStep, Match, Unmatch, LoseSample, ProcessAnnouncement
  <2>2. CASE pub' = pub
    BY <2>2
  <2>3. CASE \E S : pub' = [pub EXCEPT ![p].sees = S]
    BY <1>0, <2>3 DEF PubRecord
  <2>4. CASE \E L : pub' = [pub EXCEPT ![p].list = L]
    BY <1>0, <2>4 DEF PubRecord
  <2> QED BY <2>1, <2>2, <2>3, <2>4
<1>2. \A t \in Subs :
        /\ sub'[t].pc = sub[t].pc /\ sub'[t].finished = sub[t].finished
        /\ sub'[t].endTest = sub[t].endTest
  <2>1. sub' = sub \/ \E P : sub' = [sub EXCEPT ![s].sees = P]
    BY DEF NetworkStep, Match, Unmatch, LoseSample, ProcessAnnouncement
  <2> QED BY <1>0, <2>1 DEF SubRecord
<1>3. \A q \in Pubs, t \in Subs :
        read[q][t] \in Nat /\ read'[q][t] \in {read[q][t], read[q][t] + 1}
  BY <1>0 DEF NetworkStep, Match, Unmatch, LoseSample, ProcessAnnouncement
<1> QED BY <1>1, <1>2, <1>3

\* A publisher before its sending loop takes no FINISHED announcement: the subscriber
\* that sent it would have seen the end of this very publisher.
LEMMA ListsGrowBeforeSending ==
  ASSUME TypeOK, Parts, NEW p \in Pubs, NEW s \in Subs, NetworkStep(p, s), NEW q \in Pubs
  PROVE  /\ pub[q].pc = "create" => pub'[q].list = pub[q].list
         /\ pub[q].pc = "burst" => pub[q].list \subseteq pub'[q].list
         /\ \A t \in pub'[q].list : t \in pub[q].list \/ Announcements(t) > 0
         /\ pub'[q].list \subseteq Subs
         /\ PubGone(q) => pub'[q].list = pub[q].list
<1>0. /\ pub \in [Pubs -> PubRecord] /\ sub \in [Subs -> SubRecord]
      /\ pub' \in [Pubs -> PubRecord]
      /\ heard \in [Pubs -> [Subs -> Nat]]
  BY NetworkTyped DEF NetworkStep, TypeOK
<1>1. pub'[q].list \subseteq Subs
  BY <1>0 DEF PubRecord
<1>2. CASE pub'[q].list = pub[q].list
  BY <1>1, <1>2
<1>3. CASE pub'[q].list # pub[q].list
  <2> DEFINE kind == AnnouncementKind(heard[p][s] + 1)
  <2>1. ProcessAnnouncement(p, s) /\ q = p /\ pub' # pub
    <3>1. pub' # pub
      BY <1>3
    <3>2. ASSUME Match(p, s) \/ Unmatch(p, s) \/ LoseSample(p, s)
          PROVE  pub'[q].list = pub[q].list
      <4>1. pub' = pub \/ \E S : pub' = [pub EXCEPT ![p].sees = S]
        BY <3>2 DEF Match, Unmatch, LoseSample
      <4>2. ASSUME NEW S, pub' = [pub EXCEPT ![p].sees = S]
            PROVE  pub'[q].list = pub[q].list
        BY <1>0, <4>2 DEF PubRecord
      <4> QED BY <4>1, <4>2
    <3>3. ProcessAnnouncement(p, s)
      BY <1>3, <3>2 DEF NetworkStep
    <3>4. q = p
      <4>1. \E L : pub' = [pub EXCEPT ![p].list = L]
        BY <3>1, <3>3 DEF ProcessAnnouncement
      <4> QED BY <1>0, <1>3, <4>1
    <3> QED BY <3>1, <3>3, <3>4
  <2>2. /\ pub'[p].list = UpdatedList(pub[p].list, s, kind)
        /\ pub[p].pc # "create" /\ ~PubGone(p) /\ heard[p][s] < Announcements(s)
    BY <1>0, <2>1 DEF ProcessAnnouncement, PubRecord
  <2>3. Announcements(s) \in 0 .. 2 /\ heard[p][s] \in Nat
    BY <1>0, AnnouncementsOf DEF SubRecord
  <2>4. CASE kind = "INITIALIZE"
    <3>1. pub'[p].list = pub[p].list \cup {s}
      BY <2>2, <2>4 DEF UpdatedList
    <3> QED BY <1>1, <2>1, <2>2, <2>3, <3>1
  <2>5. CASE kind = "FINISHED"
    <3>1. pub'[p].list = pub[p].list \ {s}
      BY <2>2, <2>5 DEF UpdatedList
    <3>2. Announcements(s) = 2
      BY <2>2, <2>3, <2>5 DEF AnnouncementKind
    <3>3. sub[s].endTest
      <4>1. sub[s].pc \in Drained
        BY <1>0, <3>2, AnnouncementsOf DEF SubRecord
      <4> QED BY <4>1 DEF Parts, FinishedSeen, Drained
    <3>4. pub[p].pc # "burst"
      BY <3>3, EndedMeansSending
    <3> QED BY <1>1, <2>1, <2>2, <3>1, <3>4
  <2> QED BY <2>4, <2>5 DEF AnnouncementKind
<1> QED BY <1>2, <1>3

LEMMA NetworkKeepsParts ==
  ASSUME TypeOK, Parts, NEW p \in Pubs, NEW s \in Subs, NetworkStep(p, s),
         UNCHANGED mode
  PROVE  Parts'
<1>1. /\ \A q \in Pubs :
           /\ pub'[q].pc = pub[q].pc /\ pub'[q].burst = pub[q].burst
           /\ pub'[q].loop = pub[q].loop /\ pub'[q].tries = pub[q].tries
      /\ \A t \in Subs :
           /\ sub'[t].pc = sub[t].pc /\ sub'[t].finished = sub[t].finished
           /\ sub'[t].endTest = sub[t].endTest
      /\ \A q \in Pubs, t \in Subs :
           read[q][t] \in Nat /\ read'[q][t] \in {read[q][t], read[q][t] + 1}
  BY NetworkLeaves
<1>2. \A t \in Subs : Announcements(t)' = Announcements(t)
  BY <1>1 DEF Announcements
<1>3. ListedHaveAnnounced'
  <2>1. ASSUME NEW q \in Pubs
        PROVE  /\ pub'[q].pc = "create" => pub'[q].list = {}
               /\ pub'[q].pc = "burst" => TornSize \/ pub'[q].list = Subs
               /\ \A t \in pub'[q].list : Announcements(t)' > 0
    <3>1. /\ pub[q].pc = "create" => pub[q].list = {}
          /\ pub[q].pc = "burst" => TornSize \/ pub[q].list = Subs
          /\ \A t \in pub[q].list : Announcements(t) > 0
      BY DEF Parts, ListedHaveAnnounced
    <3>2. /\ pub[q].pc = "create" => pub'[q].list = pub[q].list
          /\ pub[q].pc = "burst" => pub[q].list \subseteq pub'[q].list
          /\ \A t \in pub'[q].list : t \in pub[q].list \/ Announcements(t) > 0
          /\ pub'[q].list \subseteq Subs
      BY ListsGrowBeforeSending
    <3> QED BY <1>1, <1>2, <3>1, <3>2
  <2> QED BY <2>1 DEF ListedHaveAnnounced, TornSize
<1>4. StartedKnowsAll'
  BY <1>1, <1>2 DEF Parts, StartedKnowsAll, PubStarted, PubStopped, TornSize
<1>5. FinishedSeen'
  <2>1. ASSUME NEW t \in Subs, NEW q \in sub[t].finished
        PROVE  Written(q)' > Unfinished(q)' /\ read'[q][t] > Unfinished(q)'
    <3>1. q \in Pubs /\ Counted(q)
      BY DEF TypeOK, SubRecord, PubRecord, Counted
    <3>2. Written(q) > Unfinished(q) /\ read[q][t] > Unfinished(q)
      BY <2>1 DEF Parts, FinishedSeen
    <3>3. Written(q)' = Written(q) /\ Unfinished(q)' = Unfinished(q)
      BY <1>1, <3>1 DEF Written, Unfinished, DataSize
    <3>4. Unfinished(q) \in Nat
      BY <3>1, UnfinishedFacts
    <3> DEFINE u == Unfinished(q)
               less == read[q][t]
               more == read'[q][t]
    <3>5. u \in Nat /\ less \in Nat /\ more \in {less, less + 1} /\ less > u
      BY <1>1, <3>1, <3>2, <3>4
    <3> HIDE DEF u, less, more
    <3>6. more > u
      BY <3>5
    <3> QED BY <3>2, <3>3, <3>6 DEF u, more
  <2> QED BY <1>1, <2>1 DEF Parts, FinishedSeen
<1> QED BY <1>3, <1>4, <1>5 DEF Parts

\* A sample that a subscriber takes for FINISHED comes after those that it does not.
LEMMA FinishedComesLast ==
  ASSUME TypeOK, NEW p \in Pubs, NEW s \in Subs, ProcessMessage(s, p),
         Kind(p, read[p][s] + 1) = "FINISHED"
  PROVE  Written(p) > Unfinished(p) /\ read[p][s] + 1 > Unfinished(p)
<1>1. Counted(p) /\ read[p][s] \in Nat
  BY DEF TypeOK, PubRecord, Counted
<1>2. read[p][s] + 1 > Unfinished(p)
  BY <1>1 DEF Kind, Counted, Unfinished
<1>3. read[p][s] < Written(p) /\ Unfinished(p) \in Nat /\ Written(p) \in Nat
  BY <1>1, UnfinishedFacts DEF ProcessMessage
<1> QED BY <1>1, <1>2, <1>3

\* What a sample leaves of a subscriber, and what it adds.
LEMMA ProcessMessageLeaves ==
  ASSUME TypeOK, NEW p \in Pubs, NEW s \in Subs, ProcessMessage(s, p)
  PROVE  /\ \A t \in Subs : t # s => sub'[t] = sub[t]
         /\ sub'[s].pc = sub[s].pc
         /\ \/ sub'[s].finished = sub[s].finished /\ sub'[s].endTest = sub[s].endTest
            \/ /\ sub'[s].finished = sub[s].finished \cup {p}
               /\ Kind(p, read[p][s] + 1) = "FINISHED" /\ ~sub[s].endTest
               /\ sub'[s].endTest => AllFinished(sub'[s].finished)
<1>0. sub \in [Subs -> SubRecord]
  BY DEF TypeOK
<1>1. CASE sub' = sub
  BY <1>1
<1>2. CASE /\ Kind(p, read[p][s] + 1) = "FINISHED" /\ ~sub[s].endTest
           /\ BecomesFinished(s, p)
  <2>1. PICK e \in BOOLEAN :
          /\ e <=> AllFinished(sub[s].finished \cup {p})
          /\ sub' = [sub EXCEPT ![s] = [sub[s] EXCEPT !.finished = sub[s].finished \cup {p},
                                                     !.endTest = e]]
    BY <1>2 DEF BecomesFinished
  <2>2. sub'[s] = [sub[s] EXCEPT !.finished = sub[s].finished \cup {p}, !.endTest = e]
    BY <1>0, <2>1
  <2>3. sub[s] \in SubRecord
    BY <1>0
  <2>4. /\ sub'[s].pc = sub[s].pc
        /\ sub'[s].finished = sub[s].finished \cup {p} /\ sub'[s].endTest = e
    BY <2>2, <2>3 DEF SubRecord
  <2>5. \A t \in Subs : t # s => sub'[t] = sub[t]
    BY <1>0, <2>1
  <2>6. sub'[s].endTest => AllFinished(sub'[s].finished)
    BY <2>1, <2>4, Zenon
  <2> QED BY <1>2, <2>4, <2>5, <2>6
<1> QED BY <1>1, <1>2, ProcessedSample

\* ... and a sample that a subscriber takes.
LEMMA ProcessMessageKeepsParts ==
  ASSUME TypeOK, Parts, NEW p \in Pubs, NEW s \in Subs, ProcessMessage(s, p),
         UNCHANGED mode
  PROVE  Parts'
<1>0. /\ UNCHANGED pub /\ sub \in [Subs -> SubRecord] /\ sub' \in [Subs -> SubRecord]
      /\ read \in [Pubs -> [Subs -> Nat]]
      /\ read' = [read EXCEPT ![p][s] = read[p][s] + 1]
  BY NetworkTyped DEF ProcessMessage, TypeOK
<1>1. \A q \in Pubs, t \in Subs :
        /\ read[q][t] \in Nat
        /\ read'[q][t] = IF q = p /\ t = s THEN read[q][t] + 1 ELSE read[q][t]
  BY <1>0
<1>2. /\ \A t \in Subs : t # s => sub'[t] = sub[t]
      /\ sub'[s].pc = sub[s].pc
      /\ \/ sub'[s].finished = sub[s].finished /\ sub'[s].endTest = sub[s].endTest
         \/ /\ sub'[s].finished = sub[s].finished \cup {p}
            /\ Kind(p, read[p][s] + 1) = "FINISHED" /\ ~sub[s].endTest
            /\ sub'[s].endTest => AllFinished(sub'[s].finished)
  BY ProcessMessageLeaves
<1>3. \A t \in Subs : Announcements(t)' = Announcements(t) /\ sub'[t].pc = sub[t].pc
  BY <1>2 DEF Announcements
<1>4. ListedHaveAnnounced'
  <2>1. \A q \in Pubs : pub[q].list \subseteq Subs
    BY DEF TypeOK, PubRecord
  <2> QED BY <1>0, <1>3, <2>1 DEF Parts, ListedHaveAnnounced, TornSize
<1>5. StartedKnowsAll'
  BY <1>0, <1>3 DEF Parts, StartedKnowsAll, PubStarted, PubStopped, TornSize
<1>6. FinishedSeen'
  <2>1. ASSUME NEW t \in Subs, NEW q \in sub'[t].finished
        PROVE  Written(q)' > Unfinished(q)' /\ read'[q][t] > Unfinished(q)'
    <3>0. /\ q \in Pubs /\ Counted(q) /\ Unfinished(q) \in Nat
          /\ Written(q)' = Written(q) /\ Unfinished(q)' = Unfinished(q)
      <4>1. q \in Pubs /\ Counted(q)
        BY <1>0 DEF SubRecord, TypeOK, PubRecord, Counted
      <4> QED BY <1>0, <4>1, UnfinishedFacts DEF Written, Unfinished, DataSize
    <3>1. CASE q \in sub[t].finished
      <4>2. Written(q) > Unfinished(q) /\ read[q][t] > Unfinished(q)
        BY <3>1 DEF Parts, FinishedSeen
      <4> QED BY <1>1, <3>0, <4>2
    <3>2. CASE q \notin sub[t].finished
      <4>1. q = p /\ t = s /\ Kind(p, read[p][s] + 1) = "FINISHED"
        BY <1>2, <2>1, <3>2
      <4> QED BY <1>1, <3>0, <4>1, FinishedComesLast
    <3> QED BY <3>1, <3>2
  <2>2. ASSUME NEW t \in Subs, sub'[t].endTest
        PROVE  sub'[t].finished = Pubs
    <3>1. CASE sub'[t].finished = sub[t].finished /\ sub'[t].endTest = sub[t].endTest
      BY <2>2, <3>1 DEF Parts, FinishedSeen
    <3>2. CASE t = s /\ AllFinished(sub'[s].finished)
      <4>1. sub'[s].finished \in SUBSET Pubs
        BY <1>0 DEF SubRecord
      <4> QED BY <3>2, <4>1, EnoughIsAll DEF AllFinished
    <3> QED BY <1>2, <2>2, <3>1, <3>2
  <2>3. ASSUME NEW t \in Subs, sub'[t].pc \in Drained
        PROVE  sub'[t].endTest
    <3>1. sub[t].endTest
      BY <1>3, <2>3 DEF Parts, FinishedSeen, Drained
    <3> QED BY <1>2, <3>1
  <2> QED BY <2>1, <2>2, <2>3 DEF FinishedSeen, Drained
<1> QED BY <1>4, <1>5, <1>6 DEF Parts

\* The parts of the invariant hold in every state of every session of the port.
THEOREM Invariance == Spec => []IndInv
<1>1. Init => Parts
  <2> SUFFICES ASSUME Init PROVE Parts
    OBVIOUS
  <2>1. \A p \in Pubs : /\ pub[p].list = {} /\ pub[p].pc = "create"
                        /\ pub[p].tries = 0 /\ pub[p].loop = 0
    BY DEF Init
  <2>2. \A s \in Subs : /\ sub[s].pc = "create" /\ sub[s].finished = {}
                        /\ ~sub[s].endTest
    BY DEF Init
  <2> QED BY <2>1, <2>2
          DEF Parts, ListedHaveAnnounced, StartedKnowsAll, PubStarted, FinishedSeen
<1>2. TypeOK /\ Parts /\ [Next]_vars => Parts'
  <2> SUFFICES ASSUME TypeOK, Parts, [Next]_vars PROVE Parts'
    OBVIOUS
  <2>1. CASE UNCHANGED <<mode, pub, sub, read>>
    BY <2>1 DEF Parts, ListedHaveAnnounced, StartedKnowsAll, PubStarted, PubStopped,
                Announcements, FinishedSeen, Written, Unfinished, TornSize, DataSize
  <2> QED
    BY <2>1, PubStepKeepsParts, SubStepKeepsParts, NetworkKeepsParts,
       ProcessMessageKeepsParts
       DEF Next, Step, Terminated, NetworkStep, vars, ProcessPong, LosePong
<1>3. TypeOK /\ Parts => IndInv
  BY DEF Parts, IndInv
<1> QED BY <1>1, <1>2, <1>3, TypeCorrect, PTL DEF Spec

-----------------------------------------------------------------------------
(* A subscriber uses nothing that it has deleted.                           *)

\* Nothing that arrives after the end of the test is echoed.
LEMMA NothingIsEchoedAtTheEnd ==
  ASSUME TypeOK, Parts, NEW s \in Subs, NEW p \in Pubs, sub[s].endTest
  PROVE  Echo(s, p, read[p][s] + 1) = <<>>
<1>1. read[p][s] > Unfinished(p)
  BY EndedMeansSending
<1>2. Counted(p) /\ read[p][s] \in Nat
  BY DEF TypeOK, PubRecord, Counted
<1>3. Kind(p, read[p][s] + 1) = "FINISHED"
  BY <1>1, <1>2 DEF Kind, Counted, Unfinished
<1>4. LatencyPing(p, read[p][s] + 1) = NoPing /\ s # NoPing
  BY <1>3, Counts DEF LatencyPing, NoPing, Subs
<1> QED BY <1>3, <1>4 DEF Echo

\* A subscriber deletes the writer of its pongs under a listener that needs it no
\* more: every sample that it would echo has come before.
THEOREM SubscriberLives == Spec => []SubscriberUsesLive
<1>1. Init => SubscriberUsesLive
  BY DEF Init, SubscriberUsesLive
<1>2. IndInv /\ SubscriberUsesLive /\ [Next]_vars => SubscriberUsesLive'
  <2> SUFFICES ASSUME IndInv, SubscriberUsesLive, [Next]_vars,
                      "pong writer" \in dangling'
               PROVE  FALSE
    BY DEF SubscriberUsesLive, SubObjects
  <2>1. "pong writer" \notin dangling
    BY DEF SubscriberUsesLive, SubObjects
  <2>2. ASSUME NEW p \in Pubs, PubStep(p) \/ Timeout(p)
        PROVE  "pong writer" \notin dangling'
    <3>1. CASE CloseReader
      <4>1. dangling' = dangling \/ dangling' = dangling \cup {"latency reader"}
        BY <3>1 DEF CloseReader
      <4>2. "pong writer" \notin dangling \cup {"latency reader"}
        BY <2>1
      <4> QED BY <2>1, <4>1, <4>2
    <3>2. CASE ~CloseReader
      <4>1. dangling' = dangling
        BY <2>2, <3>2
           DEF PubStep, PubGoto, CreatePublisher, PubDiscovered, PubAnnounced,
               SendInitialize, StartSending, SendData, PingAnswered, StopSending,
               SendFinished, AckWaited, PrintSummary, DeleteListeners,
               CloseAnnouncementReader, Timeout
      <4> QED BY <2>1, <4>1
    <3> QED BY <3>1, <3>2
  <2>3. ASSUME NEW s \in Subs, SubStep(s)
        PROVE  "pong writer" \notin dangling'
    BY <2>1, <2>3 DEF SubStep, SubGoto, CreateSubscriber, AnnounceSubscriber, SubFinish,
                      DeleteWriters, SubExit
  <2>4. ASSUME NEW p \in Pubs, NEW s \in Subs, NetworkStep(p, s)
        PROVE  "pong writer" \notin dangling'
    <3>1. dangling' = dangling \/ dangling' = dangling \cup {"AnnouncementListener"}
      BY <2>4 DEF NetworkStep, Match, Unmatch, LoseSample, ProcessAnnouncement
    <3>2. "pong writer" \notin dangling \cup {"AnnouncementListener"}
      BY <2>1
    <3> QED BY <2>1, <3>1, <3>2
  <2>5. ASSUME NEW p \in Pubs, NEW s \in Subs, ProcessMessage(s, p)
        PROVE  "pong writer" \notin dangling'
    <3>1. sub[s].pc = "closing" => sub[s].endTest
      BY DEF IndInv, FinishedSeen
    <3>2. sub[s].pc = "closing" => Echo(s, p, read[p][s] + 1) = <<>>
      BY <3>1, NothingIsEchoedAtTheEnd DEF IndInv, Parts
    <3> DEFINE echo == IF Listens(s) THEN Echo(s, p, read[p][s] + 1) ELSE <<>>
    <3>3. sub[s].pc = "closing" => echo = <<>>
      BY <3>2
    <3>4. dangling' = IF sub[s].pc = "closing" /\ echo # <<>>
                      THEN dangling \cup {"pong writer"} ELSE dangling
      BY <2>5 DEF ProcessMessage
    <3> HIDE DEF echo
    <3> QED BY <2>1, <3>3, <3>4
  <2>6. ASSUME ProcessPong
        PROVE  "pong writer" \notin dangling'
    <3>1. \A kind : "pong writer" \notin UsedByPong(kind)
      BY DEF UsedByPong
    <3> QED BY <2>1, <2>6, <3>1 DEF ProcessPong
  <2>7. CASE UNCHANGED dangling
    BY <2>1, <2>7
  <2> QED BY <2>2, <2>3, <2>4, <2>5, <2>6, <2>7
          DEF Next, Step, Terminated, NetworkStep, vars, LosePong
<1> QED BY <1>1, <1>2, Invariance, PTL DEF Spec

-----------------------------------------------------------------------------
(* The port implements the abstract session.                                *)

\* A step of a publisher starts or stops it in the abstract session, or stutters.
LEMMA PubStepRefines ==
  ASSUME ~TornSize, IndInv, NEW p \in Pubs, PubStep(p) \/ Timeout(p)
  PROVE  [Session!TSNext]_(Session!tsVars)
<1>1. /\ PubAdvances(p) /\ pub \in [Pubs -> PubRecord] /\ Parts /\ TypeOK
      /\ UNCHANGED sub
  <2>1. UNCHANGED sub
    BY DEF PubStep, PubGoto, CreatePublisher, PubDiscovered, PubAnnounced, SendInitialize,
           StartSending, SendData, PingAnswered, StopSending, SendFinished, AckWaited,
           PrintSummary, DeleteListeners, CloseReader, CloseAnnouncementReader, Timeout
  <2> QED BY <2>1, PubStepAdvances DEF IndInv, Parts, TypeOK
<1>2. Ready' = Ready /\ Ended' = Ended
  BY <1>1 DEF Ready, Ended, Announcements
<1> DEFINE Begun(q) == PubStarted(q) \/ (pub[q].pc = "failed" /\ pub[q].list # {})
<1>3. ASSUME NEW q \in Pubs, q # p
      PROVE  (Begun(q)' <=> Begun(q)) /\ (PubStopped(q)' <=> PubStopped(q))
  BY <1>1, <1>3 DEF PubAdvances, PubStarted, PubStopped
<1>4. /\ Begun(p) => Begun(p)'
      /\ Begun(p)' => Begun(p) \/ PubAnnounced(p)
      /\ PubStopped(p)' => PubStopped(p) \/ pub[p].pc = "data"
      /\ PubStopped(p) => PubStopped(p)'
      /\ pub[p].pc = "data" => Begun(p)
  <2>1. /\ pub[p].pc = "burst" => pub[p].list = Subs /\ Subs # {}
        /\ pub[p].pc = "create" => pub[p].list = {}
        /\ pub'[p].list = pub[p].list
    BY <1>1, Counts DEF Parts, ListedHaveAnnounced, PubAdvances
  <2>2. Begun(p) => Begun(p)'
    BY <1>1, <2>1 DEF PubAdvances, PubGone
  <2>3. Begun(p)' => Begun(p) \/ PubAnnounced(p)
    <3>1. CASE PubStarted(p)'
      BY <1>1, <3>1 DEF PubAdvances
    <3>2. CASE pub'[p].pc = "failed" /\ pub'[p].list # {}
      <4>1. pub[p].pc = "burst"
        BY <1>1, <2>1, <3>2 DEF PubAdvances
      <4> QED BY <4>1 DEF PubStarted
    <3> QED BY <3>1, <3>2
  <2> QED BY <1>1, <2>2, <2>3 DEF PubAdvances, PubStarted
<1>5. Started = {q \in Pubs : Begun(q)} /\ Stopped = {q \in Pubs : PubStopped(q)}
  BY DEF Started, Stopped
<1>6. Started' = {q \in Pubs : Begun(q)'} /\ Stopped' = {q \in Pubs : PubStopped(q)'}
  BY DEF Started, Stopped
<1> HIDE DEF Begun
<1>7. CASE PubStopped(p)' /\ ~PubStopped(p)
  <2>1. pub[p].pc = "data" /\ Begun(p)
    BY <1>4, <1>7
  <2>2. Started' = Started /\ p \in Started
    BY <1>3, <1>4, <1>5, <1>6, <2>1
  <2>3. Stopped' = Stopped \cup {p}
    BY <1>3, <1>5, <1>6, <1>7
  <2> QED BY <1>2, <2>2, <2>3 DEF Session!Stop, Session!TSNext
<1>8. CASE ~(PubStopped(p)' /\ ~PubStopped(p))
  <2>1. Stopped' = Stopped
    BY <1>3, <1>4, <1>5, <1>6, <1>8
  <2>2. CASE Begun(p)' /\ ~Begun(p)
    <3>1. pub[p].list = Subs
      <4>1. pub[p].list \in SUBSET Subs
        BY <1>1 DEF PubRecord
      <4> QED BY <1>4, <2>2, <4>1, EnoughIsAll DEF PubAnnounced, AllAnnounced, SizesRead
    <3>2. Ready = Subs
      BY <1>1, <3>1 DEF Ready, Parts, ListedHaveAnnounced
    <3>3. Started' = Started \cup {p}
      BY <1>3, <1>5, <1>6, <2>2
    <3> QED BY <1>2, <2>1, <3>2, <3>3 DEF Session!Start, Session!TSNext
  <2>3. CASE ~(Begun(p)' /\ ~Begun(p))
    <3>1. Started' = Started
      BY <1>3, <1>4, <1>5, <1>6, <2>3
    <3> QED BY <1>2, <2>1, <3>1 DEF Session!tsVars
  <2> QED BY <2>2, <2>3
<1> QED BY <1>7, <1>8

\* A step of a subscriber announces it there, or stutters.
LEMMA SubStepRefines ==
  ASSUME IndInv, NEW s \in Subs, SubStep(s)
  PROVE  [Session!TSNext]_(Session!tsVars)
<1>1. SubAdvances(s) /\ UNCHANGED pub
  BY SubStepAdvances DEF IndInv
<1>2. Started' = Started /\ Stopped' = Stopped
  BY <1>1 DEF Started, Stopped, PubStarted, PubStopped
<1>3. Ended' = Ended
  BY <1>1 DEF SubAdvances, Ended
<1>4. \A t \in Subs : t # s => Announcements(t)' = Announcements(t)
  BY <1>1 DEF SubAdvances, Announcements
<1>5. CASE Announcements(s)' > 0
  <2>1. Ready' = Ready \cup {s}
    BY <1>4, <1>5 DEF Ready
  <2> QED BY <1>2, <1>3, <2>1 DEF Session!Announce, Session!TSNext
<1>6. CASE ~(Announcements(s)' > 0)
  <2>1. Ready' = Ready
    BY <1>1, <1>4, <1>6 DEF Ready, SubAdvances
  <2> QED BY <1>2, <1>3, <2>1 DEF Session!tsVars
<1> QED BY <1>5, <1>6

\* A sample that a subscriber takes ends its test there, or stutters.
LEMMA ProcessMessageRefines ==
  ASSUME DataSize # "FINISHED", UNCHANGED mode, IndInv, IndInv',
         NEW p \in Pubs, NEW s \in Subs, ProcessMessage(s, p)
  PROVE  [Session!TSNext]_(Session!tsVars)
<1>1. /\ \A t \in Subs : t # s => sub'[t] = sub[t]
      /\ sub'[s].pc = sub[s].pc
      /\ sub[s].endTest => sub'[s].endTest
      /\ UNCHANGED pub
  <2>1. UNCHANGED pub
    BY DEF ProcessMessage
  <2> QED BY <2>1, ProcessMessageLeaves DEF IndInv
<1>2. Started' = Started /\ Stopped' = Stopped
  BY <1>1 DEF Started, Stopped, PubStarted, PubStopped
<1>3. Ready' = Ready
  BY <1>1 DEF Ready, Announcements
<1>4. CASE sub'[s].endTest /\ ~sub[s].endTest
  <2>1. Ended' = Ended \cup {s}
    BY <1>1, <1>4 DEF Ended
  <2>2. ASSUME NEW q \in Pubs PROVE pub[q].tries > 0
    <3>1. Written(q)' > Unfinished(q)'
      BY <1>4 DEF IndInv, FinishedSeen
    <3>2. Counted(q)
      BY DEF IndInv, TypeOK, PubRecord, Counted
    <3> QED BY <1>1, <3>1, <3>2 DEF Written, Unfinished, DataSize, Counted
  <2>3. Stopped = Pubs
    BY <1>1, <2>2 DEF Stopped, IndInv, StartedKnowsAll
  <2> QED BY <1>2, <1>3, <2>1, <2>3 DEF Session!End, Session!TSNext
<1>5. CASE ~(sub'[s].endTest /\ ~sub[s].endTest)
  <2>1. Ended' = Ended
    BY <1>1, <1>5 DEF Ended
  <2> QED BY <1>2, <1>3, <2>1 DEF Session!tsVars
<1> QED BY <1>4, <1>5

\* Discovery, losses and announcements are no steps of the abstract session.
LEMMA NetworkStutters ==
  ASSUME IndInv, NEW p \in Pubs, NEW s \in Subs, NetworkStep(p, s)
  PROVE  UNCHANGED Session!tsVars
<1>1. /\ \A q \in Pubs : pub'[q].pc = pub[q].pc
      /\ \A t \in Subs : sub'[t].pc = sub[t].pc /\ sub'[t].endTest = sub[t].endTest
  BY NetworkLeaves DEF IndInv
<1>2. \A q \in Pubs : PubGone(q) => pub'[q].list = pub[q].list
  BY ListsGrowBeforeSending DEF IndInv, Parts
<1>3. Ready' = Ready /\ Ended' = Ended
  BY <1>1 DEF Ready, Ended, Announcements
<1>4. Started' = Started /\ Stopped' = Stopped
  BY <1>1, <1>2 DEF Started, Stopped, PubStarted, PubStopped, PubGone
<1> QED BY <1>3, <1>4 DEF Session!tsVars

\* The options are those of one of the sessions considered.
ModeGiven == mode \in Modes

LEMMA ModeStays == Spec => []ModeGiven
<1>1. Init => ModeGiven
  BY DEF Init, ModeGiven
<1>2. ModeGiven /\ [Next]_vars => ModeGiven'
  BY DEF Next, vars, ModeGiven
<1> QED BY <1>1, <1>2, PTL DEF Spec

\* The modern port keeps the promise of a test session in every mode in which the list
\* of subscribers is read whole and data samples are known by their size: the wait for
\* subscriber_list.size(), and message.size in ThroughputListener (perftest_cpp.cxx).
THEOREM Refinement ==
  ASSUME NoTornSize, DistinctSizes
  PROVE  Spec => ImplementsTestSession
<1>1. Init => Session!TSInit
  <2> SUFFICES ASSUME Init PROVE Session!TSInit
    OBVIOUS
  <2>1. \A p \in Pubs : pub[p].pc = "create" /\ pub[p].list = {}
    BY DEF Init
  <2>2. \A s \in Subs : Announcements(s) = 0 /\ ~sub[s].endTest
    BY DEF Init, Announcements
  <2> QED BY <2>1, <2>2
          DEF Session!TSInit, Ready, Started, Stopped, Ended, PubStarted, PubStopped,
              PubClosing
<1>2. ModeGiven /\ IndInv /\ IndInv' /\ [Next]_vars
        => [Session!TSNext]_(Session!tsVars)
  <2> SUFFICES ASSUME ModeGiven, IndInv, IndInv', [Next]_vars
               PROVE  [Session!TSNext]_(Session!tsVars)
    OBVIOUS
  <2>0. ~TornSize /\ DataSize # "FINISHED"
    BY DEF ModeGiven, NoTornSize, DistinctSizes, TornSize, DataSize
  <2>1. CASE UNCHANGED <<pub, sub>>
    <3>1. UNCHANGED Session!tsVars
      BY <2>1 DEF Session!tsVars, Ready, Started, Stopped, Ended, PubStarted, PubStopped,
                  Announcements
    <3> QED BY <3>1
  <2> QED
    BY <2>0, <2>1, PubStepRefines, SubStepRefines, ProcessMessageRefines, NetworkStutters
       DEF Next, Step, Terminated, NetworkStep, vars, ProcessPong, LosePong
<1> QED BY <1>1, <1>2, Invariance, ModeStays, PTL
        DEF Spec, ImplementsTestSession, Session!TSSpec

\* In the modern C++ port the parts of a test follow one another, over all publishers and
\* subscribers: perftest_cpp of srcCpp11 waits for announcements before the burst, and its
\* listener for FINISHED.  Under the same two conditions.
THEOREM PhasesInOrder ==
  ASSUME NoTornSize, DistinctSizes
  PROVE  Spec => []Session!InOrder
<1>1. Session!TSInit => Session!InOrder
  BY DEF Session!TSInit, Session!InOrder
<1>2. Session!InOrder /\ [Session!TSNext]_(Session!tsVars) => Session!InOrder'
  <2> SUFFICES ASSUME Session!InOrder, [Session!TSNext]_(Session!tsVars)
               PROVE  Session!InOrder'
    OBVIOUS
  <2>1. CASE Session!TSNext
    BY <2>1 DEF Session!TSNext, Session!Announce, Session!Start, Session!Stop, Session!End,
                Session!InOrder
  <2>2. CASE UNCHANGED Session!tsVars
    BY <2>2 DEF Session!tsVars, Session!InOrder
  <2> QED BY <2>1, <2>2
<1> QED BY <1>1, <1>2, Refinement, PTL DEF ImplementsTestSession, Session!TSSpec

-----------------------------------------------------------------------------
(* The pings of publisher 0 and the history of their latencies.             *)

LEMMA PlanFacts ==
  ASSUME mode \in Modes
  PROVE  /\ NumIter \in Nat \ {0} /\ SamplesPerBatch \in Nat \ {0}
         /\ LatencyCount \in Nat \ {0}
         /\ UseCft \in BOOLEAN /\ PubReadThread \in BOOLEAN /\ ClockSkew \in BOOLEAN
<1>1. \A f \in ModeCounts : mode[f] \in Nat \ {0}
  BY ModernModeAssumption
<1>2. \A f \in ModeFlags : mode[f] \in BOOLEAN
  BY ModernModeAssumption
<1>3. mode.numIter \in Nat \ {0} /\ mode.samplesPerBatch \in Nat \ {0}
      /\ mode.latencyCount \in Nat \ {0}
  BY <1>1 DEF ModeCounts
<1>4. mode.useCft \in BOOLEAN /\ mode.pubReadThread \in BOOLEAN /\ mode.clockSkew \in BOOLEAN
  BY <1>2 DEF ModeFlags
<1> QED
  BY <1>3, <1>4 DEF NumIter, SamplesPerBatch, LatencyCount, UseCft, PubReadThread, ClockSkew

LEMMA Division ==
  ASSUME NEW a \in Nat, NEW b \in Nat \ {0}
  PROVE  a \div b \in Nat /\ a % b \in 0 .. b - 1 /\ a = b * (a \div b) + (a % b)
OBVIOUS

\* The batch of sample i of the sending loop.
Batch(i) == (i - 1) \div SamplesPerBatch

Early == {"create", "discover", "announced", "burst"}

\* Publisher 0 alone asks for pongs, one in a batch and in one batch of LatencyCount,
\* and not before its sending loop.
PlanInv ==
  /\ mode \in Modes
  /\ \A p \in Pubs : Len(pub[p].asked) = pub[p].loop /\ pub[p].loop <= NumIter
  /\ \A p \in Pubs \ {0} : Pings(p) = {}
  /\ \A i \in Pings(0) : pub[0].asked[i] \in Subs /\ Batch(i) % LatencyCount = 0
  /\ \A i, j \in Pings(0) : Batch(i) = Batch(j) => i = j
  /\ pub[0].pc \in Early => pub[0].loop = 0

LEMMA AskedFacts ==
  ASSUME TypeOK, NEW p \in Pubs
  PROVE  /\ pub[p].asked \in Seq(Int) /\ Len(pub[p].asked) \in Nat
         /\ DOMAIN pub[p].asked = 1 .. Len(pub[p].asked)
         /\ Pings(p) \subseteq 1 .. Len(pub[p].asked)
         /\ IsFiniteSet(Pings(p)) /\ Cardinality(Pings(p)) \in Nat
<1>1. pub[p].asked \in Seq(Int)
  BY DEF TypeOK, PubRecord
<1>2. DOMAIN pub[p].asked = 1 .. Len(pub[p].asked) /\ Len(pub[p].asked) \in Nat
  BY <1>1
<1>3. Pings(p) \subseteq 1 .. Len(pub[p].asked)
  BY <1>2 DEF Pings
<1>4. IsFiniteSet(1 .. Len(pub[p].asked))
  BY <1>2, FS_Interval
<1> QED BY <1>1, <1>2, <1>3, <1>4, FS_Subset, FS_CardinalityType

\* Less than a multiple.
LEMMA SmallerFactor ==
  ASSUME NEW c \in Nat \ {0}, NEW x \in Nat, NEW y \in Nat, c * x < c * y
  PROVE  x < y
<1> SUFFICES ASSUME x >= y PROVE FALSE
  OBVIOUS
<1>1. PICK d \in Nat : x = y + d
  <2>1. x - y \in Nat /\ x = y + (x - y)
    OBVIOUS
  <2> QED BY <2>1
<1>2. c * x = c * y + c * d /\ c * d \in Nat /\ c * y \in Nat
  BY <1>1
<1> QED BY <1>2

\* The number of the ping of a batch among the batches with a ping: _latency_history
\* has a place for it.
LEMMA BatchHasPlace ==
  ASSUME mode \in Modes, NEW i \in 1 .. NumIter, Batch(i) % LatencyCount = 0
  PROVE  /\ Batch(i) \in Nat /\ Batch(i) \div LatencyCount \in 0 .. NumLatency - 1
         /\ Batch(i) = LatencyCount * (Batch(i) \div LatencyCount)
         /\ NumLatency \in Nat
<1> DEFINE spb == SamplesPerBatch
           c == LatencyCount
           b == Batch(i)
           k == b \div c
           n == NumIter \div spb
           q == n \div c
<1>1. /\ spb \in Nat \ {0} /\ c \in Nat \ {0} /\ NumIter \in Nat /\ i - 1 \in Nat /\ i \in Nat
      /\ i <= NumIter
  BY PlanFacts
<1>2. /\ b \in Nat /\ i - 1 = spb * b + ((i - 1) % spb) /\ (i - 1) % spb \in 0 .. spb - 1
      /\ n \in Nat /\ NumIter = spb * n + (NumIter % spb) /\ NumIter % spb \in 0 .. spb - 1
      /\ b % c = 0
  BY <1>1, Division DEF Batch
<1>3. NumLatency = q + (IF n % c > 0 THEN 1 ELSE 0) + (IF spb > 1 THEN 1 ELSE 0)
  BY DEF NumLatency
<1> HIDE DEF spb, c, b, n
<1>4. /\ k \in Nat /\ b = c * k
      /\ q \in Nat /\ n = c * q + (n % c) /\ n % c \in 0 .. c - 1
  <2>1. k \in Nat /\ b = c * k + (b % c)
    BY <1>1, <1>2, Division
  <2>2. b = c * k
    <3> HIDE DEF k
    <3>1. c * k \in Nat
      BY <1>1, <2>1
    <3> QED BY <1>2, <2>1, <3>1
  <2> QED BY <1>1, <1>2, <2>1, <2>2, Division
<1> HIDE DEF k, q
<1>5. b < n \/ (b = n /\ spb > 1)
  <2>1. spb * b \in Nat /\ spb * n \in Nat /\ spb * (n + 1) = spb * n + spb
    BY <1>1, <1>2
  <2>2. spb * b < spb * (n + 1)
    BY <1>1, <1>2, <2>1
  <2>3. b < n + 1
    BY <1>1, <1>2, <2>2, SmallerFactor
  <2>4. spb = 1 => b < n
    BY <1>1, <1>2
  <2> QED BY <1>1, <1>2, <2>3, <2>4
<1>6. c * k \in Nat /\ c * q \in Nat /\ c * (q + 1) = c * q + c
  BY <1>1, <1>4
<1>7. k < q + 1 \/ k = q + 1
  <2>1. c * k < c * (q + 1)
    BY <1>1, <1>2, <1>4, <1>5, <1>6
  <2> QED BY <1>1, <1>4, <2>1, SmallerFactor
<1>8. n % c = 0 /\ b < n => k < q
  <2> SUFFICES ASSUME n % c = 0, b < n PROVE k < q
    OBVIOUS
  <2>1. c * k < c * q
    BY <1>1, <1>2, <1>4, <1>6
  <2> QED BY <1>1, <1>4, <2>1, SmallerFactor
<1>9. k < q + 1
  <2>1. c * k < c * (q + 1)
    BY <1>1, <1>2, <1>4, <1>5, <1>6
  <2> QED BY <1>1, <1>4, <2>1, SmallerFactor
<1>10. k < NumLatency /\ NumLatency \in Nat
  BY <1>1, <1>4, <1>3, <1>5, <1>8, <1>9
<1> QED BY <1>2, <1>4, <1>10 DEF b, c, k

\* So there are never more pings than places.
LEMMA PingsFit ==
  ASSUME TypeOK, PlanInv
  PROVE  Cardinality(Pings(0)) <= NumLatency /\ NumLatency \in Nat
<1> DEFINE place == [i \in Pings(0) |-> Batch(i) \div LatencyCount]
<1>1. 0 \in Pubs /\ mode \in Modes
  BY Counts DEF PlanInv
<1>2. Pings(0) \subseteq 1 .. NumIter
  <2>1. Pings(0) \subseteq 1 .. Len(pub[0].asked) /\ Len(pub[0].asked) \in Nat
    BY <1>1, AskedFacts
  <2>2. Len(pub[0].asked) <= NumIter /\ NumIter \in Nat
    BY <1>1, PlanFacts DEF PlanInv
  <2> QED BY <2>1, <2>2
<1>3. \A i \in Pings(0) :
        /\ Batch(i) \div LatencyCount \in 0 .. NumLatency - 1
        /\ Batch(i) = LatencyCount * (Batch(i) \div LatencyCount)
  BY <1>1, <1>2, BatchHasPlace DEF PlanInv
<1>4. NumLatency \in Nat
  <2>1. NumIter \in Nat \ {0} /\ SamplesPerBatch \in Nat \ {0} /\ LatencyCount \in Nat \ {0}
    BY <1>1, PlanFacts
  <2> DEFINE n == NumIter \div SamplesPerBatch
  <2>2. n \in Nat
    BY <2>1, Division
  <2>3. n \div LatencyCount \in Nat
    BY <2>1, <2>2, Division
  <2> DEFINE q == n \div LatencyCount
  <2>4. NumLatency = q + (IF n % LatencyCount > 0 THEN 1 ELSE 0)
                       + (IF SamplesPerBatch > 1 THEN 1 ELSE 0)
    BY DEF NumLatency
  <2> HIDE DEF q, n
  <2>5. q \in Nat
    BY <2>3 DEF q
  <2> QED BY <2>4, <2>5
<1>5. place \in Injection(Pings(0), 0 .. NumLatency - 1)
  <2>1. place \in [Pings(0) -> 0 .. NumLatency - 1]
    BY <1>3
  <2>2. ASSUME NEW i \in Pings(0), NEW j \in Pings(0), place[i] = place[j]
        PROVE  i = j
    <3>1. Batch(i) = Batch(j)
      BY <1>3, <2>2
    <3> QED BY <3>1 DEF PlanInv
  <2>3. IsInjective(place)
    BY <2>2 DEF IsInjective
  <2> QED BY <2>1, <2>3 DEF Injection
<1>6. IsFiniteSet(0 .. NumLatency - 1) /\ Cardinality(0 .. NumLatency - 1) = NumLatency
  <2>1. NumLatency - 1 \in Int
    BY <1>4
  <2>2. /\ IsFiniteSet(0 .. NumLatency - 1)
        /\ Cardinality(0 .. NumLatency - 1)
             = IF 0 > NumLatency - 1 THEN 0 ELSE (NumLatency - 1) - 0 + 1
    BY <2>1, FS_Interval
  <2> QED BY <1>4, <2>2
<1>7. Cardinality(Pings(0)) <= Cardinality(0 .. NumLatency - 1)
  BY <1>5, <1>6, FS_Injection
<1> QED BY <1>4, <1>6, <1>7

-----------------------------------------------------------------------------
(* The pongs, in the queue of the reader and counted.                       *)

PongKinds == {"INITIALIZE", "PONG"}

PongRecord ==
  [pongs : Seq(PongKinds), answers : Nat, counted : Nat, sized : BOOLEAN,
   given : BOOLEAN, lost : Nat]

Queued(pongs) == {i \in DOMAIN pongs : pongs[i] = "PONG"}

LEMMA QueuedFinite ==
  \A pongs \in Seq(PongKinds) :
    IsFiniteSet(Queued(pongs)) /\ Cardinality(Queued(pongs)) \in Nat
<1> SUFFICES ASSUME NEW pongs \in Seq(PongKinds)
             PROVE  IsFiniteSet(Queued(pongs)) /\ Cardinality(Queued(pongs)) \in Nat
  OBVIOUS
<1>1. DOMAIN pongs = 1 .. Len(pongs) /\ Len(pongs) \in Nat
  OBVIOUS
<1>2. IsFiniteSet(DOMAIN pongs) /\ Queued(pongs) \subseteq DOMAIN pongs
  BY <1>1, FS_Interval DEF Queued
<1> QED BY <1>2, FS_Subset, FS_CardinalityType

\* An echo joins the queue ...
LEMMA EchoQueued ==
  \A pongs \in Seq(PongKinds), kind \in PongKinds :
    /\ pongs \o <<kind>> \in Seq(PongKinds)
    /\ Cardinality(Queued(pongs \o <<kind>>))
         = Cardinality(Queued(pongs)) + (IF kind = "PONG" THEN 1 ELSE 0)
<1> SUFFICES ASSUME NEW pongs \in Seq(PongKinds), NEW kind \in PongKinds
             PROVE  /\ pongs \o <<kind>> \in Seq(PongKinds)
                    /\ Cardinality(Queued(pongs \o <<kind>>))
                         = Cardinality(Queued(pongs)) + (IF kind = "PONG" THEN 1 ELSE 0)
  OBVIOUS
<1> DEFINE more == pongs \o <<kind>>
           n == Len(pongs)
<1>1. /\ more \in Seq(PongKinds) /\ n \in Nat /\ Len(more) = n + 1
      /\ \A i \in 1 .. n : more[i] = pongs[i]
      /\ more[n + 1] = kind
  OBVIOUS
<1>2. DOMAIN pongs = 1 .. n /\ DOMAIN more = 1 .. n + 1
  BY <1>1
<1>3. IsFiniteSet(Queued(pongs)) /\ Cardinality(Queued(pongs)) \in Nat
  BY QueuedFinite
<1> HIDE DEF more, n
<1>4. n + 1 \notin Queued(pongs)
  BY <1>1, <1>2 DEF Queued
<1>5. CASE kind = "PONG"
  <2>1. Queued(more) = Queued(pongs) \cup {n + 1}
    BY <1>1, <1>2, <1>5 DEF Queued
  <2>2. Cardinality(Queued(more)) = Cardinality(Queued(pongs)) + 1
    BY <1>3, <1>4, <2>1, FS_AddElement
  <2> QED BY <1>1, <1>5, <2>2 DEF more
<1>6. CASE kind # "PONG"
  <2>1. Queued(more) = Queued(pongs)
    BY <1>1, <1>2, <1>6 DEF Queued
  <2> QED BY <1>1, <1>3, <1>6, <2>1 DEF more
<1> QED BY <1>5, <1>6

\* ... and the first one leaves it.
LEMMA TailQueued ==
  \A pongs \in Seq(PongKinds) :
    pongs # <<>> =>
      /\ Tail(pongs) \in Seq(PongKinds) /\ Head(pongs) \in PongKinds
      /\ Cardinality(Queued(pongs))
           = Cardinality(Queued(Tail(pongs))) + (IF Head(pongs) = "PONG" THEN 1 ELSE 0)
<1> SUFFICES ASSUME NEW pongs \in Seq(PongKinds), pongs # <<>>
             PROVE  /\ Tail(pongs) \in Seq(PongKinds) /\ Head(pongs) \in PongKinds
                    /\ Cardinality(Queued(pongs))
                         = Cardinality(Queued(Tail(pongs)))
                             + (IF Head(pongs) = "PONG" THEN 1 ELSE 0)
  OBVIOUS
<1> DEFINE rest == Tail(pongs)
           n == Len(pongs)
           behind == Queued(pongs) \ {1}
           shift == [i \in Queued(rest) |-> i + 1]
<1>1. /\ rest \in Seq(PongKinds) /\ Head(pongs) \in PongKinds /\ Head(pongs) = pongs[1]
      /\ n \in Nat \ {0} /\ Len(rest) = n - 1
      /\ \A i \in 1 .. n - 1 : rest[i] = pongs[i + 1]
  OBVIOUS
<1>2. DOMAIN pongs = 1 .. n /\ DOMAIN rest = 1 .. n - 1
  BY <1>1
<1>3. /\ IsFiniteSet(Queued(pongs)) /\ Cardinality(Queued(pongs)) \in Nat
      /\ IsFiniteSet(Queued(rest)) /\ Cardinality(Queued(rest)) \in Nat
  BY <1>1, QueuedFinite
<1> HIDE DEF rest, n
<1>4. shift \in Bijection(Queued(rest), behind)
  <2>1. ASSUME NEW i \in Queued(rest) PROVE i \in Nat /\ i + 1 \in behind
    BY <1>1, <1>2 DEF Queued
  <2>2. \A i, j \in Queued(rest) : shift[i] = shift[j] => i = j
    BY <2>1
  <2>3. ASSUME NEW j \in behind PROVE \E i \in Queued(rest) : shift[i] = j
    <3>1. j - 1 \in 1 .. n - 1 /\ pongs[j] = "PONG" /\ (j - 1) + 1 = j
      BY <1>1, <1>2 DEF Queued
    <3>2. j - 1 \in Queued(rest)
      BY <1>1, <1>2, <3>1 DEF Queued
    <3> QED BY <3>1, <3>2
  <2>4. shift \in [Queued(rest) -> behind]
    BY <2>1
  <2> QED BY <2>2, <2>3, <2>4 DEF Bijection, Injection, Surjection, IsInjective
<1>5. Cardinality(behind) = Cardinality(Queued(rest))
  BY <1>3, <1>4, FS_Bijection DEF ExistsBijection
<1>6. 1 \in Queued(pongs) <=> Head(pongs) = "PONG"
  BY <1>1, <1>2 DEF Queued
<1>7. Cardinality(behind)
        = IF 1 \in Queued(pongs) THEN Cardinality(Queued(pongs)) - 1
                                 ELSE Cardinality(Queued(pongs))
  BY <1>3, FS_RemoveElement
<1> HIDE DEF behind
<1> QED BY <1>1, <1>3, <1>5, <1>6, <1>7 DEF rest

\* The pings that have arrived at the subscribers they are for.
Answered == {i \in Pings(0) : read[0][pub[0].asked[i]] >= pub[0].burst + i}

\* One subscriber echoes a ping, as one, and the listener knows the echo as a pong.
OneEcho == ~UseCft /\ DataSize = "DATA"

\* A pong answers a ping that has arrived; while publisher 0 sends, each one is in the
\* queue of its reader or was counted, except for the first.
PongInv ==
  /\ latency \in PongRecord
  /\ OneEcho => latency.answers <= Cardinality(Answered)
  /\ OneEcho /\ ~PubReadThread /\ ~ClockSkew /\ ~PubStopped(0) /\ latency.lost = 0 =>
       latency.answers = latency.counted + (IF latency.sized THEN 1 ELSE 0)
                           + Cardinality(Queued(latency.pongs))

LEMMA InitPongs == Init => PlanInv /\ PongInv
<1> SUFFICES ASSUME Init PROVE PlanInv /\ PongInv
  OBVIOUS
<1>1. \A p \in Pubs : pub[p].asked = <<>> /\ pub[p].loop = 0 /\ Pings(p) = {}
  BY DEF Init, Pings
<1>2. mode \in Modes /\ 0 \in Pubs /\ NumIter \in Nat
  BY Counts, PlanFacts DEF Init
<1>3. PlanInv
  BY <1>1, <1>2 DEF PlanInv
<1>4. latency.pongs = <<>> /\ latency \in PongRecord
  BY DEF Init, PongRecord
<1>5. Queued(latency.pongs) = {} /\ Answered = {}
  BY <1>1, <1>2, <1>4 DEF Queued, Answered
<1>6. Cardinality(Queued(latency.pongs)) = 0 /\ Cardinality(Answered) = 0
  BY <1>5, FS_EmptySet
<1>7. latency.answers = 0 /\ latency.counted = 0 /\ ~latency.sized
  BY DEF Init
<1> QED BY <1>3, <1>4, <1>6, <1>7 DEF PongInv

\* Nothing is sent by a sending loop; publisher 0 does not go back to an earlier part
\* of its run.
SamePlan ==
  /\ UNCHANGED mode
  /\ \A q \in Pubs : pub'[q].asked = pub[q].asked /\ pub'[q].loop = pub[q].loop
  /\ pub'[0].burst = pub[0].burst \/ pub[0].loop = 0
  /\ pub'[0].pc \in Early => pub[0].pc \in Early
  /\ PubStopped(0) => PubStopped(0)'

ReadsOn == \A q \in Pubs, s \in Subs : read[q][s] <= read'[q][s]

LEMMA PlanKept ==
  ASSUME PlanInv, SamePlan
  PROVE  PlanInv' /\ \A q \in Pubs : Pings(q)' = Pings(q)
<1>1. /\ mode' = mode /\ NumIter' = NumIter /\ SamplesPerBatch' = SamplesPerBatch
      /\ LatencyCount' = LatencyCount
  BY DEF SamePlan, NumIter, SamplesPerBatch, LatencyCount
<1>2. \A q \in Pubs : Pings(q)' = Pings(q)
  BY DEF SamePlan, Pings
<1>3. \A i : Batch(i)' = Batch(i)
  BY <1>1 DEF Batch
<1>4. 0 \in Pubs
  BY Counts
<1> QED BY <1>1, <1>2, <1>3, <1>4 DEF PlanInv, SamePlan

\* The pings that have arrived grow no fewer when the readers move on and the pings
\* that were sent stay.
LEMMA AnsweredGrows ==
  ASSUME TypeOK, TypeOK', PlanInv, ReadsOn,
         \A i \in Pings(0) : i \in Pings(0)' /\ pub'[0].asked[i] = pub[0].asked[i],
         pub'[0].burst = pub[0].burst \/ Pings(0) = {}
  PROVE  /\ Answered \subseteq Answered'
         /\ IsFiniteSet(Answered) /\ Cardinality(Answered) \in Nat
         /\ IsFiniteSet(Answered') /\ Cardinality(Answered') \in Nat
         /\ Cardinality(Answered) <= Cardinality(Answered')
<1>1. 0 \in Pubs /\ pub[0].burst \in Nat /\ read \in [Pubs -> [Subs -> Nat]]
      /\ read' \in [Pubs -> [Subs -> Nat]]
  BY Counts DEF TypeOK, PubRecord
<1>2. IsFiniteSet(Pings(0)) /\ IsFiniteSet(Pings(0)') /\ Pings(0) \subseteq Nat
  <2>1. IsFiniteSet(Pings(0)) /\ Pings(0) \subseteq 1 .. Len(pub[0].asked)
        /\ Len(pub[0].asked) \in Nat
    BY <1>1, AskedFacts
  <2>2. pub'[0].asked \in Seq(Int)
    BY <1>1 DEF TypeOK, PubRecord
  <2>3. DOMAIN pub'[0].asked = 1 .. Len(pub'[0].asked) /\ Len(pub'[0].asked) \in Nat
    BY <2>2
  <2>4. IsFiniteSet(DOMAIN pub'[0].asked) /\ Pings(0)' \subseteq DOMAIN pub'[0].asked
    BY <2>3, FS_Interval DEF Pings
  <2> QED BY <2>1, <2>4, FS_Subset
<1>3. Answered \subseteq Pings(0) /\ Answered' \subseteq Pings(0)'
  BY DEF Answered
<1>4. IsFiniteSet(Answered) /\ IsFiniteSet(Answered')
  BY <1>2, <1>3, FS_Subset
<1>5. Answered \subseteq Answered'
  <2> SUFFICES ASSUME NEW i \in Answered PROVE i \in Answered'
    OBVIOUS
  <2>1. /\ i \in Pings(0) /\ i \in Nat /\ pub[0].asked[i] \in Subs
        /\ read[0][pub[0].asked[i]] >= pub[0].burst + i
        /\ pub'[0].burst = pub[0].burst
    BY <1>2 DEF Answered, PlanInv
  <2> DEFINE s == pub[0].asked[i]
             more == read'[0][s]
             less == read[0][s]
  <2>2. more \in Nat /\ less \in Nat /\ less <= more
    BY <1>1, <2>1 DEF ReadsOn
  <2>3. less >= pub[0].burst + i
    BY <2>1
  <2> HIDE DEF more, less
  <2>4. more >= pub[0].burst + i
    BY <1>1, <2>1, <2>2, <2>3
  <2> QED BY <2>1, <2>4 DEF Answered, more
<1> QED BY <1>4, <1>5, FS_Subset, FS_CardinalityType

\* Steps that neither echo nor count.
LEMMA PongsKept ==
  ASSUME TypeOK, TypeOK', PlanInv, PongInv, SamePlan, ReadsOn,
         latency' \in PongRecord, latency'.answers = latency.answers,
         \/ PubStopped(0)'
         \/ /\ latency'.pongs = latency.pongs /\ latency'.counted = latency.counted
            /\ latency'.sized = latency.sized /\ latency'.lost = latency.lost
  PROVE  PlanInv' /\ PongInv'
<1>1. PlanInv' /\ 0 \in Pubs /\ Pings(0)' = Pings(0)
  BY PlanKept, Counts
<1>2. pub'[0].burst = pub[0].burst \/ Pings(0) = {}
  <2>1. ASSUME pub[0].loop = 0 PROVE Pings(0) = {}
    BY <1>1, <2>1, AskedFacts DEF PlanInv
  <2> QED BY <2>1 DEF SamePlan
<1>3. /\ Cardinality(Answered) \in Nat /\ Cardinality(Answered') \in Nat
      /\ Cardinality(Answered) <= Cardinality(Answered')
  BY <1>1, <1>2, AnsweredGrows DEF SamePlan
<1>4. (OneEcho' <=> OneEcho) /\ PubReadThread' = PubReadThread /\ ClockSkew' = ClockSkew
  BY DEF SamePlan, OneEcho, UseCft, DataSize, PubReadThread, ClockSkew
<1>5. latency.answers \in Nat
  BY DEF PongInv, PongRecord
<1> DEFINE more == Cardinality(Answered')
<1>6. OneEcho' => latency'.answers <= Cardinality(Answered)'
  <2>1. more \in Nat /\ Cardinality(Answered) <= more
    BY <1>3
  <2> HIDE DEF more
  <2>2. OneEcho => latency.answers <= more
    BY <1>3, <1>5, <2>1 DEF PongInv
  <2> QED BY <1>4, <2>2 DEF more
<1>7. (OneEcho /\ ~PubReadThread /\ ~ClockSkew /\ ~PubStopped(0) /\ latency.lost = 0)' =>
        (latency.answers = latency.counted + (IF latency.sized THEN 1 ELSE 0)
                             + Cardinality(Queued(latency.pongs)))'
  <2> SUFFICES ASSUME OneEcho', ~PubReadThread', ~ClockSkew', ~PubStopped(0)',
                      latency'.lost = 0
               PROVE  latency'.answers = latency'.counted + (IF latency'.sized THEN 1 ELSE 0)
                                           + Cardinality(Queued(latency'.pongs))
    BY DEF Queued
  <2>1. OneEcho /\ ~PubReadThread /\ ~ClockSkew /\ ~PubStopped(0) /\ latency.lost = 0
    BY <1>4 DEF SamePlan
  <2> QED BY <2>1 DEF PongInv
<1> QED BY <1>1, <1>6, <1>7 DEF PongInv

\* Every step of a publisher but SendData.
LEMMA PubStepSamePlan ==
  ASSUME TypeOK, PlanInv, NEW p \in Pubs, PubStep(p) \/ Timeout(p), ~SendData(p),
         UNCHANGED mode
  PROVE  SamePlan
<1>1. /\ pub \in [Pubs -> PubRecord] /\ 0 \in Pubs
  BY Counts DEF TypeOK
<1>2. ASSUME NEW phase \in PubPhases, pub' = [pub EXCEPT ![p].pc = phase],
             phase \in Early => pub[p].pc \in Early,
             pub[p].pc \in {"finish", "ack", "done"} \cup PubClosing =>
               phase \in {"finish", "ack", "done"} \cup PubClosing
      PROVE  SamePlan
  <2>1. \A q \in Pubs : /\ pub'[q].asked = pub[q].asked /\ pub'[q].loop = pub[q].loop
                        /\ pub'[q].burst = pub[q].burst
                        /\ pub'[q].pc = IF q = p THEN phase ELSE pub[q].pc
    BY <1>1, <1>2 DEF PubRecord
  <2> QED BY <1>1, <1>2, <2>1 DEF SamePlan, PubStopped
<1>3. CASE CreatePublisher(p) \/ PubDiscovered(p) \/ PubAnnounced(p) \/ StartSending(p)
  <2>1. PICK phase \in {"discover", "failed", "announced", "burst", "data"} :
          pub' = [pub EXCEPT ![p].pc = phase] /\ pub[p].pc \in Early
    BY <1>3 DEF CreatePublisher, PubDiscovered, PubAnnounced, StartSending, PubGoto, Early
  <2>2. phase \in PubPhases
    BY DEF PubPhases
  <2> QED BY <1>2, <2>1, <2>2 DEF Early, PubClosing
<1>4. CASE \/ StopSending(p) \/ AckWaited(p) \/ PrintSummary(p) \/ DeleteListeners(p)
           \/ CloseAnnouncementReader(p) \/ (p = 0 /\ CloseReader)
  <2>1. PICK phase \in {"finish", "done"} \cup PubClosing :
          pub' = [pub EXCEPT ![p].pc = phase]
    BY <1>4 DEF StopSending, AckWaited, PrintSummary, DeleteListeners,
                CloseAnnouncementReader, CloseReader, PubGoto, PubClosing
  <2>2. phase \in PubPhases /\ phase \notin Early
    BY DEF PubPhases, PubClosing, Early
  <2> QED BY <1>2, <2>1, <2>2
<1>5. CASE p = 0 /\ PingAnswered
  <2>1. pub' = [pub EXCEPT ![p].pc = "data"] /\ pub[p].pc = "ping" /\ "data" \in PubPhases
    BY <1>5 DEF PingAnswered, PubPhases
  <2> QED BY <1>2, <2>1 DEF Early, PubClosing
<1>6. CASE SendInitialize(p)
  <2>1. pub[p].pc = "burst" /\ pub' = [pub EXCEPT ![p].burst = pub[p].burst + 1]
    BY <1>6 DEF SendInitialize
  <2>2. \A q \in Pubs : /\ pub'[q].asked = pub[q].asked /\ pub'[q].loop = pub[q].loop
                        /\ pub'[q].pc = pub[q].pc
                        /\ q # p => pub'[q].burst = pub[q].burst
    BY <1>1, <2>1 DEF PubRecord
  <2>3. p = 0 => pub[0].loop = 0
    BY <2>1 DEF PlanInv, Early
  <2> QED BY <1>1, <2>2, <2>3 DEF SamePlan, PubStopped
<1>7. CASE SendFinished(p)
  <2>1. pub[p].pc = "finish"
        /\ pub' = [pub EXCEPT ![p].tries = pub[p].tries + 1, ![p].pc = "ack"]
    BY <1>7 DEF SendFinished
  <2>2. \A q \in Pubs : /\ pub'[q].asked = pub[q].asked /\ pub'[q].loop = pub[q].loop
                        /\ pub'[q].burst = pub[q].burst
                        /\ pub'[q].pc = IF q = p THEN "ack" ELSE pub[q].pc
    BY <1>1, <2>1 DEF PubRecord
  <2> QED BY <1>1, <2>1, <2>2 DEF SamePlan, PubStopped, Early
<1>8. CASE Timeout(p)
  <2>1. pub' = [pub EXCEPT ![p].completed = TRUE]
    BY <1>8 DEF Timeout
  <2>2. \A q \in Pubs : /\ pub'[q].asked = pub[q].asked /\ pub'[q].loop = pub[q].loop
                        /\ pub'[q].burst = pub[q].burst /\ pub'[q].pc = pub[q].pc
    BY <1>1, <2>1 DEF PubRecord
  <2> QED BY <1>1, <2>2 DEF SamePlan, PubStopped
<1> QED BY <1>3, <1>4, <1>5, <1>6, <1>7, <1>8 DEF PubStep

PongsInvs == TypeOK /\ PlanInv /\ PongInv

\* A publisher only counts when it prints its summary, after its sending loop.
LEMMA PubStepKeepsPongs ==
  ASSUME PongsInvs, NEW p \in Pubs, PubStep(p) \/ Timeout(p), ~SendData(p), UNCHANGED mode
  PROVE  PlanInv' /\ PongInv'
<1>1. TypeOK /\ TypeOK' /\ PlanInv /\ PongInv /\ SamePlan /\ latency \in PongRecord
  BY PubStepTyped, PubStepSamePlan DEF PongsInvs, PongInv
<1>2. ReadsOn
  <2>1. read' = read
    BY DEF PubStep, PubGoto, CreatePublisher, PubDiscovered, PubAnnounced, SendInitialize,
           StartSending, PingAnswered, StopSending, SendFinished, AckWaited,
           PrintSummary, DeleteListeners, CloseReader, CloseAnnouncementReader, Timeout
  <2> QED BY <1>1, <2>1 DEF ReadsOn, TypeOK
<1>3. CASE p = 0 /\ PrintSummary(p)
  <2>1. latency' = [latency EXCEPT !.counted = 0] /\ pub' = [pub EXCEPT ![0].pc = "closing"]
    BY <1>3 DEF PrintSummary, AfterSummary
  <2>2. PubStopped(0)'
    BY <1>1, <2>1, Counts DEF PubStopped, PubClosing, TypeOK, PubRecord
  <2>3. latency' \in PongRecord /\ latency'.answers = latency.answers
    BY <1>1, <2>1 DEF PongRecord
  <2> QED BY <1>1, <1>2, <2>2, <2>3, PongsKept
<1>4. CASE p = 0 /\ PingAnswered
  <2>1. latency' = [latency EXCEPT !.given = FALSE]
    BY <1>4 DEF PingAnswered
  <2>2. /\ latency' \in PongRecord /\ latency'.answers = latency.answers
        /\ latency'.pongs = latency.pongs /\ latency'.counted = latency.counted
        /\ latency'.sized = latency.sized /\ latency'.lost = latency.lost
    BY <1>1, <2>1 DEF PongRecord
  <2> QED BY <1>1, <1>2, <2>2, PongsKept
<1>5. CASE ~(p = 0 /\ (PrintSummary(p) \/ PingAnswered))
  <2>1. latency' = latency
    BY <1>5 DEF PubStep, PubGoto, CreatePublisher, PubDiscovered, PubAnnounced,
                SendInitialize, StartSending, StopSending, SendFinished, AckWaited,
                PrintSummary, DeleteListeners, CloseReader, CloseAnnouncementReader, Timeout
  <2> QED BY <1>1, <1>2, <2>1, PongsKept
<1> QED BY <1>3, <1>4, <1>5

\* NextPing asks for a pong only when the batch has had none.
LEMMA NextPingFacts ==
  ASSUME TypeOK, PlanInv, NEW p \in Pubs, NextPing(p) # NoPing
  PROVE  /\ p = 0 /\ NextPing(p) \in Subs
         /\ (pub[0].loop \div SamplesPerBatch) % LatencyCount = 0
         /\ \A i \in Pings(0) : Batch(i) # pub[0].loop \div SamplesPerBatch
<1>1. /\ p = 0 /\ (pub[0].loop \div SamplesPerBatch) % LatencyCount = 0
      /\ ~ \E i \in Pings(p) : (i - 1) \div SamplesPerBatch = pub[p].loop \div SamplesPerBatch
      /\ NextPing(p) = Cardinality(Pings(p)) % NumSubscribers
  BY DEF NextPing
<1>2. Cardinality(Pings(p)) \in Nat /\ NumSubscribers \in Nat \ {0}
  BY AskedFacts, Counts
<1>3. NextPing(p) \in 0 .. NumSubscribers - 1
  BY <1>1, <1>2, Division
<1> QED BY <1>1, <1>3 DEF Subs, Batch

LEMMA SendDataKeepsPongs ==
  ASSUME PongsInvs, NEW p \in Pubs, SendData(p), UNCHANGED mode
  PROVE  PlanInv' /\ PongInv'
<1> DEFINE ask == NextPing(p)
           n == pub[p].loop
<1>1. /\ TypeOK /\ TypeOK' /\ PlanInv /\ PongInv /\ 0 \in Pubs
      /\ pub \in [Pubs -> PubRecord] /\ ask \in Int /\ n \in Nat
      /\ pub[p].asked \in Seq(Int) /\ Len(pub[p].asked) = n
  BY PubStepTyped, Counts, NextPingType DEF PongsInvs, PubStep, TypeOK, PubRecord, PlanInv
<1>2. PICK phase \in {"ping", "data"} :
        pub' = [pub EXCEPT ![p] = [pub[p] EXCEPT !.loop = n + 1,
                                     !.asked = Append(pub[p].asked, ask), !.pc = phase]]
  BY <1>1 DEF SendData
<1>3. n < NumIter /\ pub[p].pc = "data" /\ UNCHANGED <<read, latency>>
  BY DEF SendData
<1>4. ask # NoPing =>
        /\ p = 0 /\ ask \in Subs /\ (n \div SamplesPerBatch) % LatencyCount = 0
        /\ \A i \in Pings(0) : Batch(i) # n \div SamplesPerBatch
  BY <1>1, NextPingFacts
<1> HIDE DEF ask
<1>5. /\ \A q \in Pubs : q # p => pub'[q] = pub[q]
      /\ pub'[p].loop = n + 1 /\ pub'[p].asked = Append(pub[p].asked, ask)
      /\ pub'[p].pc = phase /\ pub'[p].burst = pub[p].burst
  BY <1>1, <1>2 DEF PubRecord
<1>6. /\ Len(pub'[p].asked) = n + 1 /\ pub'[p].asked[n + 1] = ask
      /\ \A i \in 1 .. n : pub'[p].asked[i] = pub[p].asked[i]
      /\ DOMAIN pub'[p].asked = 1 .. n + 1 /\ DOMAIN pub[p].asked = 1 .. n
  <2> DEFINE more == Append(pub[p].asked, ask)
  <2>1. /\ Len(more) = n + 1 /\ more[n + 1] = ask /\ DOMAIN more = 1 .. n + 1
        /\ \A i \in 1 .. n : more[i] = pub[p].asked[i]
    BY <1>1
  <2>2. DOMAIN pub[p].asked = 1 .. n
    BY <1>1
  <2> QED BY <1>5, <2>1, <2>2
<1>7. Pings(p)' = Pings(p) \cup (IF ask = NoPing THEN {} ELSE {n + 1})
  <2>1. Pings(p)' = {i \in 1 .. n + 1 : pub'[p].asked[i] # NoPing}
    BY <1>6 DEF Pings
  <2>2. Pings(p) = {i \in 1 .. n : pub[p].asked[i] # NoPing}
    BY <1>6 DEF Pings
  <2>3. 1 .. n + 1 = (1 .. n) \cup {n + 1}
    BY <1>1
  <2>4. CASE ask = NoPing
    BY <1>6, <2>1, <2>2, <2>3, <2>4
  <2>5. CASE ask # NoPing
    BY <1>6, <2>1, <2>2, <2>3, <2>5
  <2> QED BY <2>4, <2>5
<1>8. \A q \in Pubs : q # p => Pings(q)' = Pings(q)
  BY <1>5 DEF Pings
<1>9. /\ mode' = mode /\ NumIter' = NumIter /\ \A i : Batch(i)' = Batch(i)
      /\ LatencyCount' = LatencyCount /\ NumIter \in Nat
      /\ (OneEcho' <=> OneEcho) /\ PubReadThread' = PubReadThread /\ ClockSkew' = ClockSkew
  BY <1>1, PlanFacts DEF PlanInv, NumIter, Batch, SamplesPerBatch, LatencyCount,
         OneEcho, UseCft, DataSize, PubReadThread, ClockSkew
<1>10. Batch(n + 1) = n \div SamplesPerBatch
  BY <1>1 DEF Batch
<1>11. \A i \in Pings(0) : pub'[0].asked[i] = pub[0].asked[i]
  <2>1. CASE p = 0
    <3>1. Pings(0) \subseteq 1 .. n
      BY <1>1, <2>1, AskedFacts
    <3> QED BY <1>6, <2>1, <3>1
  <2>2. CASE p # 0
    BY <1>1, <1>5, <2>2
  <2> QED BY <2>1, <2>2
<1>12. \A q \in Pubs : Len(pub'[q].asked) = pub'[q].loop /\ pub'[q].loop <= NumIter
  <2>1. n + 1 <= NumIter
    BY <1>1, <1>3, <1>9
  <2> QED BY <1>1, <1>5, <1>6, <2>1 DEF PlanInv
<1>13. \A q \in Pubs \ {0} : Pings(q)' = {}
  <2>1. p # 0 => ask = NoPing
    BY <1>4
  <2> QED BY <1>1, <1>7, <1>8, <2>1 DEF PlanInv
<1>14. ASSUME NEW i \in Pings(0)', i \notin Pings(0)
       PROVE  i = n + 1 /\ p = 0 /\ ask # NoPing
  BY <1>1, <1>7, <1>8, <1>14
<1>15. \A i \in Pings(0)' : pub'[0].asked[i] \in Subs /\ Batch(i) % LatencyCount = 0
  <2> SUFFICES ASSUME NEW i \in Pings(0)'
               PROVE  pub'[0].asked[i] \in Subs /\ Batch(i) % LatencyCount = 0
    OBVIOUS
  <2>1. CASE i \in Pings(0)
    BY <1>1, <1>11, <2>1 DEF PlanInv
  <2>2. CASE i \notin Pings(0)
    BY <1>4, <1>6, <1>10, <1>14, <2>2
  <2> QED BY <2>1, <2>2
<1>16. \A i, j \in Pings(0)' : Batch(i) = Batch(j) => i = j
  <2> SUFFICES ASSUME NEW i \in Pings(0)', NEW j \in Pings(0)', Batch(i) = Batch(j)
               PROVE  i = j
    OBVIOUS
  <2>1. CASE i \in Pings(0) /\ j \in Pings(0)
    BY <1>1, <2>1 DEF PlanInv
  <2>2. CASE i \notin Pings(0) /\ j \notin Pings(0)
    BY <1>14, <2>2
  <2>3. CASE i \notin Pings(0) /\ j \in Pings(0)
    BY <1>4, <1>10, <1>14, <2>3
  <2>4. CASE i \in Pings(0) /\ j \notin Pings(0)
    BY <1>4, <1>10, <1>14, <2>4
  <2> QED BY <2>1, <2>2, <2>3, <2>4
<1>17. pub'[0].pc \in Early => pub'[0].loop = 0
  <2>1. CASE p = 0
    BY <1>5, <2>1 DEF Early
  <2>2. CASE p # 0
    BY <1>1, <1>5, <2>2 DEF PlanInv
  <2> QED BY <2>1, <2>2
<1>18. PlanInv'
  <2>1. mode \in Modes
    BY <1>1 DEF PlanInv
  <2> QED BY <1>9, <1>12, <1>13, <1>15, <1>16, <1>17, <2>1 DEF PlanInv
<1>19. PubStopped(0) => PubStopped(0)'
  <2>1. CASE p = 0
    BY <1>3, <2>1 DEF PubStopped, PubClosing
  <2>2. CASE p # 0
    BY <1>1, <1>5, <2>2 DEF PubStopped
  <2> QED BY <2>1, <2>2
<1>20. /\ Cardinality(Answered) \in Nat /\ Cardinality(Answered') \in Nat
       /\ Cardinality(Answered) <= Cardinality(Answered')
  <2>1. ReadsOn
    BY <1>1, <1>3 DEF ReadsOn, TypeOK
  <2>2. \A i \in Pings(0) : i \in Pings(0)' /\ pub'[0].asked[i] = pub[0].asked[i]
    BY <1>7, <1>8, <1>1, <1>11
  <2>3. pub'[0].burst = pub[0].burst
    BY <1>1, <1>5
  <2> QED BY <1>1, <2>1, <2>2, <2>3, AnsweredGrows
<1>21. PongInv'
  <2> DEFINE more == Cardinality(Answered')
  <2>1. more \in Nat /\ Cardinality(Answered) <= more /\ latency.answers \in Nat
    BY <1>1, <1>20 DEF PongInv, PongRecord
  <2> HIDE DEF more
  <2>2. OneEcho => latency.answers <= more
    BY <1>1, <1>20, <2>1 DEF PongInv
  <2> QED BY <1>1, <1>3, <1>9, <1>19, <2>2 DEF PongInv, more, Queued
<1> QED BY <1>18, <1>21

\* What leaves the publishers where they are.
LEMMA StillPlan ==
  ASSUME TypeOK, UNCHANGED <<mode, pub>>
  PROVE  SamePlan /\ (UNCHANGED read => ReadsOn)
<1>1. read \in [Pubs -> [Subs -> Nat]]
  BY DEF TypeOK
<1> QED BY <1>1 DEF SamePlan, ReadsOn, PubStopped

LEMMA SubStepKeepsPongs ==
  ASSUME PongsInvs, NEW s \in Subs, SubStep(s), UNCHANGED mode
  PROVE  PlanInv' /\ PongInv'
<1>1. UNCHANGED <<pub, read, latency>>
  BY DEF SubStep, SubGoto, CreateSubscriber, AnnounceSubscriber, SubFinish, DeleteWriters,
         SubExit
<1>2. TypeOK /\ TypeOK' /\ PlanInv /\ PongInv /\ latency' \in PongRecord
  BY <1>1, SubStepTyped DEF PongsInvs, PongInv
<1>3. SamePlan /\ ReadsOn
  BY <1>1, <1>2, StillPlan
<1> QED BY <1>1, <1>2, <1>3, PongsKept

LEMMA NetworkStepKeepsPongs ==
  ASSUME PongsInvs, NEW p \in Pubs, NEW s \in Subs, NetworkStep(p, s), UNCHANGED mode
  PROVE  PlanInv' /\ PongInv'
<1>1. UNCHANGED latency
  BY DEF NetworkStep, Match, Unmatch, LoseSample, ProcessAnnouncement
<1>2. TypeOK /\ TypeOK' /\ PlanInv /\ PongInv /\ latency' \in PongRecord /\ 0 \in Pubs
  BY <1>1, NetworkTyped, Counts DEF PongsInvs, PongInv, NetworkStep
<1>3. \A q \in Pubs : pub'[q].asked = pub[q].asked
  <2>1. \/ pub' = pub
        \/ \E S : pub' = [pub EXCEPT ![p].sees = S]
        \/ \E L : pub' = [pub EXCEPT ![p].list = L]
    BY DEF NetworkStep, Match, Unmatch, LoseSample, ProcessAnnouncement
  <2>2. pub \in [Pubs -> PubRecord]
    BY <1>2 DEF TypeOK
  <2>3. CASE pub' = pub
    BY <2>3
  <2>4. CASE \E S : pub' = [pub EXCEPT ![p].sees = S]
    BY <2>2, <2>4 DEF PubRecord
  <2>5. CASE \E L : pub' = [pub EXCEPT ![p].list = L]
    BY <2>2, <2>5 DEF PubRecord
  <2> QED BY <2>1, <2>3, <2>4, <2>5
<1>4. SamePlan
  <2>1. \A q \in Pubs : /\ pub'[q].pc = pub[q].pc /\ pub'[q].burst = pub[q].burst
                        /\ pub'[q].loop = pub[q].loop
    BY <1>2, NetworkLeaves
  <2> QED BY <1>2, <1>3, <2>1 DEF SamePlan, PubStopped
<1>5. ReadsOn
  <2>1. \A q \in Pubs, t \in Subs :
          read[q][t] \in Nat /\ read'[q][t] \in {read[q][t], read[q][t] + 1}
    BY <1>2, NetworkLeaves
  <2> QED BY <2>1 DEF ReadsOn
<1> QED BY <1>1, <1>2, <1>4, <1>5, PongsKept

LEMMA LosePongKeepsPongs ==
  ASSUME PongsInvs, LosePong, UNCHANGED mode
  PROVE  PlanInv' /\ PongInv'
<1>1. /\ latency.pongs # <<>>
      /\ latency' = [latency EXCEPT !.pongs = Tail(latency.pongs), !.lost = latency.lost + 1]
      /\ UNCHANGED <<pub, sub, read, heard>>
  BY DEF LosePong
<1>2. TypeOK /\ TypeOK' /\ PlanInv /\ PongInv /\ latency \in PongRecord
  BY <1>1 DEF PongsInvs, PongInv, TypeOK
<1>3. Tail(latency.pongs) \in Seq(PongKinds) /\ latency.lost + 1 \in Nat \ {0}
  BY <1>1, <1>2, TailQueued DEF PongRecord
<1>4. /\ latency' \in PongRecord /\ latency'.answers = latency.answers
      /\ latency'.lost # 0
  BY <1>1, <1>2, <1>3 DEF PongRecord
<1>5. PlanInv' /\ (OneEcho' <=> OneEcho) /\ Answered' = Answered
  <2>1. SamePlan
    BY <1>1, <1>2, StillPlan
  <2>2. PlanInv'
    BY <1>2, <2>1, PlanKept
  <2> QED BY <1>1, <2>2 DEF OneEcho, UseCft, DataSize, Answered, Pings
<1> QED BY <1>2, <1>4, <1>5 DEF PongInv

\* Without a filter, the subscriber that a ping is for is the one that echoes it.
LEMMA EchoFacts ==
  ASSUME TypeOK, PlanInv, NEW p \in Pubs, NEW s \in Subs, ProcessMessage(s, p)
  PROVE  LET echo == Echo(s, p, read[p][s] + 1)
         IN /\ echo \in {<<>>, <<"INITIALIZE">>, <<"PONG">>}
            /\ OneEcho =>
                 (echo = <<"PONG">> <=> echo # <<>> /\ read[p][s] + 1 > pub[p].burst)
            /\ echo = <<"PONG">> /\ OneEcho =>
                 p = 0 /\ \E j \in Pings(0) :
                            pub[0].asked[j] = s /\ read[0][s] + 1 = pub[0].burst + j
<1> DEFINE i == read[p][s] + 1
           j == i - pub[p].burst
           echo == Echo(s, p, i)
<1>1. echo \in {<<>>, <<"INITIALIZE">>, <<"PONG">>}
  BY DEF Echo
<1>2. ASSUME echo = <<"PONG">>, OneEcho
      PROVE  p = 0 /\ \E k \in Pings(0) :
                        pub[0].asked[k] = s /\ read[0][s] + 1 = pub[0].burst + k
  <2>1. /\ read[p][s] \in Nat /\ pub[p].burst \in Nat /\ pub[p].loop \in Nat
        /\ s # NoPing
    <3>1. read[p][s] \in Nat
      BY DEF TypeOK
    <3>2. pub[p].burst \in Nat /\ pub[p].loop \in Nat
      BY DEF TypeOK, PubRecord
    <3>3. s \in 0 .. NumSubscribers - 1 /\ NumSubscribers \in Nat \ {0}
      BY Counts DEF Subs
    <3>4. s # NoPing
      BY <3>3 DEF NoPing
    <3> QED BY <3>1, <3>2, <3>4
  <2>2. LatencyPing(p, i) = s
    <3>1. <<"PONG">> # <<"INITIALIZE">> /\ <<"PONG">> # <<>>
      <4>1. <<"PONG">>[1] # <<"INITIALIZE">>[1]
        OBVIOUS
      <4> QED BY <4>1
    <3> QED BY <1>2, <3>1 DEF Echo, OneEcho
  <2>3. Kind(p, i) = "DATA" /\ pub[p].asked[j] = s
    BY <2>1, <2>2 DEF LatencyPing
  <2>4. j \in 1 .. pub[p].loop
    BY <2>1, <2>3 DEF Kind
  <2>5. DOMAIN pub[p].asked = 1 .. pub[p].loop
    BY AskedFacts DEF PlanInv
  <2>6. j \in Pings(p)
    BY <2>1, <2>3, <2>4, <2>5 DEF Pings
  <2>7. p = 0
    BY <2>6 DEF PlanInv
  <2>8. i = pub[p].burst + j
    BY <2>1
  <2> QED BY <2>3, <2>6, <2>7, <2>8
<1>3. ASSUME OneEcho PROVE echo = <<"PONG">> <=> echo # <<>> /\ i > pub[p].burst
  <2>1. i \in Nat /\ pub[p].burst \in Nat /\ pub[p].loop \in Nat /\ DataSize = "DATA"
    BY <1>3 DEF TypeOK, PubRecord, OneEcho
  <2>2. Kind(p, i) = "INITIALIZE" <=> ~(i > pub[p].burst)
    BY <2>1 DEF Kind
  <2>3. <<"PONG">> # <<"INITIALIZE">> /\ <<"PONG">> # <<>>
    <3>1. <<"PONG">>[1] # <<"INITIALIZE">>[1]
      OBVIOUS
    <3> QED BY <3>1
  <2>4. ASSUME Kind(p, i) = "INITIALIZE" PROVE echo = <<"INITIALIZE">>
    <3>1. LatencyPing(p, i) = NoPing
      BY <2>4 DEF LatencyPing
    <3>2. s \in 0 .. NumSubscribers - 1 /\ NumSubscribers \in Nat \ {0}
      BY Counts DEF Subs
    <3>3. s # NoPing
      BY <3>2 DEF NoPing
    <3>4. ~(LatencyPing(p, i) = s \/ (UseCft /\ LatencyPing(p, i) # NoPing))
      BY <3>1, <3>3
    <3> HIDE DEF i
    <3> QED BY <2>4, <3>4 DEF Echo
  <2>5. Kind(p, i) # "INITIALIZE" => echo \in {<<>>, <<"PONG">>}
    BY DEF Echo
  <2> HIDE DEF echo, i
  <2> QED BY <2>2, <2>3, <2>4, <2>5
<1> QED BY <1>1, <1>2, <1>3

LEMMA ProcessMessageKeepsPongs ==
  ASSUME PongsInvs, NEW p \in Pubs, NEW s \in Subs, ProcessMessage(s, p), UNCHANGED mode
  PROVE  PlanInv' /\ PongInv'
<1> DEFINE echo == IF Listens(s) THEN Echo(s, p, read[p][s] + 1) ELSE <<>>
           grown == IF echo # <<>> /\ read[p][s] + 1 > pub[p].burst
                      THEN latency.answers + 1 ELSE latency.answers
<1>1. /\ TypeOK /\ TypeOK' /\ PlanInv /\ PongInv /\ latency \in PongRecord /\ 0 \in Pubs
      /\ pub' = pub /\ SamePlan
  BY NetworkTyped, StillPlan, Counts DEF PongsInvs, PongInv, ProcessMessage
<1>2. read \in [Pubs -> [Subs -> Nat]] /\ read' = [read EXCEPT ![p][s] = read[p][s] + 1]
  BY <1>1 DEF TypeOK, ProcessMessage
<1>3. ReadsOn
  BY <1>2 DEF ReadsOn
<1>4. latency' = IF LatencyReaderOpen
                 THEN [latency EXCEPT !.pongs = latency.pongs \o echo, !.answers = grown]
                 ELSE latency
  BY DEF ProcessMessage
<1>5. /\ echo \in {<<>>, <<"INITIALIZE">>, <<"PONG">>}
      /\ echo = <<"PONG">> /\ OneEcho =>
           p = 0 /\ \E j \in Pings(0) :
                      pub[0].asked[j] = s /\ read[0][s] + 1 = pub[0].burst + j
      /\ OneEcho =>
           (echo = <<"PONG">> <=> echo # <<>> /\ read[p][s] + 1 > pub[p].burst)
  <2>1. <<>> # <<"PONG">>
    OBVIOUS
  <2> QED BY <1>1, <2>1, EchoFacts
<1> HIDE DEF echo, grown
<1>6. CASE ~LatencyReaderOpen
  BY <1>1, <1>3, <1>4, <1>6, PongsKept
<1>7. /\ latency.pongs \in Seq(PongKinds) /\ latency.answers \in Nat
      /\ Cardinality(Queued(latency.pongs)) \in Nat
  BY <1>1, QueuedFinite DEF PongRecord
<1>8. CASE LatencyReaderOpen /\ echo = <<>>
  <2>1. latency.pongs \o echo = latency.pongs /\ grown = latency.answers
    BY <1>7, <1>8 DEF grown
  <2>2. latency' = latency
    BY <1>1, <1>4, <1>8, <2>1 DEF PongRecord
  <2> QED BY <1>1, <1>3, <2>2, PongsKept
<1>9. CASE LatencyReaderOpen /\ echo # <<>>
  <2>1. PICK kind \in PongKinds : echo = <<kind>>
    BY <1>5, <1>9 DEF PongKinds
  <2> DEFINE a == IF kind = "PONG" THEN 1 ELSE 0
  <2>2. /\ latency.pongs \o echo \in Seq(PongKinds)
        /\ Cardinality(Queued(latency.pongs \o echo))
             = Cardinality(Queued(latency.pongs)) + a
    BY <1>7, <2>1, EchoQueued
  <2>3. echo = <<"PONG">> <=> kind = "PONG"
    <3>1. <<kind>>[1] = kind /\ <<"PONG">>[1] = "PONG"
      OBVIOUS
    <3> QED BY <2>1, <3>1
  <2>4. grown \in Nat /\ (OneEcho => grown = latency.answers + a)
    BY <1>5, <1>7, <2>3 DEF grown
  <2>5. /\ latency' \in PongRecord /\ latency'.pongs = latency.pongs \o echo
        /\ latency'.answers = grown
        /\ latency'.counted = latency.counted /\ latency'.sized = latency.sized
        /\ latency'.lost = latency.lost
    BY <1>1, <1>4, <1>9, <2>2, <2>4 DEF PongRecord
  <2>6. PlanInv' /\ Pings(0)' = Pings(0)
        /\ (OneEcho' <=> OneEcho) /\ PubReadThread' = PubReadThread /\ ClockSkew' = ClockSkew
    BY <1>1, PlanKept DEF OneEcho, UseCft, DataSize, PubReadThread, ClockSkew
  <2>7. /\ Answered \subseteq Answered'
        /\ IsFiniteSet(Answered) /\ Cardinality(Answered) \in Nat
        /\ IsFiniteSet(Answered') /\ Cardinality(Answered') \in Nat
        /\ Cardinality(Answered) <= Cardinality(Answered')
    BY <1>1, <1>3, <2>6, AnsweredGrows
  <2> DEFINE more == Cardinality(Answered')
  <2>8. OneEcho => Cardinality(Answered) + a <= more
    <3>1. CASE kind # "PONG"
      BY <2>7, <3>1
    <3>2. CASE kind = "PONG" /\ OneEcho
      <4>1. PICK j \in Pings(0) :
              pub[0].asked[j] = s /\ read[0][s] + 1 = pub[0].burst + j /\ p = 0
        BY <1>5, <2>3, <3>2
      <4>2. /\ j \in Nat /\ pub[0].burst \in Nat /\ read[0][s] \in Nat
            /\ read'[0][s] = read[0][s] + 1
        <5>1. Pings(0) \subseteq 1 .. Len(pub[0].asked) /\ Len(pub[0].asked) \in Nat
          BY <1>1, AskedFacts
        <5>2. pub[0].burst \in Nat
          BY <1>1 DEF TypeOK, PubRecord
        <5>3. j \in Nat
          BY <5>1
        <5> QED BY <1>1, <1>2, <4>1, <5>2, <5>3
      <4>3. j \notin Answered
        BY <4>1, <4>2 DEF Answered
      <4>4. j \in Answered'
        BY <1>1, <2>6, <4>1, <4>2 DEF Answered
      <4>5. Cardinality(Answered \cup {j}) = Cardinality(Answered) + 1
        BY <2>7, <4>3, FS_AddElement
      <4>6. Cardinality(Answered \cup {j}) <= more
        BY <2>7, <4>4, FS_Subset
      <4> QED BY <3>2, <4>5, <4>6
    <3> QED BY <3>1, <3>2
  <2>9. OneEcho => latency'.answers <= more
    <3>1. more \in Nat /\ Cardinality(Answered) \in Nat /\ a \in Nat
      BY <2>7
    <3> HIDE DEF more, a
    <3>2. OneEcho => latency.answers <= Cardinality(Answered)
      BY <1>1 DEF PongInv
    <3> QED BY <1>7, <2>4, <2>5, <2>8, <3>1, <3>2
  <2>10. OneEcho /\ ~PubReadThread /\ ~ClockSkew /\ ~PubStopped(0) /\ latency'.lost = 0 =>
           latency'.answers = latency'.counted + (IF latency'.sized THEN 1 ELSE 0)
                                + Cardinality(Queued(latency'.pongs))
    <3>1. latency.counted \in Nat /\ latency.sized \in BOOLEAN
      BY <1>1 DEF PongRecord
    <3>2. OneEcho /\ ~PubReadThread /\ ~ClockSkew /\ ~PubStopped(0) /\ latency.lost = 0 =>
            latency.answers = latency.counted + (IF latency.sized THEN 1 ELSE 0)
                                + Cardinality(Queued(latency.pongs))
      BY <1>1 DEF PongInv
    <3> DEFINE b == IF latency.sized THEN 1 ELSE 0
               c == Cardinality(Queued(latency.pongs))
    <3>3. b \in Nat /\ a \in Nat
      OBVIOUS
    <3>4. Cardinality(Queued(latency'.pongs)) = c + a
      BY <2>2, <2>5
    <3> HIDE DEF a, b, c
    <3>5. c \in Nat
      BY <1>7 DEF c
    <3> SUFFICES ASSUME OneEcho, ~PubReadThread, ~ClockSkew, ~PubStopped(0), latency.lost = 0
                 PROVE  latency.answers + a = latency.counted + b + (c + a)
      BY <2>4, <2>5, <3>4 DEF b
    <3>6. latency.answers = latency.counted + b + c
      BY <3>2 DEF b, c
    <3> QED BY <3>1, <3>3, <3>5, <3>6
  <2>11. PubStopped(0)' <=> PubStopped(0)
    BY <1>1 DEF PubStopped
  <2> QED BY <2>5, <2>6, <2>9, <2>10, <2>11 DEF PongInv, Queued, more
<1> QED BY <1>6, <1>8, <1>9

\* What LatencyListener does with a pong.
LEMMA WithPongFacts ==
  ASSUME NEW state \in PongRecord, NEW kind \in PongKinds, NEW skewed \in BOOLEAN,
         NumLatency \in Nat
  PROVE  LET next == WithPong(state, kind, skewed)
         IN /\ next \in PongRecord
            /\ next.pongs = state.pongs /\ next.answers = state.answers
            /\ next.lost = state.lost
            /\ kind = "INITIALIZE" => next = state
            /\ kind = "PONG" /\ ~skewed /\ ~state.sized =>
                 next.sized /\ next.counted = state.counted
            /\ kind = "PONG" /\ ~skewed /\ state.sized /\ state.counted < NumLatency =>
                 next.sized /\ next.counted = state.counted + 1
<1> DEFINE g == LatencyTest \/ state.given
           notified == [state EXCEPT !.given = g]
           next == WithPong(state, kind, skewed)
<1>1. g \in BOOLEAN
  BY Zenon
<1> HIDE DEF g
<1>2. /\ notified \in PongRecord /\ notified.pongs = state.pongs
      /\ notified.answers = state.answers /\ notified.counted = state.counted
      /\ notified.sized = state.sized /\ notified.lost = state.lost
  BY <1>1 DEF PongRecord
<1>3. CASE kind = "INITIALIZE"
  BY <1>3 DEF WithPong
<1>4. CASE kind = "PONG" /\ skewed
  <2>1. next = notified
    BY <1>4 DEF WithPong, g
  <2> QED BY <1>2, <1>4, <2>1
<1>5. CASE kind = "PONG" /\ ~skewed /\ ~state.sized
  <2>1. next = [notified EXCEPT !.sized = TRUE]
    BY <1>5 DEF WithPong, g
  <2> QED BY <1>2, <1>5, <2>1 DEF PongRecord
<1>6. CASE kind = "PONG" /\ ~skewed /\ state.sized /\ state.counted >= NumLatency
  <2>1. next = state
    BY <1>6 DEF WithPong, g
  <2>2. state.counted \in Nat /\ (state.counted < NumLatency => ~(state.counted >= NumLatency))
    BY DEF PongRecord
  <2> QED BY <1>6, <2>1, <2>2
<1>7. CASE kind = "PONG" /\ ~skewed /\ state.sized /\ ~(state.counted >= NumLatency)
  <2>1. next = [notified EXCEPT !.counted = state.counted + 1]
    BY <1>2, <1>7 DEF WithPong, g
  <2>2. state.counted + 1 \in Nat
    BY DEF PongRecord
  <2> QED BY <1>2, <1>7, <2>1, <2>2 DEF PongRecord
<1> QED BY <1>3, <1>4, <1>5, <1>6, <1>7, Zenon DEF PongKinds

\* A pong that is counted finds a place: it is one of the pings that have arrived, of
\* which there are no more than places, and the first one took none.
LEMMA ProcessPongKeepsPongs ==
  ASSUME PongsInvs, ProcessPong, UNCHANGED mode
  PROVE  PlanInv' /\ PongInv'
<1> DEFINE kind == Head(latency.pongs)
           taken == [latency EXCEPT !.pongs = AfterTake(latency.pongs)]
<1>1. /\ TypeOK /\ TypeOK' /\ PlanInv /\ PongInv /\ latency \in PongRecord /\ 0 \in Pubs
      /\ UNCHANGED <<pub, sub, read, heard>> /\ latency.pongs # <<>>
  BY Counts DEF PongsInvs, PongInv, ProcessPong, TypeOK
<1>2. PICK skewed \in {FALSE, ClockSkew} : latency' = WithPong(taken, kind, skewed)
  BY DEF ProcessPong
<1>3. /\ UseCft \in BOOLEAN /\ PubReadThread \in BOOLEAN /\ ClockSkew \in BOOLEAN
      /\ skewed \in BOOLEAN
  BY <1>1, PlanFacts DEF PlanInv
<1>4. /\ kind \in PongKinds /\ Tail(latency.pongs) \in Seq(PongKinds)
      /\ Cardinality(Queued(latency.pongs))
           = Cardinality(Queued(Tail(latency.pongs))) + (IF kind = "PONG" THEN 1 ELSE 0)
      /\ Cardinality(Queued(Tail(latency.pongs))) \in Nat
  <2>1. latency.pongs \in Seq(PongKinds)
    BY <1>1 DEF PongRecord
  <2>2. Tail(latency.pongs) \in Seq(PongKinds)
    BY <1>1, <2>1, TailQueued
  <2> QED BY <1>1, <2>1, <2>2, TailQueued, QueuedFinite
<1>5. /\ taken \in PongRecord /\ taken.pongs = AfterTake(latency.pongs)
      /\ taken.answers = latency.answers /\ taken.counted = latency.counted
      /\ taken.sized = latency.sized /\ taken.lost = latency.lost
  <2>1. AfterTake(latency.pongs) \in Seq(PongKinds)
    BY <1>4 DEF AfterTake
  <2> QED BY <1>1, <2>1 DEF PongRecord
<1> HIDE DEF kind, taken
<1>6. /\ latency' \in PongRecord /\ latency'.pongs = taken.pongs
      /\ latency'.answers = latency.answers /\ latency'.lost = latency.lost
      /\ kind = "INITIALIZE" => latency' = taken
      /\ kind = "PONG" /\ ~skewed /\ ~taken.sized =>
           latency'.sized /\ latency'.counted = taken.counted
      /\ kind = "PONG" /\ ~skewed /\ taken.sized /\ taken.counted < NumLatency =>
           latency'.sized /\ latency'.counted = taken.counted + 1
  <2>1. NumLatency \in Nat
    BY <1>1, PingsFit
  <2> DEFINE next == WithPong(taken, kind, skewed)
  <2>2. taken \in PongRecord /\ kind \in PongKinds /\ skewed \in BOOLEAN
    BY <1>3, <1>4, <1>5
  <2>3. /\ next \in PongRecord
        /\ next.pongs = taken.pongs /\ next.answers = taken.answers
        /\ next.lost = taken.lost
        /\ kind = "INITIALIZE" => next = taken
        /\ kind = "PONG" /\ ~skewed /\ ~taken.sized =>
             next.sized /\ next.counted = taken.counted
        /\ kind = "PONG" /\ ~skewed /\ taken.sized /\ taken.counted < NumLatency =>
             next.sized /\ next.counted = taken.counted + 1
    BY <2>1, <2>2, WithPongFacts
  <2> HIDE DEF next
  <2>4. latency' = next
    BY <1>2 DEF next
  <2> QED BY <1>5, <2>3, <2>4
<1>7. /\ PlanInv' /\ (OneEcho' <=> OneEcho) /\ PubReadThread' = PubReadThread
      /\ ClockSkew' = ClockSkew /\ Answered' = Answered /\ PubStopped(0)' = PubStopped(0)
  <2>1. SamePlan
    BY <1>1, StillPlan
  <2>2. PlanInv'
    BY <1>1, <2>1, PlanKept
  <2> QED BY <1>1, <2>2 DEF OneEcho, UseCft, DataSize, PubReadThread, ClockSkew, Answered,
                              Pings, PubStopped
<1>8. ASSUME OneEcho, ~PubReadThread, ~ClockSkew, ~PubStopped(0), latency.lost = 0
      PROVE  latency'.answers = latency'.counted + (IF latency'.sized THEN 1 ELSE 0)
                                  + Cardinality(Queued(latency'.pongs))
  <2> DEFINE c == Cardinality(Queued(Tail(latency.pongs)))
  <2>1. c \in Nat /\ latency.counted \in Nat /\ latency.answers \in Nat
        /\ latency.sized \in BOOLEAN
    BY <1>1, <1>4 DEF PongRecord
  <2>2. ~skewed /\ Cardinality(Queued(latency'.pongs)) = c
    BY <1>3, <1>5, <1>6, <1>8 DEF AfterTake
  <2>3. latency.answers = latency.counted + (IF latency.sized THEN 1 ELSE 0)
                            + (c + (IF kind = "PONG" THEN 1 ELSE 0))
    BY <1>1, <1>4, <1>8 DEF PongInv
  <2> HIDE DEF c
  <2>4. CASE kind = "INITIALIZE"
    <3>1. latency'.counted = latency.counted /\ latency'.sized = latency.sized
      BY <1>5, <1>6, <2>4
    <3> QED BY <1>6, <2>1, <2>2, <2>3, <2>4, <3>1
  <2>5. CASE kind = "PONG" /\ ~latency.sized
    <3>1. latency'.counted = latency.counted /\ latency'.sized
      BY <1>5, <1>6, <2>2, <2>5
    <3>2. latency.answers = latency.counted + 1 + c
      BY <2>1, <2>3, <2>5
    <3> QED BY <1>6, <2>2, <3>1, <3>2
  <2>6. CASE kind = "PONG" /\ latency.sized
    <3>1. latency.answers = latency.counted + 2 + c
      BY <2>1, <2>3, <2>6
    <3>2. latency.answers <= NumLatency /\ NumLatency \in Nat
      <4>1. /\ Cardinality(Pings(0)) <= NumLatency /\ NumLatency \in Nat
            /\ IsFiniteSet(Pings(0)) /\ Cardinality(Pings(0)) \in Nat
        BY <1>1, PingsFit, AskedFacts
      <4>2. Answered \subseteq Pings(0)
        BY DEF Answered
      <4>3. /\ Cardinality(Answered) <= Cardinality(Pings(0))
            /\ Cardinality(Answered) \in Nat
        BY <4>1, <4>2, FS_Subset, FS_CardinalityType
      <4>4. latency.answers <= Cardinality(Answered)
        BY <1>1, <1>8 DEF PongInv
      <4> QED BY <2>1, <4>1, <4>3, <4>4
    <3>3. taken.counted < NumLatency
      BY <1>5, <2>1, <3>1, <3>2
    <3>4. latency'.counted = latency.counted + 1 /\ latency'.sized
      BY <1>5, <1>6, <2>2, <2>6, <3>3
    <3>5. latency.answers = (latency.counted + 1) + 1 + c
      BY <2>1, <3>1
    <3> QED BY <1>6, <2>2, <3>4, <3>5
  <2> QED BY <1>4, <2>4, <2>5, <2>6 DEF PongKinds
<1> QED BY <1>1, <1>6, <1>7, <1>8 DEF PongInv, Queued

\* EveryPongCounted: no pong that publisher 0 takes while it sends, but the first, is
\* missing from its count.  NextPing asks for one pong in a batch and in one batch of
\* LatencyCount, one subscriber echoes it, and _latency_history, sized from the same
\* options, has a place for it (LatencyListener::process_message,
\* srcCpp11/perftest_cpp.cxx).  It needs that there is a reader with a queue that
\* LatencyListener empties one by one: not -useReadThread, nor a -cft, nor data of the
\* size of an INITIALIZE sample.
THEOREM PongsAllCounted == Spec => []EveryPongCounted
<1>1. Init => PongsInvs
  BY InitPongs DEF PongsInvs, Init, TypeOK, PubRecord, SubRecord, PubPhases, SubPhases
<1>2. PongsInvs /\ [Next]_vars => PongsInvs'
  <2> SUFFICES ASSUME PongsInvs, [Next]_vars PROVE PongsInvs'
    OBVIOUS
  <2>1. TypeOK'
    <3>1. TypeOK
      BY DEF PongsInvs
    <3>2. CASE UNCHANGED <<pub, sub, read, heard>>
      BY <3>1, <3>2 DEF TypeOK
    <3> QED
      BY <3>1, <3>2, PubStepTyped, SubStepTyped, NetworkTyped
         DEF Next, Step, Terminated, vars, ProcessPong, LosePong
  <2>2. CASE UNCHANGED vars
    <3>1. TypeOK /\ PlanInv /\ PongInv /\ latency' = latency /\ latency \in PongRecord
      BY <2>2 DEF PongsInvs, PongInv, vars
    <3>2. SamePlan /\ ReadsOn
      BY <2>2, <3>1, StillPlan DEF vars
    <3> QED BY <2>1, <3>1, <3>2, PongsKept DEF PongsInvs
  <2>3. CASE Next
    <3>1. PlanInv' /\ PongInv'
      BY <2>2, <2>3, PubStepKeepsPongs, SendDataKeepsPongs, SubStepKeepsPongs,
         NetworkStepKeepsPongs, ProcessMessageKeepsPongs, ProcessPongKeepsPongs,
         LosePongKeepsPongs
         DEF Next, Step, Terminated, NetworkStep, PongsInvs
    <3> QED BY <2>1, <3>1 DEF PongsInvs
  <2> QED BY <2>2, <2>3
<1>3. PongsInvs => EveryPongCounted
  <2> SUFFICES ASSUME PongsInvs, OneEcho, ~PubReadThread, ~ClockSkew, ~PubStopped(0),
                      ~PongsLeft, latency.lost = 0
               PROVE  latency.answers = latency.counted + (IF latency.sized THEN 1 ELSE 0)
    BY DEF EveryPongCounted, PongsCounted, OneEcho
  <2>1. latency \in PongRecord /\ Queued(latency.pongs) = {}
    BY DEF PongsInvs, PongInv, PongsLeft, Queued
  <2>2. Cardinality(Queued(latency.pongs)) = 0
    BY <2>1, FS_EmptySet
  <2>3. latency.counted \in Nat /\ latency.sized \in BOOLEAN
    BY <2>1 DEF PongRecord
  <2> QED BY <2>2, <2>3 DEF PongsInvs, PongInv
<1> QED BY <1>1, <1>2, <1>3, PTL DEF Spec

=============================================================================
