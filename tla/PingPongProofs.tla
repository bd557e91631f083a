---------------------------- MODULE PingPongProofs ----------------------------
(***************************************************************************)
(* TLAPS proofs about PingPong: types, the discipline of the pong semaphore *)
(* and the contents of the latency history, for every plan of a test.      *)
(***************************************************************************)
EXTENDS PingPong, FiniteSetTheorems, TLAPS

\* Batches and positions in them are counted with natural numbers.
LEMMA Division ==
  ASSUME NEW a \in Nat, NEW b \in Nat \ {0}
  PROVE  a \div b \in Nat /\ a % b \in 0 .. b - 1
OBVIOUS

\* What the command line says of the plan of a test.
LEMMA PlanFacts ==
  ASSUME plan \in Plans
  PROVE  /\ NumIter \in Nat
         /\ LatencyCount \in Nat \ {0} /\ SamplesPerBatch \in Nat \ {0}
         /\ NoPayload \in BOOLEAN
BY PlanAssumption
   DEF IsPlan, NumIter, LatencyCount, SamplesPerBatch, NoPayload

\* A semaphore of either kind has its permits counted.
LEMMA PermitsCounted ==
  ASSUME permits \in PermitRange
  PROVE  permits \in Nat
BY DEF PermitRange

LEMMA SpareInRange == SparePermits \in PermitRange /\ SparePermits \in {0, 1}
BY DEF SparePermits, PermitRange

LEMMA PermitTaken ==
  ASSUME permits \in PermitRange, permits > 0
  PROVE  permits - 1 \in PermitRange
BY DEF PermitRange

\* A notification gives one permit at most.
LEMMA PermitGiven ==
  ASSUME permits \in PermitRange, NotifyPingResponse \/ permits' = permits
  PROVE  permits' \in PermitRange /\ permits' \in Nat /\ permits' <= permits + 1
<1>1. permits \in Nat
  BY PermitsCounted
<1>2. CASE Semaphore = "counting"
  BY <1>1, <1>2 DEF NotifyPingResponse, PermitRange
<1>3. CASE Semaphore # "counting"
  BY <1>1, <1>3 DEF NotifyPingResponse, PermitRange
<1> QED BY <1>2, <1>3

\* The latency history of Publisher has a size.
LEMMA NumLatencyType ==
  ASSUME plan \in Plans
  PROVE  NumLatency \in Nat
<1> DEFINE batches == NumIter \div SamplesPerBatch
           pings == batches \div LatencyCount
           dividend == IF Port = "cs" THEN pings \div SamplesPerBatch ELSE batches
           rest == dividend % LatencyCount
<1>1. batches \in Nat
  BY PlanFacts, Division
<1>2. pings \in Nat
  BY <1>1, PlanFacts, Division
<1>3. dividend \in Nat
  <2>1. pings \div SamplesPerBatch \in Nat
    BY <1>2, PlanFacts, Division
  <2> QED BY <1>1, <2>1
<1>4. rest \in Nat
  <2> HIDE DEF dividend
  <2> QED BY <1>3, PlanFacts, Division
<1> HIDE DEF batches, pings, dividend, rest
<1>5. pings + (IF rest > 0 THEN 1 ELSE 0) + (IF SamplesPerBatch > 1 THEN 1 ELSE 0)
        \in Nat
  BY <1>2, <1>4
<1> QED BY <1>5 DEF NumLatency, batches, pings, dividend, rest

\* Nothing that is derived from the plan changes.
Rigid ==
  /\ NumIter' = NumIter /\ SamplesPerBatch' = SamplesPerBatch
  /\ NumLatency' = NumLatency /\ Pings' = Pings /\ Strict' = Strict
  /\ NoPayload' = NoPayload /\ SparePermits' = SparePermits
  /\ PermitRange' = PermitRange

LEMMA PlanIsRigid ==
  ASSUME UNCHANGED plan
  PROVE  Rigid
BY DEF Rigid, NumIter, SamplesPerBatch, NumLatency, Pings, Strict, Port, LatencyCount,
       LatencyTest, Reliable, NoPayload, Semaphore, SparePermits, PermitRange

-----------------------------------------------------------------------------
(* Types, with the pings sent and the turns of the loop.                    *)

Typed == TypeOK /\ PingsSent

PingStep(k) ==
  Echo(k) \/ Lose(k) \/ DropPong(k) \/ ProcessPong(k) \/ SuspectClock(k)

\* The next ping is the first that was not sent.
LEMMA NextPing ==
  ASSUME plan \in Plans, Pings' = Pings, NumIter' = NumIter,
         loop \in 0 .. NumIter, numPings \in 0 .. NumIter, ping \in [Pings -> Fates],
         PingsSent, pc = "loop", loop < NumIter,
         numPings' = numPings + 1, ping' = [ping EXCEPT ![numPings] = "sent"],
         \/ pc' = "wait" /\ loop' = loop
         \/ pc' = pc /\ loop' = loop + 1
  PROVE  /\ PingsSent' /\ ping' \in [Pings -> Fates]
         /\ loop' \in 0 .. NumIter /\ numPings' \in 0 .. NumIter
<1>1. NumIter \in Nat
  BY PlanFacts, Zenon
<1>2. numPings <= loop /\ \A k \in Pings : k >= numPings => ping[k] = "none"
  BY <1>1 DEF PingsSent
<1>3. Pings = 0 .. NumIter - 1
  BY DEF Pings
<1>4. numPings \in Pings /\ loop' \in 0 .. NumIter /\ numPings' \in 0 .. NumIter
  BY <1>1, <1>2, <1>3
<1>5. ping' \in [Pings -> Fates]
  BY <1>4 DEF Fates
<1>6. \A k \in Pings : k # numPings => ping'[k] = ping[k]
  OBVIOUS
<1>7. \A k \in Pings' : k >= numPings' => ping'[k] = "none"
  BY <1>1, <1>2, <1>3, <1>6
<1>8. numPings' <= loop' + (IF pc' \in {"wait", "failed"} THEN 1 ELSE 0)
  BY <1>1, <1>2
<1>9. pc' = "wait" => loop' < NumIter'
  BY <1>1
<1> QED BY <1>4, <1>5, <1>7, <1>8, <1>9, Zenon DEF PingsSent

\* A step of the sending loop or of the summary keeps the types ...
LEMMA PublisherKeepsTypes ==
  ASSUME Typed, Publisher, UNCHANGED plan
  PROVE  Typed'
<1>0. Rigid
  BY PlanIsRigid
<1> USE <1>0 DEF Rigid
<1> USE DEF Typed, TypeOK, PingsSent, loopVars, listenerVars, summaryVars
<1>1. CASE SendSample
  <2> USE PlanFacts
  <2>0. SamplesPerBatch \in Nat \ {0}
    OBVIOUS
  <2>1. currentIndexInBatch' \in 0 .. SamplesPerBatch - 1
    <3>1. /\ currentIndexInBatch' = (currentIndexInBatch + 1) % SamplesPerBatch
          /\ currentIndexInBatch + 1 \in Nat
      BY <1>1, <2>0 DEF SendSample
    <3> QED BY <2>0, <3>1, Division
  <2>2. sentPing' \in BOOLEAN
    <3>1. CASE LatencyTest /\ (sentPing \/ IsPing)
      BY <1>1, <3>1, Zenon DEF SendSample
    <3>2. CASE ~(LatencyTest /\ (sentPing \/ IsPing))
      <4>1. sentPing' = (currentIndexInBatch' # 0 /\ (sentPing \/ IsPing))
        BY <1>1, <3>2, Zenon DEF SendSample
      <4>2. (currentIndexInBatch' # 0 /\ (sentPing \/ IsPing)) \in BOOLEAN
        BY Zenon
      <4> QED BY <4>1, <4>2, Zenon
    <3> QED BY <3>1, <3>2
  <2>3. \/ pc' = "wait" /\ loop' = loop
        \/ pc' = pc /\ loop' = loop + 1
    BY <1>1 DEF SendSample
  <2>4. /\ pc = "loop" /\ loop < NumIter
        /\ UNCHANGED <<completed, permits, listenerVars, summaryVars>>
    BY <1>1 DEF SendSample, LoopGoesOn
  <2>5. CASE IsPing
    <3>1. /\ numPings' = numPings + 1
          /\ ping' = [ping EXCEPT ![numPings] = "sent"]
          /\ pingIndexInBatch' = (pingIndexInBatch + 1) % SamplesPerBatch
      BY <1>1, <2>5, Zenon DEF SendSample
    <3>2. pingIndexInBatch' \in 0 .. SamplesPerBatch - 1
      <4>1. pingIndexInBatch + 1 \in Nat
        BY <2>0
      <4> QED BY <2>0, <3>1, <4>1, Division
    <3> HIDE DEF PingsSent
    <3>3. /\ plan \in Plans /\ loop \in 0 .. NumIter /\ numPings \in 0 .. NumIter
          /\ ping \in [Pings -> Fates] /\ PingsSent /\ Pings' = Pings /\ NumIter' = NumIter
      BY Zenon
    <3>4. /\ PingsSent' /\ ping' \in [Pings -> Fates]
          /\ loop' \in 0 .. NumIter /\ numPings' \in 0 .. NumIter
      BY <2>3, <2>4, <3>1, <3>3, NextPing, Zenon
    <3> QED BY <2>1, <2>2, <2>3, <2>4, <3>2, <3>4
  <2>6. CASE ~IsPing
    <3>1. UNCHANGED <<numPings, ping, pingIndexInBatch>>
      BY <1>1, <2>6 DEF SendSample
    <3> QED BY <2>1, <2>2, <2>3, <2>4, <3>1
  <2> QED BY <2>5, <2>6
<1>2. CASE SkipTurn
  <2>1. /\ pc = "loop" /\ loop' = loop + 1 /\ loop' \in 0 .. NumIter
        /\ UNCHANGED <<currentIndexInBatch, pingIndexInBatch, sentPing, numPings, pc,
                      completed, ping, permits, listenerVars, summaryVars>>
    BY <1>2, PlanFacts DEF SkipTurn, LoopGoesOn
  <2> QED BY <2>1
<1>3. CASE WaitReturns
  <2>1. permits' \in PermitRange
    BY <1>3, PermitTaken DEF WaitReturns
  <2>2. /\ loop' \in 0 .. NumIter /\ pc' = "loop" /\ loop' = loop + 1
        /\ sentPing' \in BOOLEAN
        /\ UNCHANGED <<currentIndexInBatch, pingIndexInBatch, numPings, completed,
                      ping, listenerVars, summaryVars>>
    BY <1>3, PlanFacts DEF WaitReturns, EndTurn
  <2> QED BY <2>1, <2>2, PlanFacts
<1>4. CASE WaitTimesOut
  BY <1>4, PlanFacts DEF WaitTimesOut, EndTurn
<1>5. CASE WaitAborted
  BY <1>5 DEF WaitAborted
<1>6. CASE SortHistory
  BY <1>6 DEF SortHistory
<1>7. CASE PrintSummary
  BY <1>7, NumLatencyType DEF PrintSummary
<1> QED BY <1>1, <1>2, <1>3, <1>4, <1>5, <1>6, <1>7 DEF Publisher

\* ... and so does a step of a ping: its echo, its loss, its pong.
LEMMA PingStepKeepsTypes ==
  ASSUME Typed, NEW k \in Pings, PingStep(k), UNCHANGED plan
  PROVE  Typed'
<1>0. Rigid
  BY PlanIsRigid
<1> USE <1>0 DEF Rigid
<1> USE DEF Typed, TypeOK, PingsSent, loopVars, listenerVars, summaryVars
<1>1. numPings' = numPings /\ pc' = pc /\ loop' = loop
  BY DEF PingStep, Echo, Lose, DropPong, ProcessPong, SuspectClock
<1>2. ping[k] # "none" /\ \E f \in Fates : ping' = [ping EXCEPT ![k] = f]
  BY DEF PingStep, Echo, Lose, DropPong, ProcessPong, SuspectClock, IsNext, Fates
<1>3. ping' \in [Pings -> Fates] /\ \A j \in Pings : j # k => ping'[j] = ping[j]
  BY <1>2
<1>4. \A j \in Pings : j >= numPings' => ping'[j] = "none"
  BY <1>1, <1>2, <1>3
<1>5. CASE Echo(k) \/ Lose(k) \/ DropPong(k)
  BY <1>1, <1>3, <1>4, <1>5 DEF Echo, Lose, DropPong
<1>6. CASE ProcessPong(k)
  <2>1. permits' \in PermitRange
    BY <1>6, PermitGiven DEF ProcessPong
  <2>2. CASE count >= NumLatency
    BY <1>1, <1>3, <1>4, <1>6, <2>1, <2>2 DEF ProcessPong
  <2>3. CASE ~(count >= NumLatency)
    <3>1. /\ latencyHistory' = [latencyHistory EXCEPT ![count] = k]
          /\ sizeKnown' = TRUE
          /\ count' = NextCount
      BY <1>6, <2>3 DEF ProcessPong
    <3>2. count' \in 0 .. NumLatency
      BY <2>3, <3>1, NumLatencyType DEF NextCount
    <3>3. latencyHistory' \in [0 .. NumLatency - 1 -> Pings \cup {-1}]
      BY <3>1
    <3> QED BY <1>1, <1>3, <1>4, <1>6, <2>1, <3>1, <3>2, <3>3 DEF ProcessPong
  <2> QED BY <2>2, <2>3
<1>7. CASE SuspectClock(k)
  <2>1. permits' \in PermitRange
    BY <1>7, PermitGiven DEF SuspectClock
  <2> QED BY <1>1, <1>3, <1>4, <1>7, <2>1 DEF SuspectClock
<1> QED BY <1>5, <1>6, <1>7 DEF PingStep

\* The types, with the pings sent so far, are inductive by themselves.
LEMMA AlwaysTyped == Spec => []Typed
<1>1. Init => Typed
  <2> SUFFICES ASSUME Init PROVE Typed
    OBVIOUS
  <2>1. completed \in BOOLEAN /\ sentPing \in BOOLEAN /\ sizeKnown \in BOOLEAN
    <3>1. NoPayload \in BOOLEAN
      BY PlanFacts DEF Init
    <3> QED BY <3>1, Zenon DEF Init
  <2>2. latencyHistory \in [0 .. NumLatency - 1 -> Pings \cup {-1}]
    BY DEF Init
  <2>3. ping \in [Pings -> Fates] /\ \A k \in Pings : ping[k] = "none"
    BY DEF Init, Fates
  <2>4. 0 \in 0 .. SamplesPerBatch - 1 /\ 0 \in 0 .. NumIter /\ 0 \in 0 .. NumLatency
    BY PlanFacts, NumLatencyType DEF Init
  <2>5. /\ plan \in Plans /\ pc = "loop" /\ loop = 0
        /\ currentIndexInBatch = 0 /\ pingIndexInBatch = 0
        /\ numPings = 0 /\ permits \in PermitRange /\ count = 0 /\ sorted = 0 /\ printed = 0
    BY SpareInRange DEF Init
  <2>6. TypeOK
    BY <2>1, <2>2, <2>3, <2>4, <2>5 DEF TypeOK
  <2>7. PingsSent
    BY <2>3, <2>5 DEF PingsSent
  <2> QED BY <2>6, <2>7 DEF Typed
<1>2. Typed /\ [Next]_vars => Typed'
  <2> SUFFICES ASSUME Typed, [Next]_vars PROVE Typed'
    OBVIOUS
  <2>0. Rigid /\ UNCHANGED plan
    BY PlanIsRigid DEF Next, Terminated, vars
  <2> USE <2>0 DEF Rigid
  <2>1. CASE Timeout
    BY <2>1 DEF Timeout, Typed, TypeOK, PingsSent, loopVars, listenerVars, summaryVars
  <2>2. CASE UNCHANGED vars
    BY <2>2 DEF vars, Typed, TypeOK, PingsSent, loopVars, listenerVars, summaryVars
  <2> QED
    BY <2>1, <2>2, PublisherKeepsTypes, PingStepKeepsTypes
       DEF Next, Step, Terminated, PingStep
<1> QED BY <1>1, <1>2, PTL DEF Spec

\* The state of every measurement stays within its types, and the loop and the
\* history within their bounds.
THEOREM TypeCorrect == Spec => []TypeOK
<1>1. Typed => TypeOK
  BY DEF Typed
<1> QED BY <1>1, AlwaysTyped, PTL

-----------------------------------------------------------------------------
(* The pong semaphore.                                                      *)

\* The pings that have not led to a permit, and still may, or never will because
\* their pong finds the history full.
Outstanding == {k \in Pings : ping[k] \in {"sent", "pong", "ignored"}}

Discipline ==
  Strict => Cardinality(Outstanding) + permits
              <= SparePermits + (IF pc \in {"wait", "failed"} THEN 1 ELSE 0)

\* A set of pings can be counted, and so can what is left of it without one.
LEMMA PingsFinite ==
  ASSUME plan \in Plans, NEW S, S \subseteq Pings
  PROVE  IsFiniteSet(S) /\ Cardinality(S) \in Nat
<1>1. IsFiniteSet(Pings)
  BY PlanFacts, FS_Interval DEF Pings
<1> QED BY <1>1, FS_Subset, FS_CardinalityType

LEMMA OnePingLess ==
  ASSUME plan \in Plans, NEW S, S \subseteq Pings, NEW T, NEW k \in S,
         T = S \/ T = S \ {k}
  PROVE  /\ Cardinality(S) \in Nat /\ Cardinality(T) \in Nat
         /\ T = S \/ Cardinality(T) = Cardinality(S) - 1
<1>1. IsFiniteSet(S) /\ Cardinality(S) \in Nat
  BY PingsFinite
<1>2. Cardinality(S \ {k}) = Cardinality(S) - 1
  BY <1>1, FS_RemoveElement
<1>3. T \subseteq Pings
  OBVIOUS
<1>4. Cardinality(T) \in Nat
  BY <1>3, PingsFinite
<1> QED BY <1>1, <1>2, <1>4

LEMMA Permits ==
  ASSUME Typed
  PROVE  plan \in Plans /\ permits \in PermitRange /\ permits \in Nat
BY PermitsCounted DEF Typed, TypeOK

\* A step of a ping gives it a fate and leaves the other ones theirs.
LEMMA PingStepFate ==
  ASSUME Typed, NEW k \in Pings, PingStep(k), UNCHANGED plan
  PROVE  /\ pc' = pc /\ numPings' = numPings /\ k \in Outstanding
         /\ ping[k] \in {"sent", "pong"}
         /\ \A j \in Pings : j # k => ping'[j] = ping[j]
         /\ ping'[k] \in Fates \ {"none", "sent"}
         /\ Strict => ping'[k] # "lost"
<1>1. pc' = pc /\ numPings' = numPings /\ ping[k] \in {"sent", "pong"}
  BY DEF PingStep, Echo, Lose, DropPong, ProcessPong, SuspectClock, IsNext, loopVars
<1>2. PICK f \in Fates \ {"none", "sent"} :
         ping' = [ping EXCEPT ![k] = f] /\ (Strict => f # "lost")
  BY DEF PingStep, Echo, Lose, DropPong, ProcessPong, SuspectClock, Fates, Strict
<1>3. ping \in [Pings -> Fates]
  BY DEF Typed, TypeOK
<1> QED BY <1>1, <1>2, <1>3 DEF Outstanding

\* Publisher sends no ping before the wait for the previous one is over ...
LEMMA PublisherKeepsDiscipline ==
  ASSUME Typed, Discipline, Publisher, UNCHANGED plan
  PROVE  Discipline'
<1>0. Rigid
  BY PlanIsRigid
<1> USE <1>0 DEF Rigid
<1> DEFINE bound == SparePermits + (IF pc \in {"wait", "failed"} THEN 1 ELSE 0)
<1>1. SUFFICES ASSUME Strict
               PROVE  (Cardinality(Outstanding) + permits <= bound)'
  BY DEF Discipline
<1>2. /\ plan \in Plans /\ permits \in Nat /\ SparePermits \in Nat
      /\ IsFiniteSet(Outstanding) /\ Cardinality(Outstanding) \in Nat
      /\ Cardinality(Outstanding) + permits <= bound
  BY <1>1, Permits, SpareInRange, PingsFinite DEF Discipline, Outstanding
<1>3. CASE SendSample
  <2>1. pc = "loop" /\ permits' = permits /\ bound = SparePermits
    BY <1>2, <1>3 DEF SendSample, LoopGoesOn
  <2>2. CASE IsPing
    <3>1. ping' = [ping EXCEPT ![numPings] = "sent"] /\ pc' = "wait"
      BY <1>1, <1>3, <2>2 DEF SendSample, Strict
    <3>2. Outstanding' \subseteq Outstanding \cup {numPings}
      BY <3>1 DEF Outstanding
    <3>3. Cardinality(Outstanding') <= Cardinality(Outstanding) + 1
      <4>1. /\ IsFiniteSet(Outstanding \cup {numPings})
            /\ Cardinality(Outstanding \cup {numPings}) <= Cardinality(Outstanding) + 1
        <5>1. CASE numPings \in Outstanding
          <6>1. Outstanding \cup {numPings} = Outstanding
            BY <5>1
          <6>2. \A n \in Nat : n <= n + 1
            OBVIOUS
          <6> QED BY <1>2, <6>1, <6>2, Zenon
        <5>2. CASE numPings \notin Outstanding
          <6>1. /\ IsFiniteSet(Outstanding \cup {numPings})
                /\ Cardinality(Outstanding \cup {numPings}) = Cardinality(Outstanding) + 1
            BY <1>2, <5>2, FS_AddElement
          <6> HIDE DEF bound
          <6> QED BY <1>2, <6>1
        <5> QED BY <5>1, <5>2
      <4>2. Cardinality(Outstanding') <= Cardinality(Outstanding \cup {numPings})
        BY <3>2, <4>1, FS_Subset
      <4>3. Cardinality(Outstanding') \in Nat /\ Cardinality(Outstanding \cup {numPings}) \in Nat
        BY <3>2, <4>1, FS_Subset, FS_CardinalityType
      <4> QED BY <1>2, <4>1, <4>2, <4>3
    <3>4. bound' = SparePermits + 1
      BY <1>2, <3>1
    <3>5. Cardinality(Outstanding') \in Nat
      <4>1. Outstanding' \subseteq Pings
        BY DEF Outstanding
      <4> QED BY <1>2, <4>1, PingsFinite
    <3> HIDE DEF bound
    <3> QED BY <1>2, <2>1, <3>3, <3>4, <3>5
  <2>3. CASE ~IsPing
    <3>1. ping' = ping /\ pc' \in {"loop", "wait"}
      BY <1>3, <2>1, <2>3 DEF SendSample
    <3>2. Outstanding' = Outstanding
      BY <3>1 DEF Outstanding
    <3>3. bound' \in {SparePermits, SparePermits + 1}
      BY <1>2, <3>1
    <3> HIDE DEF bound
    <3> QED BY <1>2, <2>1, <3>2, <3>3
  <2> QED BY <2>2, <2>3
<1>4. CASE WaitReturns
  <2>1. ping' = ping /\ permits' = permits - 1 /\ pc = "wait" /\ pc' = "loop"
    BY <1>4 DEF WaitReturns, EndTurn
  <2>2. Outstanding' = Outstanding
    BY <2>1 DEF Outstanding
  <2>3. bound = SparePermits + 1 /\ bound' = SparePermits
    BY <1>2, <2>1
  <2> HIDE DEF bound
  <2> QED BY <1>2, <2>1, <2>2, <2>3
<1>5. CASE WaitTimesOut
  BY <1>1, <1>5 DEF WaitTimesOut, Strict
<1>6. CASE SkipTurn \/ WaitAborted \/ SortHistory \/ PrintSummary
  <2>1. /\ ping' = ping /\ permits' = permits
        /\ (pc \in {"wait", "failed"}) <=> (pc' \in {"wait", "failed"})
    BY <1>6 DEF SkipTurn, LoopGoesOn, WaitAborted, SortHistory, PrintSummary
  <2>2. Outstanding' = Outstanding
    BY <2>1 DEF Outstanding
  <2>3. bound' = bound
    BY <2>1
  <2> HIDE DEF bound
  <2> QED BY <1>2, <2>1, <2>2, <2>3
<1> QED BY <1>3, <1>4, <1>5, <1>6 DEF Publisher

\* ... and a pong gives no permit but for the ping that it answers.
LEMMA PingStepKeepsDiscipline ==
  ASSUME Typed, Discipline, NEW k \in Pings, PingStep(k), UNCHANGED plan
  PROVE  Discipline'
<1>0. Rigid
  BY PlanIsRigid
<1> USE <1>0 DEF Rigid
<1>1. /\ plan \in Plans /\ permits \in Nat /\ permits \in PermitRange
      /\ pc' = pc /\ k \in Outstanding /\ Outstanding \subseteq Pings
      /\ \A j \in Pings : j # k => ping'[j] = ping[j]
  BY Permits, PingStepFate DEF Outstanding
<1>2. Outstanding' = Outstanding \/ Outstanding' = Outstanding \ {k}
  BY <1>1 DEF Outstanding
<1>3. /\ Cardinality(Outstanding) \in Nat /\ Cardinality(Outstanding') \in Nat
      /\ Outstanding' = Outstanding \/ Cardinality(Outstanding') = Cardinality(Outstanding) - 1
  BY <1>1, <1>2, OnePingLess, Zenon
<1>4. \/ permits' = permits
      \/ permits' \in Nat /\ permits' <= permits + 1 /\ k \notin Outstanding'
  <2>1. CASE Echo(k) \/ Lose(k) \/ DropPong(k)
    BY <2>1 DEF Echo, Lose, DropPong
  <2>2. CASE ProcessPong(k)
    <3>1. CASE count >= NumLatency
      BY <2>2, <3>1 DEF ProcessPong
    <3>2. CASE ~(count >= NumLatency)
      <4>1. /\ NotifyPingResponse
            /\ ping' = [ping EXCEPT ![k] = IF sizeKnown THEN "recorded" ELSE "discarded"]
        BY <2>2, <3>2 DEF ProcessPong
      <4>2. k \notin Outstanding'
        BY <4>1 DEF Outstanding, Typed, TypeOK
      <4> QED BY <1>1, <4>1, <4>2, PermitGiven
    <3> QED BY <3>1, <3>2
  <2>3. CASE SuspectClock(k)
    <3>1. k \notin Outstanding'
      BY <2>3 DEF SuspectClock, Outstanding, Typed, TypeOK
    <3> QED BY <1>1, <2>3, <3>1, PermitGiven DEF SuspectClock
  <2> QED BY <2>1, <2>2, <2>3 DEF PingStep
<1>5. \/ Outstanding' = Outstanding /\ permits' = permits
      \/ /\ Cardinality(Outstanding') = Cardinality(Outstanding) - 1
         /\ permits' \in Nat /\ permits' <= permits + 1
  BY <1>1, <1>3, <1>4
<1>6. /\ permits' \in Nat
      /\ Cardinality(Outstanding') + permits' <= Cardinality(Outstanding) + permits
  BY <1>1, <1>3, <1>5
<1>7. SparePermits + (IF pc \in {"wait", "failed"} THEN 1 ELSE 0) \in Nat
  BY SpareInRange
<1> QED BY <1>1, <1>3, <1>6, <1>7 DEF Discipline

\* The discipline of the semaphore is inductive.
LEMMA AlwaysDiscipline == Spec => []Discipline
<1>1. Init => Discipline
  <2> SUFFICES ASSUME Init PROVE Discipline
    OBVIOUS
  <2>1. Outstanding = {} /\ permits = SparePermits /\ pc = "loop"
    BY DEF Init, Outstanding
  <2>2. Cardinality(Outstanding) = 0
    BY <2>1, FS_EmptySet
  <2> QED BY <2>1, <2>2, SpareInRange DEF Discipline
<1>2. Typed /\ Discipline /\ [Next]_vars => Discipline'
  <2> SUFFICES ASSUME Typed, Discipline, [Next]_vars PROVE Discipline'
    OBVIOUS
  <2>0. Rigid /\ UNCHANGED plan
    BY PlanIsRigid DEF Next, Terminated, vars
  <2>1. CASE Timeout \/ UNCHANGED vars
    <3>1. UNCHANGED <<pc, ping, permits>>
      BY <2>1 DEF Timeout, vars
    <3>2. Outstanding' = Outstanding
      BY <2>0, <3>1 DEF Rigid, Outstanding
    <3> QED BY <2>0, <3>1, <3>2 DEF Rigid, Discipline
  <2> QED
    BY <2>0, <2>1, PublisherKeepsDiscipline, PingStepKeepsDiscipline
       DEF Next, Step, Terminated, PingStep
<1> QED BY <1>1, <1>2, AlwaysTyped, PTL DEF Spec

LEMMA DisciplineGivesOnePing ==
  ASSUME Typed, Discipline
  PROVE  OnePingAtATime
<1>1. PingsUnderWay \subseteq Outstanding /\ Outstanding \subseteq Pings
  BY DEF PingsUnderWay, Outstanding
<1>2. IsFiniteSet(Outstanding) /\ Cardinality(Outstanding) \in Nat /\ permits \in Nat
  BY <1>1, Permits, PingsFinite
<1>3. Cardinality(PingsUnderWay) <= Cardinality(Outstanding) /\ Cardinality(PingsUnderWay) \in Nat
  BY <1>1, <1>2, FS_Subset, FS_CardinalityType
<1>4. SparePermits + (IF pc \in {"wait", "failed"} THEN 1 ELSE 0) \in Nat
  BY SpareInRange
<1> QED BY <1>2, <1>3, <1>4 DEF Discipline, OnePingAtATime

\* With a semaphore of either infrastructure, a strict latency test has no more pings
\* on their way than the loop waits for and the spare permit let pass.
THEOREM OnePingHolds == Spec => []OnePingAtATime
<1>1. Typed /\ Discipline => OnePingAtATime
  BY DisciplineGivesOnePing
<1> QED BY <1>1, AlwaysTyped, AlwaysDiscipline, PTL

-----------------------------------------------------------------------------
(* The latency history.                                                     *)

History == UnknownSizeMeansEmpty /\ HistoryHoldsRecorded

\* Only finitely many pongs are recorded, so they can be counted.
LEMMA RecordedFinite ==
  ASSUME plan \in Plans
  PROVE  IsFiniteSet(Recorded)
<1>1. IsFiniteSet(Pings)
  BY PlanFacts, FS_Interval DEF Pings
<1>2. Recorded \subseteq Pings
  BY DEF Recorded
<1> QED BY <1>1, <1>2, FS_Subset

\* A step that records no pong and leaves the history alone, or resets its count
\* when the summary is printed, keeps what the history holds.
LEMMA QuietStepKeepsHistory ==
  ASSUME History, Recorded' = Recorded,
         latencyHistory' = latencyHistory, sizeKnown' = sizeKnown,
         pc \in {"loop", "wait", "print"},
         count' = count \/ (count' = 0 /\ pc' = "done")
  PROVE  History'
BY DEF History, UnknownSizeMeansEmpty, HistoryHoldsRecorded

\* Publisher never touches the latencies; its summary sorts and then drops them.
LEMMA PublisherKeepsHistory ==
  ASSUME Typed, History, Publisher, UNCHANGED plan
  PROVE  History'
<1>0. Rigid
  BY PlanIsRigid
<1> USE <1>0 DEF Rigid
<1>1. latencyHistory' = latencyHistory /\ sizeKnown' = sizeKnown
  BY DEF Publisher, SendSample, SkipTurn, WaitReturns, WaitTimesOut, WaitAborted,
         EndTurn, SortHistory, PrintSummary, listenerVars
<1>2. pc \in {"loop", "wait", "print"}
  BY DEF Publisher, SendSample, LoopGoesOn, SkipTurn, WaitReturns, WaitTimesOut,
         WaitAborted, SortHistory, PrintSummary
<1>3. count' = count \/ (count' = 0 /\ pc' = "done")
  BY DEF Publisher, SendSample, SkipTurn, WaitReturns, WaitTimesOut, WaitAborted,
         EndTurn, SortHistory, PrintSummary, listenerVars
<1>4. Recorded' = Recorded
  <2>1. CASE SendSample /\ IsPing
    <3>1. ping' = [ping EXCEPT ![numPings] = "sent"]
      BY <2>1 DEF SendSample
    <3>2. numPings \in Pings => ping[numPings] = "none"
      BY PlanFacts DEF Typed, PingsSent, TypeOK, Pings
    <3>3. ping \in [Pings -> Fates]
      BY DEF Typed, TypeOK
    <3> QED BY <3>1, <3>2, <3>3 DEF Recorded
  <2>2. CASE ~(SendSample /\ IsPing)
    <3>1. ping' = ping
      BY <2>2 DEF Publisher, SendSample, SkipTurn, WaitReturns, WaitTimesOut,
                  WaitAborted, EndTurn, SortHistory, PrintSummary
    <3> QED BY <3>1 DEF Recorded
  <2> QED BY <2>1, <2>2
<1> QED BY <1>1, <1>2, <1>3, <1>4, QuietStepKeepsHistory

\* A pong that finds the history full is ignored, the first of its size restarts
\* the count, and any other goes into the next slot.
LEMMA ProcessPongKeepsHistory ==
  ASSUME Typed, History, NEW k \in Pings, ProcessPong(k), UNCHANGED plan
  PROVE  History'
<1>0. Rigid
  BY PlanIsRigid
<1> USE <1>0 DEF Rigid
<1>1. /\ ping \in [Pings -> Fates] /\ count \in 0 .. NumLatency
      /\ plan \in Plans
  BY DEF Typed, TypeOK
<1>2. ping[k] = "pong" /\ pc' = pc
  BY DEF ProcessPong, IsNext
<1>3. k \notin Recorded
  BY <1>2 DEF Recorded
<1>4. CASE count >= NumLatency
  <2>1. ping' = [ping EXCEPT ![k] = "ignored"] /\ UNCHANGED listenerVars
    BY <1>4 DEF ProcessPong
  <2>2. Recorded' = Recorded
    BY <1>1, <1>2, <2>1 DEF Recorded
  <2> QED BY <1>2, <2>1, <2>2
          DEF listenerVars, History, UnknownSizeMeansEmpty, HistoryHoldsRecorded
<1>5. CASE ~(count >= NumLatency) /\ ~sizeKnown
  <2>1. /\ ping' = [ping EXCEPT ![k] = "discarded"]
        /\ count' = 0 /\ sizeKnown' = TRUE
    BY <1>5 DEF ProcessPong, NextCount
  <2>2. Recorded' = Recorded
    BY <1>1, <1>2, <2>1 DEF Recorded
  <2>3. count = 0
    BY <1>5 DEF History, UnknownSizeMeansEmpty
  <2>4. \A h : {h[i] : i \in 0 .. 0 - 1} = {}
    OBVIOUS
  <2> QED BY <1>2, <2>1, <2>2, <2>3, <2>4
          DEF History, UnknownSizeMeansEmpty, HistoryHoldsRecorded
<1>6. CASE ~(count >= NumLatency) /\ sizeKnown
  <2>1. /\ ping' = [ping EXCEPT ![k] = "recorded"]
        /\ latencyHistory' = [latencyHistory EXCEPT ![count] = k]
        /\ count' = count + 1 /\ sizeKnown' = TRUE
    BY <1>6 DEF ProcessPong, NextCount
  <2>2. Recorded' = Recorded \cup {k}
    BY <1>1, <2>1 DEF Recorded
  <2>3. SUFFICES ASSUME pc \in {"loop", "wait", "print"}
                 PROVE  /\ {latencyHistory'[i] : i \in 0 .. count' - 1} = Recorded'
                        /\ count' = Cardinality(Recorded')
    BY <1>2, <2>1 DEF History, UnknownSizeMeansEmpty, HistoryHoldsRecorded
  <2>4. /\ {latencyHistory[i] : i \in 0 .. count - 1} = Recorded
        /\ count = Cardinality(Recorded)
    BY <2>3 DEF History, HistoryHoldsRecorded
  <2>5. count' = Cardinality(Recorded')
    <3>1. IsFiniteSet(Recorded)
      BY <1>1, RecordedFinite
    <3>2. Cardinality(Recorded \cup {k}) = Cardinality(Recorded) + 1
      BY <1>3, <3>1, FS_AddElement
    <3> QED BY <2>1, <2>2, <2>4, <3>2
  <2>6. 0 .. count' - 1 = (0 .. count - 1) \cup {count} /\ count \notin 0 .. count - 1
    BY <1>1, <2>1, NumLatencyType
  <2>7. /\ latencyHistory'[count] = k
        /\ \A i \in 0 .. count - 1 : latencyHistory'[i] = latencyHistory[i]
    <3>1. latencyHistory \in [0 .. NumLatency - 1 -> Pings \cup {-1}]
      BY DEF Typed, TypeOK
    <3>2. count \in 0 .. NumLatency - 1 /\ 0 .. count - 1 \subseteq 0 .. NumLatency - 1
      BY <1>1, <1>6, NumLatencyType
    <3> QED BY <2>1, <2>6, <3>1, <3>2
  <2>8. {latencyHistory'[i] : i \in 0 .. count' - 1}
          = {latencyHistory[i] : i \in 0 .. count - 1} \cup {k}
    BY <2>6, <2>7
  <2> QED BY <2>2, <2>4, <2>5, <2>8
<1> QED BY <1>4, <1>5, <1>6

\* What the history holds is inductive with what an unknown size says of it.
LEMMA AlwaysHistory == Spec => []History
<1>1. Init => History
  <2> SUFFICES ASSUME Init PROVE History
    OBVIOUS
  <2>1. count = 0 /\ Recorded = {}
    BY DEF Init, Recorded
  <2>2. {latencyHistory[i] : i \in 0 .. 0 - 1} = {}
    OBVIOUS
  <2> QED BY <2>1, <2>2, FS_EmptySet
          DEF History, UnknownSizeMeansEmpty, HistoryHoldsRecorded
<1>2. Typed /\ History /\ [Next]_vars => History'
  <2> SUFFICES ASSUME Typed, History, [Next]_vars PROVE History'
    OBVIOUS
  <2>0. Rigid /\ UNCHANGED plan
    BY PlanIsRigid DEF Next, Terminated, vars
  <2> USE <2>0 DEF Rigid
  <2>1. CASE Timeout \/ UNCHANGED vars
    BY <2>1 DEF Timeout, vars, listenerVars, Recorded, History,
                UnknownSizeMeansEmpty, HistoryHoldsRecorded
  <2>2. ASSUME NEW k \in Pings, Echo(k) \/ Lose(k) \/ DropPong(k) \/ SuspectClock(k)
        PROVE  History'
    <3>1. /\ ping[k] # "recorded" /\ ping \in [Pings -> Fates]
          /\ \E f \in {"pong", "dropped", "lost", "skewed"} : ping' = [ping EXCEPT ![k] = f]
      BY <2>2 DEF Echo, Lose, DropPong, SuspectClock, IsNext, Typed, TypeOK
    <3>2. Recorded' = Recorded
      BY <3>1 DEF Recorded
    <3> QED BY <2>2, <3>2 DEF Echo, Lose, DropPong, SuspectClock, listenerVars, History,
                              UnknownSizeMeansEmpty, HistoryHoldsRecorded
  <2> QED
    BY <2>1, <2>2, PublisherKeepsHistory, ProcessPongKeepsHistory
       DEF Next, Step, Terminated
<1> QED BY <1>1, <1>2, AlwaysTyped, PTL DEF Spec

\* The history holds the recorded latencies, each once.
THEOREM HistoryHolds == Spec => []HistoryHoldsRecorded
<1>1. History => HistoryHoldsRecorded
  BY DEF History
<1> QED BY <1>1, AlwaysHistory, PTL

\* The strengthening that the runs check is invariant.
THEOREM Invariance == Spec => []IndInv
<1>1. Typed /\ Discipline /\ History => IndInv
  BY DisciplineGivesOnePing DEF Typed, History, IndInv
<1> QED BY <1>1, AlwaysTyped, AlwaysDiscipline, AlwaysHistory, PTL

-----------------------------------------------------------------------------
(* The rhythm of the pings.                                                 *)

LEMMA QuotientAndRest ==
  ASSUME NEW a \in Nat, NEW b \in Nat \ {0}
  PROVE  a = b * (a \div b) + (a % b)
OBVIOUS

LEMMA OnlyQuotient ==
  ASSUME NEW a \in Nat, NEW b \in Nat \ {0}, NEW q \in Nat, NEW r \in 0 .. b - 1,
         a = b * q + r
  PROVE  a \div b = q /\ a % b = r
BY SMTT(60)

\* The next turn is in the same batch ...
LEMMA SameBatch ==
  ASSUME NEW a \in Nat, NEW b \in Nat \ {0}, a % b # b - 1
  PROVE  (a + 1) % b = (a % b) + 1 /\ (a + 1) \div b = a \div b
OBVIOUS

\* ... or begins the next one.
LEMMA NextBatch ==
  ASSUME NEW a \in Nat, NEW b \in Nat \ {0}, a % b = b - 1
  PROVE  (a + 1) % b = 0 /\ (a + 1) \div b = a \div b + 1
<1> DEFINE q == a \div b
<1>1. q \in Nat /\ a = b * q + (b - 1)
  BY Division, QuotientAndRest
<1> HIDE DEF q
<1>2. b * (q + 1) = b * q + b /\ b * q \in Nat
  BY <1>1
<1>3. a + 1 = b * (q + 1) + 0
  BY <1>1, <1>2
<1>4. 0 \in 0 .. b - 1 /\ q + 1 \in Nat /\ a + 1 \in Nat
  BY <1>1
<1> QED BY <1>3, <1>4, OnlyQuotient DEF q

\* The pings that n batches ask for.
PingsOf(n) == Cardinality({b \in 0 .. n - 1 : b % LatencyCount = 0})

LEMMA PingsOfNext ==
  ASSUME plan \in Plans, NEW n \in Nat
  PROVE  /\ PingsOf(n) \in Nat
         /\ PingsOf(n + 1) = IF n % LatencyCount = 0 THEN PingsOf(n) + 1 ELSE PingsOf(n)
<1> DEFINE S(k) == {b \in 0 .. k - 1 : b % LatencyCount = 0}
<1>1. IsFiniteSet(S(n)) /\ n \notin S(n)
  <2>1. IsFiniteSet(0 .. n - 1)
    BY FS_Interval
  <2> QED BY <2>1, FS_Subset
<1>2. S(n + 1) = IF n % LatencyCount = 0 THEN S(n) \cup {n} ELSE S(n)
  <2>1. 0 .. (n + 1) - 1 = (0 .. n - 1) \cup {n}
    OBVIOUS
  <2> QED BY <2>1
<1> HIDE DEF S
<1>3. Cardinality(S(n)) \in Nat /\ Cardinality(S(n) \cup {n}) = Cardinality(S(n)) + 1
  BY <1>1, FS_CardinalityType, FS_AddElement
<1> QED BY <1>2, <1>3 DEF PingsOf, S

\* Where the loop stands in the batch, and what the pings of the batch are: all sent
\* (sentPing), or yet to come at a position that is not passed.  A latency test,
\* where a batch is one sample, is in its turn until the wait is over.
Rhythm ==
  ~CoarseClock =>
    /\ pc = "loop" =>
         /\ currentIndexInBatch = loop % SamplesPerBatch
         /\ sentPing =>
              /\ currentIndexInBatch # 0
              /\ numPings = PingsOf(loop \div SamplesPerBatch + 1)
         /\ ~sentPing =>
              /\ numPings = PingsOf(loop \div SamplesPerBatch)
              /\ (loop \div SamplesPerBatch) % LatencyCount = 0
                   => currentIndexInBatch <= pingIndexInBatch
    /\ pc = "wait" =>
         /\ LatencyTest /\ currentIndexInBatch = 0
         /\ numPings = PingsOf(loop \div SamplesPerBatch + 1)

\* A latency test does not batch.
LEMMA LatencyTestUnbatched ==
  ASSUME plan \in Plans, LatencyTest
  PROVE  SamplesPerBatch = 1
BY PlanAssumption DEF IsPlan, LatencyTest, SamplesPerBatch

\* A turn of the sending loop keeps the rhythm.
LEMMA SendSampleKeepsRhythm ==
  ASSUME Typed, Rhythm, SendSample, ~CoarseClock,
         UNCHANGED <<LatencyCount, SamplesPerBatch, LatencyTest, CoarseClock>>
  PROVE  Rhythm'
<1> DEFINE batch == loop \div SamplesPerBatch
<1>0. /\ plan \in Plans /\ SamplesPerBatch \in Nat \ {0} /\ LatencyCount \in Nat \ {0}
      /\ loop \in Nat /\ currentIndexInBatch \in 0 .. SamplesPerBatch - 1
      /\ pingIndexInBatch \in 0 .. SamplesPerBatch - 1
      /\ numPings \in Nat /\ pc = "loop"
  BY PlanFacts DEF Typed, TypeOK, SendSample, LoopGoesOn
<1>1. batch \in Nat
  BY <1>0, Division
<1>2. /\ PingsOf(batch) \in Nat
      /\ PingsOf(batch + 1)
           = IF batch % LatencyCount = 0 THEN PingsOf(batch) + 1 ELSE PingsOf(batch)
  BY <1>0, <1>1, PingsOfNext
<1>3. /\ currentIndexInBatch = loop % SamplesPerBatch
      /\ sentPing => currentIndexInBatch # 0 /\ numPings = PingsOf(batch + 1)
      /\ ~sentPing =>
           /\ numPings = PingsOf(batch)
           /\ batch % LatencyCount = 0 => currentIndexInBatch <= pingIndexInBatch
  BY <1>0 DEF Rhythm
<1>4. IsPing <=> /\ batch % LatencyCount = 0
                 /\ currentIndexInBatch = pingIndexInBatch
                 /\ ~sentPing
  BY DEF IsPing
<1>5. /\ currentIndexInBatch' = (currentIndexInBatch + 1) % SamplesPerBatch
      /\ IsPing => numPings' = numPings + 1
      /\ ~IsPing => numPings' = numPings /\ pingIndexInBatch' = pingIndexInBatch
      /\ pingIndexInBatch' \in Nat
  <2>1. (pingIndexInBatch + 1) % SamplesPerBatch \in Nat
    BY <1>0, Division
  <2> QED BY <1>0, <2>1 DEF SendSample
<1>6. numPings' = IF sentPing \/ IsPing THEN PingsOf(batch + 1) ELSE PingsOf(batch)
  BY <1>2, <1>3, <1>4, <1>5
<1>7. CASE LatencyTest /\ (sentPing \/ IsPing)
  <2>1. SamplesPerBatch = 1 /\ currentIndexInBatch' = 0
    <3>1. SamplesPerBatch = 1
      BY <1>0, <1>7, LatencyTestUnbatched
    <3> QED BY <1>0, <1>5, <3>1
  <2>2. pc' = "wait" /\ loop' = loop
    BY <1>7 DEF SendSample
  <2> QED BY <1>6, <1>7, <2>1, <2>2 DEF Rhythm, PingsOf
<1>8. CASE ~(LatencyTest /\ (sentPing \/ IsPing))
  <2>1. /\ pc' = "loop" /\ loop' = loop + 1
        /\ sentPing' <=> (currentIndexInBatch' # 0 /\ (sentPing \/ IsPing))
    BY <1>0, <1>8 DEF SendSample
  <2> HIDE DEF batch
  <2>2. CASE currentIndexInBatch # SamplesPerBatch - 1
    <3>1. /\ loop' % SamplesPerBatch = (loop % SamplesPerBatch) + 1
          /\ loop' \div SamplesPerBatch = batch
      BY <1>0, <1>3, <2>1, <2>2, SameBatch DEF batch
    <3>2. currentIndexInBatch' = currentIndexInBatch + 1
      BY <1>0, <1>5, <2>2
    <3>3. ~(sentPing \/ IsPing) =>
             (batch % LatencyCount = 0 => currentIndexInBatch' <= pingIndexInBatch')
      BY <1>0, <1>3, <1>4, <1>5, <3>2
    <3>4. pc' = "loop" /\ currentIndexInBatch' # 0 /\ (sentPing' <=> (sentPing \/ IsPing))
      BY <1>0, <2>1, <3>2
    <3>5. /\ sentPing' => numPings' = PingsOf(loop \div SamplesPerBatch + 1)'
          /\ ~sentPing' => numPings' = PingsOf(loop \div SamplesPerBatch)'
      BY <1>6, <3>1, <3>4 DEF PingsOf
    <3>6. currentIndexInBatch' = (loop % SamplesPerBatch)'
      BY <1>3, <3>1, <3>2
    <3>7. ~sentPing' => ((loop \div SamplesPerBatch) % LatencyCount = 0
                           => currentIndexInBatch <= pingIndexInBatch)'
      BY <3>1, <3>3, <3>4
    <3> QED BY <3>4, <3>5, <3>6, <3>7 DEF Rhythm
  <2>3. CASE currentIndexInBatch = SamplesPerBatch - 1
    <3>1. /\ loop' % SamplesPerBatch = 0
          /\ loop' \div SamplesPerBatch = batch + 1
      BY <1>0, <1>3, <2>1, <2>3, NextBatch DEF batch
    <3>2. currentIndexInBatch' = 0
      BY <1>0, <1>5, <2>3
    <3>3. ~(sentPing \/ IsPing) => PingsOf(batch) = PingsOf(batch + 1)
      BY <1>0, <1>2, <1>3, <1>4, <2>3
    <3>4. numPings' = PingsOf(loop' \div SamplesPerBatch)
      BY <1>6, <3>1, <3>3
    <3>5. ~sentPing' /\ pc' = "loop"
      BY <2>1, <3>2
    <3>6. currentIndexInBatch' <= pingIndexInBatch'
      BY <1>5, <3>2
    <3>7. numPings' = PingsOf(loop \div SamplesPerBatch)'
      BY <3>4 DEF PingsOf
    <3>8. currentIndexInBatch' = (loop % SamplesPerBatch)'
      BY <3>1, <3>2
    <3> QED BY <3>5, <3>6, <3>7, <3>8 DEF Rhythm
  <2> QED BY <2>2, <2>3
<1> QED BY <1>7, <1>8

\* Nor does the end of a turn that waited break it.
LEMMA EndTurnKeepsRhythm ==
  ASSUME Typed, Rhythm, pc = "wait", EndTurn, ~CoarseClock,
         UNCHANGED <<LatencyCount, SamplesPerBatch, LatencyTest, CoarseClock>>
  PROVE  Rhythm'
<1>1. /\ loop \in Nat /\ pingIndexInBatch \in Nat /\ plan \in Plans
      /\ LatencyTest /\ currentIndexInBatch = 0
      /\ numPings = PingsOf(loop \div SamplesPerBatch + 1)
  BY DEF Typed, TypeOK, Rhythm
<1>2. SamplesPerBatch = 1
  BY <1>1, LatencyTestUnbatched
<1>3. /\ pc' = "loop" /\ loop' = loop + 1 /\ sentPing' = FALSE
      /\ UNCHANGED <<currentIndexInBatch, pingIndexInBatch, numPings>>
  BY <1>1 DEF EndTurn
<1>4. /\ loop' % SamplesPerBatch = 0
      /\ loop' \div SamplesPerBatch = loop \div SamplesPerBatch + 1
  BY <1>1, <1>2, <1>3
<1>5. numPings' = PingsOf(loop \div SamplesPerBatch)'
  BY <1>1, <1>3, <1>4 DEF PingsOf
<1>6. currentIndexInBatch' = (loop % SamplesPerBatch)' /\ currentIndexInBatch' <= pingIndexInBatch'
  BY <1>1, <1>3, <1>4
<1> QED BY <1>3, <1>5, <1>6 DEF Rhythm

LEMMA AlwaysRhythm == Spec => []Rhythm
<1>1. Init => Rhythm
  <2> SUFFICES ASSUME Init PROVE Rhythm
    OBVIOUS
  <2>1. SamplesPerBatch \in Nat \ {0} /\ LatencyCount \in Nat \ {0}
    BY PlanFacts DEF Init
  <2>2. 0 % SamplesPerBatch = 0 /\ 0 \div SamplesPerBatch = 0
    BY <2>1
  <2>3. PingsOf(0) = 0
    <3>1. {b \in 0 .. 0 - 1 : b % LatencyCount = 0} = {}
      OBVIOUS
    <3> QED BY <3>1, FS_EmptySet DEF PingsOf
  <2> QED BY <2>2, <2>3 DEF Init, Rhythm
<1>2. Typed /\ Rhythm /\ [Next]_vars => Rhythm'
  <2> SUFFICES ASSUME Typed, Rhythm, [Next]_vars, ~CoarseClock PROVE Rhythm'
    <3>1. UNCHANGED CoarseClock \/ ~[Next]_vars
      BY DEF Next, Terminated, vars, CoarseClock
    <3> QED BY <3>1 DEF Rhythm
  <2>0. UNCHANGED <<LatencyCount, SamplesPerBatch, LatencyTest, CoarseClock>>
    BY DEF Next, Terminated, vars, LatencyCount, SamplesPerBatch, LatencyTest, CoarseClock
  <2>1. CASE SendSample
    BY <2>0, <2>1, SendSampleKeepsRhythm
  <2>2. CASE WaitReturns \/ WaitTimesOut
    BY <2>0, <2>2, EndTurnKeepsRhythm DEF WaitReturns, WaitTimesOut
  <2>3. CASE SkipTurn
    BY <2>3 DEF SkipTurn
  <2>4. CASE WaitAborted \/ SortHistory \/ PrintSummary
    BY <2>4 DEF WaitAborted, SortHistory, PrintSummary, Rhythm
  <2>5. ASSUME pc' = pc, UNCHANGED loopVars
        PROVE  Rhythm'
    BY <2>0, <2>5 DEF Rhythm, PingsOf, loopVars
  <2>6. CASE Timeout \/ UNCHANGED vars
    BY <2>5, <2>6 DEF Timeout, vars
  <2>7. ASSUME NEW k \in Pings, PingStep(k)
        PROVE  Rhythm'
    BY <2>5, <2>7 DEF PingStep, Echo, Lose, DropPong, ProcessPong, SuspectClock
  <2> QED
    BY <2>1, <2>2, <2>3, <2>4, <2>6, <2>7 DEF Next, Step, Publisher, Terminated, PingStep
<1> QED BY <1>1, <1>2, AlwaysTyped, PTL DEF Spec

\* In batch mode and out of it, for every batch size and -latencyCount, a loop that
\* skips no turn has sent one ping for every LatencyCount batches.
THEOREM PingEveryLatencyCount == Spec => []PingEveryLatencyCountBatches
<1>1. Rhythm => PingEveryLatencyCountBatches
  BY DEF Rhythm, PingsOf, PingEveryLatencyCountBatches
<1> QED BY <1>1, AlwaysRhythm, PTL

-----------------------------------------------------------------------------
(* The summary.                                                             *)

Discarded == {k \in Pings : ping[k] = "discarded"}

\* The pings that a summary lists, or may still list.
Due == Outstanding \cup Recorded

\* What became of the pings sent: in a strict latency test none is lost.
PingsAccounted ==
  /\ \A k \in Pings : k < numPings => ping[k] # "none"
  /\ Strict => \A k \in Pings : ping[k] # "lost"

\* One pong is discarded, the one that brings the size, unless that size is 0.
FirstPong ==
  /\ NoPayload => sizeKnown /\ Discarded = {}
  /\ sizeKnown => NoPayload \/ \E d \in Pings : Discarded = {d}
  /\ ~sizeKnown => Discarded = {} /\ Recorded = {}

\* What the summary sorted and printed.  Past the loop of a strict latency test only
\* as many pings are missing from what it sorted as there are spare permits.
Summarized ==
  /\ pc = "print" => sorted <= count
  /\ pc = "done" => sorted <= printed /\ printed <= Cardinality(Recorded)
  /\ Strict /\ pc \in {"print", "done"} => Cardinality(Due) <= sorted + SparePermits

Summary == PingsAccounted /\ FirstPong /\ Summarized

LEMMA DueFinite ==
  ASSUME Typed
  PROVE  /\ IsFiniteSet(Recorded) /\ Cardinality(Recorded) \in Nat
         /\ IsFiniteSet(Outstanding) /\ Cardinality(Outstanding) \in Nat
         /\ IsFiniteSet(Due) /\ Cardinality(Due) \in Nat
<1>1. plan \in Plans
  BY Permits
<1>2. Recorded \subseteq Pings /\ Outstanding \subseteq Pings /\ Due \subseteq Pings
  BY DEF Recorded, Outstanding, Due
<1> QED BY <1>1, <1>2, PingsFinite

\* When the loop is over, a ping is recorded or one that a spare permit stands for.
LEMMA SortedAreDue ==
  ASSUME Typed, Discipline, History, Strict, pc = "loop"
  PROVE  Cardinality(Due) <= count + SparePermits
<1>1. Cardinality(Recorded) = count
  BY DEF History, HistoryHoldsRecorded
<1>2. Outstanding \cap Recorded = {}
  BY DEF Outstanding, Recorded
<1>3. Cardinality(Outstanding) <= SparePermits
  BY Permits, DueFinite, SpareInRange DEF Discipline
<1>4. Cardinality(Due) = Cardinality(Outstanding) + Cardinality(Recorded)
  <2>1. Cardinality(Outstanding \cap Recorded) = 0
    BY <1>2, FS_EmptySet
  <2>2. Cardinality(Outstanding \cup Recorded)
          = Cardinality(Outstanding) + Cardinality(Recorded) - Cardinality(Outstanding \cap Recorded)
    BY DueFinite, FS_Union
  <2> QED BY <2>1, <2>2, DueFinite DEF Due
<1> QED BY <1>1, <1>3, <1>4, DueFinite, SpareInRange

\* A step of the loop moves no ping but the one it sends, whose fate was open.
LEMMA PublisherKeepsSummary ==
  ASSUME Typed, Discipline, History, Summary, Publisher, UNCHANGED plan
  PROVE  Summary'
<1>0. Rigid
  BY PlanIsRigid
<1> USE <1>0 DEF Rigid
<1>1. sizeKnown' = sizeKnown
  BY DEF Publisher, SendSample, SkipTurn, WaitReturns, WaitTimesOut, WaitAborted,
         EndTurn, SortHistory, PrintSummary, listenerVars
<1>2. CASE SendSample /\ IsPing
  <2>1. /\ ping' = [ping EXCEPT ![numPings] = "sent"] /\ numPings' = numPings + 1
        /\ pc = "loop" /\ pc' \in {"loop", "wait"}
    BY <1>2 DEF SendSample, LoopGoesOn
  <2>2. /\ ping \in [Pings -> Fates] /\ numPings \in Nat
        /\ numPings \in Pings => ping[numPings] = "none"
    BY PlanFacts DEF Typed, TypeOK, PingsSent
  <2>3. Recorded' = Recorded /\ Discarded' = Discarded
    BY <2>1, <2>2 DEF Recorded, Discarded
  <2>4. FirstPong'
    BY <1>1, <2>3, Zenon DEF FirstPong, Summary, Rigid
  <2>5. PingsAccounted'
    BY <2>1, <2>2 DEF PingsAccounted, Summary, Pings
  <2>6. Summarized'
    BY <2>1 DEF Summarized
  <2> QED BY <2>4, <2>5, <2>6 DEF Summary
<1>3. CASE ~(SendSample /\ IsPing)
  <2>1. ping' = ping /\ numPings' = numPings
    BY <1>3 DEF Publisher, SendSample, SkipTurn, WaitReturns, WaitTimesOut,
                WaitAborted, EndTurn, SortHistory, PrintSummary, loopVars
  <2>2. Recorded' = Recorded /\ Discarded' = Discarded /\ Outstanding' = Outstanding
    BY <2>1 DEF Recorded, Discarded, Outstanding
  <2>3. FirstPong'
    BY <1>1, <2>2, Zenon DEF FirstPong, Summary, Rigid
  <2>4. PingsAccounted'
    BY <2>1 DEF PingsAccounted, Summary
  <2>5. Summarized'
    <3>1. \/ pc' \notin {"print", "done"}
          \/ pc = "loop" /\ pc' = "print" /\ sorted' = count /\ count' = count
          \/ /\ pc = "print" /\ pc' = "done" /\ sorted' = sorted
             /\ printed' = count \/ (sorted = 0 /\ printed' = 0)
      BY DEF Publisher, SendSample, LoopGoesOn, SkipTurn, WaitReturns, WaitTimesOut,
             EndTurn, WaitAborted, SortHistory, PrintSummary, listenerVars
    <3>2. /\ pc = "print" => count = Cardinality(Recorded)
          /\ count \in Nat /\ Cardinality(Recorded) \in Nat
      BY NumLatencyType, DueFinite DEF History, HistoryHoldsRecorded, Typed, TypeOK
    <3>3. Strict /\ pc = "loop" => Cardinality(Due) <= count + SparePermits
      BY SortedAreDue
    <3>4. Due' = Due
      BY <2>2 DEF Due
    <3> QED BY <2>2, <3>1, <3>2, <3>3, <3>4 DEF Summarized, Summary
  <2> QED BY <2>3, <2>4, <2>5 DEF Summary
<1> QED BY <1>2, <1>3

\* A pong that comes late adds to what is recorded, never to what is due.
LEMMA PingStepKeepsSummarized ==
  ASSUME Typed, History, Summarized, NEW k \in Pings, PingStep(k), UNCHANGED plan
  PROVE  Summarized'
<1>0. Rigid
  BY PlanIsRigid
<1> USE <1>0 DEF Rigid
<1>1. /\ pc' = pc /\ k \in Outstanding /\ k \notin Recorded
      /\ \A j \in Pings : j # k => ping'[j] = ping[j]
  BY PingStepFate DEF Recorded
<1>2. sorted' = sorted /\ printed' = printed
  BY DEF PingStep, Echo, Lose, DropPong, ProcessPong, SuspectClock, summaryVars
<1>3. Cardinality(Due') <= Cardinality(Due) /\ Cardinality(Due') \in Nat
  <2>1. Due' \subseteq Due
    BY <1>1 DEF Due, Outstanding, Recorded
  <2> QED BY <2>1, DueFinite, FS_Subset, FS_CardinalityType
<1>4. Cardinality(Recorded) <= Cardinality(Recorded') /\ Cardinality(Recorded') \in Nat
  <2>1. Recorded \subseteq Recorded' /\ Recorded' \subseteq Pings
    BY <1>1 DEF Recorded
  <2>2. plan \in Plans
    BY Permits
  <2>3. IsFiniteSet(Recorded')
    BY <2>1, <2>2, PingsFinite
  <2> QED BY <2>1, <2>3, FS_Subset, FS_CardinalityType
<1>5. pc = "print" => count <= count' /\ count' \in Nat
  <2>1. count \in Nat /\ (~sizeKnown => count = 0)
    BY NumLatencyType DEF Typed, TypeOK, History, UnknownSizeMeansEmpty
  <2>2. count' = count \/ count' = NextCount
    BY DEF PingStep, Echo, Lose, DropPong, ProcessPong, SuspectClock, listenerVars
  <2> QED BY <2>1, <2>2 DEF NextCount
<1>6. /\ sorted \in Nat /\ printed \in Nat /\ count \in Nat
      /\ Cardinality(Due) \in Nat /\ Cardinality(Recorded) \in Nat /\ SparePermits \in Nat
  BY NumLatencyType, DueFinite, SpareInRange DEF Typed, TypeOK
<1> QED BY <1>1, <1>2, <1>3, <1>4, <1>5, <1>6 DEF Summarized

\* A pong gives its ping a fate; the first of its size is discarded.
LEMMA PingStepKeepsSummary ==
  ASSUME Typed, History, Summary, NEW k \in Pings, PingStep(k), UNCHANGED plan
  PROVE  Summary'
<1>0. Rigid
  BY PlanIsRigid
<1> USE <1>0 DEF Rigid
<1>1. /\ ping \in [Pings -> Fates] /\ numPings' = numPings
      /\ ping[k] \in {"sent", "pong"} /\ ping'[k] # "none"
      /\ Strict => ping'[k] # "lost"
      /\ \A j \in Pings : j # k => ping'[j] = ping[j]
  BY PingStepFate DEF Typed, TypeOK, Fates
<1>2. PingsAccounted'
  BY <1>1 DEF PingsAccounted, Summary
<1>3. Summarized'
  BY PingStepKeepsSummarized DEF Summary
<1>4. k \notin Recorded /\ k \notin Discarded
  BY <1>1 DEF Recorded, Discarded
<1>5. CASE ~(ProcessPong(k) /\ ~(count >= NumLatency))
  <2>1. /\ \E f \in {"pong", "dropped", "lost", "skewed", "ignored"} :
             ping' = [ping EXCEPT ![k] = f]
        /\ sizeKnown' = sizeKnown
    BY <1>5 DEF PingStep, Echo, Lose, DropPong, ProcessPong, SuspectClock, listenerVars
  <2>2. Recorded' = Recorded /\ Discarded' = Discarded
    BY <1>1, <2>1 DEF Recorded, Discarded
  <2>3. FirstPong'
    BY <2>1, <2>2, Zenon DEF FirstPong, Summary, Rigid
  <2> QED BY <1>2, <1>3, <2>3 DEF Summary
<1>6. CASE ProcessPong(k) /\ ~(count >= NumLatency)
  <2>1. /\ ping' = [ping EXCEPT ![k] = IF sizeKnown THEN "recorded" ELSE "discarded"]
        /\ sizeKnown' = TRUE
    BY <1>6 DEF ProcessPong
  <2>2. Discarded' = IF sizeKnown THEN Discarded ELSE Discarded \cup {k}
    BY <1>1, <2>1 DEF Discarded
  <2>3. FirstPong'
    BY <2>1, <2>2 DEF FirstPong, Summary
  <2> QED BY <1>2, <1>3, <2>3 DEF Summary
<1> QED BY <1>5, <1>6

LEMMA AlwaysSummary == Spec => []Summary
<1>1. Init => Summary
  <2> SUFFICES ASSUME Init PROVE Summary
    OBVIOUS
  <2>1. /\ ping = [k \in Pings |-> "none"] /\ numPings = 0 /\ pc = "loop"
        /\ Recorded = {} /\ Discarded = {}
    BY DEF Init, Recorded, Discarded
  <2>2. sizeKnown = NoPayload
    BY DEF Init
  <2>3. FirstPong
    BY <2>1, <2>2, Zenon DEF FirstPong
  <2>4. PingsAccounted
    BY <2>1, PlanFacts DEF PingsAccounted, Init, Pings
  <2> QED BY <2>1, <2>3, <2>4 DEF Summary, Summarized
<1>2. Typed /\ Discipline /\ History /\ Summary /\ [Next]_vars => Summary'
  <2> SUFFICES ASSUME Typed, Discipline, History, Summary, [Next]_vars PROVE Summary'
    OBVIOUS
  <2>0. Rigid /\ UNCHANGED plan
    BY PlanIsRigid DEF Next, Terminated, vars
  <2>1. CASE Timeout \/ UNCHANGED vars
    <3>1. UNCHANGED <<pc, numPings, ping, sizeKnown, count, sorted, printed>>
      BY <2>1 DEF Timeout, vars, loopVars, listenerVars, summaryVars
    <3>2. Recorded' = Recorded /\ Discarded' = Discarded /\ Outstanding' = Outstanding
      BY <2>0, <3>1 DEF Rigid, Recorded, Discarded, Outstanding
    <3>3. FirstPong'
      BY <2>0, <3>1, <3>2, Zenon DEF FirstPong, Summary, Rigid
    <3>4. PingsAccounted'
      BY <2>0, <3>1 DEF Rigid, PingsAccounted, Summary
    <3>5. Due' = Due
      BY <3>2 DEF Due
    <3>6. Summarized'
      BY <2>0, <3>1, <3>2, <3>5 DEF Rigid, Summarized, Summary
    <3> QED BY <3>3, <3>4, <3>6 DEF Summary
  <2> QED
    BY <2>0, <2>1, PublisherKeepsSummary, PingStepKeepsSummary
       DEF Next, Step, Terminated, PingStep
<1> QED BY <1>1, <1>2, AlwaysTyped, AlwaysDiscipline, AlwaysHistory, PTL DEF Spec

\* The summary of a strict latency test, of any length and with any history, is of
\* all the pings sent but those that its listeners drop or cannot measure, the one
\* that brought the size, and the ones that spare permits let the loop pass.
THEOREM SummaryHolds == Spec => []SummaryIsComplete
<1>1. Typed /\ Summary => SummaryIsComplete
  <2> DEFINE measured == {k \in 0 .. numPings - 1 : ping[k] \notin {"skewed", "dropped"}}
             first == IF NoPayload \/ measured = {} THEN 0 ELSE 1
             due == Cardinality(measured) - first
  <2> SUFFICES ASSUME Typed, Summary, Strict, pc = "done"
               PROVE  sorted <= printed /\ printed <= due /\ sorted >= due - SparePermits
    BY DEF SummaryIsComplete
  <2>1. measured = Due \cup Discarded
    <3>1. /\ ping \in [Pings -> Fates] /\ numPings \in 0 .. NumIter /\ NumIter \in Nat
          /\ 0 .. numPings - 1 \subseteq Pings
      BY PlanFacts DEF Typed, TypeOK, Pings
    <3>2. \A k \in 0 .. numPings - 1 : ping[k] \in Fates \ {"none", "lost"}
      BY <3>1 DEF Summary, PingsAccounted
    <3>3. \A k \in Pings : k \notin 0 .. numPings - 1 => ping[k] = "none"
      BY <3>1 DEF Typed, PingsSent, Pings
    <3> QED BY <3>1, <3>2, <3>3 DEF Due, Outstanding, Recorded, Discarded, Fates
  <2>2. /\ sorted \in Nat /\ printed \in Nat /\ SparePermits \in Nat
        /\ IsFiniteSet(Due) /\ Cardinality(Due) \in Nat /\ Cardinality(Recorded) \in Nat
    BY NumLatencyType, DueFinite, SpareInRange DEF Typed, TypeOK
  <2>3. /\ sorted <= printed /\ printed <= Cardinality(Recorded)
        /\ Cardinality(Due) <= sorted + SparePermits
    BY DEF Summary, Summarized
  <2>4. Cardinality(Recorded) <= Cardinality(Due)
    BY <2>2, FS_Subset DEF Due
  <2> HIDE DEF measured
  <2>5. CASE ~sizeKnown
    <3>1. measured = Due /\ Cardinality(Recorded) = 0 /\ ~NoPayload
      BY <2>1, <2>5, FS_EmptySet DEF Summary, FirstPong
    <3>2. CASE Due = {}
      <4>1. Cardinality(Due) = 0 /\ first = 0
        BY <3>1, <3>2, FS_EmptySet
      <4> QED BY <2>2, <2>3, <3>1, <4>1
    <3>3. CASE Due # {}
      <4>1. Cardinality(Due) # 0 /\ first = 1
        BY <2>2, <3>1, <3>3, FS_EmptySet
      <4> QED BY <2>2, <2>3, <3>1, <4>1
    <3> QED BY <3>2, <3>3
  <2>6. CASE sizeKnown /\ NoPayload
    <3>1. measured = Due /\ first = 0
      BY <2>1, <2>6 DEF Summary, FirstPong
    <3> QED BY <2>2, <2>3, <2>4, <3>1
  <2>7. CASE sizeKnown /\ ~NoPayload
    <3>1. PICK d \in Pings : Discarded = {d}
      BY <2>7 DEF Summary, FirstPong
    <3>2. d \notin Due /\ measured = Due \cup {d}
      BY <2>1, <3>1 DEF Due, Outstanding, Recorded, Discarded
    <3>3. Cardinality(measured) = Cardinality(Due) + 1 /\ first = 1
      BY <2>2, <2>7, <3>2, FS_AddElement
    <3> QED BY <2>2, <2>3, <2>4, <3>3
  <2> QED BY <2>5, <2>6, <2>7
<1> QED BY <1>1, AlwaysTyped, AlwaysSummary, PTL

-----------------------------------------------------------------------------
(* The room of the history.                                                 *)

\* A product that is smaller than another of the same factor.
LEMMA SmallerProduct ==
  ASSUME NEW c \in Nat \ {0}, NEW x \in Int, NEW y \in Int, c * x < c * (y + 1)
  PROVE  x <= y
<1> SUFFICES ASSUME x >= y + 1 PROVE FALSE
  OBVIOUS
<1>1. PICK d \in Nat : x = (y + 1) + d
  <2>1. x - (y + 1) \in Nat /\ x = (y + 1) + (x - (y + 1))
    OBVIOUS
  <2> QED BY <2>1
<1>2. c * x = c * (y + 1) + c * d /\ c * d >= 0
  BY <1>1
<1> QED BY <1>2

\* An earlier turn is in an earlier batch or the same.
LEMMA EarlierBatch ==
  ASSUME NEW a \in Nat, NEW b \in Nat, NEW c \in Nat \ {0}, a <= b
  PROVE  a \div c <= b \div c
<1> DEFINE q == a \div c
           r == b \div c
<1>1. q \in Nat /\ r \in Nat /\ a >= c * q /\ b < c * r + c
  BY Division, QuotientAndRest
<1> HIDE DEF q, r
<1>2. c * (r + 1) = c * r + c /\ c * r \in Nat /\ c * q \in Nat
  BY <1>1
<1>3. q <= r
  BY <1>1, <1>2, SmallerProduct
<1> QED BY <1>3 DEF q, r

\* n batches of which one in every LatencyCount has a ping.
SparseUpTo(n) == LatencyCount * PingsOf(n) <= n + LatencyCount - 1

LEMMA SparseNext ==
  ASSUME plan \in Plans, NEW n \in Nat, SparseUpTo(n)
  PROVE  SparseUpTo(n + 1)
<1> DEFINE c == LatencyCount
           x == PingsOf(n)
           q == n \div c
<1>1. c \in Nat \ {0} /\ x \in Nat /\ q \in Nat
  BY PlanFacts, PingsOfNext, Division
<1>2. c * x <= n + c - 1
  BY DEF SparseUpTo
<1>3. CASE n % c = 0
  <2>1. PingsOf(n + 1) = x + 1
    BY <1>3, PingsOfNext
  <2>2. n = c * q
    <3>1. n = c * q + (n % c)
      BY <1>1, QuotientAndRest
    <3> QED BY <1>1, <1>3, <3>1
  <2> HIDE DEF c, x, q
  <2>3. c * (q + 1) = c * q + c /\ c * (x + 1) = c * x + c
    BY <1>1
  <2>4. x <= q
    <3>1. c * x < c * (q + 1)
      BY <1>1, <1>2, <2>2, <2>3
    <3> QED BY <1>1, <3>1, SmallerProduct
  <2>5. c * x <= c * q
    <3>1. PICK d \in Nat : q = x + d
      <4>1. q - x \in Nat /\ q = x + (q - x)
        BY <1>1, <2>4
      <4> QED BY <4>1
    <3>2. c * q = c * x + c * d /\ c * d >= 0
      BY <1>1, <3>1
    <3> QED BY <1>1, <3>2
  <2>6. c * (x + 1) <= (n + 1) + c - 1
    BY <1>1, <2>2, <2>3, <2>5
  <2> QED BY <2>1, <2>6 DEF SparseUpTo, c
<1>4. CASE n % c # 0
  <2>1. PingsOf(n + 1) = x
    BY <1>4, PingsOfNext
  <2>2. c * x <= (n + 1) + c - 1
    <3> HIDE DEF c, x
    <3> QED BY <1>1, <1>2
  <2> QED BY <2>1, <2>2 DEF SparseUpTo
<1> QED BY <1>3, <1>4

LastBatch == (NumIter - 1) \div SamplesPerBatch

\* The pings of a loop that skips no turn are as many as its batches ask for, and
\* the history holds no more latencies than were recorded.
Room ==
  /\ ~CoarseClock => /\ SparseUpTo(loop \div SamplesPerBatch)
                     /\ LatencyCount * numPings <= LastBatch + LatencyCount
  /\ count <= Cardinality(Recorded)

\* A turn of the loop, with its ping or without.
LEMMA TurnKeepsSparse ==
  ASSUME Typed, Rhythm, ~CoarseClock, UNCHANGED plan,
         SparseUpTo(loop \div SamplesPerBatch),
         LatencyCount * numPings <= LastBatch + LatencyCount,
         SendSample \/ EndTurn, pc \in {"loop", "wait"}
  PROVE  /\ SparseUpTo(loop \div SamplesPerBatch)'
         /\ (LatencyCount * numPings <= LastBatch + LatencyCount)'
<1> DEFINE batch == loop \div SamplesPerBatch
           c == LatencyCount
<1>0. /\ plan \in Plans /\ SamplesPerBatch \in Nat \ {0} /\ c \in Nat \ {0}
      /\ loop \in Nat /\ loop + 1 \in Nat /\ NumIter \in Nat /\ batch \in Nat
      /\ numPings \in Nat
  <2>1. /\ plan \in Plans /\ SamplesPerBatch \in Nat \ {0}
        /\ LatencyCount \in Nat \ {0} /\ NumIter \in Nat
    BY PlanFacts DEF Typed, TypeOK
  <2>2. loop \in Nat /\ numPings \in Nat
    BY <2>1 DEF Typed, TypeOK
  <2> QED BY <2>1, <2>2, Division
<1>1. /\ LatencyCount' = LatencyCount /\ SamplesPerBatch' = SamplesPerBatch
      /\ LastBatch' = LastBatch
  BY DEF LatencyCount, SamplesPerBatch, LastBatch, NumIter
<1>2. loop' = loop \/ loop' = loop + 1
  BY DEF SendSample, EndTurn
<1>3. (loop + 1) \div SamplesPerBatch \in {batch, batch + 1}
  BY <1>0, SameBatch, NextBatch
<1>4. SparseUpTo(batch + 1)
  BY <1>0, SparseNext
<1>5. SparseUpTo(loop \div SamplesPerBatch)'
  <2>1. loop' \div SamplesPerBatch \in {batch, batch + 1}
    BY <1>2, <1>3
  <2>2. SparseUpTo(loop' \div SamplesPerBatch)
    BY <1>4, <2>1
  <2> QED BY <1>1, <2>2 DEF SparseUpTo, PingsOf
<1>6. CASE SendSample /\ IsPing
  <2>1. /\ numPings' = numPings + 1 /\ numPings = PingsOf(batch)
        /\ batch % c = 0
    BY <1>6 DEF SendSample, LoopGoesOn, IsPing, Rhythm
  <2>2. numPings' = PingsOf(batch + 1)
    BY <1>0, <2>1, PingsOfNext
  <2>3. c * numPings' <= batch + 1 + c - 1
    BY <1>4, <2>2 DEF SparseUpTo
  <2>4. batch <= LastBatch
    <3>1. loop <= NumIter - 1 /\ NumIter - 1 \in Nat
      BY <1>0, <1>6 DEF SendSample, LoopGoesOn
    <3> QED BY <1>0, <3>1, EarlierBatch DEF LastBatch
  <2>5. LastBatch \in Nat
    <3>1. NumIter - 1 \in Nat
      BY <1>0, <1>6 DEF SendSample, LoopGoesOn
    <3> QED BY <1>0, <3>1, Division DEF LastBatch
  <2> HIDE DEF batch, c
  <2>6. c * numPings' <= LastBatch + c
    <3>1. c * numPings' \in Nat
      BY <1>0, <2>1
    <3> QED BY <1>0, <2>3, <2>4, <2>5, <3>1
  <2> QED BY <1>1, <1>5, <2>6 DEF c
<1>7. CASE ~(SendSample /\ IsPing)
  <2>1. numPings' = numPings
    BY <1>7 DEF SendSample, EndTurn
  <2> QED BY <1>1, <1>5, <2>1
<1> QED BY <1>6, <1>7

\* A pong that is recorded adds one latency, the first one starts the count again.
LEMMA PongKeepsCount ==
  ASSUME Typed, NEW k \in Pings, PingStep(k), UNCHANGED plan,
         count <= Cardinality(Recorded)
  PROVE  (count <= Cardinality(Recorded))'
<1>1. /\ ping \in [Pings -> Fates] /\ Pings' = Pings /\ NumLatency' = NumLatency
      /\ ping[k] \in {"sent", "pong"} /\ count \in Nat
  <2>1. NumLatency \in Nat
    BY NumLatencyType DEF Typed, TypeOK
  <2>2. Pings' = Pings /\ NumLatency' = NumLatency
    BY PlanIsRigid DEF Rigid
  <2> QED BY <2>1, <2>2 DEF PingStep, Echo, Lose, DropPong, ProcessPong, SuspectClock, IsNext,
                            Typed, TypeOK
<1>2. IsFiniteSet(Recorded) /\ Cardinality(Recorded) \in Nat /\ k \notin Recorded
  BY <1>1, RecordedFinite, FS_CardinalityType DEF Typed, TypeOK, Recorded
<1>3. CASE ProcessPong(k) /\ count < NumLatency
  <2>1. ping' = [ping EXCEPT ![k] = IF sizeKnown THEN "recorded" ELSE "discarded"]
    BY <1>1, <1>3, NumLatencyType DEF ProcessPong, Typed, TypeOK
  <2>2. count' = IF sizeKnown THEN count + 1 ELSE 0
    BY <1>1, <1>3, NumLatencyType DEF ProcessPong, NextCount, Typed, TypeOK
  <2>3. CASE sizeKnown
    <3>1. Recorded' = Recorded \cup {k}
      BY <1>1, <2>1, <2>3 DEF Recorded
    <3>2. Cardinality(Recorded') = Cardinality(Recorded) + 1
      BY <1>2, <3>1, FS_AddElement
    <3> QED BY <1>1, <1>2, <2>2, <2>3, <3>2
  <2>4. CASE ~sizeKnown
    <3>1. Recorded' = Recorded
      BY <1>1, <2>1, <2>4 DEF Recorded
    <3> QED BY <1>2, <2>2, <2>4, <3>1
  <2> QED BY <2>3, <2>4
<1>4. CASE ~(ProcessPong(k) /\ count < NumLatency)
  <2>1. /\ count' = count
        /\ \E f \in {"pong", "dropped", "lost", "ignored", "skewed"} :
             ping' = [ping EXCEPT ![k] = f]
    <3>1. NumLatency \in Nat
      BY NumLatencyType DEF Typed, TypeOK
    <3> QED BY <1>1, <1>4, <3>1
            DEF PingStep, Echo, Lose, DropPong, ProcessPong, SuspectClock, listenerVars
  <2>2. Recorded' = Recorded
    BY <1>1, <2>1 DEF Recorded
  <2> QED BY <2>1, <2>2
<1> QED BY <1>3, <1>4

LEMMA AlwaysRoom == Spec => []Room
<1>1. Init => Room
  <2> SUFFICES ASSUME Init PROVE Room
    OBVIOUS
  <2>1. /\ plan \in Plans /\ SamplesPerBatch \in Nat \ {0} /\ LatencyCount \in Nat \ {0}
        /\ NumIter \in Nat /\ NumIter >= 1
    <3>1. plan \in Plans
      BY DEF Init
    <3>2. plan.numIter >= plan.latencyCount /\ plan.latencyCount \in Nat \ {0}
          /\ plan.numIter \in Nat
      BY <3>1, PlanAssumption DEF IsPlan
    <3> QED BY <3>1, <3>2, PlanFacts DEF NumIter
  <2>2. 0 \div SamplesPerBatch = 0
    BY <2>1
  <2>3. PingsOf(0) = 0
    <3>1. {b \in 0 .. 0 - 1 : b % LatencyCount = 0} = {}
      OBVIOUS
    <3> QED BY <3>1, FS_EmptySet DEF PingsOf
  <2>4. SparseUpTo(0)
    BY <2>1, <2>3 DEF SparseUpTo
  <2>5. LastBatch \in Nat
    <3>1. NumIter - 1 \in Nat
      BY <2>1
    <3> QED BY <2>1, <3>1, Division DEF LastBatch
  <2>6. Recorded = {}
    BY DEF Init, Recorded
  <2>7. Cardinality(Recorded) = 0
    BY <2>6, FS_EmptySet
  <2>8. loop = 0 /\ numPings = 0 /\ count = 0
    BY DEF Init
  <2> QED BY <2>1, <2>2, <2>4, <2>5, <2>7, <2>8 DEF Room
<1>2. Typed /\ Rhythm /\ Room /\ [Next]_vars => Room'
  <2> SUFFICES ASSUME Typed, Rhythm, Room, [Next]_vars PROVE Room'
    OBVIOUS
  <2>0. UNCHANGED plan
    BY DEF Next, Terminated, vars
  <2>1. /\ LatencyCount' = LatencyCount /\ SamplesPerBatch' = SamplesPerBatch
        /\ LastBatch' = LastBatch /\ CoarseClock' = CoarseClock /\ Pings' = Pings
    BY <2>0 DEF LatencyCount, SamplesPerBatch, LastBatch, NumIter, CoarseClock, Pings
  <2> DEFINE Sparse == /\ SparseUpTo(loop \div SamplesPerBatch)
                       /\ LatencyCount * numPings <= LastBatch + LatencyCount
             Held == count <= Cardinality(Recorded)
  <2>2. (~CoarseClock => Sparse) /\ Held
    BY DEF Room
  <2>3. SUFFICES (~CoarseClock => Sparse') /\ Held'
    BY <2>1 DEF Room
  <2>4. ASSUME UNCHANGED <<loop, numPings>>, ~CoarseClock
        PROVE  Sparse'
    BY <2>1, <2>2, <2>4 DEF SparseUpTo, PingsOf
  <2>5. ASSUME ping' = ping, count' = count PROVE Held'
    BY <2>1, <2>2, <2>5 DEF Recorded
  <2>6. CASE SendSample
    <3>1. pc = "loop" /\ count' = count
      BY <2>6 DEF SendSample, LoopGoesOn, listenerVars
    <3>2. ~CoarseClock => Sparse'
      BY <2>0, <2>2, <2>6, <3>1, TurnKeepsSparse
    <3>3. Recorded' = Recorded
      <4>1. ping \in [Pings -> Fates] /\ (numPings \in Pings => ping[numPings] = "none")
        BY DEF Typed, TypeOK, PingsSent
      <4>2. ping' = ping \/ ping' = [ping EXCEPT ![numPings] = "sent"]
        BY <2>6 DEF SendSample
      <4> QED BY <2>1, <4>1, <4>2 DEF Recorded
    <3> QED BY <2>2, <3>1, <3>2, <3>3
  <2>7. CASE WaitReturns \/ WaitTimesOut
    <3>1. EndTurn /\ pc = "wait"
      BY <2>7 DEF WaitReturns, WaitTimesOut
    <3>2. ping' = ping /\ count' = count
      BY <3>1 DEF EndTurn, listenerVars
    <3>3. ~CoarseClock => Sparse'
      BY <2>0, <2>2, <3>1, TurnKeepsSparse
    <3> QED BY <2>5, <3>2, <3>3
  <2>8. CASE SkipTurn
    <3>1. CoarseClock /\ ping' = ping /\ count' = count
      BY <2>8 DEF SkipTurn, listenerVars
    <3> QED BY <2>5, <3>1
  <2>9. CASE WaitAborted \/ SortHistory \/ Timeout \/ UNCHANGED vars
    <3>1. UNCHANGED <<loop, numPings, ping, count>>
      BY <2>9 DEF WaitAborted, SortHistory, Timeout, vars, loopVars, listenerVars
    <3> QED BY <2>4, <2>5, <3>1
  <2>10. CASE PrintSummary
    <3>1. UNCHANGED <<loop, numPings, ping>> /\ count' \in {0, count}
      BY <2>10 DEF PrintSummary, loopVars
    <3>2. Cardinality(Recorded) \in Nat /\ Recorded' = Recorded
      BY <2>1, <3>1, RecordedFinite, FS_CardinalityType DEF Typed, TypeOK, Recorded
    <3>3. Held'
      <4>1. CASE count' = 0
        BY <3>2, <4>1
      <4>2. CASE count' = count
        BY <2>2, <3>2, <4>2
      <4> QED BY <3>1, <4>1, <4>2
    <3> QED BY <2>4, <3>1, <3>3
  <2>11. ASSUME NEW k \in Pings, PingStep(k)
         PROVE  (~CoarseClock => Sparse') /\ Held'
    <3>1. UNCHANGED <<loop, numPings>>
      BY <2>11 DEF PingStep, Echo, Lose, DropPong, ProcessPong, SuspectClock, loopVars
    <3>2. Held'
      BY <2>0, <2>2, <2>11, PongKeepsCount
    <3> QED BY <2>4, <3>1, <3>2
  <2> QED BY <2>6, <2>7, <2>8, <2>9, <2>10, <2>11
          DEF Next, Step, Publisher, Terminated, PingStep
<1> QED BY <1>1, <1>2, AlwaysTyped, AlwaysRhythm, PTL DEF Spec

\* The pings that a loop without skipped turns sends, all but the first one in C#,
\* fit in the history whose size is computed before it.
LEMMA HistoryHasRoom ==
  ASSUME plan \in Plans, ~CoarseClock, NEW n \in Nat,
         LatencyCount * n <= LastBatch + LatencyCount
  PROVE  /\ n <= NumLatency + 1
         /\ Port = "cpp" => n <= NumLatency
         /\ NumLatency >= 1
<1> DEFINE c == LatencyCount
           batches == NumIter \div SamplesPerBatch
           q == batches \div c
           dividend == IF Port = "cs" THEN q \div SamplesPerBatch ELSE batches
           more == IF dividend % c > 0 THEN 1 ELSE 0
           batched == IF SamplesPerBatch > 1 THEN 1 ELSE 0
<1>0. /\ c \in Nat \ {0} /\ SamplesPerBatch \in Nat \ {0} /\ NumIter \in Nat
      /\ NumIter >= c /\ NumIter - 1 \in Nat
  <2>1. plan.numIter >= plan.latencyCount
    BY PlanAssumption DEF IsPlan
  <2> QED BY <2>1, PlanFacts DEF NumIter, LatencyCount
<1>1. /\ batches \in Nat /\ q \in Nat /\ LastBatch \in Nat /\ LastBatch <= batches
      /\ batches % c \in 0 .. c - 1 /\ batches = c * q + (batches % c)
  <2>1. batches \in Nat /\ LastBatch \in Nat /\ LastBatch <= batches
    <3>1. NumIter - 1 <= NumIter
      BY <1>0
    <3>2. LastBatch <= batches
      BY <1>0, <3>1, EarlierBatch DEF LastBatch
    <3>3. batches \in Nat /\ LastBatch \in Nat
      BY <1>0, Division DEF LastBatch
    <3> QED BY <3>2, <3>3
  <2> HIDE DEF batches, c
  <2> QED BY <1>0, <2>1, Division, QuotientAndRest
<1>2. NumLatency = q + more + batched
  BY DEF NumLatency
<1>3. more \in {0, 1} /\ batched \in {0, 1}
  OBVIOUS
<1>4. Port = "cpp" => (more = 1 <=> batches % c > 0)
  OBVIOUS
<1>5. c * n <= LastBatch + c
  OBVIOUS
<1>6. SamplesPerBatch = 1 => batches = NumIter /\ LastBatch = NumIter - 1
  BY <1>0 DEF LastBatch
<1>7. batched = 1 <=> SamplesPerBatch > 1
  OBVIOUS
<1> HIDE DEF c, batches, q, more, batched
<1>8. n <= q + 1
  <2>1. c * (q + 1 + 1) = c * q + c + c /\ c * n \in Nat /\ c * q \in Nat
    BY <1>0, <1>1
  <2>2. c * n < c * (q + 1 + 1)
    BY <1>0, <1>1, <1>5, <2>1
  <2> QED BY <1>0, <1>1, <2>2, SmallerProduct
<1>9. CASE SamplesPerBatch > 1
  BY <1>1, <1>2, <1>3, <1>7, <1>8, <1>9
<1>10. CASE SamplesPerBatch = 1
  <2>1. q >= 1
    <3>1. c * 1 < c * (q + 1)
      <4>1. c * (q + 1) = c * q + c /\ c * 1 = c /\ c * q \in Nat
        BY <1>0, <1>1
      <4> QED BY <1>0, <1>1, <1>6, <1>10, <4>1
    <3> QED BY <1>0, <1>1, <3>1, SmallerProduct
  <2>2. ASSUME Port = "cpp", more = 0 PROVE n <= q
    <3>1. batches % c = 0
      BY <1>1, <1>4, <2>2
    <3>2. c * n < c * (q + 1)
      <4>1. c * (q + 1) = c * q + c /\ c * n \in Nat /\ c * q \in Nat
        BY <1>0, <1>1
      <4> QED BY <1>0, <1>1, <1>5, <1>6, <1>10, <3>1, <4>1
    <3> QED BY <1>0, <1>1, <3>2, SmallerProduct
  <2> QED BY <1>1, <1>2, <1>3, <1>8, <2>1, <2>2
<1> QED BY <1>0, <1>9, <1>10

\* The history has room for the pongs, whatever the number of samples, the size of
\* the batches and -latencyCount: no latency of a test is thrown away.
THEOREM NoLatencyIgnored == Spec => []NoPongIgnored
<1>1. Init => NoPongIgnored
  BY DEF Init, NoPongIgnored
<1>2. Typed /\ Summary /\ Room /\ NoPongIgnored /\ [Next]_vars => NoPongIgnored'
  <2> SUFFICES ASSUME Typed, Summary, Room, NoPongIgnored, [Next]_vars
               PROVE  NoPongIgnored'
    OBVIOUS
  <2>0. UNCHANGED plan
    BY DEF Next, Terminated, vars
  <2> DEFINE Fits == Port = "cs" => ~NoPayload /\ ~CoarseClock
  <2>1. (Fits' <=> Fits) /\ Pings' = Pings
    BY <2>0 DEF Port, NoPayload, CoarseClock, Pings, NumIter
  <2> SUFFICES ASSUME Fits, NEW j \in Pings, ping'[j] = "ignored"
               PROVE  FALSE
    BY <2>1 DEF NoPongIgnored
  <2>2. ping[j] # "ignored" /\ ping \in [Pings -> Fates]
    BY DEF NoPongIgnored, Typed, TypeOK
  <2>3. ProcessPong(j) /\ count >= NumLatency
    <3>1. ping' # ping
      BY <2>2
    <3>2. PICK k \in Pings : PingStep(k)
      <4>1. ~SendSample
        BY <2>2 DEF SendSample
      <4> QED BY <3>1, <4>1
              DEF Next, Step, Publisher, SkipTurn, WaitReturns, WaitTimesOut, EndTurn,
                  WaitAborted, SortHistory, PrintSummary, Timeout, Terminated, vars,
                  PingStep
    <3> QED BY <2>2, <3>2
            DEF PingStep, Echo, Lose, DropPong, ProcessPong, SuspectClock
  <2>4. /\ numPings \in Nat /\ count \in Nat /\ NumLatency \in Nat
        /\ LatencyCount * numPings <= LastBatch + LatencyCount
        /\ plan \in Plans /\ ~CoarseClock
    <3>1. plan \in Plans
      BY DEF Typed, TypeOK
    <3>2. ~CoarseClock
      BY <3>1, PlanAssumption DEF IsPlan, CoarseClock, Port
    <3> QED BY <3>1, <3>2, NumLatencyType, PlanFacts DEF Typed, TypeOK, Room
  <2>5. numPings <= NumLatency + 1 /\ (Port = "cpp" => numPings <= NumLatency)
        /\ NumLatency >= 1
    BY <2>4, HistoryHasRoom
  <2>6. /\ ping[j] = "pong" /\ Recorded \cup {j} \cup Discarded \subseteq 0 .. numPings - 1
        /\ IsFiniteSet(Recorded) /\ Cardinality(Recorded) \in Nat
        /\ j \notin Recorded
    <3>1. ping[j] = "pong"
      BY <2>3 DEF ProcessPong, IsNext
    <3>2. \A k \in Pings : ping[k] # "none" => k \in 0 .. numPings - 1
      BY <2>4 DEF Typed, PingsSent, Pings
    <3> QED BY <2>4, <3>1, <3>2, RecordedFinite, FS_CardinalityType
            DEF Recorded, Discarded
  <2>7. /\ IsFiniteSet(Recorded \cup {j})
        /\ Cardinality(Recorded \cup {j}) = Cardinality(Recorded) + 1
    BY <2>6, FS_AddElement
  <2>8. IsFiniteSet(0 .. numPings - 1) /\ Cardinality(0 .. numPings - 1) = numPings
    BY <2>4, FS_Interval
  <2>9. Cardinality(Recorded) + 1 <= numPings
    BY <2>6, <2>7, <2>8, FS_Subset
  <2>10. count <= Cardinality(Recorded)
    BY DEF Room
  <2>11. Port = "cs" /\ ~NoPayload
    <3>1. Port # "cpp"
      BY <2>3, <2>4, <2>5, <2>6, <2>9, <2>10
    <3>2. Port \in {"cs", "cpp"}
      BY <2>4, PlanAssumption DEF IsPlan, Port
    <3> QED BY <3>1, <3>2
  <2>12. sizeKnown
    <3>1. CASE ~sizeKnown
      <4>1. Recorded = {}
        BY <3>1 DEF Summary, FirstPong
      <4>2. Cardinality(Recorded) = 0
        BY <4>1, FS_EmptySet
      <4> QED BY <2>3, <2>4, <2>5, <2>10, <4>2
    <3> QED BY <3>1
  <2>13. PICK d \in Pings : Discarded = {d}
    BY <2>11, <2>12 DEF Summary, FirstPong
  <2>14. d \notin Recorded \cup {j}
    BY <2>6, <2>13 DEF Recorded, Discarded
  <2>15. Cardinality((Recorded \cup {j}) \cup {d}) = Cardinality(Recorded) + 2
    <3>1. Cardinality((Recorded \cup {j}) \cup {d}) = Cardinality(Recorded \cup {j}) + 1
      BY <2>7, <2>14, FS_AddElement
    <3> QED BY <2>6, <2>7, <3>1
  <2>16. Cardinality(Recorded) + 2 <= numPings
    <3>1. (Recorded \cup {j}) \cup {d} \subseteq 0 .. numPings - 1
      BY <2>6, <2>13
    <3>2. Cardinality((Recorded \cup {j}) \cup {d}) <= Cardinality(0 .. numPings - 1)
      BY <2>8, <3>1, FS_Subset
    <3> QED BY <2>8, <2>15, <3>2
  <2> QED BY <2>3, <2>4, <2>5, <2>6, <2>10, <2>16
<1> QED BY <1>1, <1>2, AlwaysTyped, AlwaysSummary, AlwaysRoom, PTL DEF Spec
=============================================================================
