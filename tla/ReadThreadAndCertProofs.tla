------------------------ MODULE ReadThreadAndCertProofs ------------------------
(***************************************************************************)
(* TLAPS proofs about two parts of the classic C++ port.                   *)
(*                                                                         *)
(* CppReadThread: the main thread and the read thread agree on when the    *)
(* reader may be deleted, the loans of the middleware are returned, and    *)
(* every sample with data is handed out once and in order, for every       *)
(* number of samples, every implementation of receive_message and both     *)
(* infrastructures.                                                        *)
(*                                                                         *)
(* CertBinding: what a process asserts of the other one exists there, no   *)
(* sample is written with a handle that was not registered, and a failed   *)
(* start leaves no component registered, for every command line.           *)
(***************************************************************************)
EXTENDS CppReadThread, CertBinding, WellFoundedInduction, TLAPS

ConfigFacts ==
  /\ config \in Configs
  /\ Infrastructure \in {"os", "cpp11"}

Rigid ==
  /\ config' = config /\ Reader' = Reader /\ Infrastructure' = Infrastructure
  /\ UnblockFails' = UnblockFails /\ MaxSamples' = MaxSamples /\ Samples' = Samples
  /\ Invalid' = Invalid

\* An execution keeps its reader.
LEMMA ConfigIsRigid ==
  ASSUME Next \/ UNCHANGED vars
  PROVE  Rigid
BY DEF Next, Done, vars, Rigid, Reader, Infrastructure, UnblockFails, MaxSamples, Samples,
       Invalid

-----------------------------------------------------------------------------
(* finalize_read_thread.                                                    *)

\* What the main thread may conclude: from a permit of the semaphore of the OS
\* infrastructure, which starts empty; from having taken one; from having joined.
Finalized ==
  /\ ConfigFacts
  /\ (Infrastructure = "os" /\ semaphore > 0) => threadPc = "ended"
  /\ (Infrastructure = "os" /\ ~UnblockFails /\ mainPc \in {"delete", "deleted"})
       => threadPc = "ended"
  /\ (Infrastructure = "cpp11" /\ mainPc = "deleted") => threadPc = "ended"

\* A thread that has given the semaphore does nothing any more.
LEMMA EndedThreadRests ==
  ASSUME ReadThread
  PROVE  threadPc # "ended"
BY DEF ReadThread, StartThread, LoopHead, ProcessMessage, GiveSemaphore, ReceiveHead,
       WaitReturns, Take, ReceivePacket, Scan

\* Only its first and its last step touch the semaphore.
LEMMA SemaphoreOfThread ==
  ASSUME ReadThread
  PROVE  \/ semaphore' = semaphore
         \/ semaphore' = SemaphoreStart
         \/ threadPc' = "ended"
BY DEF ReadThread, StartThread, LoopHead, ProcessMessage, GiveSemaphore, ReceiveHead,
       WaitReturns, Take, ReceivePacket, Scan, syncVars

\* The read thread never moves the main thread.
LEMMA ThreadLeavesMain ==
  ASSUME ReadThread
  PROVE  mainPc' = mainPc
BY DEF ReadThread, StartThread, LoopHead, ProcessMessage, GiveSemaphore, ReceiveHead,
       WaitReturns, Take, ReceivePacket, Scan

LEMMA AlwaysFinalized == Spec => []Finalized
<1>1. Init => Finalized
  BY ReaderAssumption
     DEF Init, Finalized, ConfigFacts, Infrastructure
<1>2. Finalized /\ [Next]_vars => Finalized'
  <2> SUFFICES ASSUME Finalized, [Next]_vars PROVE Finalized'
    OBVIOUS
  <2>0. Rigid
    BY ConfigIsRigid
  <2> USE <2>0 DEF Rigid, Finalized, ConfigFacts
  <2>1. CASE ReadThread
    BY <2>1, EndedThreadRests, SemaphoreOfThread, ThreadLeavesMain DEF SemaphoreStart
  <2>2. CASE Arrive
    BY <2>2 DEF Arrive, syncVars
  <2>3. CASE FinalizeReadThread
    BY <2>3 DEF FinalizeReadThread
  <2>4. CASE Unblock
    BY <2>4 DEF Unblock
  <2>5. CASE TakeSemaphore
    <3>1. semaphore > 0 /\ mainPc' = "delete" /\ threadPc' = threadPc
      BY <2>5 DEF TakeSemaphore
    <3>2. Infrastructure = "os" => threadPc = "ended"
      BY <3>1
    <3> QED BY <3>1, <3>2
  <2>6. CASE DeleteReader
    BY <2>6 DEF DeleteReader, ThreadDeleted, syncVars
  <2>7. CASE UNCHANGED vars
    BY <2>7 DEF vars, syncVars
  <2> QED BY <2>1, <2>2, <2>3, <2>4, <2>5, <2>6, <2>7 DEF Next, Main, Done
<1> QED BY <1>1, <1>2, PTL DEF Spec

\* finalize_read_thread lets the main thread delete the reader, its listener and
\* the semaphore only when ReadThread is past its last use of them, unless the
\* wake-up of the thread failed.
THEOREM ReadThreadOutlived == Spec => []NoUseAfterDelete
<1>1. Finalized => NoUseAfterDelete
  BY DEF Finalized, ConfigFacts, NoUseAfterDelete
<1> QED BY <1>1, AlwaysFinalized, PTL

-----------------------------------------------------------------------------
(* Types.                                                                   *)

\* The semaphore has at most its first permit until the thread ends.
FewPermits == threadPc # "ended" => semaphore <= 1

Typed == config \in Configs /\ SampleTypes /\ ThreadTypes /\ FewPermits

\* The read thread moves samples from the cache to a loan and on to the listener ...
LEMMA ThreadKeepsSamples ==
  ASSUME MaxSamples \in Nat, SampleTypes, ReadThread, Rigid
  PROVE  SampleTypes'
<1> USE DEF Rigid, SampleTypes, readerVars, syncVars
<1>1. CASE StartThread \/ LoopHead \/ GiveSemaphore
  BY <1>1 DEF StartThread, LoopHead, GiveSemaphore
<1>2. CASE ProcessMessage
  <2>1. CASE message = 0
    BY <1>2, <2>1 DEF ProcessMessage
  <2>2. CASE message # 0
    <3>1. message \in Samples
      BY <2>2 DEF Samples
    <3>2. Append(processed, message) \in Seq(Samples)
      BY <3>1
    <3> QED BY <1>2, <2>2, <3>2 DEF ProcessMessage
  <2> QED BY <2>1, <2>2
<1>3. CASE ReceiveHead \/ WaitReturns
  BY <1>3 DEF ReceiveHead, WaitReturns, Return, Samples
<1>4. CASE Take
  <2>1. CASE queue = <<>>
    BY <1>4, <2>1 DEF Take, Continue
  <2>2. CASE queue # <<>>
    BY <1>4, <2>2 DEF Take
  <2> QED BY <2>1, <2>2
<1>5. CASE ReceivePacket
  <2>1. CASE Return(0) /\ UNCHANGED <<queue, readerVars>>
    BY <1>5, <2>1 DEF ReceivePacket, Return
  <2>2. ASSUME NEW n \in 1 .. Len(queue),
               seq' = SubSeq(queue, 1, n),
               queue' = SubSeq(queue, n + 1, Len(queue)),
               idx' = 0, UNCHANGED message
        PROVE  SampleTypes'
    BY <1>5, <2>2 DEF ReceivePacket
  <2> HIDE DEF SampleTypes
  <2> QED BY <1>5, <2>1, <2>2 DEF ReceivePacket
<1>6. CASE Scan
  <2>1. UNCHANGED <<arrived, queue, processed>>
    BY <1>6 DEF Scan
  <2>2. CASE ReturnLoan
    BY <2>1, <2>2 DEF ReturnLoan, Continue
  <2>3. CASE SkipRest
    BY <2>1, <2>3 DEF SkipRest, Continue
  <2>4. CASE ReadBehindEnd
    BY <2>1, <2>4 DEF ReadBehindEnd
  <2>5. ASSUME NEW i \in idx .. Len(seq) - 1, PassOver(i)
        PROVE  SampleTypes'
    BY <2>1, <2>5 DEF PassOver, Continue
  <2>6. ASSUME NEW i \in idx .. Len(seq) - 1, HandOut(i)
        PROVE  SampleTypes'
    <3>1. seq[i + 1] \in Samples
      OBVIOUS
    <3> QED BY <2>1, <2>6, <3>1 DEF HandOut, Return, Samples
  <2>7. FirstValid \subseteq idx .. Len(seq) - 1
    BY DEF FirstValid
  <2>8. CASE ScanRaw
    BY <2>2, <2>6, <2>8 DEF ScanRaw
  <2> QED
    BY <1>6, <2>2, <2>3, <2>4, <2>5, <2>6, <2>7, <2>8
       DEF Scan, ScanClassic, ScanFlatData, ScanCert, ScanCertZCopy
<1> QED BY <1>1, <1>2, <1>3, <1>4, <1>5, <1>6 DEF ReadThread

\* ... and keeps its own state, and the flags it shares, within their types.
LEMMA ThreadKeepsFlags ==
  ASSUME ThreadTypes, FewPermits, ReadThread
  PROVE  ThreadTypes' /\ FewPermits'
<1> USE DEF ThreadTypes, FewPermits, readerVars, syncVars
<1>1. CASE StartThread \/ LoopHead \/ GiveSemaphore
  BY <1>1 DEF StartThread, LoopHead, GiveSemaphore, SemaphoreStart, Given
<1>2. CASE ProcessMessage
  <2>1. endTest' \in BOOLEAN
    BY <1>2, Zenon DEF ProcessMessage
  <2> QED BY <1>2, <2>1 DEF ProcessMessage
<1>3. CASE ReceiveHead
  BY <1>3 DEF ReceiveHead, Return
<1>4. CASE WaitReturns
  BY <1>4 DEF WaitReturns, Return
<1>5. CASE Take
  BY <1>5 DEF Take, Continue
<1>6. CASE ReceivePacket
  BY <1>6 DEF ReceivePacket, Return
<1>7. CASE Scan
  <2>1. threadPc = "scan" /\ UNCHANGED <<mainPc, syncVars>>
    BY <1>7 DEF Scan
  <2>2. CASE ReturnLoan
    BY <2>1, <2>2 DEF ReturnLoan, Continue
  <2>3. CASE SkipRest
    BY <2>1, <2>3 DEF SkipRest, Continue
  <2>4. CASE ReadBehindEnd
    BY <2>1, <2>4 DEF ReadBehindEnd
  <2>5. ASSUME NEW i, PassOver(i)
        PROVE  ThreadTypes' /\ FewPermits'
    BY <2>1, <2>5 DEF PassOver, Continue
  <2>6. ASSUME NEW i, HandOut(i)
        PROVE  ThreadTypes' /\ FewPermits'
    BY <2>1, <2>6 DEF HandOut, Return
  <2>7. CASE ScanRaw
    BY <2>2, <2>6, <2>7 DEF ScanRaw
  <2> QED
    BY <1>7, <2>2, <2>3, <2>4, <2>5, <2>6, <2>7
       DEF Scan, ScanClassic, ScanFlatData, ScanCert, ScanCertZCopy
<1> QED BY <1>1, <1>2, <1>3, <1>4, <1>5, <1>6, <1>7 DEF ReadThread

LEMMA AlwaysTyped == Spec => []Typed
<1>1. Init => Typed
  <2> SUFFICES ASSUME Init PROVE Typed
    OBVIOUS
  <2>1. MaxSamples \in Nat
    BY ReaderAssumption DEF Init, MaxSamples
  <2>2. SampleTypes
    BY <2>1 DEF Init, SampleTypes
  <2>3. noData \in BOOLEAN
    <3>1. noData = (Reader \in {"cert", "certZCopy", "raw"})
      BY DEF Init
    <3> QED BY <3>1
  <2>4. /\ loan \in BOOLEAN /\ endTest \in BOOLEAN
        /\ unblocked \in BOOLEAN /\ trigger \in BOOLEAN
        /\ threadPc = "start" /\ mainPc = "test" /\ semaphore = -1
    BY DEF Init
  <2>5. ThreadTypes /\ FewPermits
    BY <2>3, <2>4 DEF ThreadTypes, FewPermits
  <2> QED BY <2>2, <2>5 DEF Init, Typed
<1>2. Typed /\ [Next]_vars => Typed'
  <2> SUFFICES ASSUME Typed, [Next]_vars PROVE Typed'
    OBVIOUS
  <2>0. Rigid /\ MaxSamples \in Nat
    BY ConfigIsRigid, ReaderAssumption DEF Typed, MaxSamples
  <2>1. CASE ReadThread
    BY <2>0, <2>1, ThreadKeepsSamples, ThreadKeepsFlags DEF Typed, Rigid
  <2>2. CASE Arrive
    <3>1. arrived + 1 \in Samples
      BY <2>0, <2>2 DEF Arrive, Samples, Typed, SampleTypes
    <3>2. SampleTypes'
      BY <2>0, <2>2, <3>1 DEF Arrive, Typed, SampleTypes, Rigid, Samples, readerVars
    <3>3. ThreadTypes' /\ FewPermits'
      BY <2>2 DEF Arrive, Typed, ThreadTypes, FewPermits, readerVars, syncVars
    <3> QED BY <2>0, <3>2, <3>3 DEF Typed, Rigid
  <2>3. CASE Main \/ UNCHANGED vars
    <3>1. SampleTypes'
      BY <2>0, <2>3
         DEF Main, FinalizeReadThread, Unblock, TakeSemaphore, DeleteReader, vars, Typed,
             SampleTypes, Rigid, readerVars
    <3>2. ThreadTypes' /\ FewPermits'
      <4> USE DEF Typed, ThreadTypes, FewPermits, readerVars, syncVars
      <4>1. CASE FinalizeReadThread
        BY <4>1 DEF FinalizeReadThread
      <4>2. CASE TakeSemaphore
        BY <4>2 DEF TakeSemaphore
      <4>3. CASE Unblock
        <5>1. unblocked' \in BOOLEAN
          BY <4>3 DEF Unblock, WakeReader
        <5> QED BY <4>3, <5>1 DEF Unblock, WakeReader
      <4>4. CASE DeleteReader
        <5>1. loan' \in BOOLEAN
          BY <4>4 DEF DeleteReader
        <5> QED BY <4>4, <5>1 DEF DeleteReader
      <4>5. CASE UNCHANGED vars
        BY <4>5 DEF vars
      <4> QED BY <2>3, <4>1, <4>2, <4>3, <4>4, <4>5 DEF Main
    <3> QED BY <2>0, <3>1, <3>2 DEF Typed, Rigid
  <2> QED BY <2>1, <2>2, <2>3 DEF Next, Done
<1> QED BY <1>1, <1>2, PTL DEF Spec

\* Reader, thread and main thread keep their types; _data_idx stays within the loan,
\* and the semaphore of either infrastructure within its permits.
THEOREM TypeCorrect == Spec => []TypeOK
<1>1. Typed => TypeOK
  BY DEF Typed, TypeOK
<1> QED BY <1>1, AlwaysTyped, PTL

-----------------------------------------------------------------------------
(* The loans of receive_message.                                            *)

\* _no_data says that no loan is open, and a thread that waits or takes has it; the
\* samples not yet handed out, and the message handed out last, are in an open loan.
LoanInv ==
  /\ noData => ~loan
  /\ threadPc \in {"wait", "take"} => noData
  /\ (idx < Len(seq) /\ mainPc # "deleted") => loan
  /\ (threadPc = "process" /\ message # 0 /\ mainPc # "deleted") => loan
  /\ (Reader # "dynamic" /\ mainPc = "deleted" /\ ~UnblockFails) => ~loan

\* The steps of receive_message over a loan.
LEMMA ScanKeepsLoans ==
  ASSUME Typed, LoanInv, mainPc # "deleted" \/ UnblockFails, Scan, Rigid
  PROVE  LoanInv'
<1> USE DEF Rigid, LoanInv, Typed, SampleTypes
<1>1. /\ threadPc = "scan" /\ mainPc' = mainPc /\ arrived' = arrived /\ queue' = queue
  BY DEF Scan
<1>2. CASE ReturnLoan
  BY <1>1, <1>2 DEF ReturnLoan, Continue
<1>3. CASE SkipRest
  BY <1>1, <1>3 DEF SkipRest, Continue
<1>4. CASE ReadBehindEnd
  BY <1>1, <1>4 DEF ReadBehindEnd, readerVars
<1>5. ASSUME NEW i \in FirstValid, PassOver(i)
      PROVE  LoanInv'
  BY <1>1, <1>5 DEF FirstValid, PassOver, Continue
<1>6. ASSUME NEW i \in idx .. Len(seq) - 1, HandOut(i)
      PROVE  LoanInv'
  BY <1>1, <1>6 DEF HandOut, Return
<1>7. FirstValid \subseteq idx .. Len(seq) - 1
  BY DEF FirstValid
<1>8. CASE ScanRaw
  BY <1>2, <1>6, <1>8 DEF ScanRaw
<1> QED
  BY <1>2, <1>3, <1>4, <1>5, <1>6, <1>7, <1>8
     DEF Scan, ScanClassic, ScanFlatData, ScanCert, ScanCertZCopy

\* The steps that take samples from the cache, or a packet from the socket.
LEMMA TakeKeepsLoans ==
  ASSUME Typed, LoanInv, mainPc # "deleted" \/ UnblockFails, Take \/ ReceivePacket, Rigid
  PROVE  LoanInv'
<1> USE DEF Rigid, LoanInv, Typed, SampleTypes
<1>1. CASE Take
  <2>1. CASE queue = <<>>
    BY <1>1, <2>1 DEF Take, Continue, readerVars
  <2>2. CASE queue # <<>>
    BY <1>1, <2>2 DEF Take
  <2> QED BY <2>1, <2>2
<1>2. CASE ReceivePacket
  <2>1. CASE trigger /\ Return(0) /\ UNCHANGED <<queue, readerVars>>
    BY <1>2, <2>1 DEF ReceivePacket, Return, readerVars
  <2>2. ASSUME NEW n \in 1 .. Len(queue),
               seq' = SubSeq(queue, 1, n),
               queue' = SubSeq(queue, n + 1, Len(queue)),
               idx' = 0, noData' = FALSE, loan' = TRUE, threadPc' = "scan"
        PROVE  LoanInv'
    BY <1>2, <2>2 DEF ReceivePacket
  <2> QED BY <1>2, <2>1, <2>2 DEF ReceivePacket
<1> QED BY <1>1, <1>2

\* The other steps of the read thread.
LEMMA ThreadKeepsLoans ==
  ASSUME Typed, LoanInv, ReadThread, Rigid, mainPc # "deleted" \/ UnblockFails
  PROVE  LoanInv'
<1> USE DEF Rigid, LoanInv, Typed, SampleTypes, readerVars, syncVars
<1>1. CASE StartThread
  BY <1>1 DEF StartThread
<1>2. CASE LoopHead
  BY <1>2 DEF LoopHead
<1>3. CASE ProcessMessage
  BY <1>3 DEF ProcessMessage
<1>4. CASE GiveSemaphore
  BY <1>4 DEF GiveSemaphore
<1>5. CASE ReceiveHead
  BY <1>5 DEF ReceiveHead, Return
<1>6. CASE WaitReturns
  BY <1>6 DEF WaitReturns, Return
<1> QED
  BY <1>1, <1>2, <1>3, <1>4, <1>5, <1>6, ScanKeepsLoans, TakeKeepsLoans DEF ReadThread

LEMMA AlwaysLoanInv == Spec => []LoanInv
<1>1. Init => LoanInv
  BY DEF Init, LoanInv
<1>2. Typed /\ LoanInv /\ Finalized /\ [Next]_vars => LoanInv'
  <2> SUFFICES ASSUME Typed, LoanInv, Finalized, [Next]_vars PROVE LoanInv'
    OBVIOUS
  <2>0. Rigid
    BY ConfigIsRigid
  <2>1. CASE ReadThread
    <3>1. mainPc # "deleted" \/ UnblockFails
      BY <2>1, EndedThreadRests DEF Finalized, ConfigFacts
    <3> QED BY <2>0, <2>1, <3>1, ThreadKeepsLoans
  <2> USE <2>0 DEF Rigid, LoanInv, Typed, SampleTypes, readerVars, syncVars
  <2>2. CASE Arrive
    BY <2>2 DEF Arrive
  <2>3. CASE FinalizeReadThread
    BY <2>3 DEF FinalizeReadThread
  <2>4. CASE Unblock
    BY <2>4 DEF Unblock
  <2>5. CASE TakeSemaphore
    BY <2>5 DEF TakeSemaphore
  <2>6. CASE DeleteReader
    BY <2>6 DEF DeleteReader
  <2>7. CASE UNCHANGED vars
    BY <2>7 DEF vars
  <2> QED BY <2>1, <2>2, <2>3, <2>4, <2>5, <2>6, <2>7 DEF Next, Main, Done
<1> QED BY <1>1, <1>2, AlwaysTyped, AlwaysFinalized, PTL DEF Spec

\* Every implementation of receive_message but the one for dynamic data, whose
\* sequences shutdown does not know, returns its loans before it takes again and
\* leaves none open when the reader is deleted.
THEOREM LoansReturned ==
  ASSUME \A c \in Configs : c.reader # "dynamic"
  PROVE  Spec => []LoansAreClosed
<1>1. LoanInv /\ Finalized => LoansAreClosed
  BY DEF LoanInv, Finalized, ConfigFacts, LoansAreClosed, Reader
<1> QED BY <1>1, AlwaysLoanInv, AlwaysFinalized, PTL

-----------------------------------------------------------------------------
(* The stream of samples.                                                   *)

\* What was processed is the samples with data that are dealt with, in their order.
ProcessedInv ==
  /\ \A n \in 1 .. DealtWith : n \notin Invalid =>
       \E i \in 1 .. Len(processed) : processed[i] = n
  /\ \A i \in 1 .. Len(processed) : processed[i] \in (1 .. DealtWith) \ Invalid
  /\ \A i, j \in 1 .. Len(processed) : i < j => processed[i] < processed[j]

\* What is under way follows; a message has data, and without data there is no rest
\* of a loan that the next take could lose.
StreamInv ==
  /\ PendingInOrder /\ ProcessedInv
  /\ DealtWith \in Nat
  /\ InHand = 1 => message \notin Invalid
  /\ noData => idx = Len(seq)

LEMMA Counts ==
  ASSUME SampleTypes, MaxSamples \in Nat
  PROVE  /\ InHand \in {0, 1} /\ InLoan \in Nat /\ DealtWith \in Int
         /\ arrived \in Nat /\ Len(queue) \in Nat /\ Len(seq) \in Nat /\ idx \in 0 .. Len(seq)
         /\ Len(processed) \in Nat
<1>1. /\ arrived \in Nat /\ Len(queue) \in Nat /\ Len(seq) \in Nat /\ idx \in 0 .. Len(seq)
      /\ Len(processed) \in Nat
  BY DEF SampleTypes
<1>2. InHand \in {0, 1}
  BY DEF InHand
<1>3. InLoan \in Nat
  BY <1>1 DEF InLoan
<1> QED BY <1>1, <1>2, <1>3 DEF DealtWith

\* The first sample with data is the least of those with data.
LEMMA NoFirstValid ==
  ASSUME idx \in Nat, Len(seq) \in Nat, FirstValid = {}
  PROVE  \A j \in idx .. Len(seq) - 1 : seq[j + 1] \in Invalid
<1> DEFINE S == {j \in idx .. Len(seq) - 1 : seq[j + 1] \notin Invalid}
<1> SUFFICES ASSUME S # {} PROVE FALSE
  OBVIOUS
<1>1. S \in SUBSET Nat
  OBVIOUS
<1>2. PICK n \in S : \A k \in S : ~(<<k, n>> \in OpToRel(<, Nat))
  BY <1>1, NatLessThanWellFounded, WFMin
<1>3. \A k \in S : ~(k < n)
  BY <1>1, <1>2 DEF OpToRel
<1>4. ASSUME NEW j \in idx .. n - 1
      PROVE  seq[j + 1] \in Invalid
  <2>1. n \in idx .. Len(seq) - 1
    BY <1>2
  <2>2. j \in idx .. Len(seq) - 1 /\ j < n
    BY <2>1
  <2> QED BY <1>3, <2>2
<1>5. n \in FirstValid
  BY <1>2, <1>4 DEF FirstValid
<1> QED BY <1>5

\* The steps that only move the threads.
LEMMA StreamKept ==
  ASSUME StreamInv, Rigid, UNCHANGED <<arrived, queue, seq, idx, noData, processed>>,
         InHand' = InHand, InHand = 1 => message' = message
  PROVE  StreamInv'
<1>1. InLoan' = InLoan /\ DealtWith' = DealtWith
  BY DEF InLoan, DealtWith
<1>2. PendingInOrder'
  BY <1>1 DEF StreamInv, PendingInOrder
<1>3. ProcessedInv'
  BY <1>1 DEF StreamInv, ProcessedInv, Rigid
<1> QED BY <1>1, <1>2, <1>3 DEF StreamInv, Rigid

\* More is dealt with when none of it has data.
LEMMA NoDataDealtWith ==
  ASSUME ProcessedInv, Rigid, processed' = processed,
         DealtWith \in Nat, DealtWith' \in Nat, DealtWith <= DealtWith',
         \A n \in DealtWith + 1 .. DealtWith' : n \in Invalid
  PROVE  ProcessedInv'
<1>1. ASSUME NEW n \in 1 .. DealtWith', n \notin Invalid
      PROVE  \E i \in 1 .. Len(processed) : processed[i] = n
  BY <1>1 DEF ProcessedInv
<1>2. ASSUME NEW i \in 1 .. Len(processed)
      PROVE  processed[i] \in (1 .. DealtWith') \ Invalid
  BY <1>2 DEF ProcessedInv
<1> QED BY <1>1, <1>2 DEF ProcessedInv, Rigid

LEMMA Shift ==
  ASSUME NEW a \in Int, NEW b \in Int, NEW l \in Int, NEW i \in Int,
         a <= b, 1 <= i, i <= l - b
  PROVE  (b - a) + i \in 1 .. l - a /\ a + ((b - a) + i) = b + i
OBVIOUS

\* A loan is worked on up to the sample k, and what is passed over has no data.
LEMMA LoanWorkedOn ==
  ASSUME StreamInv, SampleTypes, MaxSamples \in Nat, Rigid, InHand = 0,
         UNCHANGED <<arrived, queue, seq, noData, processed>>,
         NEW k \in idx .. Len(seq), k \in Nat,
         \A j \in idx .. k - 1 : seq[j + 1] \in Invalid,
         \/ idx' = k /\ InHand' = 0
         \/ /\ k < Len(seq) /\ idx' = k + 1 /\ InHand' = 1
            /\ message' = seq[k + 1] /\ seq[k + 1] \notin Invalid
  PROVE  StreamInv'
<1>1. /\ InLoan \in Nat /\ DealtWith \in Nat /\ arrived \in Nat /\ Len(queue) \in Nat
      /\ Len(seq) \in Nat /\ idx \in 0 .. Len(seq)
      /\ InLoan = Len(seq) - idx /\ DealtWith = arrived - Len(queue) - InLoan
  BY Counts DEF StreamInv, InLoan, DealtWith
<1>2. /\ InLoan' = Len(seq) - idx' /\ DealtWith' = arrived - Len(queue) - InLoan' - InHand'
  BY DEF InLoan, DealtWith
<1>3. /\ InLoan' \in Nat /\ DealtWith' = DealtWith + (k - idx)
      /\ DealtWith' + InHand' = DealtWith + (idx' - idx)
      /\ idx' \in 0 .. Len(seq) /\ InHand' \in {0, 1} /\ idx' >= idx
      /\ DealtWith' \in Nat
  <2>1. k \in Nat /\ idx <= k /\ k <= Len(seq)
    BY <1>1
  <2>2. CASE idx' = k /\ InHand' = 0
    BY <1>1, <1>2, <2>1, <2>2
  <2>3. CASE k < Len(seq) /\ idx' = k + 1 /\ InHand' = 1
    BY <1>1, <1>2, <2>1, <2>3
  <2> QED BY <2>2, <2>3
<1>4. /\ \A i \in 1 .. Len(seq) - idx : seq[idx + i] = DealtWith + i
      /\ \A i \in 1 .. Len(queue) : queue[i] = DealtWith + InLoan + i
  <2>1. DealtWith + InHand = DealtWith
    BY <1>1
  <2> QED BY <1>1, <2>1, Zenon DEF StreamInv, PendingInOrder
<1>5. ASSUME NEW j \in idx .. Len(seq) - 1
      PROVE  seq[j + 1] = DealtWith + (j + 1 - idx)
  <2>1. j + 1 - idx \in 1 .. Len(seq) - idx /\ idx + (j + 1 - idx) = j + 1
    BY <1>1
  <2> QED BY <1>4, <2>1
<1>6. PendingInOrder'
  <2>1. ASSUME InHand' = 1
        PROVE  message' = DealtWith' + 1
    <3>1. k < Len(seq) /\ message' = seq[k + 1]
      BY <2>1
    <3>2. k \in idx .. Len(seq) - 1
      BY <1>1, <3>1
    <3>3. message' = DealtWith + (k + 1 - idx)
      BY <1>5, <3>1, <3>2
    <3>4. DealtWith \in Int /\ idx \in Int /\ DealtWith' = DealtWith + (k - idx)
      BY <1>1, <1>3
    <3> QED BY <3>3, <3>4
  <2>2. idx' \in idx .. Len(seq) /\ DealtWith' + InHand' = DealtWith + (idx' - idx)
    BY <1>1, <1>3
  <2>3. \A i \in 1 .. Len(seq) - idx' : seq[idx' + i] = DealtWith' + InHand' + i
    <3> DEFINE next == idx'
    <3>1. /\ next \in Int /\ idx \in Int /\ DealtWith \in Int /\ Len(seq) \in Int
          /\ idx <= next /\ DealtWith' + InHand' = DealtWith + (next - idx)
      BY <1>1, <1>3
    <3> HIDE DEF next
    <3> SUFFICES ASSUME NEW i \in 1 .. Len(seq) - next
                 PROVE  seq[next + i] = DealtWith + (next - idx) + i
      BY <3>1, Zenon DEF next
    <3>2. /\ (next - idx) + i \in 1 .. Len(seq) - idx
          /\ idx + ((next - idx) + i) = next + i
      BY <3>1, Shift
    <3>3. seq[next + i] = DealtWith + ((next - idx) + i)
      BY <1>4, <3>2
    <3> QED BY <3>1, <3>3
  <2>4. DealtWith' + InHand' + InLoan' = DealtWith + InLoan
    <3>1. InLoan = Len(seq) - idx /\ InLoan' = Len(seq) - idx'
      BY <1>1, <1>2
    <3>2. DealtWith' + InHand' = DealtWith + (idx' - idx)
      BY <1>3
    <3>3. idx' \in Int /\ idx \in Int /\ Len(seq) \in Int
      BY <1>1, <1>3
    <3>4. DealtWith' \in Int /\ DealtWith \in Int /\ InHand' \in Int
      <4>1. DealtWith' \in Nat /\ DealtWith \in Nat /\ InHand' \in {0, 1}
        BY <1>1, <1>3, Zenon
      <4> QED BY ONLY <4>1
    <3> DEFINE next == idx'
               after == DealtWith'
               hand == InHand'
               rest == InLoan'
               last == Len(seq)
    <3>5. /\ next \in Int /\ after \in Int /\ hand \in Int /\ last \in Int /\ idx \in Int
          /\ DealtWith \in Int
          /\ InLoan = last - idx /\ rest = last - next /\ after + hand = DealtWith + (next - idx)
      BY <3>1, <3>2, <3>3, <3>4, Zenon
    <3> HIDE DEF next, after, hand, rest, last
    <3>6. after + hand + rest = DealtWith + InLoan
      BY <3>5
    <3> QED BY <3>6 DEF after, hand, rest
  <2> QED BY <1>2, <1>4, <2>1, <2>3, <2>4 DEF PendingInOrder
<1>7. ASSUME NEW n \in DealtWith + 1 .. DealtWith'
      PROVE  n \in Invalid
  <2>1. PICK j \in idx .. k - 1 : DealtWith + (j + 1 - idx) = n
    <3>1. idx + (n - DealtWith) - 1 \in idx .. k - 1
      BY <1>1, <1>3
    <3>2. DealtWith + ((idx + (n - DealtWith) - 1) + 1 - idx) = n
      BY <1>1, <1>3
    <3> QED BY <3>1, <3>2
  <2>2. j \in idx .. Len(seq) - 1
    BY <1>1, <2>1
  <2> QED BY <1>5, <2>1, <2>2
<1>8. ProcessedInv'
  BY <1>1, <1>3, <1>7, NoDataDealtWith DEF StreamInv
<1>9. noData' => idx' = Len(seq')
  BY <1>1, <1>3 DEF StreamInv
<1>10. InHand' = 1 => message' \notin Invalid'
  BY DEF Rigid
<1> QED BY <1>3, <1>6, <1>8, <1>9, <1>10 DEF StreamInv

\* process_message is called with the sample after those that are dealt with.
LEMMA MessageProcessed ==
  ASSUME StreamInv, SampleTypes, MaxSamples \in Nat, Rigid, ProcessMessage
  PROVE  StreamInv'
<1>1. UNCHANGED <<arrived, queue, seq, idx, noData, message>> /\ InHand' = 0
  BY DEF ProcessMessage, readerVars, InHand
<1>2. CASE message = 0
  <2>1. InHand = 0 /\ processed' = processed
    BY <1>2 DEF InHand, ProcessMessage
  <2> QED BY <1>1, <2>1, StreamKept
<1>3. CASE message # 0
  <2>1. InHand = 1 /\ processed' = Append(processed, message)
    BY <1>3 DEF InHand, ProcessMessage
  <2>2. /\ DealtWith \in Nat /\ message = DealtWith + 1 /\ message \notin Invalid
        /\ Len(processed) \in Nat
    BY <2>1, Counts DEF StreamInv, PendingInOrder
  <2>3. InLoan' = InLoan /\ InLoan \in Nat /\ arrived \in Nat /\ Len(queue) \in Nat
    BY <1>1, Counts DEF InLoan
  <2>4. DealtWith' = DealtWith + 1
    BY <1>1, <2>1, <2>3 DEF DealtWith
  <2>5. PendingInOrder'
    <3>1. DealtWith' + InHand' = DealtWith + InHand
      BY <1>1, <2>1, <2>2, <2>4
    <3> QED BY <1>1, <2>3, <3>1 DEF StreamInv, PendingInOrder
  <2>6. processed \in Seq(Samples) /\ message \in Samples
    BY <1>3 DEF SampleTypes, Samples
  <2> DEFINE n == Len(processed)
  <2>7. /\ Len(processed') = n + 1 /\ processed'[n + 1] = message
        /\ \A i \in 1 .. n : processed'[i] = processed[i]
    BY <2>1, <2>6
  <2>8. /\ \A m \in 1 .. DealtWith : m \notin Invalid => \E i \in 1 .. n : processed[i] = m
        /\ \A i \in 1 .. n : processed[i] \in (1 .. DealtWith) \ Invalid
        /\ \A i, j \in 1 .. n : i < j => processed[i] < processed[j]
    BY DEF StreamInv, ProcessedInv
  <2> HIDE DEF n
  <2>9. n \in Nat
    BY <2>2 DEF n
  <2>10. \A m \in 1 .. DealtWith + 1 : m \notin Invalid =>
           \E i \in 1 .. n + 1 : processed'[i] = m
    BY <2>2, <2>7, <2>8, <2>9
  <2>11. \A i \in 1 .. n + 1 : processed'[i] \in (1 .. DealtWith + 1) \ Invalid
    BY <2>2, <2>7, <2>8, <2>9
  <2>12. \A i, j \in 1 .. n + 1 : i < j => processed'[i] < processed'[j]
    <3> SUFFICES ASSUME NEW i \in 1 .. n + 1, NEW j \in 1 .. n + 1, i < j
                 PROVE  processed'[i] < processed'[j]
      OBVIOUS
    <3>1. i \in 1 .. n /\ processed'[i] = processed[i] /\ processed[i] \in 1 .. DealtWith
      BY <2>7, <2>8, <2>9
    <3>2. CASE j = n + 1
      BY <2>2, <2>7, <3>1, <3>2
    <3>3. CASE j # n + 1
      BY <2>7, <2>8, <2>9, <3>1, <3>3
    <3> QED BY <3>2, <3>3
  <2>13. ProcessedInv'
    BY <2>4, <2>7, <2>10, <2>11, <2>12 DEF ProcessedInv, Rigid
  <2> QED BY <1>1, <2>2, <2>4, <2>5, <2>13 DEF StreamInv
<1> QED BY <1>2, <1>3

\* The samples of a take are those at the head of the cache: all, or a packet.
LEMMA SamplesTaken ==
  ASSUME StreamInv, SampleTypes, MaxSamples \in Nat, Rigid,
         InHand = 0, InHand' = 0, idx = Len(seq), idx' = 0, ~noData',
         UNCHANGED <<arrived, processed>>,
         NEW n \in 0 .. Len(queue), n \in Nat,
         Len(seq') = n, Len(queue') = Len(queue) - n,
         \A i \in 1 .. n : seq'[i] = queue[i],
         \A i \in 1 .. Len(queue) - n : queue'[i] = queue[n + i]
  PROVE  StreamInv'
<1>1. /\ DealtWith \in Nat /\ arrived \in Nat /\ Len(queue) \in Nat /\ n <= Len(queue)
      /\ InLoan = 0 /\ DealtWith = arrived - Len(queue)
  BY Counts DEF StreamInv, InLoan, DealtWith
<1>2. InLoan' = n
  BY DEF InLoan
<1>3. DealtWith' = DealtWith
  BY <1>1, <1>2 DEF DealtWith
<1>4. \A i \in 1 .. Len(queue) : queue[i] = DealtWith + i
  <2>1. DealtWith + InHand + InLoan = DealtWith
    BY <1>1
  <2> QED BY <2>1, Zenon DEF StreamInv, PendingInOrder
<1>5. ASSUME NEW i \in 1 .. n
      PROVE  seq'[idx' + i] = DealtWith + i
  <2>1. i \in 1 .. Len(queue) /\ seq'[i] = queue[i] /\ idx' + i = i
    BY <1>1
  <2> QED BY <1>4, <2>1
<1>6. ASSUME NEW i \in 1 .. Len(queue) - n
      PROVE  queue'[i] = DealtWith + n + i
  <2>1. n + i \in 1 .. Len(queue)
    BY <1>1
  <2>2. queue'[i] = DealtWith + (n + i)
    BY <1>4, <2>1
  <2> QED BY <1>1, <2>2
<1>7. PendingInOrder'
  <2>1. DealtWith' + InHand' = DealtWith /\ DealtWith' + InHand' + InLoan' = DealtWith + n
    BY <1>1, <1>2, <1>3
  <2> QED BY <1>2, <1>5, <1>6, <2>1 DEF PendingInOrder
<1>8. ProcessedInv'
  BY <1>3 DEF StreamInv, ProcessedInv, Rigid
<1> QED BY <1>1, <1>3, <1>7, <1>8 DEF StreamInv

\* The end of a loan leaves nothing of it behind.
LEMMA LoanReturned ==
  ASSUME StreamInv, SampleTypes, MaxSamples \in Nat, Rigid, InHand = 0, InHand' = 0,
         idx = Len(seq), idx' = 0, seq' = <<>>, UNCHANGED <<arrived, queue, processed>>
  PROVE  StreamInv'
<1>1. /\ InLoan = 0 /\ InLoan' = 0
  BY Counts DEF InLoan
<1>2. DealtWith' = DealtWith
  BY <1>1 DEF DealtWith
<1>3. PendingInOrder'
  BY <1>1, <1>2 DEF StreamInv, PendingInOrder
<1>4. ProcessedInv'
  BY <1>2 DEF StreamInv, ProcessedInv, Rigid
<1> QED BY <1>2, <1>3, <1>4 DEF StreamInv

\* The steps of receive_message over a loan.
LEMMA ScanKeepsStream ==
  ASSUME config \in Configs, StreamInv, SampleTypes, MaxSamples \in Nat, Rigid, Scan
  PROVE  StreamInv'
<1>1. threadPc = "scan" /\ UNCHANGED <<arrived, queue, processed>> /\ InHand = 0
  BY DEF Scan, InHand
<1>2. Len(seq) \in Nat /\ idx \in 0 .. Len(seq) /\ idx \in Nat
  BY Counts
<1>3. CASE ReturnLoan
  <2>1. /\ idx = Len(seq) /\ idx' = 0 /\ seq' = <<>> /\ InHand' = 0
    BY <1>3 DEF ReturnLoan, Continue, InHand
  <2> QED BY <1>1, <2>1, LoanReturned
<1>4. CASE SkipRest
  <2>1. /\ idx' = Len(seq) /\ UNCHANGED <<seq, noData>> /\ InHand' = 0 /\ FirstValid = {}
    BY <1>4 DEF SkipRest, Continue, InHand
  <2>2. \A j \in idx .. Len(seq) - 1 : seq[j + 1] \in Invalid
    BY <1>2, <2>1, NoFirstValid
  <2>3. Len(seq) \in idx .. Len(seq)
    BY <1>2
  <2> QED BY <1>1, <1>2, <2>1, <2>2, <2>3, LoanWorkedOn
<1>5. CASE ReadBehindEnd
  <2>1. UNCHANGED <<seq, idx, noData>> /\ InHand' = 0
    BY <1>5 DEF ReadBehindEnd, readerVars, InHand
  <2> QED BY <1>1, <2>1, StreamKept
<1>6. ASSUME NEW i \in FirstValid
      PROVE  /\ i \in idx .. Len(seq) /\ i \in Nat /\ i < Len(seq)
             /\ seq[i + 1] \notin Invalid
             /\ \A j \in idx .. i - 1 : seq[j + 1] \in Invalid
  BY <1>2 DEF FirstValid
<1>7. ASSUME NEW i \in FirstValid, PassOver(i)
      PROVE  StreamInv'
  <2>1. idx' = i /\ UNCHANGED <<seq, noData>> /\ InHand' = 0
    BY <1>7 DEF PassOver, Continue, InHand
  <2> QED BY <1>1, <1>6, <2>1, LoanWorkedOn
<1>8. ASSUME NEW i \in idx .. Len(seq), i \in Nat, i < Len(seq), seq[i + 1] \notin Invalid,
             \A j \in idx .. i - 1 : seq[j + 1] \in Invalid, HandOut(i)
      PROVE  StreamInv'
  <2>1. seq[i + 1] \in Samples
    BY <1>2, <1>8 DEF SampleTypes
  <2>2. seq[i + 1] # 0
    BY <2>1 DEF Samples
  <2>3. /\ idx' = i + 1 /\ UNCHANGED <<seq, noData>> /\ InHand' = 1 /\ message' = seq[i + 1]
    BY <1>8, <2>2 DEF HandOut, Return, InHand
  <2> QED BY <1>1, <1>8, <2>3, LoanWorkedOn
<1>9. CASE Reader = "raw" /\ ScanRaw
  <2>1. Invalid = {}
    BY <1>9, ReaderAssumption DEF Invalid, Reader
  <2>2. CASE idx < Len(seq) /\ HandOut(idx)
    <3>1. idx \in idx .. Len(seq) /\ \A j \in idx .. idx - 1 : seq[j + 1] \in Invalid
      BY <1>2
    <3> QED BY <1>2, <1>8, <2>1, <2>2, <3>1
  <2> QED BY <1>3, <1>9, <2>2 DEF ScanRaw
<1>10. ASSUME NEW i \in FirstValid, HandOut(i)
       PROVE  StreamInv'
  BY <1>6, <1>8, <1>10
<1> QED
  BY <1>3, <1>4, <1>5, <1>7, <1>9, <1>10
     DEF Scan, ScanClassic, ScanFlatData, ScanCert, ScanCertZCopy

\* The steps that take samples from the cache, or a packet from the socket.
LEMMA TakeKeepsStream ==
  ASSUME LoanInv, StreamInv, SampleTypes, MaxSamples \in Nat, Rigid, Take \/ ReceivePacket
  PROVE  StreamInv'
<1>1. /\ InHand = 0 /\ idx = Len(seq) /\ UNCHANGED <<arrived, processed>>
  BY DEF Take, ReceivePacket, InHand, LoanInv, StreamInv
<1>2. queue \in Seq(Samples) /\ Len(queue) \in Nat
  BY DEF SampleTypes
<1>3. CASE Take
  <2>1. CASE queue = <<>>
    <3>1. UNCHANGED <<queue, seq, idx, noData>> /\ InHand' = 0
      BY <1>3, <2>1 DEF Take, Continue, readerVars, InHand
    <3> QED BY <1>1, <3>1, StreamKept
  <2>2. CASE queue # <<>>
    <3>1. seq' = queue /\ queue' = <<>> /\ idx' = 0 /\ ~noData' /\ InHand' = 0
      BY <1>3, <2>2 DEF Take, InHand
    <3>2. /\ Len(queue) \in 0 .. Len(queue) /\ Len(seq') = Len(queue)
          /\ Len(queue') = Len(queue) - Len(queue)
          /\ \A i \in 1 .. Len(queue) : seq'[i] = queue[i]
          /\ \A i \in 1 .. Len(queue) - Len(queue) : queue'[i] = queue[Len(queue) + i]
      BY <1>2, <3>1
    <3> QED BY <1>1, <1>2, <3>1, <3>2, SamplesTaken
  <2> QED BY <2>1, <2>2
<1>4. CASE ReceivePacket
  <2>1. CASE Return(0) /\ UNCHANGED <<queue, readerVars>>
    <3>1. UNCHANGED <<queue, seq, idx, noData>> /\ InHand' = 0
      BY <2>1 DEF Return, readerVars, InHand
    <3> QED BY <1>1, <3>1, StreamKept
  <2>2. ASSUME NEW n \in 1 .. Len(queue),
               seq' = SubSeq(queue, 1, n),
               queue' = SubSeq(queue, n + 1, Len(queue)),
               idx' = 0, noData' = FALSE, threadPc' = "scan"
        PROVE  StreamInv'
    <3>1. n \in 0 .. Len(queue) /\ n \in Nat /\ InHand' = 0
      BY <1>2, <2>2 DEF InHand
    <3>2. Len(seq') = n /\ \A i \in 1 .. n : seq'[i] = queue[i]
      BY <1>2, <2>2, <3>1
    <3>3. /\ Len(queue') = Len(queue) - n
          /\ \A i \in 1 .. Len(queue) - n : queue'[i] = queue[n + i]
      BY <1>2, <2>2, <3>1
    <3> QED BY <1>1, <2>2, <3>1, <3>2, <3>3, SamplesTaken
  <2> QED BY <1>4, <2>1, <2>2 DEF ReceivePacket
<1> QED BY <1>3, <1>4

\* A sample arrives behind those of the cache.
LEMMA ArriveKeepsStream ==
  ASSUME StreamInv, SampleTypes, MaxSamples \in Nat, Rigid, Arrive
  PROVE  StreamInv'
<1>1. /\ arrived' = arrived + 1 /\ queue' = Append(queue, arrived + 1)
      /\ UNCHANGED <<seq, idx, noData, message, processed>> /\ InHand' = InHand
  BY DEF Arrive, readerVars, InHand
<1>2. /\ InHand \in {0, 1} /\ InLoan \in Nat /\ arrived \in Nat /\ Len(queue) \in Nat
      /\ DealtWith \in Nat /\ DealtWith = arrived - Len(queue) - InLoan - InHand
  BY Counts DEF StreamInv, DealtWith
<1>3. queue \in Seq(Samples)
  BY DEF SampleTypes
<1>4. /\ Len(queue') = Len(queue) + 1 /\ queue'[Len(queue) + 1] = arrived + 1
      /\ \A i \in 1 .. Len(queue) : queue'[i] = queue[i]
  <2>1. Append(queue, arrived + 1)
          = [i \in 1 .. Len(queue) + 1 |-> IF i <= Len(queue) THEN queue[i] ELSE arrived + 1]
    BY <1>2, <1>3
  <2> QED BY <1>1, <1>2, <1>3, <2>1
<1>5. InLoan' = InLoan /\ DealtWith' = DealtWith
  BY <1>1, <1>2, <1>4 DEF InLoan, DealtWith
<1>6. ASSUME NEW i \in 1 .. Len(queue')
      PROVE  queue'[i] = DealtWith + InHand + InLoan + i
  <2>1. CASE i = Len(queue) + 1
    BY <1>2, <1>4, <2>1
  <2>2. CASE i # Len(queue) + 1
    BY <1>2, <1>4, <2>2 DEF StreamInv, PendingInOrder
  <2> QED BY <2>1, <2>2
<1>7. PendingInOrder'
  BY <1>1, <1>5, <1>6 DEF StreamInv, PendingInOrder
<1>8. ProcessedInv'
  BY <1>1, <1>5 DEF StreamInv, ProcessedInv, Rigid
<1> QED BY <1>1, <1>2, <1>5, <1>7, <1>8 DEF StreamInv, Rigid

LEMMA AlwaysStreamInv == Spec => []StreamInv
<1>1. Init => StreamInv
  <2> SUFFICES ASSUME Init PROVE StreamInv
    OBVIOUS
  <2>1. /\ arrived = 0 /\ Len(queue) = 0 /\ Len(seq) = 0 /\ idx = 0 /\ Len(processed) = 0
        /\ threadPc = "start"
    BY DEF Init
  <2>2. InHand = 0 /\ InLoan = 0 /\ DealtWith = 0
    BY <2>1 DEF InHand, InLoan, DealtWith
  <2> QED BY <2>1, <2>2 DEF StreamInv, PendingInOrder, ProcessedInv
<1>2. Typed /\ LoanInv /\ StreamInv /\ [Next]_vars => StreamInv'
  <2> SUFFICES ASSUME Typed, LoanInv, StreamInv, [Next]_vars PROVE StreamInv'
    OBVIOUS
  <2>1. Rigid /\ MaxSamples \in Nat /\ SampleTypes /\ config \in Configs
    BY ConfigIsRigid, ReaderAssumption DEF Typed, MaxSamples
  <2> USE DEF readerVars, syncVars
  <2>2. CASE StartThread \/ LoopHead \/ GiveSemaphore
    <3>1. UNCHANGED <<arrived, queue, seq, idx, noData, processed>> /\ InHand = 0 /\ InHand' = 0
      BY <2>2 DEF StartThread, LoopHead, GiveSemaphore, InHand
    <3> QED BY <2>1, <3>1, StreamKept
  <2>3. CASE ReceiveHead \/ WaitReturns
    <3>1. UNCHANGED <<arrived, queue, seq, idx, noData, processed>> /\ InHand = 0 /\ InHand' = 0
      BY <2>3 DEF ReceiveHead, WaitReturns, Return, InHand
    <3> QED BY <2>1, <3>1, StreamKept
  <2>4. CASE Main \/ UNCHANGED vars
    <3>1. /\ UNCHANGED <<arrived, queue, seq, idx, noData, processed, threadPc, message>>
      BY <2>4 DEF Main, FinalizeReadThread, Unblock, TakeSemaphore, DeleteReader, vars
    <3>2. InHand' = InHand
      BY <3>1 DEF InHand
    <3> QED BY <2>1, <3>1, <3>2, StreamKept
  <2>5. CASE ProcessMessage
    BY <2>1, <2>5, MessageProcessed
  <2>6. CASE Take \/ ReceivePacket
    BY <2>1, <2>6, TakeKeepsStream
  <2>7. CASE Scan
    BY <2>1, <2>7, ScanKeepsStream
  <2>8. CASE Arrive
    BY <2>1, <2>8, ArriveKeepsStream
  <2> QED BY <2>2, <2>3, <2>4, <2>5, <2>6, <2>7, <2>8 DEF Next, Done, ReadThread
<1> QED BY <1>1, <1>2, AlwaysTyped, AlwaysLoanInv, PTL DEF Spec

\* Of the samples that receive_message is through with, process_message was called
\* with those that carry data, once each and in the order of their arrival: for every
\* reader, every stream of samples and every cut of it into loans.
THEOREM EverySampleHandedOnce == Spec => []EverySampleOnce
<1>1. StreamInv => EverySampleOnce
  BY DEF StreamInv, ProcessedInv, EverySampleOnce
<1> QED BY <1>1, AlwaysStreamInv, PTL

-----------------------------------------------------------------------------
(* CertBinding: an inductive invariant in four parts.  A step is of one process *)
(* by itself, or of what the two of them send each other and discover.          *)

Phases ==
  {"input", "participant", "create", "entities", "endpoints", "waiting", "announcing",
   "sending", "stopped", "shutdown", "gone"}

Contents == {"announcement", "initialize", "data"}

CertTypeOK ==
  /\ cmd \in Commands
  /\ pc \in [Processes -> Phases] /\ step \in [Processes -> Nat]
  /\ registry \in [Processes -> SUBSET {"wh", "rh", "dpse", "_udp", "notif"}]
  /\ participant \in [Processes -> BOOLEAN]
  /\ enabled \in [Processes -> BOOLEAN] /\ discovered \in [Processes -> BOOLEAN]
  /\ DOMAIN endpoints = Processes /\ DOMAIN asserted = Processes
  /\ handles \in [Processes -> [Topics -> {<<>>, AllHandles}]]
  /\ counter \in [Processes -> [Topics -> Nat]]
  /\ got \in [Processes -> SUBSET Contents]
  /\ \A m \in net : m.what \in Contents

\* step counts within the part of the run that a process is in.
Fits(phase, n) ==
  /\ phase \in {"input", "create", "entities"} => n = 0
  /\ phase = "participant" => n < Len(Components)
  /\ phase \in {"endpoints", "waiting"} => n \in 0 .. 2

StepsCount == \A p \in Processes : Fits(pc[p], step[p])

\* The object id that configure_writer_qos or configure_reader_qos gives an endpoint.
ObjectId(kind, topic) == IF kind = "writer" THEN WriterId(topic) ELSE ReaderId(topic)

\* The endpoints that a process creates.
Planned(p) == {Script(p)[i] : i \in 1 .. 3}

\* Its own endpoints, and those that it asserted of the other process.
OwnIds(p) ==
  \A kind \in {"writer", "reader"}, t \in Topics :
    <<kind, t>> \in DOMAIN endpoints[p] => endpoints[p][<<kind, t>>].id = ObjectId(kind, t)

AssertedIds(p) ==
  \A a \in asserted[p] :
    /\ a.kind \in {"writer", "reader"} /\ a.topic \in Topics
    /\ <<a.kind, a.topic>> \in Planned(Other(p)) /\ a.id = ObjectId(a.kind, a.topic)

\* The endpoints exist in the order of the script, all of them once the participant
\* is enabled.
CreatedInOrder(p) ==
  /\ pc[p] = "endpoints" => \A i \in 1 .. step[p] : Script(p)[i] \in DOMAIN endpoints[p]
  /\ enabled[p] => Planned(p) \subseteq DOMAIN endpoints[p]

EndpointInv ==
  \A p \in Processes :
    OwnIds(p) /\ AssertedIds(p) /\ CreatedInOrder(p) /\ (discovered[p] => enabled[Other(p)])

Registered(p, t) == cmd.zerocopy \/ handles[p][t] = AllHandles

\* The first n waits of a process are over.
Waited(p, n) ==
  \A i \in 1 .. n : Waits(p)[i][1] = "writer" => Registered(p, Waits(p)[i][2])

WaitsDone(p) ==
  /\ pc[p] = "waiting" => Waited(p, step[p])
  /\ pc[p] \in {"announcing", "sending"} => Waited(p, 3)

\* A sample is on its way, or was received by the publisher, only after the subscriber
\* announced itself: its pongs, which the listener writes, have their handles.
PongsRegistered ==
  net # {} \/ got[PX] # {} \/ pc[PX] = "sending" => Registered(SX, "Latency")

HandleInv ==
  /\ \A p \in Processes : WaitsDone(p)
  /\ PongsRegistered
  /\ pc[SX] # "sending"
  /\ HandlesRegistered

RegistryInv ==
  ~cmd.zerocopy => \A p \in Processes :
    /\ registry[p] \subseteq Unregistered
    /\ pc[p] = "gone" /\ ~participant[p] => registry[p] = {}

LEMMA TwoProcesses ==
  /\ PX # SX /\ Processes = {PX, SX}
  /\ Other(PX) = SX /\ Other(SX) = PX
  /\ \A p \in Processes : Other(p) \in Processes /\ Other(p) # p /\ Other(Other(p)) = p
BY DEF PX, SX, Processes, Other

\* The endpoints of the two processes, in the order of their creation.
LEMMA Scripts ==
  /\ \A p \in Processes : Len(Script(p)) = 3
  /\ Script(PX)[1] = <<"writer", "Throughput">> /\ Script(PX)[2] = <<"reader", "Latency">>
  /\ Script(PX)[3] = <<"reader", "Announcement">>
  /\ Script(SX)[1] = <<"writer", "Latency">> /\ Script(SX)[2] = <<"reader", "Throughput">>
  /\ Script(SX)[3] = <<"writer", "Announcement">>
BY TwoProcesses DEF Script, Processes

LEMMA Pairs ==
  \A a, b, c, d : <<a, b>> = <<c, d>> <=> a = c /\ b = d
<1> TAKE a, b, c, d
<1>1. <<a, b>>[1] = a /\ <<a, b>>[2] = b /\ <<c, d>>[1] = c /\ <<c, d>>[2] = d
  OBVIOUS
<1> QED BY <1>1

\* What a process asserts of the other one is what that one creates, under the object
\* id that it has there; only the last creation enables the participant.
LEMMA ScriptsAgree ==
  ASSUME NEW p \in Processes, NEW i \in 1 .. 3, NEW kind, NEW topic,
         Script(p)[i] = <<kind, topic>>
  PROVE  /\ kind \in {"writer", "reader"} /\ topic \in Topics
         /\ Enables(topic) <=> i = 3
         /\ kind = "writer" => /\ RemoteReader(topic).at = Other(p)
                               /\ RemoteReader(topic).id = ReaderId(topic)
                               /\ <<"reader", topic>> \in Planned(Other(p))
         /\ kind = "reader" => /\ RemoteWriter(topic).at = Other(p)
                               /\ RemoteWriter(topic).id = WriterId(topic)
                               /\ <<"writer", topic>> \in Planned(Other(p))
<1>1. Planned(PX) = {<<"writer", "Throughput">>, <<"reader", "Latency">>,
                     <<"reader", "Announcement">>}
  <2>1. 1 .. 3 = {1, 2, 3}
    OBVIOUS
  <2> QED BY <2>1, Scripts DEF Planned
<1>2. Planned(SX) = {<<"writer", "Latency">>, <<"reader", "Throughput">>,
                     <<"writer", "Announcement">>}
  <2>1. 1 .. 3 = {1, 2, 3}
    OBVIOUS
  <2> QED BY <2>1, Scripts DEF Planned
<1>3. i \in {1, 2, 3}
  OBVIOUS
<1>4. CASE p = PX
  <2>1. \/ i = 1 /\ kind = "writer" /\ topic = "Throughput"
        \/ i = 2 /\ kind = "reader" /\ topic = "Latency"
        \/ i = 3 /\ kind = "reader" /\ topic = "Announcement"
    BY <1>3, <1>4, Scripts, Pairs
  <2> QED BY <1>2, <1>4, <2>1, TwoProcesses
          DEF Enables, RemoteReader, RemoteWriter, ReaderId, WriterId, Topics
<1>5. CASE p = SX
  <2>1. \/ i = 1 /\ kind = "writer" /\ topic = "Latency"
        \/ i = 2 /\ kind = "reader" /\ topic = "Throughput"
        \/ i = 3 /\ kind = "writer" /\ topic = "Announcement"
    BY <1>3, <1>5, Scripts, Pairs
  <2> QED BY <1>1, <1>5, <2>1, TwoProcesses
          DEF Enables, RemoteReader, RemoteWriter, ReaderId, WriterId, Topics
<1> QED BY <1>4, <1>5, TwoProcesses

-----------------------------------------------------------------------------
(* Types, and the count of steps.                                           *)

LEMMA SetAt ==
  ASSUME NEW f, DOMAIN f = Processes, NEW p \in Processes, NEW x
  PROVE  /\ DOMAIN Set(f, p, x) = Processes /\ Set(f, p, x)[p] = x
         /\ \A q \in Processes \ {p} : Set(f, p, x)[q] = f[q]
         /\ \A S : f \in [Processes -> S] /\ x \in S => Set(f, p, x) \in [Processes -> S]
BY DEF Set

LEMMA CertInitTyped == CertInit => CertTypeOK /\ StepsCount
<1> SUFFICES ASSUME CertInit PROVE CertTypeOK /\ StepsCount
  OBVIOUS
<1>1. CertTypeOK
  BY DEF CertInit, CertTypeOK, Phases, Contents
<1>2. StepsCount
  BY DEF CertInit, StepsCount, Fits
<1> QED BY <1>1, <1>2

\* The samples of a writer go to the next instance and leave its handles registered.
LEMMA SendTyped ==
  ASSUME CertTypeOK, NEW p \in Processes, NEW t \in Topics, NEW what \in Contents, NEW wild,
         Send(p, t, what, wild), cmd' = cmd
  PROVE  /\ handles' \in [Processes -> [Topics -> {<<>>, AllHandles'}]]
         /\ counter' \in [Processes -> [Topics -> Nat]]
         /\ \A m \in net' : m.what \in Contents
<1>1. AllHandles' = AllHandles
  BY DEF AllHandles
<1> DEFINE table == HandlesAtSend(p, t)
           Tables == {<<>>, AllHandles}
           row == [handles[p] EXCEPT ![t] = table]
           counts == [counter[p] EXCEPT ![t] = counter[p][t] + 1]
<1>2. handles \in [Processes -> [Topics -> Tables]] /\ table \in Tables
      /\ counter \in [Processes -> [Topics -> Nat]]
  BY DEF HandlesAtSend, CertTypeOK
<1>3. handles' = [handles EXCEPT ![p] = row]
      /\ (counter' = counter \/ counter' = [counter EXCEPT ![p] = counts])
  BY DEF Send
<1> HIDE DEF table, Tables
<1>4. row \in [Topics -> Tables] /\ counts \in [Topics -> Nat]
  BY <1>2
<1> HIDE DEF row, counts
<1>5. handles' \in [Processes -> [Topics -> Tables]]
      /\ counter' \in [Processes -> [Topics -> Nat]]
  BY <1>2, <1>3, <1>4
<1>6. \A m \in net' : m.what \in Contents
  <2>1. \A m \in net' : m \in net \/ m.what = what
    BY DEF Send
  <2> QED BY <2>1 DEF CertTypeOK
<1> QED BY <1>1, <1>5, <1>6 DEF Tables

\* A process by itself, or what the middleware brings.
Alone(p) == Process(p) /\ cmd' = cmd
Together == (Test \/ Middleware) /\ cmd' = cmd

LEMMA ComponentsCount == Len(Components) \in {4, 5}
BY DEF Components

LEMMA ComponentsKnown ==
  ASSUME NEW i \in 1 .. Len(Components)
  PROVE  /\ Components[i] \in {"wh", "rh", "dpse", "_udp", "notif"}
         /\ ~cmd.zerocopy => Components[i] \in {"wh", "rh", "dpse", "_udp"}
<1> DEFINE base == {"wh", "rh", "dpse", "_udp"}
           all == {"wh", "rh", "dpse", "_udp", "notif"}
           tail == IF cmd.zerocopy THEN <<"notif">> ELSE <<>>
<1>1. <<"wh", "rh", "dpse", "_udp">> \in Seq(base) /\ <<"wh", "rh", "dpse", "_udp">> \in Seq(all)
  OBVIOUS
<1>2. tail \in Seq(all) /\ (~cmd.zerocopy => tail \in Seq(base))
  <2>1. <<"notif">> \in Seq(all) /\ <<>> \in Seq(all) /\ <<>> \in Seq(base)
    OBVIOUS
  <2>2. CASE cmd.zerocopy
    BY <2>1, <2>2
  <2>3. CASE ~cmd.zerocopy
    BY <2>1, <2>3
  <2> QED BY <2>2, <2>3
<1>3. Components = <<"wh", "rh", "dpse", "_udp">> \o tail
  BY DEF Components
<1> HIDE DEF tail
<1>4. Components \in Seq(all) /\ (~cmd.zerocopy => Components \in Seq(base))
  BY <1>1, <1>2, <1>3
<1> QED BY <1>4

\* A process goes on, or starts the next part of its run.
Moved(p, to, n) ==
  pc' = [pc EXCEPT ![p] = to] /\ step' = [step EXCEPT ![p] = n]

EntitiesTyped ==
  /\ registry \in [Processes -> SUBSET {"wh", "rh", "dpse", "_udp", "notif"}]
  /\ participant \in [Processes -> BOOLEAN] /\ enabled \in [Processes -> BOOLEAN]
  /\ DOMAIN endpoints = Processes /\ DOMAIN asserted = Processes

LEMMA MovedTyped ==
  ASSUME CertTypeOK, StepsCount, cmd' = cmd, NEW p \in Processes,
         NEW to \in Phases, NEW n \in Nat, Moved(p, to, n), Fits(to, n),
         UNCHANGED <<discovered, dataVars>>, EntitiesTyped'
  PROVE  CertTypeOK' /\ StepsCount'
<1>1. /\ pc \in [Processes -> Phases] /\ step \in [Processes -> Nat]
      /\ AllHandles' = AllHandles /\ Components' = Components
  BY DEF CertTypeOK, AllHandles, Components
<1>2. /\ pc' \in [Processes -> Phases] /\ step' \in [Processes -> Nat]
      /\ \A q \in Processes : /\ pc'[q] = IF q = p THEN to ELSE pc[q]
                              /\ step'[q] = IF q = p THEN n ELSE step[q]
  BY <1>1 DEF Moved
<1>3. StepsCount'
  BY <1>1, <1>2 DEF StepsCount, Fits
<1>4. CertTypeOK'
  BY <1>1, <1>2 DEF CertTypeOK, EntitiesTyped, dataVars
<1> QED BY <1>3, <1>4

LEMMA AloneTyped ==
  ASSUME CertTypeOK, StepsCount, NEW p \in Processes, Alone(p)
  PROVE  CertTypeOK' /\ StepsCount'
<1>1. /\ pc \in [Processes -> Phases] /\ step \in [Processes -> Nat] /\ cmd' = cmd
      /\ EntitiesTyped
  BY DEF CertTypeOK, Alone, EntitiesTyped
<1>2. Len(Components) \in {4, 5} /\ Len(Script(p)) = 3 /\ Len(Waits(p)) = 3
  BY ComponentsCount, Scripts, TwoProcesses DEF Waits
<1>3. \A to \in Phases, n \in Nat :
        Moved(p, to, n) /\ Fits(to, n) /\ UNCHANGED <<discovered, dataVars>> /\ EntitiesTyped'
        => CertTypeOK' /\ StepsCount'
  BY <1>1, MovedTyped
<1>4. CASE ValidateInput(p)
  <2>1. /\ UNCHANGED <<step, registry, participant, endpoints, asserted, enabled, discovered,
                      dataVars>>
        /\ pc[p] = "input"
        /\ \E to \in {"shutdown", "participant"} : pc' = [pc EXCEPT ![p] = to]
    BY <1>4 DEF ValidateInput, Goto, Set
  <2>2. PICK to \in {"shutdown", "participant"} : pc' = [pc EXCEPT ![p] = to]
    BY <2>1
  <2>3. step[p] = 0
    BY <2>1 DEF StepsCount, Fits
  <2>4. Moved(p, to, 0)
    BY <1>1, <2>1, <2>2, <2>3 DEF Moved
  <2>5. to \in Phases /\ Fits(to, 0) /\ 0 \in Nat
    <3>1. 0 < Len(Components)
      <4> DEFINE l == Len(Components)
      <4>1. l = 4 \/ l = 5
        BY <1>2
      <4> HIDE DEF l
      <4>2. 0 < l
        BY <4>1
      <4> QED BY <4>2 DEF l
    <3>2. to \in Phases
      BY DEF Phases
    <3>3. to \notin {"input", "create", "entities", "endpoints", "waiting"}
      OBVIOUS
    <3> QED BY <3>1, <3>2, <3>3 DEF Fits
  <2>6. EntitiesTyped' /\ UNCHANGED <<discovered, dataVars>>
    BY <1>1, <2>1 DEF EntitiesTyped
  <2> QED BY <1>3, <2>4, <2>5, <2>6
<1>5. CASE RegisterComponent(p)
  <2> DEFINE c == Components[step[p] + 1]
             before == IF c = "_udp" THEN registry[p] \ {c} ELSE registry[p]
             last == step[p] + 1 = Len(Components)
  <2>1. pc[p] = "participant" /\ step[p] < Len(Components) /\ step[p] \in Nat
        /\ step[p] + 1 \in 1 .. Len(Components)
    BY <1>1, <1>2, <1>5 DEF RegisterComponent, StepsCount, Fits
  <2>2. c \in {"wh", "rh", "dpse", "_udp", "notif"}
        /\ before \in SUBSET {"wh", "rh", "dpse", "_udp", "notif"}
    BY <1>1, <2>1, ComponentsKnown DEF EntitiesTyped
  <2>3. UNCHANGED <<participant, endpoints, asserted, enabled, discovered, dataVars>>
    BY <1>5 DEF RegisterComponent
  <2>4. CASE Goto(p, "participant", IF last THEN "create" ELSE "participant")
             /\ step' = Set(step, p, IF last THEN 0 ELSE step[p] + 1)
             /\ registry' = Set(registry, p, before \cup {c})
    <3>1. registry' \in [Processes -> SUBSET {"wh", "rh", "dpse", "_udp", "notif"}]
      BY <1>1, <2>2, <2>4 DEF Set, EntitiesTyped
    <3>2. EntitiesTyped' /\ UNCHANGED <<discovered, dataVars>>
      BY <1>1, <2>3, <3>1 DEF EntitiesTyped
    <3>3. CASE last
      <4>1. Moved(p, "create", 0)
        BY <2>4, <3>3 DEF Goto, Set, Moved
      <4>2. "create" \in Phases /\ Fits("create", 0) /\ 0 \in Nat
        BY DEF Phases, Fits
      <4> QED BY <1>3, <3>2, <4>1, <4>2
    <3>4. CASE ~last
      <4>1. Moved(p, "participant", step[p] + 1)
        BY <2>4, <3>4 DEF Goto, Set, Moved
      <4>2. step[p] + 1 < Len(Components) /\ step[p] + 1 \in Nat
        BY <1>2, <2>1, <3>4
      <4>3. "participant" \in Phases /\ Fits("participant", step[p] + 1)
        BY <4>2 DEF Phases, Fits
      <4> QED BY <1>3, <3>2, <4>1, <4>2, <4>3
    <3> QED BY <3>3, <3>4
  <2>5. CASE Fails(p, "participant") /\ registry' = Set(registry, p, before)
             /\ UNCHANGED step
    <3>1. registry' \in [Processes -> SUBSET {"wh", "rh", "dpse", "_udp", "notif"}]
      BY <1>1, <2>2, <2>5 DEF Set, EntitiesTyped
    <3>2. EntitiesTyped' /\ UNCHANGED <<discovered, dataVars>>
      BY <1>1, <2>3, <3>1 DEF EntitiesTyped
    <3>3. Moved(p, "shutdown", step[p])
      BY <1>1, <2>5 DEF Fails, Goto, Set, Moved
    <3>4. "shutdown" \in Phases /\ Fits("shutdown", step[p])
      BY DEF Phases, Fits
    <3> QED BY <1>3, <2>1, <3>2, <3>3, <3>4
  <2> QED BY <1>5, <2>4, <2>5 DEF RegisterComponent
<1>6. CASE CreateDomainParticipant(p)
  <2>1. /\ UNCHANGED <<step, registry, endpoints, asserted, enabled, discovered, dataVars>>
        /\ pc[p] = "create"
        /\ \E to \in {"shutdown", "entities"} : pc' = [pc EXCEPT ![p] = to]
        /\ participant' \in [Processes -> BOOLEAN]
    BY <1>1, <1>6 DEF CreateDomainParticipant, Goto, Set, Fails, EntitiesTyped
  <2>2. PICK to \in {"shutdown", "entities"} : pc' = [pc EXCEPT ![p] = to]
    BY <2>1
  <2>3. step[p] = 0
    BY <2>1 DEF StepsCount, Fits
  <2>4. Moved(p, to, 0)
    BY <1>1, <2>1, <2>2, <2>3 DEF Moved
  <2>5. to \in Phases /\ Fits(to, 0) /\ 0 \in Nat
    BY DEF Phases, Fits
  <2>6. EntitiesTyped' /\ UNCHANGED <<discovered, dataVars>>
    BY <1>1, <2>1 DEF EntitiesTyped
  <2> QED BY <1>3, <2>4, <2>5, <2>6
<1>7. CASE CreateEntities(p)
  <2>1. /\ UNCHANGED <<step, entityVars, discovered, dataVars>>
        /\ pc[p] = "entities"
        /\ \E to \in {"shutdown", "endpoints"} : pc' = [pc EXCEPT ![p] = to]
    BY <1>7 DEF CreateEntities, Goto, Set, Fails
  <2>2. PICK to \in {"shutdown", "endpoints"} : pc' = [pc EXCEPT ![p] = to]
    BY <2>1
  <2>3. step[p] = 0
    BY <2>1 DEF StepsCount, Fits
  <2>4. Moved(p, to, 0)
    BY <1>1, <2>1, <2>2, <2>3 DEF Moved
  <2>5. to \in Phases /\ Fits(to, 0) /\ 0 \in Nat
    BY DEF Phases, Fits
  <2>6. EntitiesTyped' /\ UNCHANGED <<discovered, dataVars>>
    BY <1>1, <2>1 DEF EntitiesTyped, entityVars
  <2> QED BY <1>3, <2>4, <2>5, <2>6
<1>8. CASE \E t \in Topics : CreateWriter(p, t) \/ CreateReader(p, t)
  <2>1. PICK t \in Topics : CreateWriter(p, t) \/ CreateReader(p, t)
    BY <1>8
  <2>2. /\ UNCHANGED <<registry, participant, discovered, dataVars>>
        /\ pc[p] = "endpoints" /\ Created(p, t)
        /\ DOMAIN endpoints' = Processes /\ DOMAIN asserted' = Processes
    BY <1>1, <2>1, SetAt DEF CreateWriter, CreateReader, Asked, Assert, EntitiesTyped
  <2>3. step[p] \in 0 .. 2 /\ enabled' \in [Processes -> BOOLEAN]
    BY <1>1, <2>2, SetAt DEF StepsCount, Fits, Created, Enables, EntitiesTyped
  <2>4. EntitiesTyped' /\ UNCHANGED <<discovered, dataVars>>
    BY <1>1, <2>2, <2>3 DEF EntitiesTyped
  <2>5. CASE step[p] + 1 = Len(Script(p))
    <3>1. Moved(p, "waiting", 0)
      BY <2>2, <2>5 DEF Created, Set, Moved
    <3>2. "waiting" \in Phases /\ Fits("waiting", 0) /\ 0 \in Nat
      BY DEF Phases, Fits
    <3> QED BY <1>3, <2>4, <3>1, <3>2
  <2>6. CASE step[p] + 1 # Len(Script(p))
    <3>1. Moved(p, "endpoints", step[p] + 1)
      BY <2>2, <2>6 DEF Created, Set, Moved
    <3>2. step[p] + 1 \in 0 .. 2
      BY <1>2, <2>3, <2>6
    <3>3. "endpoints" \in Phases /\ Fits("endpoints", step[p] + 1) /\ step[p] + 1 \in Nat
      BY <3>2 DEF Phases, Fits
    <3> QED BY <1>3, <2>4, <3>1, <3>3
  <2> QED BY <2>5, <2>6
<1>9. CASE CreationFails(p) \/ Finish(p)
  <2>1. PICK to \in {"shutdown", "stopped"} :
          pc' = [pc EXCEPT ![p] = to] /\ UNCHANGED <<step, entityVars, discovered, dataVars>>
    BY <1>9 DEF CreationFails, Finish, Fails, Goto, Set
  <2>2. to \in Phases /\ Fits(to, step[p]) /\ step[p] \in Nat
    BY <1>1 DEF Phases, Fits
  <2>3. Moved(p, to, step[p])
    BY <1>1, <2>1 DEF Moved
  <2>4. EntitiesTyped' /\ UNCHANGED <<discovered, dataVars>>
    BY <1>1, <2>1 DEF EntitiesTyped, entityVars
  <2> QED BY <1>3, <2>2, <2>3, <2>4
<1>10. CASE RegisterInstances(p)
  <2>1. /\ UNCHANGED <<pc, step, entityVars, discovered, counter, net, got, lastWrite>>
        /\ \E t \in Topics : handles' = [handles EXCEPT ![p][t] = AllHandles]
    <3>1. Waits(p)[step[p] + 1][2] \in Topics
      <4>1. pc[p] = "waiting" /\ step[p] + 1 \in {1, 2, 3}
        BY <1>10 DEF RegisterInstances, StepsCount, Fits
      <4> QED BY <4>1, TwoProcesses, Scripts DEF Waits, Topics
    <3> QED BY <1>10, <3>1 DEF RegisterInstances
  <2>2. handles' \in [Processes -> [Topics -> {<<>>, AllHandles}]]
    BY <2>1 DEF CertTypeOK
  <2>3. AllHandles' = AllHandles /\ Components' = Components
    BY <1>1 DEF AllHandles, Components
  <2> QED BY <1>1, <2>1, <2>2, <2>3 DEF CertTypeOK, StepsCount, Fits, entityVars
<1>11. CASE PeerFound(p)
  <2>1. pc[p] = "waiting" /\ step[p] \in 0 .. 2
        /\ UNCHANGED <<entityVars, discovered, dataVars>>
    BY <1>11 DEF PeerFound, StepsCount, Fits
  <2>2. EntitiesTyped' /\ UNCHANGED <<discovered, dataVars>>
    BY <1>1, <2>1 DEF EntitiesTyped, entityVars
  <2>3. CASE step[p] + 1 = Len(Waits(p))
    <3>1. Moved(p, "announcing", 0)
      BY <1>11, <2>3 DEF PeerFound, Goto, Set, Moved
    <3>2. "announcing" \in Phases /\ Fits("announcing", 0) /\ 0 \in Nat
      BY DEF Phases, Fits
    <3> QED BY <1>3, <2>2, <3>1, <3>2
  <2>4. CASE step[p] + 1 # Len(Waits(p))
    <3>1. Moved(p, "waiting", step[p] + 1)
      BY <1>11, <2>4 DEF PeerFound, Goto, Set, Moved
    <3>2. step[p] + 1 \in 0 .. 2
      BY <1>2, <2>1, <2>4
    <3>3. "waiting" \in Phases /\ Fits("waiting", step[p] + 1) /\ step[p] + 1 \in Nat
      BY <3>2 DEF Phases, Fits
    <3> QED BY <1>3, <2>2, <3>1, <3>3
  <2> QED BY <2>3, <2>4
<1>12. CASE Shutdown(p)
  <2>1. /\ pc' = [pc EXCEPT ![p] = "gone"]
        /\ UNCHANGED <<step, participant, endpoints, asserted, enabled, discovered, dataVars>>
        /\ registry' = [registry EXCEPT ![p] = IF participant[p] THEN registry[p]
                                               ELSE registry[p] \ Unregistered]
    BY <1>12 DEF Shutdown, Goto, Set
  <2>2. Moved(p, "gone", step[p])
    BY <1>1, <2>1 DEF Moved
  <2>3. "gone" \in Phases /\ Fits("gone", step[p]) /\ step[p] \in Nat
    BY <1>1 DEF Phases, Fits
  <2>4. registry' \in [Processes -> SUBSET {"wh", "rh", "dpse", "_udp", "notif"}]
    BY <1>1, <2>1 DEF EntitiesTyped
  <2>5. EntitiesTyped' /\ UNCHANGED <<discovered, dataVars>>
    BY <1>1, <2>1, <2>4 DEF EntitiesTyped
  <2> QED BY <1>3, <2>2, <2>3, <2>5
<1> QED BY <1>4, <1>5, <1>6, <1>7, <1>8, <1>9, <1>10, <1>11, <1>12 DEF Alone, Process

\* What the two processes send each other, and what they discover.
LEMMA TogetherTyped ==
  ASSUME CertTypeOK, StepsCount, Together
  PROVE  CertTypeOK' /\ StepsCount'
<1>1. /\ pc \in [Processes -> Phases] /\ step \in [Processes -> Nat] /\ cmd' = cmd
      /\ PX \in Processes /\ SX \in Processes
      /\ AllHandles' = AllHandles /\ Components' = Components
      /\ {"Announcement", "Throughput", "Latency"} \subseteq Topics
      /\ {"announcement", "initialize", "data"} \subseteq Contents
  BY TwoProcesses DEF CertTypeOK, Together, AllHandles, Components, Topics, Contents
<1> DEFINE HandlesTyped == handles \in [Processes -> [Topics -> {<<>>, AllHandles}]]
           CounterTyped == counter \in [Processes -> [Topics -> Nat]]
           NetTyped == \A m \in net : m.what \in Contents
<1>2. \A p \in Processes, t \in Topics, what \in Contents :
        Send(p, t, what, TRUE) \/ Send(p, t, what, FALSE)
          => HandlesTyped' /\ CounterTyped' /\ NetTyped'
  BY <1>1, SendTyped
<1>3. CASE Announce
  <2>1. HandlesTyped' /\ CounterTyped' /\ NetTyped'
    BY <1>1, <1>2, <1>3 DEF Announce
  <2>2. UNCHANGED <<pc, step, entityVars, discovered, got>>
    BY <1>3 DEF Announce
  <2> QED BY <1>1, <2>1, <2>2 DEF CertTypeOK, StepsCount, Fits, entityVars
<1>4. CASE SendInitialize
  <2>1. HandlesTyped' /\ CounterTyped' /\ NetTyped'
    BY <1>1, <1>2, <1>4 DEF SendInitialize
  <2>2. UNCHANGED <<step, entityVars, discovered, got>> /\ pc' = [pc EXCEPT ![PX] = "sending"]
    BY <1>4 DEF SendInitialize, Goto, Set
  <2>3. "sending" \in Phases
    BY DEF Phases
  <2>4. pc' \in [Processes -> Phases]
        /\ \A q \in Processes : pc'[q] = IF q = PX THEN "sending" ELSE pc[q]
    BY <1>1, <2>2, <2>3
  <2>5. StepsCount'
    BY <1>1, <2>2, <2>4 DEF StepsCount, Fits
  <2> QED BY <1>1, <2>1, <2>2, <2>4, <2>5 DEF CertTypeOK, entityVars
<1>5. CASE SendData
  <2>1. HandlesTyped' /\ CounterTyped' /\ NetTyped'
    BY <1>1, <1>2, <1>5 DEF SendData
  <2>2. UNCHANGED <<pc, entityVars, discovered, got>> /\ pc[PX] = "sending"
        /\ step' = [step EXCEPT ![PX] = step[PX] + 1]
    BY <1>5 DEF SendData, Set
  <2>3. step' \in [Processes -> Nat]
        /\ \A q \in Processes : step'[q] = IF q = PX THEN step[PX] + 1 ELSE step[q]
    BY <1>1, <2>2
  <2>4. StepsCount'
    BY <1>1, <2>2, <2>3 DEF StepsCount, Fits
  <2> QED BY <1>1, <2>1, <2>2, <2>3, <2>4 DEF CertTypeOK, entityVars
<1>6. CASE \E p \in Processes : Discover(p)
  <2>1. PICK p \in Processes : Discover(p)
    BY <1>6
  <2>2. discovered' \in [Processes -> BOOLEAN]
        /\ UNCHANGED <<pc, step, entityVars, dataVars>>
    BY <2>1 DEF Discover, Set, CertTypeOK
  <2> QED BY <1>1, <2>2 DEF CertTypeOK, StepsCount, Fits, entityVars, dataVars
<1>7. CASE \E m \in net : Receive(m)
  <2>1. PICK m \in net : Receive(m)
    BY <1>7
  <2>2. HandlesTyped' /\ CounterTyped' /\ NetTyped'
    <3>1. CASE m.topic = "Throughput"
      <4>1. Send(SX, "Latency", m.what, FALSE)
        BY <2>1, <3>1 DEF Receive
      <4> QED BY <1>1, <1>2, <2>1, <4>1 DEF CertTypeOK
    <3>2. CASE m.topic # "Throughput"
      BY <1>1, <2>1, <3>2 DEF Receive, CertTypeOK
    <3> QED BY <3>1, <3>2
  <2>3. UNCHANGED <<pc, step, entityVars, discovered>>
    BY <2>1 DEF Receive
  <2>4. got' \in [Processes -> SUBSET Contents]
    <3>1. m.what \in Contents /\ got' = [got EXCEPT ![m.to.at] = @ \cup {m.what}]
      BY <2>1 DEF Receive, CertTypeOK
    <3> QED BY <3>1 DEF CertTypeOK
  <2> QED BY <1>1, <2>2, <2>3, <2>4 DEF CertTypeOK, StepsCount, Fits, entityVars
<1> QED BY <1>3, <1>4, <1>5, <1>6, <1>7 DEF Together, Test, Middleware

-----------------------------------------------------------------------------
(* Endpoints and assertions.                                                *)

LEMMA InitEndpoints == CertInit => EndpointInv
BY DEF CertInit, EndpointInv, OwnIds, AssertedIds, CreatedInOrder

\* A step that creates nothing, enables nothing and discovers nothing.
LEMMA EndpointsStay ==
  ASSUME CertTypeOK, EndpointInv, UNCHANGED <<endpoints, asserted, enabled, discovered>>,
         \A q \in Processes : pc'[q] = "endpoints" =>
           step'[q] = 0 \/ (pc[q] = "endpoints" /\ step'[q] = step[q])
  PROVE  EndpointInv'
<1> SUFFICES ASSUME NEW q \in Processes
             PROVE  /\ OwnIds(q)' /\ AssertedIds(q)' /\ CreatedInOrder(q)'
                    /\ (discovered[q] => enabled[Other(q)])'
  BY DEF EndpointInv
<1>1. OwnIds(q) /\ AssertedIds(q) /\ CreatedInOrder(q) /\ (discovered[q] => enabled[Other(q)])
  BY DEF EndpointInv
<1>2. OwnIds(q)' /\ AssertedIds(q)'
  BY <1>1 DEF OwnIds, AssertedIds
<1>3. CreatedInOrder(q)'
  <2>1. ASSUME pc'[q] = "endpoints", NEW i \in 1 .. step'[q]
        PROVE  Script(q)[i] \in DOMAIN endpoints'[q]
    BY <1>1, <2>1 DEF CreatedInOrder
  <2>2. enabled'[q] => Planned(q) \subseteq DOMAIN endpoints'[q]
    BY <1>1 DEF CreatedInOrder
  <2> QED BY <2>1, <2>2 DEF CreatedInOrder, Planned
<1> QED BY <1>1, <1>2, <1>3

LEMMA LastEnables ==
  \A p \in Processes, i \in 1 .. 3 : Script(p)[i][2] = "Announcement" => i = 3
<1>1. 1 .. 3 = {1, 2, 3}
  OBVIOUS
<1> QED BY <1>1, Scripts, TwoProcesses

\* The creation of the next endpoint of the script, with what it asserts.
LEMMA EndpointAdded ==
  ASSUME CertTypeOK, StepsCount, EndpointInv, NEW p \in Processes,
         NEW kind, NEW topic, Asked(p, kind, topic), Created(p, topic),
         UNCHANGED discovered, NEW e, e.id = ObjectId(kind, topic),
         endpoints' = Set(endpoints, p, Put(endpoints[p], <<kind, topic>>, e)),
         NEW a, asserted' = Set(asserted, p, asserted[p] \cup {a}),
         /\ a.kind \in {"writer", "reader"} /\ a.topic \in Topics
         /\ <<a.kind, a.topic>> \in Planned(Other(p)) /\ a.id = ObjectId(a.kind, a.topic)
  PROVE  EndpointInv'
<1> DEFINE i == step[p] + 1
<1>1. pc[p] = "endpoints" /\ step[p] \in 0 .. 2 /\ i \in 1 .. 3 /\ Script(p)[i] = <<kind, topic>>
  BY DEF Asked, StepsCount, Fits
<1>2. Enables(topic) => i = 3
  <2> HIDE DEF i
  <2>1. Script(p)[i][2] = topic
    BY <1>1
  <2> QED BY <1>1, <2>1, LastEnables DEF Enables
<1>3. /\ DOMAIN endpoints'[p] = DOMAIN endpoints[p] \cup {<<kind, topic>>}
      /\ endpoints'[p][<<kind, topic>>] = e
      /\ \A z \in DOMAIN endpoints[p] : z # <<kind, topic>> =>
           endpoints'[p][z] = endpoints[p][z]
      /\ asserted'[p] = asserted[p] \cup {a}
  BY SetAt DEF CertTypeOK, Put
<1>4. \A q \in Processes \ {p} :
        /\ endpoints'[q] = endpoints[q] /\ asserted'[q] = asserted[q]
        /\ enabled'[q] = enabled[q] /\ pc'[q] = pc[q] /\ step'[q] = step[q]
  BY SetAt DEF CertTypeOK, Created
<1>5. enabled'[p] => enabled[p] \/ i = 3
  BY <1>2, SetAt DEF CertTypeOK, Created
<1>6. enabled[p] => enabled'[p]
  BY SetAt DEF CertTypeOK, Created
<1>7. pc'[p] = "endpoints" => step'[p] = i
  BY Scripts, SetAt DEF CertTypeOK, Created
<1> HIDE DEF i
<1>8. OwnIds(p)'
  <2> SUFFICES ASSUME NEW k \in {"writer", "reader"}, NEW t \in Topics,
                      <<k, t>> \in DOMAIN endpoints'[p]
               PROVE  endpoints'[p][<<k, t>>].id = ObjectId(k, t)
    BY DEF OwnIds, ObjectId, WriterId, ReaderId
  <2>1. CASE <<k, t>> = <<kind, topic>>
    <3>1. k = kind /\ t = topic
      BY <2>1, Pairs
    <3> QED BY <1>3, <3>1
  <2>2. CASE <<k, t>> # <<kind, topic>>
    <3>1. <<k, t>> \in DOMAIN endpoints[p]
      BY <1>3, <2>2
    <3>2. OwnIds(p)
      BY DEF EndpointInv
    <3> QED BY <1>3, <2>2, <3>1, <3>2 DEF OwnIds
  <2> QED BY <2>1, <2>2
<1>9. AssertedIds(p)'
  BY <1>3 DEF EndpointInv, AssertedIds
<1>10. CreatedInOrder(p)'
  <2>1. CreatedInOrder(p)
    BY DEF EndpointInv
  <2>2. \A j \in 1 .. i : Script(p)[j] \in DOMAIN endpoints'[p]
    <3> SUFFICES ASSUME NEW j \in 1 .. i PROVE Script(p)[j] \in DOMAIN endpoints'[p]
      OBVIOUS
    <3>1. CASE j = i
      BY <1>1, <1>3, <3>1
    <3>2. CASE j # i
      <4>1. j \in 1 .. step[p]
        BY <1>1, <3>2 DEF i
      <4> QED BY <1>1, <1>3, <2>1, <4>1 DEF CreatedInOrder
    <3> QED BY <3>1, <3>2
  <2>3. pc'[p] = "endpoints" => \A j \in 1 .. step'[p] : Script(p)[j] \in DOMAIN endpoints'[p]
    BY <1>7, <2>2
  <2>4. enabled'[p] => Planned(p) \subseteq DOMAIN endpoints'[p]
    <3>1. CASE enabled[p]
      BY <1>3, <2>1, <3>1 DEF CreatedInOrder
    <3>2. CASE i = 3
      BY <2>2, <3>2 DEF Planned
    <3> QED BY <1>5, <3>1, <3>2
  <2> QED BY <2>3, <2>4 DEF CreatedInOrder, Planned
<1>11. ASSUME NEW q \in Processes, q # p
       PROVE  OwnIds(q)' /\ AssertedIds(q)' /\ CreatedInOrder(q)'
  <2>1. OwnIds(q) /\ AssertedIds(q) /\ CreatedInOrder(q) /\ q \in Processes \ {p}
    BY <1>11 DEF EndpointInv
  <2>2. /\ endpoints'[q] = endpoints[q] /\ asserted'[q] = asserted[q]
        /\ enabled'[q] = enabled[q] /\ pc'[q] = pc[q] /\ step'[q] = step[q]
    BY <1>4, <2>1
  <2>3. OwnIds(q)' /\ AssertedIds(q)'
    BY <2>1, <2>2 DEF OwnIds, AssertedIds
  <2> QED BY <2>1, <2>2, <2>3 DEF CreatedInOrder, Planned
<1>12. \A q \in Processes : discovered'[q] => enabled'[Other(q)]
  BY <1>4, <1>6, TwoProcesses DEF EndpointInv
<1>13. \A q \in Processes : OwnIds(q)' /\ AssertedIds(q)' /\ CreatedInOrder(q)'
  BY <1>8, <1>9, <1>10, <1>11
<1> QED BY <1>12, <1>13 DEF EndpointInv, Other

\* A step of one process by itself: it creates the next endpoint, or none.
LEMMA AloneEndpoints ==
  ASSUME CertTypeOK, StepsCount, EndpointInv, NEW p \in Processes, Alone(p)
  PROVE  EndpointInv'
<1>1. CASE \E t \in Topics : CreateWriter(p, t)
  <2>1. PICK t \in Topics : CreateWriter(p, t)
    BY <1>1
  <2> DEFINE qos == WriterQos(t)
             e == [id |-> WriterId(t), qos |-> qos]
             a == [kind |-> "reader", topic |-> t, id |-> RemoteReader(t).id,
                   at |-> RemoteReader(t).at, qos |-> qos]
             i == step[p] + 1
  <2>2. /\ Asked(p, "writer", t) /\ Created(p, t) /\ UNCHANGED discovered
        /\ endpoints' = Set(endpoints, p, Put(endpoints[p], <<"writer", t>>, e))
        /\ asserted' = Set(asserted, p, asserted[p] \cup {a})
    BY <2>1 DEF CreateWriter, Assert
  <2>3. e.id = ObjectId("writer", t)
    BY DEF ObjectId
  <2>4. /\ a.kind \in {"writer", "reader"} /\ a.topic \in Topics
        /\ <<a.kind, a.topic>> \in Planned(Other(p)) /\ a.id = ObjectId(a.kind, a.topic)
    <3>1. i \in 1 .. 3 /\ Script(p)[i] = <<"writer", t>>
      BY <2>2 DEF Asked, StepsCount, Fits
    <3> HIDE DEF i
    <3>2. RemoteReader(t).id = ReaderId(t) /\ <<"reader", t>> \in Planned(Other(p))
      BY <3>1, ScriptsAgree
    <3>3. a.kind = "reader" /\ a.topic = t /\ a.id = RemoteReader(t).id
      OBVIOUS
    <3> QED BY <3>2, <3>3 DEF ObjectId
  <2> HIDE DEF e, a
  <2> QED BY <2>2, <2>3, <2>4, EndpointAdded
<1>2. CASE \E t \in Topics : CreateReader(p, t)
  <2>1. PICK t \in Topics : CreateReader(p, t)
    BY <1>2
  <2> DEFINE qos == ReaderQos(t, maxInst[p] + 1)
             e == [id |-> ReaderId(t), qos |-> qos]
             a == [kind |-> "writer", topic |-> t, id |-> RemoteWriter(t).id,
                   at |-> RemoteWriter(t).at, qos |-> qos]
             i == step[p] + 1
  <2>2. /\ Asked(p, "reader", t) /\ Created(p, t) /\ UNCHANGED discovered
        /\ endpoints' = Set(endpoints, p, Put(endpoints[p], <<"reader", t>>, e))
        /\ asserted' = Set(asserted, p, asserted[p] \cup {a})
    BY <2>1 DEF CreateReader, Assert
  <2>3. e.id = ObjectId("reader", t)
    BY DEF ObjectId
  <2>4. /\ a.kind \in {"writer", "reader"} /\ a.topic \in Topics
        /\ <<a.kind, a.topic>> \in Planned(Other(p)) /\ a.id = ObjectId(a.kind, a.topic)
    <3>1. i \in 1 .. 3 /\ Script(p)[i] = <<"reader", t>>
      BY <2>2 DEF Asked, StepsCount, Fits
    <3> HIDE DEF i
    <3>2. RemoteWriter(t).id = WriterId(t) /\ <<"writer", t>> \in Planned(Other(p))
      BY <3>1, ScriptsAgree
    <3>3. a.kind = "writer" /\ a.topic = t /\ a.id = RemoteWriter(t).id
      OBVIOUS
    <3> QED BY <3>2, <3>3 DEF ObjectId
  <2> HIDE DEF e, a
  <2> QED BY <2>2, <2>3, <2>4, EndpointAdded
<1>3. CASE ~\E t \in Topics : CreateWriter(p, t) \/ CreateReader(p, t)
  <2>1. UNCHANGED <<endpoints, asserted, enabled, discovered>>
    BY <1>3 DEF Alone, Process, ValidateInput, RegisterComponent, CreateDomainParticipant,
           CreateEntities, CreationFails, RegisterInstances, PeerFound, Finish, Shutdown,
           entityVars
  <2>2. ASSUME NEW q \in Processes, pc'[q] = "endpoints"
        PROVE  step'[q] = 0 \/ (pc[q] = "endpoints" /\ step'[q] = step[q])
    <3>1. CASE RegisterInstances(p)
      BY <2>2, <3>1 DEF RegisterInstances
    <3>2. CASE ~RegisterInstances(p)
      <4>1. q # p => pc'[q] = pc[q] /\ step'[q] = step[q]
        BY <1>3, <3>2 DEF CertTypeOK, Alone, Process, ValidateInput, RegisterComponent,
               CreateDomainParticipant, CreateEntities, CreationFails, PeerFound, Finish,
               Shutdown, Fails, Goto, Set
      <4>2. q = p => CreateEntities(p)
        BY <1>3, <2>2, <3>2 DEF CertTypeOK, Alone, Process, ValidateInput, RegisterComponent,
               CreateDomainParticipant, CreateEntities, CreationFails, PeerFound, Finish,
               Shutdown, Fails, Goto, Set
      <4>3. CreateEntities(p) => step[p] = 0 /\ step' = step
        BY DEF CreateEntities, Fails, Goto, StepsCount, Fits
      <4> QED BY <2>2, <4>1, <4>2, <4>3
    <3> QED BY <3>1, <3>2
  <2> QED BY <2>1, <2>2, EndpointsStay
<1> QED BY <1>1, <1>2, <1>3

LEMMA TogetherEndpoints ==
  ASSUME CertTypeOK, StepsCount, EndpointInv, Together
  PROVE  EndpointInv'
<1>1. CASE Test \/ \E m \in net : Receive(m)
  <2>1. UNCHANGED <<endpoints, asserted, enabled, discovered>>
    BY <1>1 DEF Test, Announce, SendInitialize, SendData, Receive, entityVars
  <2>2. ASSUME NEW q \in Processes, pc'[q] = "endpoints"
        PROVE  pc[q] = "endpoints" /\ step'[q] = step[q]
    BY <1>1, <2>2, TwoProcesses DEF CertTypeOK, Test, Announce, SendInitialize, SendData, Receive,
       Goto, Set
  <2> QED BY <2>1, <2>2, EndpointsStay
<1>2. CASE \E p \in Processes : Discover(p)
  <2>1. PICK p \in Processes : Discover(p)
    BY <1>2
  <2>2. UNCHANGED <<pc, step, endpoints, asserted, enabled>> /\ enabled[Other(p)]
        /\ \A q \in Processes : discovered'[q] => discovered[q] \/ q = p
    BY <2>1 DEF Discover, Set, entityVars, CertTypeOK
  <2>3. \A q \in Processes : discovered'[q] => enabled'[Other(q)]
    BY <2>2 DEF EndpointInv
  <2>4. \A q \in Processes : OwnIds(q)' /\ AssertedIds(q)' /\ CreatedInOrder(q)'
    BY <2>2 DEF EndpointInv, OwnIds, AssertedIds, CreatedInOrder, Planned
  <2> QED BY <2>3, <2>4 DEF EndpointInv, Other
<1> QED BY <1>1, <1>2 DEF Together, Middleware

\* A match is an assertion, of a participant that is enabled: it has all its endpoints.
LEMMA MatchesExist ==
  ASSUME EndpointInv PROVE MatchedEndpointsExist
<1> SUFFICES ASSUME NEW p \in Processes, NEW kind \in {"writer", "reader"}, NEW t \in Topics,
                    NEW r \in Matches(p, kind, t)
             PROVE  \E e \in DOMAIN endpoints[r.at] :
                      e = <<r.kind, t>> /\ endpoints[r.at][e].id = r.id
  BY DEF MatchedEndpointsExist
<1>1. r \in asserted[p] /\ discovered[p] /\ r.at = Other(p) /\ r.topic = t
  BY DEF Matches
<1>2. Other(p) \in Processes
  BY TwoProcesses
<1>3. /\ r.kind \in {"writer", "reader"} /\ <<r.kind, t>> \in Planned(Other(p))
      /\ r.id = ObjectId(r.kind, t)
  BY <1>1 DEF EndpointInv, AssertedIds
<1>4. <<r.kind, t>> \in DOMAIN endpoints[Other(p)]
  BY <1>1, <1>2, <1>3 DEF EndpointInv, CreatedInOrder
<1>5. endpoints[Other(p)][<<r.kind, t>>].id = ObjectId(r.kind, t)
  BY <1>2, <1>3, <1>4 DEF EndpointInv, OwnIds
<1> QED BY <1>1, <1>3, <1>4, <1>5

-----------------------------------------------------------------------------
(* Handles of the instances.                                                *)

LEMMA InitHandles == CertInit => HandleInv
<1> SUFFICES ASSUME CertInit PROVE HandleInv
  OBVIOUS
<1>1. \A p \in Processes : pc[p] = "input"
  BY DEF CertInit
<1>2. net = {} /\ got[PX] = {} /\ lastWrite = NoWrite
  BY TwoProcesses DEF CertInit
<1> QED BY <1>1, <1>2, TwoProcesses
        DEF HandleInv, WaitsDone, PongsRegistered, HandlesRegistered, NoWrite

\* What a writer sends with registered handles, it sends with the handle of the key.
LEMMA HandleOfKey ==
  ASSUME CertTypeOK, NEW p \in Processes, NEW t \in Topics, NEW what, NEW wild,
         Registered(p, t), Send(p, t, what, wild), cmd' = cmd
  PROVE  HandlesRegistered'
<1> SUFFICES ASSUME cmd.writeInstance < cmd.instances
             PROVE  lastWrite'.handle = lastWrite'.key
  BY DEF HandlesRegistered
<1> DEFINE n == cmd.instances
           key == IF wild THEN MaxCftValue ELSE NextInstance(p, t)
           index == IF wild THEN n ELSE key
           table == HandlesAtSend(p, t)
<1>1. n \in Nat \ {0} /\ cmd.writeInstance \in Nat \cup {-1}
      /\ counter[p][t] \in Nat
  BY CommandAssumption DEF CertTypeOK, IsCommand
<1>2. table = AllHandles
  BY DEF Registered, HandlesAtSend
<1>3. lastWrite' = [key |-> key, handle |-> IF index \in DOMAIN table THEN table[index] ELSE -1]
  BY DEF Send
<1>4. NextInstance(p, t) \in 0 .. n - 1
  <2>1. counter[p][t] % n \in 0 .. n - 1
    BY <1>1
  <2> QED BY <1>1, <2>1 DEF NextInstance
<1>5. index \in 0 .. n /\ (IF index = n THEN MaxCftValue ELSE index) = key
  <2>1. CASE wild
    BY <1>1, <2>1
  <2>2. CASE ~wild
    <3>1. key = NextInstance(p, t) /\ index = key
      BY <2>2
    <3> QED BY <1>1, <1>4, <3>1
  <2> QED BY <2>1, <2>2
<1> HIDE DEF key, index, table, n
<1>6. table[index] = key /\ index \in DOMAIN table
  BY <1>2, <1>5 DEF AllHandles, n
<1> QED BY <1>3, <1>6

\* Handles, once registered, stay so.
LEMMA RegisteredSends ==
  ASSUME CertTypeOK, NEW p \in Processes, NEW t \in Topics, NEW what, NEW wild,
         Send(p, t, what, wild), cmd' = cmd
  PROVE  \A q \in Processes, u \in Topics : Registered(q, u) => Registered(q, u)'
<1>1. AllHandles' = AllHandles
  BY DEF AllHandles
<1>2. CASE cmd.zerocopy
  BY <1>2 DEF Registered
<1>3. CASE ~cmd.zerocopy
  <2>1. handles' = [handles EXCEPT ![p][t] = handles[p][t]]
    BY <1>3 DEF Send, HandlesAtSend
  <2>2. handles' = handles
    BY <2>1 DEF CertTypeOK
  <2> QED BY <1>1, <2>2 DEF Registered
<1> QED BY <1>2, <1>3

LEMMA RegisteredAlone ==
  ASSUME CertTypeOK, NEW p \in Processes, Alone(p)
  PROVE  \A q \in Processes, u \in Topics : Registered(q, u) => Registered(q, u)'
<1>1. AllHandles' = AllHandles /\ cmd' = cmd
  BY DEF AllHandles, Alone
<1>2. CASE RegisterInstances(p)
  <2>1. PICK t : handles' = [handles EXCEPT ![p][t] = AllHandles]
    BY <1>2 DEF RegisterInstances
  <2>2. ASSUME NEW q \in Processes, NEW u \in Topics
        PROVE  handles'[q][u] = handles[q][u] \/ handles'[q][u] = AllHandles
    BY <2>1 DEF CertTypeOK
  <2> QED BY <1>1, <2>2 DEF Registered
<1>3. CASE ~RegisterInstances(p)
  <2>1. UNCHANGED handles
    BY <1>3 DEF Alone, Process, ValidateInput, RegisterComponent, CreateDomainParticipant,
           CreateEntities, CreateWriter, CreateReader, CreationFails, PeerFound, Finish, Shutdown,
           dataVars
  <2> QED BY <1>1, <2>1 DEF Registered
<1> QED BY <1>2, <1>3

LEMMA WaitOrder ==
  /\ Waits(PX)[1] = <<"writer", "Throughput">> /\ Waits(PX)[2] = <<"reader", "Latency">>
  /\ Waits(PX)[3] = <<"reader", "Announcement">>
  /\ Waits(SX)[1] = <<"reader", "Throughput">> /\ Waits(SX)[2] = <<"writer", "Latency">>
  /\ Waits(SX)[3] = <<"writer", "Announcement">>
  /\ \A p \in Processes : Len(Waits(p)) = 3
  /\ \A p \in Processes, i \in 1 .. 3 : Waits(p)[i][2] \in Topics
BY TwoProcesses, Scripts DEF Waits, Topics

LEMMA AllWaited ==
  ASSUME NEW p \in Processes, Waited(p, 3)
  PROVE  /\ p = PX => Registered(PX, "Throughput")
         /\ p = SX => Registered(SX, "Latency") /\ Registered(SX, "Announcement")
<1>1. 1 \in 1 .. 3 /\ 2 \in 1 .. 3 /\ 3 \in 1 .. 3
  OBVIOUS
<1> QED BY <1>1, WaitOrder DEF Waited

\* A wait that was over stays over.
LEMMA WaitedStays ==
  ASSUME NEW p \in Processes, NEW n \in 0 .. 3, Waited(p, n),
         \A q \in Processes, u \in Topics : Registered(q, u) => Registered(q, u)'
  PROVE  Waited(p, n)'
<1> SUFFICES ASSUME NEW i \in 1 .. n, Waits(p)[i][1] = "writer"
             PROVE  Registered(p, Waits(p)[i][2])'
  BY DEF Waited, Waits, Script
<1>1. i \in 1 .. 3 /\ Waits(p)[i][2] \in Topics
  BY WaitOrder
<1> QED BY <1>1 DEF Waited

LEMMA AloneHandles ==
  ASSUME CertTypeOK, StepsCount, HandleInv, NEW p \in Processes, Alone(p)
  PROVE  HandleInv'
<1>1. \A q \in Processes, u \in Topics : Registered(q, u) => Registered(q, u)'
  BY RegisteredAlone
<1>2. cmd' = cmd /\ UNCHANGED <<net, got, lastWrite>>
  BY DEF Alone, Process, ValidateInput, RegisterComponent, CreateDomainParticipant,
         CreateEntities, CreateWriter, CreateReader, CreationFails, RegisterInstances, PeerFound,
         Finish, Shutdown, dataVars
<1>3. \A q \in Processes \ {p} : pc'[q] = pc[q] /\ step'[q] = step[q]
  BY DEF Alone, Process, ValidateInput, RegisterComponent, CreateDomainParticipant,
         CreateEntities, CreateWriter, CreateReader, Created, CreationFails, RegisterInstances,
         PeerFound, Finish, Shutdown, Fails, Goto, Set, CertTypeOK
<1>4. \/ pc'[p] \notin {"waiting", "announcing", "sending"}
      \/ pc'[p] = "waiting" /\ step'[p] = 0
      \/ RegisterInstances(p)
      \/ PeerFound(p)
  <2>1. CASE \E t \in Topics : CreateWriter(p, t) \/ CreateReader(p, t)
    <3>1. PICK t \in Topics : Created(p, t)
      BY <2>1 DEF CreateWriter, CreateReader
    <3> QED BY <3>1 DEF Created, Set, CertTypeOK
  <2>2. CASE ~\E t \in Topics : CreateWriter(p, t) \/ CreateReader(p, t)
    BY <2>2 DEF Alone, Process, ValidateInput, RegisterComponent, CreateDomainParticipant,
         CreateEntities, CreationFails, Finish, Shutdown, Fails, Goto, Set, CertTypeOK
  <2> QED BY <2>1, <2>2
<1>5. WaitsDone(p)'
  <2>1. CASE pc'[p] = "waiting" /\ step'[p] = 0
    BY <2>1 DEF WaitsDone, Waited
  <2>2. CASE RegisterInstances(p)
    <3>1. pc[p] = "waiting" /\ pc'[p] = "waiting" /\ step'[p] = step[p] /\ step[p] \in 0 .. 3
      BY <2>2 DEF RegisterInstances, StepsCount, Fits
    <3>2. Waited(p, step[p])
      BY <3>1 DEF HandleInv, WaitsDone
    <3>3. Waited(p, step[p])'
      <4> DEFINE n == step[p]
      <4>1. \A k \in 0 .. 3 : Waited(p, k) => \A i \in 1 .. k : Waits(p)[i][1] = "writer"
                                => Registered(p, Waits(p)[i][2])'
        BY <1>1, WaitOrder DEF Waited
      <4> QED BY <3>1, <3>2, <4>1 DEF Waited, Waits, Script
    <3> QED BY <3>1, <3>3 DEF WaitsDone
  <2>3. CASE PeerFound(p)
    <3> DEFINE k == step[p] + 1
    <3>1. pc[p] = "waiting" /\ step[p] \in 0 .. 2 /\ k \in 1 .. 3
      BY <2>3 DEF PeerFound, StepsCount, Fits
    <3>2. Waited(p, step[p])
      BY <3>1 DEF HandleInv, WaitsDone
    <3>3. Waits(p)[k][1] = "writer" => Registered(p, Waits(p)[k][2])
      BY <2>3 DEF PeerFound, Registered
    <3>4. \A i \in 1 .. k : Waits(p)[i][1] = "writer" => Registered(p, Waits(p)[i][2])'
      <4> SUFFICES ASSUME NEW i \in 1 .. k, Waits(p)[i][1] = "writer"
                   PROVE  Registered(p, Waits(p)[i][2])'
        OBVIOUS
      <4>1. i \in 1 .. 3 /\ Waits(p)[i][2] \in Topics
        BY <3>1, WaitOrder
      <4>2. i \in 1 .. step[p] \/ i = k
        BY <3>1
      <4>3. Registered(p, Waits(p)[i][2])
        BY <3>2, <3>3, <4>2 DEF Waited
      <4> QED BY <1>1, <4>1, <4>3
    <3>5. \/ pc'[p] = "announcing" /\ k = 3
          \/ pc'[p] = "waiting" /\ step'[p] = k
      BY <2>3, WaitOrder DEF PeerFound, Goto, Set, CertTypeOK
    <3> HIDE DEF k
    <3> QED BY <3>4, <3>5 DEF WaitsDone, Waited, Waits, Script
  <2> QED BY <1>4, <2>1, <2>2, <2>3 DEF WaitsDone
<1>6. ASSUME NEW q \in Processes, q # p PROVE WaitsDone(q)'
  <2>1. pc'[q] = pc[q] /\ step'[q] = step[q] /\ WaitsDone(q)
    BY <1>3, <1>6 DEF HandleInv
  <2>2. \A k \in 0 .. 3 : Waited(q, k) => \A i \in 1 .. k : Waits(q)[i][1] = "writer"
                            => Registered(q, Waits(q)[i][2])'
    BY <1>1, WaitOrder DEF Waited
  <2>3. pc[q] = "waiting" => step[q] \in 0 .. 3
    BY DEF StepsCount, Fits
  <2> QED BY <2>1, <2>2, <2>3 DEF WaitsDone, Waited, Waits, Script
<1>7. pc'[PX] = "sending" => pc[PX] = "sending"
  BY <1>3, <1>4, TwoProcesses DEF RegisterInstances, PeerFound, Goto, Set, CertTypeOK
<1>8. pc'[SX] # "sending"
  BY <1>3, <1>4, TwoProcesses DEF RegisterInstances, PeerFound, Goto, Set, CertTypeOK, HandleInv
<1>9. PongsRegistered'
  <2>1. SX \in Processes /\ "Latency" \in Topics
    BY TwoProcesses DEF Topics
  <2>2. net # {} \/ got[PX] # {} \/ pc[PX] = "sending" => Registered(SX, "Latency")'
    BY <1>1, <2>1 DEF HandleInv, PongsRegistered
  <2> QED BY <1>2, <1>7, <2>2 DEF PongsRegistered
<1>10. HandlesRegistered'
  BY <1>2 DEF HandleInv, HandlesRegistered
<1>11. \A q \in Processes : WaitsDone(q)'
  BY <1>5, <1>6
<1> QED BY <1>8, <1>9, <1>10, <1>11 DEF HandleInv

LEMMA TogetherHandles ==
  ASSUME CertTypeOK, StepsCount, HandleInv, Together
  PROVE  HandleInv'
<1>1. cmd' = cmd /\ AllHandles' = AllHandles /\ PX \in Processes /\ SX \in Processes
      /\ {"Announcement", "Throughput", "Latency"} \subseteq Topics
      /\ {"announcement", "initialize", "data"} \subseteq Contents
  BY TwoProcesses DEF Together, Topics, AllHandles, Contents
<1> DEFINE Kept == \A q \in Processes, u \in Topics : Registered(q, u) => Registered(q, u)'
           Sent == /\ Kept /\ HandlesRegistered' /\ Registered(SX, "Latency")
                   /\ pc'[SX] = pc[SX]
                   /\ pc'[PX] = pc[PX] \/ pc[PX] = "announcing"
                   /\ pc'[PX] = pc[PX] \/ pc'[PX] = "sending"
                   /\ UNCHANGED step \/ pc'[PX] # "waiting"
                   /\ step'[SX] = step[SX]
<1>2. Sent => HandleInv'
  <2> SUFFICES ASSUME Sent PROVE HandleInv'
    OBVIOUS
  <2>1. PongsRegistered'
    BY <1>1 DEF PongsRegistered
  <2>2. ASSUME NEW q \in Processes PROVE WaitsDone(q)'
    <3>1. WaitsDone(q) /\ (pc[q] = "waiting" => step[q] \in 0 .. 3)
      BY DEF HandleInv, StepsCount, Fits
    <3>2. \A k \in 0 .. 3 : Waited(q, k) => \A i \in 1 .. k : Waits(q)[i][1] = "writer"
                              => Registered(q, Waits(q)[i][2])'
      BY WaitOrder DEF Waited
    <3>3. /\ pc'[q] = "waiting" => pc[q] = "waiting" /\ step'[q] = step[q]
          /\ pc'[q] \in {"announcing", "sending"} => pc[q] \in {"announcing", "sending"}
      BY <1>1, TwoProcesses
    <3> QED BY <3>1, <3>2, <3>3 DEF WaitsDone, Waited, Waits, Script
  <2> QED BY <2>1, <2>2 DEF HandleInv
<1>3. \A p \in Processes, t \in Topics, what \in Contents :
        /\ Send(p, t, what, TRUE) \/ Send(p, t, what, FALSE) => Kept
        /\ (Send(p, t, what, TRUE) \/ Send(p, t, what, FALSE)) /\ Registered(p, t)
             => HandlesRegistered'
  BY <1>1, RegisteredSends, HandleOfKey
<1>4. CASE Announce
  <2>1. pc[SX] = "announcing" /\ Send(SX, "Announcement", "announcement", FALSE)
        /\ UNCHANGED <<pc, step>>
    BY <1>4 DEF Announce
  <2>2. Registered(SX, "Latency") /\ Registered(SX, "Announcement")
    BY <1>1, <2>1, AllWaited DEF HandleInv, WaitsDone
  <2> QED BY <1>1, <1>2, <1>3, <2>1, <2>2
<1>5. CASE SendInitialize
  <2>1. pc[PX] = "announcing" /\ Send(PX, "Throughput", "initialize", TRUE)
        /\ pc' = [pc EXCEPT ![PX] = "sending"] /\ UNCHANGED step /\ got[PX] # {}
    BY <1>5 DEF SendInitialize, Goto, Set
  <2>2. Registered(PX, "Throughput") /\ Registered(SX, "Latency")
    BY <1>1, <2>1, AllWaited DEF HandleInv, WaitsDone, PongsRegistered
  <2>3. pc'[SX] = pc[SX] /\ pc'[PX] = "sending"
    BY <1>1, <2>1, TwoProcesses DEF CertTypeOK
  <2> QED BY <1>1, <1>2, <1>3, <2>1, <2>2, <2>3
<1>6. CASE SendData
  <2>1. pc[PX] = "sending" /\ Send(PX, "Throughput", "data", FALSE)
        /\ UNCHANGED pc /\ step' = [step EXCEPT ![PX] = step[PX] + 1]
    BY <1>6 DEF SendData, Set
  <2>2. Registered(PX, "Throughput") /\ Registered(SX, "Latency")
    BY <1>1, <2>1, AllWaited DEF HandleInv, WaitsDone, PongsRegistered
  <2>3. step'[SX] = step[SX]
    BY <1>1, <2>1, TwoProcesses DEF CertTypeOK
  <2> QED BY <1>1, <1>2, <1>3, <2>1, <2>2, <2>3
<1>7. CASE \E p \in Processes : Discover(p)
  <2>1. UNCHANGED <<pc, step, handles, net, got, lastWrite>>
    BY <1>7 DEF Discover, dataVars
  <2>2. PongsRegistered' /\ HandlesRegistered' /\ pc'[SX] # "sending"
    BY <1>1, <2>1 DEF HandleInv, PongsRegistered, HandlesRegistered, Registered
  <2>3. \A q \in Processes : WaitsDone(q)'
    BY <1>1, <2>1 DEF HandleInv, WaitsDone, Waited, Registered, Waits, Script
  <2> QED BY <2>2, <2>3 DEF HandleInv
<1>8. CASE \E m \in net : Receive(m)
  <2>1. PICK m \in net : Receive(m)
    BY <1>8
  <2>2. Registered(SX, "Latency") /\ UNCHANGED <<pc, step>>
    BY <2>1 DEF HandleInv, PongsRegistered, Receive
  <2>3. Kept /\ HandlesRegistered'
    <3>1. CASE m.topic = "Throughput"
      <4>1. Send(SX, "Latency", m.what, FALSE)
        BY <2>1, <3>1 DEF Receive
      <4> QED BY <1>1, <1>3, <2>1, <2>2, <4>1 DEF CertTypeOK
    <3>2. CASE m.topic # "Throughput"
      BY <1>1, <2>1, <3>2 DEF Receive, HandleInv, HandlesRegistered, Registered
    <3> QED BY <3>1, <3>2
  <2> QED BY <1>2, <2>2, <2>3
<1> QED BY <1>4, <1>5, <1>6, <1>7, <1>8 DEF Together, Test, Middleware

-----------------------------------------------------------------------------
(* Components registered with the factory.                                  *)

LEMMA InitRegistry == CertInit => RegistryInv
BY DEF CertInit, RegistryInv, Unregistered

LEMMA AloneRegistry ==
  ASSUME CertTypeOK, StepsCount, RegistryInv, NEW p \in Processes, Alone(p)
  PROVE  RegistryInv'
<1> SUFFICES ASSUME ~cmd.zerocopy, NEW q \in Processes
             PROVE  /\ registry'[q] \subseteq Unregistered
                    /\ pc'[q] = "gone" /\ ~participant'[q] => registry'[q] = {}
  BY DEF RegistryInv, Alone, Unregistered
<1>1. registry[q] \subseteq Unregistered /\ registry[p] \subseteq Unregistered
      /\ (pc[q] = "gone" /\ ~participant[q] => registry[q] = {})
  BY DEF RegistryInv
<1>2. CASE RegisterComponent(p)
  <2> DEFINE c == Components[step[p] + 1]
             before == IF c = "_udp" THEN registry[p] \ {c} ELSE registry[p]
  <2>1. step[p] + 1 \in 1 .. Len(Components)
    BY <1>2, ComponentsCount DEF RegisterComponent, CertTypeOK, StepsCount, Fits
  <2>2. c \in Unregistered
    <3> DEFINE i == step[p] + 1
    <3>1. i \in 1 .. Len(Components)
      BY <2>1
    <3> HIDE DEF i
    <3>2. Components[i] \in {"wh", "rh", "dpse", "_udp"}
      BY <3>1, ComponentsKnown
    <3> QED BY <3>2 DEF Unregistered, i
  <2>3. before \subseteq registry[p]
    OBVIOUS
  <2>4. registry' = Set(registry, p, before \cup {c}) \/ registry' = Set(registry, p, before)
    BY <1>2 DEF RegisterComponent
  <2>5. /\ q # p => pc'[q] = pc[q]
        /\ pc'[p] # "gone"
        /\ UNCHANGED participant
    BY <1>2 DEF RegisterComponent, Fails, Goto, Set, CertTypeOK
  <2> HIDE DEF c, before
  <2>6. /\ q # p => registry'[q] = registry[q]
        /\ registry'[p] \subseteq before \cup {c}
    BY <2>4 DEF Set, CertTypeOK
  <2> QED BY <1>1, <2>2, <2>3, <2>5, <2>6
<1>3. CASE Shutdown(p)
  BY <1>1, <1>3 DEF Shutdown, Goto, Set, CertTypeOK
<1>4. CASE ~RegisterComponent(p) /\ ~Shutdown(p)
  <2>1. UNCHANGED registry
    BY <1>4 DEF Alone, Process, ValidateInput, CreateDomainParticipant, CreateEntities,
           CreateWriter, CreateReader, CreationFails, RegisterInstances, PeerFound, Finish,
           entityVars
  <2>2. pc'[q] = "gone" => pc[q] = "gone" /\ participant'[q] = participant[q]
    <3>1. CASE \E t \in Topics : CreateWriter(p, t) \/ CreateReader(p, t)
      BY <3>1 DEF CreateWriter, CreateReader, Created, Set, CertTypeOK
    <3>2. CASE ~\E t \in Topics : CreateWriter(p, t) \/ CreateReader(p, t)
      BY <1>4, <3>2 DEF Alone, Process, ValidateInput, CreateDomainParticipant, CreateEntities,
           CreationFails, RegisterInstances, PeerFound, Finish, Fails, Goto, Set, CertTypeOK,
           entityVars
    <3> QED BY <3>1, <3>2
  <2> QED BY <1>1, <2>1, <2>2
<1> QED BY <1>2, <1>3, <1>4

LEMMA TogetherRegistry ==
  ASSUME CertTypeOK, RegistryInv, Together
  PROVE  RegistryInv'
<1>1. UNCHANGED <<cmd, registry, participant>>
  BY DEF Together, Test, Middleware, Announce, SendInitialize, SendData, Discover, Receive,
         entityVars
<1>2. \A q \in Processes : pc'[q] = "gone" => pc[q] = "gone"
  BY DEF Together, Test, Middleware, Announce, SendInitialize, SendData, Discover, Receive,
         Goto, Set, CertTypeOK
<1> QED BY <1>1, <1>2 DEF RegistryInv, Unregistered

-----------------------------------------------------------------------------
(* The theorems.                                                            *)

CertInv == CertTypeOK /\ StepsCount /\ EndpointInv /\ HandleInv /\ RegistryInv

LEMMA CertInductive == CertSpec => []CertInv
<1>1. CertInit => CertInv
  BY CertInitTyped, InitEndpoints, InitHandles, InitRegistry DEF CertInv
<1>2. CertInv /\ [CertNext]_certVars => CertInv'
  <2> SUFFICES ASSUME CertInv, [CertNext]_certVars PROVE CertInv'
    OBVIOUS
  <2>1. CertTypeOK /\ StepsCount /\ EndpointInv /\ HandleInv /\ RegistryInv
    BY DEF CertInv
  <2>2. ASSUME NEW p \in Processes, Alone(p) PROVE CertInv'
    BY <2>1, <2>2, AloneTyped, AloneEndpoints, AloneHandles, AloneRegistry DEF CertInv
  <2>3. CASE Together
    BY <2>1, <2>3, TogetherTyped, TogetherEndpoints, TogetherHandles, TogetherRegistry
    DEF CertInv
  <2>4. CASE UNCHANGED certVars
    <3>1. CertTypeOK' /\ StepsCount'
      BY <2>1, <2>4 DEF certVars, entityVars, dataVars, CertTypeOK, StepsCount, Fits, AllHandles,
         Components
    <3>2. EndpointInv'
      BY <2>1, <2>4 DEF certVars, entityVars, EndpointInv, OwnIds, AssertedIds, CreatedInOrder,
         Planned, Other, Script, ObjectId, WriterId, ReaderId
    <3>3. HandleInv'
      BY <2>1, <2>4 DEF certVars, entityVars, dataVars, HandleInv, WaitsDone, Waited,
         PongsRegistered, Registered, AllHandles, HandlesRegistered, Waits, Script
    <3>4. RegistryInv'
      BY <2>1, <2>4 DEF certVars, entityVars, RegistryInv, Unregistered
    <3> QED BY <3>1, <3>2, <3>3, <3>4 DEF CertInv
  <2>5. CertNext => (\E p \in Processes : Alone(p)) \/ Together
    BY DEF CertNext, Alone, Together
  <2> QED BY <2>2, <2>3, <2>4, <2>5
<1> QED BY <1>1, <1>2, PTL DEF CertSpec

\* The state of the binding of Connext Cert has its type, and the count of a phase stays in
\* it: components (configure_participant_qos), endpoints and waits are three or so each.
THEOREM CertTypeCorrect == CertSpec => [](CertTypeOK /\ StepsCount)
<1>1. CertInv => CertTypeOK /\ StepsCount
  BY DEF CertInv
<1> QED BY <1>1, CertInductive, PTL

\* An endpoint that create_writer or create_reader asserted of the other process, and that
\* counts as matched, exists there under that object id: a participant is enabled, and so
\* discovered, only after the creation of the last of its endpoints.
THEOREM MatchesAlwaysExist == CertSpec => []MatchedEndpointsExist
<1>1. CertInv => MatchedEndpointsExist
  BY MatchesExist DEF CertInv
<1> QED BY <1>1, CertInductive, PTL

\* CertPublisher::send writes with the handle of the key that it writes, also from the
\* listener that answers with pongs: wait_for_readers has filled the handles of the writer.
THEOREM HandlesAlwaysRegistered == CertSpec => []HandlesRegistered
<1>1. CertInv => HandlesRegistered
  BY DEF CertInv, HandleInv
<1> QED BY <1>1, CertInductive, PTL

\* The destructor unregisters all that configure_participant_qos has registered, at
\* whichever of the registrations it failed, when there is no participant.
THEOREM RegistryAlwaysEmptied == CertSpec => []RegistryEmptied
<1>1. CertInv => RegistryEmptied
  BY DEF CertInv, RegistryInv, RegistryEmptied
<1> QED BY <1>1, CertInductive, PTL

-----------------------------------------------------------------------------
(* What the readers request of the writers.                                 *)

\* What configure_writer_qos and configure_reader_qos say of reliability and durability;
\* the count of instances, which grows with each reader, does not matter to them.
PoliciesSet(p) ==
  \A t \in Topics :
    /\ <<"writer", t>> \in DOMAIN endpoints[p] =>
         endpoints[p][<<"writer", t>>].qos = WriterQos(t)
    /\ <<"reader", t>> \in DOMAIN endpoints[p] =>
         LET q == endpoints[p][<<"reader", t>>].qos
         IN  /\ q.reliable = ReaderQos(t, 1).reliable
             /\ q.durability = ReaderQos(t, 1).durability

PolicyInv == \A p \in Processes : PoliciesSet(p)

\* All readers but those of the pongs request what the writer of their topic offers.
OfferedButToPongs ==
  \A p \in Processes, t \in Topics :
    <<"reader", t>> \in DOMAIN endpoints[p] /\ <<"writer", t>> \in DOMAIN endpoints[Other(p)]
    => \/ Compatible(endpoints[Other(p)][<<"writer", t>>].qos,
                     endpoints[p][<<"reader", t>>].qos)
       \/ t = "Latency" /\ cmd.durability \in {TransientLocal, Transient}

\* They depend on the command line only.
LEMMA PoliciesFixed ==
  ASSUME cmd' = cmd
  PROVE  \A u \in Topics : /\ WriterQos(u)' = WriterQos(u)
                           /\ (ReaderQos(u, 1).reliable)' = ReaderQos(u, 1).reliable
                           /\ (ReaderQos(u, 1).durability)' = ReaderQos(u, 1).durability
BY DEF WriterQos, WriterInstances, QueuePerInstance, ReaderQos, SamplesOfReader, Reliable

LEMMA PoliciesKept ==
  ASSUME PolicyInv, cmd' = cmd, endpoints' = endpoints
  PROVE  PolicyInv'
<1> SUFFICES ASSUME NEW q \in Processes PROVE PoliciesSet(q)'
  BY DEF PolicyInv
<1>1. PoliciesSet(q)
  BY DEF PolicyInv
<1>2. ASSUME NEW u \in Topics
      PROVE  /\ <<"writer", u>> \in DOMAIN endpoints'[q] =>
                  endpoints'[q][<<"writer", u>>].qos = WriterQos(u)
             /\ <<"reader", u>> \in DOMAIN endpoints'[q] =>
                  /\ endpoints'[q][<<"reader", u>>].qos.reliable = ReaderQos(u, 1).reliable
                  /\ endpoints'[q][<<"reader", u>>].qos.durability = ReaderQos(u, 1).durability
  BY <1>1 DEF PoliciesSet
<1> QED BY <1>2, PoliciesFixed DEF PoliciesSet

LEMMA PoliciesStay ==
  ASSUME CertTypeOK, PolicyInv, CertNext
  PROVE  PolicyInv'
<1>1. cmd' = cmd
  BY DEF CertNext
<1>2. CASE UNCHANGED endpoints
  BY <1>1, <1>2, PoliciesKept
<1>3. ASSUME NEW p \in Processes, NEW t \in Topics, NEW kind \in {"writer", "reader"}, NEW e,
             endpoints' = Set(endpoints, p, Put(endpoints[p], <<kind, t>>, e)),
             kind = "writer" => e.qos = WriterQos(t),
             kind = "reader" => /\ e.qos.reliable = ReaderQos(t, 1).reliable
                                /\ e.qos.durability = ReaderQos(t, 1).durability
      PROVE  PolicyInv'
  <2> SUFFICES ASSUME NEW q \in Processes PROVE PoliciesSet(q)'
    BY DEF PolicyInv
  <2>1. PoliciesSet(q)
    BY DEF PolicyInv
  <2>2. \A u \in Topics : /\ WriterQos(u)' = WriterQos(u)
                          /\ (ReaderQos(u, 1).reliable)' = ReaderQos(u, 1).reliable
                          /\ (ReaderQos(u, 1).durability)' = ReaderQos(u, 1).durability
    BY <1>1, PoliciesFixed
  <2>3. ASSUME NEW k \in {"writer", "reader"}, NEW u \in Topics,
               <<k, u>> \in DOMAIN endpoints'[q]
        PROVE  \/ <<k, u>> \in DOMAIN endpoints[q]
                    /\ endpoints'[q][<<k, u>>] = endpoints[q][<<k, u>>]
               \/ k = kind /\ u = t /\ endpoints'[q][<<k, u>>] = e
    <3>1. CASE q # p
      BY <1>3, <2>3, <3>1, SetAt DEF CertTypeOK
    <3>2. CASE q = p
      <4>1. endpoints'[p] = Put(endpoints[p], <<kind, t>>, e)
        BY <1>3, SetAt DEF CertTypeOK
      <4>2. CASE <<k, u>> = <<kind, t>>
        <5>1. k = kind /\ u = t
          BY <4>2, Pairs
        <5> QED BY <2>3, <3>2, <4>1, <4>2, <5>1 DEF Put
      <4>3. CASE <<k, u>> # <<kind, t>>
        BY <2>3, <3>2, <4>1, <4>3 DEF Put
      <4> QED BY <4>2, <4>3
    <3> QED BY <3>1, <3>2
  <2>4. ASSUME NEW u \in Topics
        PROVE  /\ <<"writer", u>> \in DOMAIN endpoints'[q] =>
                    endpoints'[q][<<"writer", u>>].qos = WriterQos(u)
               /\ <<"reader", u>> \in DOMAIN endpoints'[q] =>
                    /\ endpoints'[q][<<"reader", u>>].qos.reliable = ReaderQos(u, 1).reliable
                    /\ endpoints'[q][<<"reader", u>>].qos.durability = ReaderQos(u, 1).durability
    BY <1>3, <2>1, <2>3 DEF PoliciesSet
  <2> QED BY <2>2, <2>4 DEF PoliciesSet
<1>4. ASSUME NEW p \in Processes, NEW t \in Topics, CreateWriter(p, t)
      PROVE  PolicyInv'
  <2> DEFINE e == [id |-> WriterId(t), qos |-> WriterQos(t)]
  <2>1. endpoints' = Set(endpoints, p, Put(endpoints[p], <<"writer", t>>, e))
    BY <1>4 DEF CreateWriter
  <2>2. e.qos = WriterQos(t)
    OBVIOUS
  <2> HIDE DEF e
  <2> QED BY <1>3, <2>1, <2>2
<1>5. ASSUME NEW p \in Processes, NEW t \in Topics, CreateReader(p, t)
      PROVE  PolicyInv'
  <2> DEFINE e == [id |-> ReaderId(t), qos |-> ReaderQos(t, maxInst[p] + 1)]
  <2>1. endpoints' = Set(endpoints, p, Put(endpoints[p], <<"reader", t>>, e))
    BY <1>5 DEF CreateReader
  <2>2. /\ e.qos.reliable = ReaderQos(t, 1).reliable
        /\ e.qos.durability = ReaderQos(t, 1).durability
    BY DEF ReaderQos
  <2> HIDE DEF e
  <2> QED BY <1>3, <2>1, <2>2
<1>6. \/ UNCHANGED endpoints
      \/ \E p \in Processes, t \in Topics : CreateWriter(p, t) \/ CreateReader(p, t)
  BY DEF CertNext, Process, ValidateInput, RegisterComponent, CreateDomainParticipant,
     CreateEntities, CreationFails, RegisterInstances, PeerFound, Finish, Shutdown, Test,
     Middleware, Announce, SendInitialize, SendData, Discover, Receive, entityVars
<1> QED BY <1>2, <1>4, <1>5, <1>6

\* create_reader requests what create_writer of the other process offers, with every
\* command line and for every topic but one: the pongs, whose writer stays volatile when
\* -durability asks for 1 or 2.
THEOREM RequestsMet == CertSpec => []OfferedButToPongs
<1>1. CertInit => PolicyInv
  BY DEF CertInit, PolicyInv, PoliciesSet
<1>2. CertTypeOK /\ PolicyInv /\ [CertNext]_certVars => PolicyInv'
  <2>1. ASSUME PolicyInv, UNCHANGED certVars PROVE PolicyInv'
    BY <2>1, PoliciesKept DEF certVars, entityVars
  <2> QED BY <2>1, PoliciesStay
<1>3. CertTypeOK /\ PolicyInv => OfferedButToPongs
  <2> SUFFICES ASSUME CertTypeOK, PolicyInv, NEW p \in Processes, NEW t \in Topics,
                      <<"reader", t>> \in DOMAIN endpoints[p],
                      <<"writer", t>> \in DOMAIN endpoints[Other(p)],
                      ~(t = "Latency" /\ cmd.durability \in {TransientLocal, Transient})
               PROVE  Compatible(endpoints[Other(p)][<<"writer", t>>].qos,
                                 endpoints[p][<<"reader", t>>].qos)
    BY DEF OfferedButToPongs
  <2> DEFINE w == endpoints[Other(p)][<<"writer", t>>].qos
             r == endpoints[p][<<"reader", t>>].qos
  <2>1. /\ w = WriterQos(t) /\ r.reliable = ReaderQos(t, 1).reliable
        /\ r.durability = ReaderQos(t, 1).durability
    BY TwoProcesses DEF PolicyInv, PoliciesSet
  <2>2. cmd.durability \in Volatile .. Persistent
    BY CommandAssumption DEF CertTypeOK, IsCommand
  <2>3. r.reliable => w.reliable
    <3>1. WriterQos(t).reliable = (t = "Announcement" \/ Reliable(t))
      BY DEF WriterQos
    <3>2. ReaderQos(t, 1).reliable = (t # "Announcement" /\ Reliable(t))
      BY DEF ReaderQos
    <3> HIDE DEF w, r
    <3>3. w.reliable = (t = "Announcement" \/ Reliable(t))
      BY <2>1, <3>1, Zenon
    <3>4. r.reliable = (t # "Announcement" /\ Reliable(t))
      BY <2>1, <3>2, Zenon
    <3> QED BY <3>3, <3>4, Zenon
  <2>4. w.durability >= r.durability
    <3>1. cmd.durability \in 0 .. 3
      BY <2>2 DEF Volatile, Persistent
    <3>2. w.durability = IF t = "Announcement" THEN 1
                         ELSE IF t = "Throughput" THEN cmd.durability ELSE 0
      BY <2>1 DEF WriterQos, Volatile, TransientLocal
    <3>3. r.durability = IF t = "Announcement" \/ cmd.durability = 3 THEN 0
                         ELSE cmd.durability
      BY <2>1 DEF ReaderQos, Volatile, Persistent
    <3>4. t = "Latency" => cmd.durability \notin {1, 2}
      BY DEF TransientLocal, Transient
    <3>5. t \in {"Throughput", "Latency", "Announcement"}
      BY DEF Topics
    <3> HIDE DEF w, r
    <3> QED BY <3>1, <3>2, <3>3, <3>4, <3>5
  <2> HIDE DEF w, r
  <2>5. Compatible(w, r)
    BY <2>3, <2>4 DEF Compatible
  <2> QED BY <2>5 DEF w, r
<1>4. CertInv => CertTypeOK
  BY DEF CertInv
<1> QED BY <1>1, <1>2, <1>3, <1>4, CertInductive, PTL DEF CertSpec
=============================================================================
