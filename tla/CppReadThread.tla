----------------------------- MODULE CppReadThread -----------------------------
(***************************************************************************)
(* A read thread of the classic C++ port (-useReadThread, or a middleware  *)
(* without listeners): ReadThread asks its reader for one message after    *)
(* the other and hands them to a listener, until the main thread ends it   *)
(* with finalize_read_thread and deletes the reader.                       *)
(*                                                                         *)
(* receive_message has one implementation per binding.  They share the     *)
(* shape of a loop over a loan: wait, take, skip what is not valid, hand   *)
(* out, return the loan; they differ in what ends them, and in what they   *)
(* do with a sample they do not like.  Reader chooses the implementation:  *)
(*   plain      RTISubscriber           flat       RTIFlatDataSubscriber   *)
(*   dynamic    RTIDynamicDataSubscriber                                   *)
(*   cert       CertSubscriber          certZCopy  ZCopyCertSubscriber     *)
(*   raw        RTIRawTransportSubscriber                                  *)
(*                                                                         *)
(* A sample is the number it has in the order of arrival; Invalid, Odd and *)
(* Finished say which samples carry no data, fail the check of a zero-copy *)
(* reader, or end the test.                                                *)
(*                                                                         *)
(* FirstValidBehind, ForgetsNoData, KeepsLoan, NeverTriggers and           *)
(* DeletesWithoutJoin are mistakes that the code does not make.            *)
(***************************************************************************)
EXTENDS Integers, Sequences, FiniteSetsExt

CONSTANT
  Configs  \* the readers, and what may happen to them

ReaderKinds == {"plain", "flat", "dynamic", "cert", "certZCopy", "raw"}

\* infrastructure is "os" (a binary semaphore that starts empty, threads are not
\* joined) or "cpp11" (a counting one that starts at 1, joined).
ASSUME ReaderAssumption ==
  \A c \in Configs :
    /\ DOMAIN c = {"reader", "maxSamples", "invalid", "odd", "finished",
                   "infrastructure", "unblockFails"}
    /\ c.reader \in ReaderKinds /\ c.infrastructure \in {"os", "cpp11"}
    /\ c.maxSamples \in Nat /\ c.unblockFails \in BOOLEAN
    /\ c.invalid \cup c.odd \cup c.finished \subseteq 1 .. c.maxSamples
    /\ c.reader = "raw" => c.invalid = {}       \* a packet has no SampleInfo

VARIABLE config  \* the reader of this execution: it does not change

Reader == config.reader                 \* the implementation of receive_message
MaxSamples == config.maxSamples         \* bound on the samples that arrive
Invalid == config.invalid               \* samples whose valid_data is false
Odd == config.odd                       \* zero-copy samples that are not consistent,
                                        \* or of another size
Finished == config.finished             \* samples that make process_message set end_test
Infrastructure == config.infrastructure
UnblockFails == config.unblockFails     \* the wake-up of the thread may fail

VARIABLES
  arrived,   \* number of samples that have arrived at the reader
  queue,     \* samples in the cache of the reader, or in the socket
  seq,       \* _data_seq: the samples of the last take
  idx,       \* _data_idx
  noData,    \* _no_data
  loan,      \* the middleware has lent seq and has not got it back
  message,   \* what receive_message returned last; 0 is NULL
  processed, \* the samples process_message was called with
  threadPc,  \* the read thread
  mainPc,    \* the main thread
  endTest,   \* listener->end_test
  unblocked, \* _endTest of the reader
  trigger,   \* the guard condition is triggered (raw: an unblocking packet waits)
  semaphore  \* sync_semaphore: -1 before it is created

readerVars == <<seq, idx, noData, loan>>
syncVars == <<endTest, unblocked, trigger, semaphore>>
vars == <<config, arrived, queue, readerVars, message, processed, threadPc, mainPc, syncVars>>

Init ==
  /\ config \in Configs
  /\ arrived = 0 /\ queue = <<>>
  /\ seq = <<>> /\ idx = 0 /\ loan = FALSE
  /\ noData = (Reader \in {"cert", "certZCopy", "raw"})
  /\ message = 0 /\ processed = <<>>
  /\ threadPc = "start" /\ mainPc = "test"
  /\ endTest = FALSE /\ unblocked = FALSE /\ trigger = FALSE /\ semaphore = -1

\* A sample arrives while the reader exists.
Arrive ==
  /\ arrived < MaxSamples /\ mainPc # "deleted"
  /\ arrived' = arrived + 1
  /\ queue' = Append(queue, arrived + 1)
  /\ UNCHANGED <<readerVars, message, processed, threadPc, mainPc, syncVars>>

-----------------------------------------------------------------------------
(* ReadThread and its synchronisation semaphore.                            *)

SemaphoreStart == IF Infrastructure = "cpp11" THEN 1 ELSE 0

\* get_synchronization_semaphore creates the semaphore on first use.
StartThread ==
  /\ threadPc = "start"
  /\ semaphore' = SemaphoreStart
  /\ threadPc' = "loop"
  /\ UNCHANGED <<arrived, queue, readerVars, message, processed, mainPc, endTest,
                 unblocked, trigger>>

LoopHead ==
  /\ threadPc = "loop"
  /\ threadPc' = IF endTest THEN "give" ELSE "receive"
  /\ UNCHANGED <<arrived, queue, readerVars, message, processed, mainPc, syncVars>>

\* process_message, for a message that is not NULL.
ProcessMessage ==
  /\ threadPc = "process"
  /\ IF message = 0 THEN UNCHANGED <<processed, endTest>>
     ELSE /\ processed' = Append(processed, message)
          /\ endTest' = (endTest \/ message \in Finished)
  /\ threadPc' = "loop"
  /\ UNCHANGED <<arrived, queue, readerVars, message, mainPc, unblocked, trigger,
                 semaphore>>

Given(count) == IF Infrastructure = "os" THEN 1 ELSE count + 1

GiveSemaphore ==
  /\ threadPc = "give"
  /\ semaphore' = Given(semaphore)
  /\ threadPc' = "ended"
  /\ UNCHANGED <<arrived, queue, readerVars, message, processed, mainPc, endTest,
                 unblocked, trigger>>

-----------------------------------------------------------------------------
(* receive_message.                                                         *)

Return(m) == message' = m /\ threadPc' = "process"

Continue == threadPc' = "receive" /\ UNCHANGED message

\* The head of the loop: while (!_endTest), or while (true) for the dynamic and
\* the raw reader.
ChecksEndTest == Reader \notin {"dynamic", "raw"}

ReceiveHead ==
  /\ threadPc = "receive"
  /\ IF ChecksEndTest /\ unblocked THEN Return(0)
     ELSE /\ threadPc' = IF noData THEN "wait" ELSE "scan"
          /\ UNCHANGED message
  /\ UNCHANGED <<arrived, queue, readerVars, processed, mainPc, syncVars>>

\* The dynamic reader waits on a wait set of its own, to which the guard
\* condition of its base class was never attached.
GuardAttached == Reader # "dynamic"

Wakes == queue # <<>> \/ (GuardAttached /\ trigger)

\* DDSWaitSet::wait; a Cert reader then looks at _endTest before it takes.
WaitReturns ==
  /\ threadPc = "wait" /\ Reader # "raw"
  /\ Wakes
  /\ IF Reader \in {"cert", "certZCopy"} /\ unblocked
       THEN Return(0) ELSE threadPc' = "take" /\ UNCHANGED message
  /\ UNCHANGED <<arrived, queue, readerVars, processed, mainPc, syncVars>>

\* take lends everything in the cache, or there is no data.  (Any other failure, after
\* which receive_message returns NULL for ReadThread to call it again, is left out.)
Take ==
  /\ threadPc = "take"
  /\ IF queue = <<>> THEN Continue /\ UNCHANGED <<queue, readerVars>>
     ELSE /\ seq' = queue /\ queue' = <<>>
          /\ idx' = 0 /\ noData' = FALSE /\ loan' = TRUE
          /\ threadPc' = "scan" /\ UNCHANGED message
  /\ UNCHANGED <<arrived, processed, mainPc, syncVars>>

\* Raw transport: a packet holds one sample or a batch of them.  An empty one
\* is the unblocking packet.
ReceivePacket ==
  /\ threadPc = "wait" /\ Reader = "raw"
  /\ \/ /\ trigger /\ trigger' = FALSE
        /\ Return(0)
        /\ UNCHANGED <<queue, readerVars>>
     \/ \E n \in 1 .. Len(queue) :
          /\ seq' = SubSeq(queue, 1, n)
          /\ queue' = SubSeq(queue, n + 1, Len(queue))
          /\ idx' = 0 /\ noData' = FALSE /\ loan' = TRUE
          /\ threadPc' = "scan"
          /\ UNCHANGED <<message, trigger>>
  /\ UNCHANGED <<arrived, processed, mainPc, endTest, unblocked, semaphore>>

ForgetsNoData ==
  /\ idx = Len(seq)
  /\ loan' = FALSE /\ seq' = <<>> /\ idx' = 0
  /\ Continue
  /\ UNCHANGED noData

KeepsLoan ==
  /\ idx = Len(seq)
  /\ noData' = TRUE /\ seq' = <<>> /\ idx' = 0
  /\ Continue
  /\ UNCHANGED loan

\* The end of the loan: it is returned, and the next turn waits again.
ReturnLoan ==
  /\ idx = Len(seq)
  /\ loan' = FALSE /\ noData' = TRUE /\ seq' = <<>> /\ idx' = 0
  /\ Continue

FirstValidBehind ==
  {i \in idx + 1 .. Len(seq) - 1 :
     /\ seq[i + 1] \notin Invalid
     /\ \A j \in idx + 1 .. i - 1 : seq[j + 1] \in Invalid}

\* The position of the first sample from _data_idx on that carries data, if any.
FirstValid ==
  {i \in idx .. Len(seq) - 1 :
     /\ seq[i + 1] \notin Invalid
     /\ \A j \in idx .. i - 1 : seq[j + 1] \in Invalid}

HandOut(i) ==
  /\ Return(seq[i + 1])
  /\ idx' = i + 1
  /\ UNCHANGED <<seq, noData, loan>>

\* No sample of the rest of the loan carries data.
SkipRest ==
  /\ idx < Len(seq) /\ FirstValid = {}
  /\ idx' = Len(seq)
  /\ Continue
  /\ UNCHANGED <<seq, noData, loan>>

\* A continue for a sample that the reader does not like, before _data_idx is
\* incremented.
PassOver(i) ==
  /\ seq[i + 1] \in Odd
  /\ idx' = i
  /\ Continue
  /\ UNCHANGED <<seq, noData, loan>>

\* RTISubscriber and RTIDynamicDataSubscriber.
ScanClassic ==
  \/ ReturnLoan
  \/ SkipRest
  \/ \E i \in FirstValid : HandOut(i)

\* RTIFlatDataSubscriber: a sample that the publisher has overwritten is passed
\* over.
ScanFlatData ==
  \/ ReturnLoan
  \/ SkipRest
  \/ \E i \in FirstValid : PassOver(i) \/ (seq[i + 1] \notin Odd /\ HandOut(i))

\* Without a valid sample left in the loan, a Cert reader dereferences the
\* SampleInfo and the sample behind its end.
ReadBehindEnd ==
  /\ idx < Len(seq) /\ FirstValid = {}
  /\ threadPc' = "crashed"
  /\ UNCHANGED <<message, readerVars>>

\* CertSubscriber.
ScanCert ==
  \/ ReturnLoan
  \/ ReadBehindEnd
  \/ \E i \in FirstValid : HandOut(i)

\* ZCopyCertSubscriber: the same, and a sample of an unexpected size is passed over.
ScanCertZCopy ==
  \/ ReturnLoan
  \/ ReadBehindEnd
  \/ \E i \in FirstValid : PassOver(i) \/ (seq[i + 1] \notin Odd /\ HandOut(i))

\* RTIRawTransportSubscriber: every sample of the packet is handed out.
ScanRaw == ReturnLoan \/ (idx < Len(seq) /\ HandOut(idx))

Scan ==
  /\ threadPc = "scan"
  /\ \/ Reader \in {"plain", "dynamic"} /\ ScanClassic
     \/ Reader = "flat" /\ ScanFlatData
     \/ Reader = "cert" /\ ScanCert
     \/ Reader = "certZCopy" /\ ScanCertZCopy
     \/ Reader = "raw" /\ ScanRaw
  /\ UNCHANGED <<arrived, queue, processed, mainPc, syncVars>>

-----------------------------------------------------------------------------
(* The main thread: finalize_read_thread, and the deletion of the reader.   *)

\* The subscriber comes here when it sees end_test; the publisher at the end of
\* its test, a long time after the thread has started.
FinalizeReadThread ==
  /\ mainPc = "test"
  /\ threadPc # "start"
  /\ Finished # {} => endTest
  /\ endTest' = TRUE
  /\ mainPc' = "unblock"
  /\ UNCHANGED <<arrived, queue, readerVars, message, processed, threadPc, unblocked,
                 trigger, semaphore>>

NeverTriggers == unblocked' = TRUE /\ UNCHANGED trigger

\* unblock sets _endTest and then triggers the guard condition; in the raw
\* transport it sends the unblocking packet.
WakeReader ==
  /\ unblocked' = (Reader # "raw")
  /\ trigger' = TRUE

Unblock ==
  /\ mainPc = "unblock"
  /\ \/ WakeReader /\ mainPc' = "take"
     \/ /\ UnblockFails
        /\ unblocked' = (Reader # "raw") /\ UNCHANGED trigger
        /\ mainPc' = "delete"
  /\ UNCHANGED <<arrived, queue, readerVars, message, processed, threadPc, endTest,
                 semaphore>>

\* Without a time-out.
TakeSemaphore ==
  /\ mainPc = "take"
  /\ semaphore > 0
  /\ semaphore' = semaphore - 1
  /\ mainPc' = "delete"
  /\ UNCHANGED <<arrived, queue, readerVars, message, processed, threadPc, endTest,
                 unblocked, trigger>>

DeletesWithoutJoin == TRUE

\* PerftestThread_delete joins the thread in the C++11 infrastructure.
ThreadDeleted == Infrastructure = "cpp11" => threadPc = "ended"

\* shutdown returns the loan of the sequences of the base class; the dynamic
\* reader has taken into a sequence of its own.
DeleteReader ==
  /\ mainPc = "delete"
  /\ ThreadDeleted
  /\ loan' = (loan /\ Reader = "dynamic")
  /\ mainPc' = "deleted"
  /\ UNCHANGED <<arrived, queue, seq, idx, noData, message, processed, threadPc, syncVars>>

-----------------------------------------------------------------------------
ReadThread ==
  \/ StartThread \/ LoopHead \/ ProcessMessage \/ GiveSemaphore
  \/ ReceiveHead \/ WaitReturns \/ Take \/ ReceivePacket \/ Scan

Main == FinalizeReadThread \/ Unblock \/ TakeSemaphore \/ DeleteReader

Crashed == threadPc = "crashed"

Done == (mainPc = "deleted" \/ Crashed) /\ UNCHANGED vars

Next == ((~Crashed /\ (Arrive \/ ReadThread \/ Main)) \/ Done) /\ UNCHANGED config

Spec == Init /\ [][Next]_vars

\* Both threads are scheduled; nothing makes a sample arrive, or a publisher end
\* its test.
FairSpec ==
  /\ Spec
  /\ WF_vars(~Crashed /\ ReadThread /\ UNCHANGED config)
  /\ WF_vars(~Crashed /\ Main /\ (endTest \/ mainPc # "test") /\ UNCHANGED config)

-----------------------------------------------------------------------------
(* Correctness.                                                             *)

Samples == 1 .. MaxSamples

\* Types, of the samples under way and of the two threads.
SampleTypes ==
  /\ arrived \in 0 .. MaxSamples
  /\ queue \in Seq(Samples) /\ seq \in Seq(Samples) /\ processed \in Seq(Samples)
  /\ idx \in 0 .. Len(seq)
  /\ message \in 0 .. MaxSamples

ThreadTypes ==
  /\ noData \in BOOLEAN /\ loan \in BOOLEAN
  /\ endTest \in BOOLEAN /\ unblocked \in BOOLEAN /\ trigger \in BOOLEAN
  /\ threadPc \in {"start", "loop", "receive", "wait", "take", "scan", "process",
                   "give", "ended", "crashed"}
  /\ mainPc \in {"test", "unblock", "take", "delete", "deleted"}
  /\ semaphore \in -1 .. 2

TypeOK == SampleTypes /\ ThreadTypes

\* What is still to be handed to process_message: the current message, the rest
\* of the loan, and the cache.  The samples before are dealt with.
InHand == IF threadPc = "process" /\ message # 0 THEN 1 ELSE 0
InLoan == Len(seq) - idx
DealtWith == arrived - Len(queue) - InLoan - InHand

PendingInOrder ==
  /\ InHand = 1 => message = DealtWith + 1
  /\ \A i \in 1 .. InLoan : seq[idx + i] = DealtWith + InHand + i
  /\ \A i \in 1 .. Len(queue) : queue[i] = DealtWith + InHand + InLoan + i

\* No sample is dropped, processed twice or overtaken between the middleware
\* and process_message, however the takes cut the stream into loans: of the samples
\* that are dealt with those with data were processed, in their order.
EverySampleOnce ==
  /\ PendingInOrder
  /\ {processed[i] : i \in 1 .. Len(processed)} = (1 .. DealtWith) \ Invalid
  /\ \A i, j \in 1 .. Len(processed) : i < j => processed[i] < processed[j]

\* A loan is open exactly while the reader works on it: a take never finds the
\* sequences still lent, what the listener is given is inside a loan, and no loan
\* outlives the reader: RTISubscriberBase::shutdown, where a "loan may be
\* outstanding during shutdown", returns it.
LoansAreClosed ==
  /\ threadPc \in {"wait", "take"} => ~loan
  /\ (threadPc = "process" /\ message # 0 /\ mainPc # "deleted") => loan
  /\ (mainPc = "deleted" /\ ~UnblockFails) => ~loan

\* The reader, the listener and its semaphore are deleted only when the thread
\* will not touch them again: PERFTEST's "This will allow the main thread to
\* delete the thread that used this function" (ReadThread).  After an unblock
\* that fails, finalize_read_thread deletes them without waiting.
NoUseAfterDelete ==
  (mainPc = "deleted" /\ ~UnblockFails) => threadPc = "ended"

\* MessagingIF.h, unblock: "Unblock a receive function. Needed whe a thread is
\* blocked receiving data".  Unless that fails, the main thread gets past finalize_read_thread.
FinalizeEnds == (mainPc = "unblock" /\ ~UnblockFails) ~> mainPc = "deleted"

BiggestSample == Max({c.maxSamples : c \in Configs})

ProcessedInTheEnd(n) ==
  (n \notin Invalid \cup Odd /\ arrived >= n)
    ~> (endTest \/ \E i \in 1 .. Len(processed) : processed[i] = n)

\* Every sample that carries data is processed in the end, unless the test is
\* over; of the samples RTIFlatDataSubscriber checks for consistency only the
\* inconsistent ones are passed over: "Check that the sample was not modified on
\* the publisher side when using Zero Copy".
EverySampleProcessed == \A n \in 1 .. BiggestSample : ProcessedInTheEnd(n)

\* As long as every sample is consistent, every sample is processed: a loan, a
\* sample without data or the end of a packet never hides the samples behind it.
ConsistentStreamProcessed ==
  \A n \in 1 .. BiggestSample : Odd # {} \/ ProcessedInTheEnd(n)
=============================================================================
