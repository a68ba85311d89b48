--------------------------- MODULE RecorderProofs ---------------------------
(***************************************************************************)
(* Proofs about RecorderState, for every set of goroutines, every          *)
(* configuration and every bound.  First its types, and that it accounts   *)
(* for every observation: the stamps given out since Reset are exactly     *)
(* those of the recorded, pending, dropped and discarded observations,     *)
(* each in one place and once.  Then the bounded error history, the        *)
(* capacity, the dirty flag, the shutdown error and what a nil result      *)
(* means.  Last, that it implements ObservationLedger.                     *)
(***************************************************************************)
EXTENDS RecorderState, InductionLemmas

-----------------------------------------------------------------------------
(* The helpers *)

(* An injected failure is an error of the operation it was injected into. *)
LEMMA InjectedErrorType ==
  ASSUME config \in Config, NEW op \in Injectable, NEW n \in Nat,
         Injected(op, n)
  PROVE  InjectedError(op, n) \in Error
<1> DEFINE rules == config.failures[op]
           first == CHOOSE i \in Matching(op, n) :
                      \A j \in Matching(op, n) : i <= j
<1>1. rules \in Seq(Rule)
  BY DEF Config
<1>2. Matching(op, n) \subseteq DOMAIN rules
  BY DEF Matching
<1>3. DOMAIN rules = 1..Len(rules) /\ Len(rules) \in Nat
  BY <1>1, LenProperties
<1>4. Matching(op, n) \subseteq Nat
  BY <1>2, <1>3
<1>5. \E i \in Matching(op, n) : \A j \in Matching(op, n) : i <= j
  BY <1>4, NatMinimum DEF Injected
<1>6. first \in Matching(op, n)
  BY <1>5
<1>7. rules[first] \in Rule
  BY <1>1, <1>2, <1>3, <1>6
<1> HIDE DEF first, rules
<1>8. InjectedError(op, n)
        = Err(op, rules[first].classification, rules[first].retryable,
              rules[first].dropped)
  BY DEF InjectedError, first, rules
<1> QED BY <1>7, <1>8 DEF Err, Error, Rule, Injectable, Operations, Classes

LEMMA RepeatType ==
  ASSUME NEW e \in Error, NEW n \in Nat
  PROVE  Repeat(e, n) \in Seq(Error) /\ Len(Repeat(e, n)) = n
BY DEF Repeat

LEMMA StampedType ==
  ASSUME sequence \in Nat, NEW batch \in Seq(Spans)
  PROVE  Stamped(batch) \in Seq(Span) /\ Len(Stamped(batch)) = Len(batch)
BY DEF Stamped, Span

LEMMA UnstampedType ==
  ASSUME NEW batch \in Seq(Spans)
  PROVE  Unstamped(batch) \in Seq(Span) /\ Len(Unstamped(batch)) = Len(batch)
BY DEF Unstamped, Span

LEMMA DropType ==
  ASSUME NEW spans \in Seq(Span), NEW reason \in Reasons, NEW err \in Error
  PROVE  /\ Drop(spans, reason, err) \in Seq(Observation)
         /\ Len(Drop(spans, reason, err)) = Len(spans)
<1>1. \A i \in 1..Len(spans) : spans[i] \in Span
  OBVIOUS
<1> QED BY <1>1 DEF Drop, Span, Observation

(* The variables that Remember sets. *)
HistoryType ==
  /\ errors \in Seq(Error) /\ droppedErrHist \in Nat
  /\ lastError \in Error \cup {None} /\ reported \in Nat

LEMMA RememberType ==
  ASSUME HistoryType, NEW errs \in Seq(Error), Remember(errs)
  PROVE  HistoryType'
<1> DEFINE all == errors \o errs
           evicted == Larger(0, Len(all) - ErrorHistorySize)
<1>1. all \in Seq(Error) /\ Len(all) = Len(errors) + Len(errs)
      /\ Len(errors) \in Nat /\ Len(errs) \in Nat
  BY DEF HistoryType
<1>2. evicted \in Nat
  BY <1>1, ConstantsAssumption DEF Larger
<1>3. \A i \in evicted + 1 .. Len(all) : all[i] \in Error
  BY <1>1, <1>2
<1> HIDE DEF evicted, all
<1>4. errors' = SubSeq(all, evicted + 1, Len(all))
      /\ droppedErrHist' = droppedErrHist + evicted
      /\ reported' = reported + Len(errs)
      /\ lastError' = IF errs = <<>> THEN lastError ELSE errs[Len(errs)]
  BY DEF Remember, all, evicted
<1>5. errors' \in Seq(Error)
  BY <1>1, <1>2, <1>3, <1>4, SubSeqProperties
<1>6. lastError' \in Error \cup {None}
  BY <1>4 DEF HistoryType
<1> QED BY <1>1, <1>2, <1>4, <1>5, <1>6 DEF HistoryType

LEMMA AdmitType ==
  ASSUME TypeOK, NEW spans \in Seq(Span), NEW err \in Error,
         Admit(spans, err)
  PROVE  recorded' \in Seq(Span) /\ dropped' \in Seq(Observation)
         /\ HistoryType'
<1> DEFINE n == Len(spans)
           fit == Room(n)
           rest == SubSeq(spans, fit + 1, n)
<1>1. fit \in Nat /\ fit <= n
  <2>1. config.capacity \in Nat /\ Len(recorded) \in Nat /\ n \in Nat
    BY DEF TypeOK, Config
  <2> QED BY <2>1 DEF Room, Smaller, Larger
<1>2. SubSeq(spans, 1, fit) \in Seq(Span)
  BY <1>1, SubSeqProperties
<1>3. rest \in Seq(Span)
  BY <1>1, SubSeqProperties
<1> HIDE DEF fit
<1>4. recorded' \in Seq(Span)
  BY <1>2 DEF Admit, TypeOK, fit
<1>5. dropped' \in Seq(Observation)
  <2>1. Drop(rest, "capacity", err) \in Seq(Observation)
    <3>1. "capacity" \in Reasons
      BY DEF Reasons
    <3> HIDE DEF rest
    <3> QED BY <1>3, <3>1, DropType
  <2>2. dropped' = dropped \o Drop(rest, "capacity", err)
    BY DEF Admit, fit
  <2>3. dropped \in Seq(Observation)
    BY DEF TypeOK
  <2> QED BY <2>1, <2>2, <2>3, ConcatProperties
<1>6. HistoryType
  BY DEF HistoryType, TypeOK
<1>7. Repeat(err, Len(rest)) \in Seq(Error)
  BY <1>3, RepeatType
<1>8. HistoryType'
  BY <1>6, <1>7, RememberType DEF Admit, fit
<1> QED BY <1>4, <1>5, <1>8

-----------------------------------------------------------------------------
(* Type correctness *)

LEMMA ErrType ==
  ASSUME NEW op \in Operations \cup {"redact"}, NEW class \in Classes,
         NEW retry \in BOOLEAN, NEW drop \in BOOLEAN
  PROVE  Err(op, class, retry, drop) \in Error
BY DEF Err, Error

(* What every call keeps: the types of the goroutines' own variables. *)
CallType ==
  call \in [Threads -> Call] /\ result \in [Threads -> SUBSET Error]

LEMMA BeginType ==
  ASSUME TypeOK, NEW t \in Threads, NEW op \in Operations,
         NEW batch \in Seq(Spans), NEW err \in Error \cup {None},
         Begin(t, op, batch, err)
  PROVE  CallType' /\ counts' \in [Operations -> Nat]
<1>1. counts[op] \in Nat /\ epoch \in Nat
  BY DEF TypeOK
<1>2. [op |-> op, epoch |-> epoch, n |-> counts[op] + 1,
       batch |-> batch, err |-> err] \in Call
  BY <1>1 DEF Call
<1>3. call' \in [Threads -> Call]
  BY <1>2 DEF Begin, TypeOK
<1> QED BY <1>1, <1>3 DEF Begin, TypeOK, CallType

LEMMA ReturnType ==
  ASSUME TypeOK, NEW t \in Threads, NEW errs \in SUBSET Error,
         Return(t, errs)
  PROVE  CallType'
<1>1. Idle \in Call
  BY DEF Idle, Call
<1> QED BY <1>1 DEF Return, TypeOK, CallType

LEMMA FailType ==
  ASSUME TypeOK, NEW t \in Threads, NEW err \in Error, Fail(t, err)
  PROVE  CallType' /\ HistoryType' /\ dirty' \in BOOLEAN /\ epoch' \in Nat
<1>1. HistoryType
  BY DEF TypeOK, HistoryType
<1>2. <<err>> \in Seq(Error)
  OBVIOUS
<1>3. HistoryType'
  BY <1>1, <1>2, RememberType DEF Fail
<1>4. CallType'
  BY ReturnType DEF Fail
<1> QED BY <1>3, <1>4 DEF Fail, TypeOK

LEMMA EnterType ==
  ASSUME TypeOK, NEW t \in Threads, Enter(t), UNCHANGED config
  PROVE  TypeOK'
<1> USE DEF store, history, status, Operations
<1> << >> \in Seq(Spans)
  OBVIOUS
<1>1. CASE BeginRecord(t)
  <2>1. PICK s \in Spans : Begin(t, "record", <<s>>, None)
    BY <1>1 DEF BeginRecord
  <2>2. <<s>> \in Seq(Spans)
    OBVIOUS
  <2>3. CallType' /\ counts' \in [Operations -> Nat]
    BY <2>1, <2>2, BeginType
  <2> QED BY <1>1, <2>3 DEF BeginRecord, TypeOK, CallType
<1>2. CASE BeginExport(t)
  <2>1. PICK batch \in Batches : Begin(t, "export", batch, None)
    BY <1>2 DEF BeginExport
  <2>2. CallType' /\ counts' \in [Operations -> Nat]
    BY <2>1, BeginType, ConstantsAssumption
  <2> QED BY <1>2, <2>2 DEF BeginExport, TypeOK, CallType
<1>3. CASE BeginFlush(t)
  <2>1. Begin(t, "flush", <<>>, lastShutdownErr)
    BY <1>3 DEF BeginFlush
  <2>2. CallType' /\ counts' \in [Operations -> Nat]
    BY <2>1, BeginType DEF TypeOK
  <2> QED BY <1>3, <2>2 DEF BeginFlush, TypeOK, CallType
<1>4. CASE BeginShutdown(t)
  <2>1. Begin(t, "shutdown", <<>>, None)
    BY <1>4 DEF BeginShutdown
  <2>2. CallType' /\ counts' \in [Operations -> Nat]
    BY <2>1, BeginType
  <2> QED BY <1>4, <2>2 DEF BeginShutdown, TypeOK, CallType
<1>5. CASE ShutdownAgain(t)
  BY <1>5 DEF ShutdownAgain, TypeOK
<1> QED BY <1>1, <1>2, <1>3, <1>4, <1>5 DEF Enter

LEMMA CallFields ==
  ASSUME TypeOK, NEW t \in Threads
  PROVE  /\ call[t].n \in Nat /\ call[t].batch \in Seq(Spans)
         /\ call[t].err \in Error \cup {None}
         /\ call[t].op \in Operations \cup {"idle"}
BY DEF TypeOK, Call

LEMMA SubmitType ==
  ASSUME TypeOK, NEW t \in Threads, Submit(t), UNCHANGED config
  PROVE  TypeOK'
<1> USE DEF store, history, status
<1> DEFINE batch == call[t].batch
           injected == InjectedError("export", call[t].n)
<1>1. /\ batch \in Seq(Spans) /\ call[t].n \in Nat /\ Len(batch) \in Nat
      /\ call[t].op \in Operations \cup {"idle"}
  BY CallFields
<1>2. /\ Stamped(batch) \in Seq(Span) /\ Len(Stamped(batch)) = Len(batch)
      /\ Unstamped(batch) \in Seq(Span)
  BY <1>1, StampedType, UnstampedType DEF TypeOK
<1>3. HistoryType
  BY DEF HistoryType, TypeOK
<1>4. Injected("export", call[t].n) => injected \in Error
  BY <1>1, InjectedErrorType DEF TypeOK, Injectable
<1> HIDE DEF batch, injected
<1>5. CASE RecordSpan(t)
  <2> DEFINE err == Err("record", "capacity", FALSE, TRUE)
  <2>1. err \in Error
    BY ErrType DEF Operations, Classes
  <2> HIDE DEF err
  <2>2. recorded' \in Seq(Span) /\ dropped' \in Seq(Observation) /\ HistoryType'
    BY <1>2, <1>5, <2>1, AdmitType DEF RecordSpan, batch, err
  <2>3. CallType'
    <3>1. PICK errs \in SUBSET Error : Return(t, errs)
      BY <1>5, <2>1 DEF RecordSpan, err
    <3> QED BY <3>1, ReturnType
  <2> QED BY <1>5, <2>2, <2>3 DEF RecordSpan, TypeOK, CallType, HistoryType
<1>6. CASE CancelSubmission(t)
  <2> DEFINE err == Err(call[t].op, "canceled", TRUE, FALSE)
  <2>1. err \in Error
    BY <1>1, <1>6, ErrType DEF CancelSubmission, Finishing, Operations, Classes
  <2> HIDE DEF err
  <2>2. CallType' /\ HistoryType' /\ dirty' \in BOOLEAN /\ epoch' \in Nat
    BY <1>6, <2>1, FailType DEF CancelSubmission, err
  <2> QED BY <1>6, <2>2 DEF CancelSubmission, TypeOK, CallType, HistoryType
<1>7. CASE RejectRedaction(t)
  <2> DEFINE err == Err("redact", "redaction", FALSE, TRUE)
  <2>1. err \in Error
    BY ErrType DEF Classes
  <2> HIDE DEF err
  <2>2. CallType' /\ HistoryType' /\ dirty' \in BOOLEAN /\ epoch' \in Nat
    BY <1>7, <2>1, FailType DEF RejectRedaction, err
  <2> QED BY <1>7, <2>2 DEF RejectRedaction, TypeOK, CallType, HistoryType
<1>8. CASE RetainExport(t)
  <2>1. injected \in Error
    BY <1>4, <1>8 DEF RetainExport
  <2>2. CallType' /\ HistoryType' /\ dirty' \in BOOLEAN /\ epoch' \in Nat
    BY <1>8, <2>1, FailType DEF RetainExport, injected
  <2>3. pending' \in Seq(Span) /\ sequence' \in Nat
    BY <1>1, <1>2, <1>8 DEF RetainExport, TypeOK, batch
  <2> QED BY <1>8, <2>2, <2>3 DEF RetainExport, TypeOK, CallType, HistoryType
<1>9. CASE RefuseExport(t)
  <2> DEFINE drops == Drop(Stamped(batch), "injected_failure", injected)
  <2>1. injected \in Error
    BY <1>4, <1>9 DEF RefuseExport
  <2>2. drops \in Seq(Observation)
    BY <1>2, <2>1, DropType DEF Reasons
  <2> HIDE DEF drops
  <2>3. dropped' \in Seq(Observation) /\ sequence' \in Nat
    BY <1>1, <1>2, <1>9, <2>2 DEF RefuseExport, TypeOK, batch, drops, injected
  <2>4. Repeat(injected, Len(Stamped(batch)) + 1) \in Seq(Error)
    BY <1>1, <1>2, <2>1, RepeatType
  <2>5. HistoryType'
    BY <1>3, <1>9, <2>4, RememberType DEF RefuseExport, batch, injected
  <2>6. CallType'
    BY <1>9, <2>1, ReturnType DEF RefuseExport, injected
  <2> QED
    BY <1>9, <2>3, <2>5, <2>6 DEF RefuseExport, TypeOK, CallType, HistoryType
<1>10. CASE ExportClosed(t)
  <2> DEFINE err == Err("export", "exporter_closed", FALSE, TRUE)
             drops == Drop(Unstamped(batch), "shutdown", err)
  <2>1. err \in Error
    BY ErrType DEF Operations, Classes
  <2> HIDE DEF err
  <2>2. drops \in Seq(Observation)
    BY <1>2, <2>1, DropType DEF Reasons
  <2> HIDE DEF drops
  <2>3. dropped' \in Seq(Observation)
    <3>1. dropped' = dropped \o drops
      BY <1>10, Zenon DEF ExportClosed, batch, drops, err
    <3> QED BY <2>2, <3>1 DEF TypeOK
  <2>4. Repeat(err, Len(Unstamped(batch))) \in Seq(Error)
    BY <1>2, <2>1, RepeatType
  <2>5. HistoryType'
    BY <1>3, <1>10, <2>4, RememberType DEF ExportClosed, batch, err
  <2>6. CallType'
    BY <1>10, <2>1, ReturnType DEF ExportClosed, err
  <2>7. dirty' \in BOOLEAN
    BY <1>10 DEF ExportClosed
  <2> QED
    BY <1>10, <2>3, <2>5, <2>6, <2>7
       DEF ExportClosed, TypeOK, CallType, HistoryType
<1>11. CASE ExportBatch(t)
  <2> DEFINE err == Err("export", "capacity", FALSE, TRUE)
  <2>1. err \in Error
    BY ErrType DEF Operations, Classes
  <2> HIDE DEF err
  <2>2. recorded' \in Seq(Span) /\ dropped' \in Seq(Observation) /\ HistoryType'
    BY <1>2, <1>11, <2>1, AdmitType DEF ExportBatch, batch, err
  <2>3. CallType'
    <3>1. PICK errs \in SUBSET Error : Return(t, errs)
      BY <1>11, <2>1 DEF ExportBatch, err
    <3> QED BY <3>1, ReturnType
  <2>4. sequence' \in Nat /\ dirty' \in BOOLEAN
    BY <1>1, <1>11 DEF ExportBatch, TypeOK, batch
  <2> QED
    BY <1>11, <2>2, <2>3, <2>4 DEF ExportBatch, TypeOK, CallType, HistoryType
<1> QED
  BY <1>5, <1>6, <1>7, <1>8, <1>9, <1>10, <1>11 DEF Submit

LEMMA FlushType ==
  ASSUME TypeOK, NEW t \in Threads, Flush(t), UNCHANGED config
  PROVE  TypeOK'
<1> USE DEF store, history, status
<1>1. call[t].n \in Nat /\ call[t].err \in Error \cup {None}
  BY CallFields
<1>2. HistoryType
  BY DEF HistoryType, TypeOK
<1>3. CASE CancelFlush(t)
  <2> DEFINE err == Err("flush", "canceled", TRUE, FALSE)
  <2>1. err \in Error
    BY ErrType DEF Operations, Classes
  <2> HIDE DEF err
  <2>2. CallType' /\ HistoryType' /\ dirty' \in BOOLEAN /\ epoch' \in Nat
        /\ lastFlushError' \in Error
    BY <1>3, <2>1, FailType DEF CancelFlush, err
  <2> QED BY <1>3, <2>2 DEF CancelFlush, TypeOK, CallType, HistoryType
<1>4. CASE FailFlush(t)
  <2> DEFINE err == InjectedError("flush", call[t].n)
  <2>1. err \in Error
    BY <1>1, <1>4, InjectedErrorType DEF FailFlush, TypeOK, Injectable
  <2> HIDE DEF err
  <2>2. CallType' /\ HistoryType' /\ dirty' \in BOOLEAN /\ epoch' \in Nat
        /\ lastFlushError' \in Error
    BY <1>4, <2>1, FailType DEF FailFlush, err
  <2> QED BY <1>4, <2>2 DEF FailFlush, TypeOK, CallType, HistoryType
<1>5. CASE FlushAfterFailedShutdown(t)
  <2>1. call[t].err \in Error
    BY <1>1, <1>5 DEF FlushAfterFailedShutdown
  <2>2. CallType'
    BY <1>5, <2>1, ReturnType DEF FlushAfterFailedShutdown
  <2> QED
    BY <1>5, <2>2 DEF FlushAfterFailedShutdown, TypeOK, CallType, state
<1>6. CASE FlushNothing(t)
  <2>1. CallType'
    BY <1>6, ReturnType DEF FlushNothing
  <2> QED BY <1>6, <2>1 DEF FlushNothing, TypeOK, CallType
<1>7. counts["export"] + 1 \in Nat /\ "export" \in Operations
  BY DEF TypeOK, Operations
<1>8. CASE RetryFails(t)
  <2> DEFINE n == counts["export"] + 1
             err == InjectedError("export", n)
  <2>1. err \in Error
    BY <1>7, <1>8, InjectedErrorType DEF RetryFails, TypeOK, Injectable
  <2> HIDE DEF err
  <2>2. CallType'
    BY <1>8, <2>1, ReturnType DEF RetryFails, err
  <2>3. counts' \in [Operations -> Nat]
    BY <1>7, <1>8 DEF RetryFails, TypeOK
  <2>4. pending' \in Seq(Span) /\ dropped' \in Seq(Observation) /\ HistoryType'
    <3>1. CASE Retained(err)
      <4>1. <<err>> \in Seq(Error)
        BY <2>1
      <4>2. HistoryType'
        BY <1>2, <1>8, <3>1, <4>1, RememberType DEF RetryFails, err
      <4> QED BY <1>8, <3>1, <4>2 DEF RetryFails, err, TypeOK
    <3>2. CASE ~Retained(err)
      <4> DEFINE drops == Drop(pending, "injected_failure", err)
      <4>1. drops \in Seq(Observation)
        BY <2>1, DropType DEF Reasons, TypeOK
      <4>2. Repeat(err, Len(pending) + 1) \in Seq(Error)
        BY <2>1, RepeatType DEF TypeOK
      <4>3. HistoryType'
        BY <1>2, <1>8, <3>2, <4>2, RememberType DEF RetryFails, err
      <4> HIDE DEF drops
      <4>4. dropped' = dropped \o drops /\ pending' = <<>>
        BY <1>8, <3>2, Zenon DEF RetryFails, err, drops
      <4>5. dropped' \in Seq(Observation) /\ pending' \in Seq(Span)
        BY <4>1, <4>4 DEF TypeOK
      <4> QED BY <4>3, <4>5
    <3> QED BY <3>1, <3>2
  <2>5. lastFlushError' \in Error /\ dirty' \in BOOLEAN
    BY <1>8, <2>1 DEF RetryFails, err
  <2> QED
    BY <1>8, <2>2, <2>3, <2>4, <2>5 DEF RetryFails, TypeOK, CallType, HistoryType
<1>9. CASE RetryDelivers(t)
  <2> DEFINE err == Err("flush", "capacity", FALSE, TRUE)
             bad == Overflows(Len(pending))
  <2>1. err \in Error
    BY ErrType DEF Operations, Classes
  <2> HIDE DEF err
  <2>2. recorded' \in Seq(Span) /\ dropped' \in Seq(Observation) /\ HistoryType'
    BY <1>9, <2>1, AdmitType DEF RetryDelivers, err, TypeOK
  <2>3. counts' \in [Operations -> Nat]
    BY <1>7, <1>9 DEF RetryDelivers, TypeOK
  <2>4. bad \in BOOLEAN
    BY DEF Overflows
  <2> HIDE DEF bad
  <2>5. CallType'
    <3>1. PICK errs \in SUBSET Error : Return(t, errs)
      BY <1>9, <2>1 DEF RetryDelivers, err, bad
    <3> QED BY <3>1, ReturnType
  <2>6. lastFlushError' \in Error \cup {None} /\ dirty' \in BOOLEAN
        /\ pending' \in Seq(Span)
    <3>1. lastFlushError' = (IF bad THEN err ELSE None) /\ dirty' = bad
          /\ pending' = <<>>
      BY <1>9, Zenon DEF RetryDelivers, err, bad
    <3> QED BY <2>1, <2>4, <3>1
  <2> QED
    BY <1>9, <2>2, <2>3, <2>5, <2>6
       DEF RetryDelivers, TypeOK, CallType, HistoryType
<1> QED BY <1>3, <1>4, <1>5, <1>6, <1>8, <1>9 DEF Flush

LEMMA ShutdownType ==
  ASSUME TypeOK, NEW t \in Threads, Shutdown(t), UNCHANGED config
  PROVE  TypeOK'
<1> USE DEF store, history, status
<1>1. CASE CancelShutdown(t)
  <2> DEFINE err == Err("shutdown", "canceled", TRUE, FALSE)
  <2>1. err \in Error
    BY ErrType DEF Operations, Classes
  <2> HIDE DEF err
  <2>2. CallType' /\ HistoryType' /\ dirty' \in BOOLEAN /\ epoch' \in Nat
        /\ lastShutdownErr' \in Error
    BY <1>1, <2>1, FailType DEF CancelShutdown, err
  <2> QED BY <1>1, <2>2 DEF CancelShutdown, TypeOK, CallType, HistoryType
<1>2. CASE FailShutdown(t)
  <2> DEFINE err == InjectedError("shutdown", call[t].n)
  <2>1. err \in Error
    BY <1>2, CallFields, InjectedErrorType DEF FailShutdown, TypeOK, Injectable
  <2> HIDE DEF err
  <2>2. CallType' /\ HistoryType' /\ dirty' \in BOOLEAN /\ epoch' \in Nat
        /\ lastShutdownErr' \in Error
    BY <1>2, <2>1, FailType DEF FailShutdown, err
  <2> QED BY <1>2, <2>2 DEF FailShutdown, TypeOK, CallType, HistoryType
<1>3. CASE CompleteShutdown(t)
  <2>1. CallType'
    BY <1>3, ReturnType DEF CompleteShutdown
  <2>2. Stamps(pending) \subseteq Nat
    <3>1. \A i \in DOMAIN pending : pending[i] \in Span
      BY DEF TypeOK
    <3>2. \A i \in DOMAIN pending : pending[i].stamp \in Nat
      BY <3>1 DEF Span
    <3> QED BY <3>2 DEF Stamps
  <2>3. discarded' \in SUBSET Nat /\ pending' \in Seq(Span)
    <3>1. discarded' = discarded \cup Stamps(pending) /\ pending' = <<>>
      BY <1>3 DEF CompleteShutdown
    <3>2. discarded \in SUBSET Nat
      BY DEF TypeOK
    <3>3. discarded \cup Stamps(pending) \in SUBSET Nat
      BY <2>2, <3>2
    <3> QED BY <3>1, <3>3
  <2> QED BY <1>3, <2>1, <2>3 DEF CompleteShutdown, TypeOK, CallType
<1> QED BY <1>1, <1>2, <1>3 DEF Shutdown

(* The state keeps its types: a call in progress carries an epoch, an index
   and a batch that make sense whenever it resumes. *)
THEOREM TypeCorrect == Spec => []TypeOK
<1>1. Init => TypeOK
  <2> SUFFICES ASSUME Init PROVE TypeOK
    OBVIOUS
  <2>1. Idle \in Call
    BY DEF Idle, Call
  <2>2. CallType
    BY <2>1 DEF Init, CallType
  <2>3. /\ <<>> \in Seq(Span) /\ <<>> \in Seq(Observation) /\ <<>> \in Seq(Error)
        /\ [op \in Operations |-> 0] \in [Operations -> Nat]
        /\ {} \in SUBSET Nat /\ 0 \in Nat /\ FALSE \in BOOLEAN
    OBVIOUS
  <2> QED BY <2>2, <2>3, ConstantsAssumption DEF Init, Fresh, TypeOK, CallType
<1>2. TypeOK /\ [Next]_vars => TypeOK'
  <2> SUFFICES ASSUME TypeOK, [Next]_vars PROVE TypeOK'
    OBVIOUS
  <2>1. ASSUME NEW t \in Threads, Enter(t), UNCHANGED config PROVE TypeOK'
    BY <2>1, EnterType
  <2>2. ASSUME NEW t \in Threads, Submit(t), UNCHANGED config PROVE TypeOK'
    BY <2>2, SubmitType
  <2>3. ASSUME NEW t \in Threads, Flush(t), UNCHANGED config PROVE TypeOK'
    BY <2>3, FlushType
  <2>4. ASSUME NEW t \in Threads, Shutdown(t), UNCHANGED config PROVE TypeOK'
    BY <2>4, ShutdownType
  <2>5. ASSUME NEW t \in Threads, Abandon(t), UNCHANGED config PROVE TypeOK'
    <3>1. CallType'
      BY <2>5, ReturnType DEF Abandon
    <3> QED
      BY <2>5, <3>1
         DEF Abandon, state, store, history, status, TypeOK, CallType
  <2>6. ASSUME Reset, UNCHANGED config PROVE TypeOK'
    <3>1. /\ <<>> \in Seq(Span) /\ <<>> \in Seq(Observation)
          /\ <<>> \in Seq(Error)
          /\ [op \in Operations |-> 0] \in [Operations -> Nat]
          /\ {} \in SUBSET Nat /\ 0 \in Nat /\ FALSE \in BOOLEAN
      OBVIOUS
    <3>2. epoch' \in Nat /\ CallType' /\ config' \in Config
      BY <2>6 DEF Reset, TypeOK, CallType
    <3> QED BY <2>6, <3>1, <3>2, Zenon DEF Reset, TypeOK, CallType
  <2>7. CASE UNCHANGED vars
    BY <2>7 DEF vars, state, store, history, status, TypeOK
  <2> QED
    BY <2>1, <2>2, <2>3, <2>4, <2>5, <2>6, <2>7 DEF Next, Finish, Rest
<1> QED BY <1>1, <1>2, PTL DEF Spec

-----------------------------------------------------------------------------
(* The accounts of stamps *)

(* The two invariants hold together: that no new stamp is in use already
   follows from every stamp in use being accounted for. *)
Accounting == EveryStampAccounted /\ NoStampTwice

-----------------------------------------------------------------------------
(* Stamps of concatenated, stamped, dropped and split sequences *)

LEMMA StampsOf ==
  ASSUME NEW S, NEW s \in Seq(S)
  PROVE  Stamps(s) = {s[i].stamp : i \in 1..Len(s)} \ {0}
BY DEF Stamps

LEMMA StampsConcat ==
  ASSUME NEW S, NEW s \in Seq(S), NEW t \in Seq(S)
  PROVE  Stamps(s \o t) = Stamps(s) \cup Stamps(t)
<1> DEFINE u == s \o t
<1>1. /\ u \in Seq(S) /\ Len(u) = Len(s) + Len(t)
      /\ \A i \in 1..Len(u) : u[i] = IF i <= Len(s) THEN s[i] ELSE t[i - Len(s)]
      /\ Len(s) \in Nat /\ Len(t) \in Nat
  BY ConcatProperties
<1> HIDE DEF u
<1>2. \A i \in 1..Len(s) : i \in 1..Len(u) /\ u[i] = s[i]
  BY <1>1
<1>3. \A i \in 1..Len(t) : i + Len(s) \in 1..Len(u) /\ u[i + Len(s)] = t[i]
  <2> SUFFICES ASSUME NEW i \in 1..Len(t)
               PROVE  i + Len(s) \in 1..Len(u) /\ u[i + Len(s)] = t[i]
    OBVIOUS
  <2>1. /\ i + Len(s) \in 1..Len(u) /\ ~(i + Len(s) <= Len(s))
        /\ (i + Len(s)) - Len(s) = i
    BY <1>1
  <2> QED BY <1>1, <2>1
<1>4. \A i \in 1..Len(u) :
        (\E j \in 1..Len(s) : u[i] = s[j]) \/ (\E j \in 1..Len(t) : u[i] = t[j])
  <2> SUFFICES ASSUME NEW i \in 1..Len(u)
               PROVE  (\E j \in 1..Len(s) : u[i] = s[j])
                        \/ (\E j \in 1..Len(t) : u[i] = t[j])
    OBVIOUS
  <2>1. CASE i <= Len(s)
    BY <1>1, <2>1
  <2>2. CASE ~(i <= Len(s))
    <3>1. i - Len(s) \in 1..Len(t) /\ u[i] = t[i - Len(s)]
      BY <1>1, <2>2
    <3> QED BY <3>1
  <2> QED BY <2>1, <2>2
<1>5. /\ Stamps(s) = {s[i].stamp : i \in 1..Len(s)} \ {0}
      /\ Stamps(t) = {t[i].stamp : i \in 1..Len(t)} \ {0}
      /\ Stamps(u) = {u[i].stamp : i \in 1..Len(u)} \ {0}
  BY <1>1, StampsOf
<1>6. Stamps(u) \subseteq Stamps(s) \cup Stamps(t)
  BY <1>4, <1>5
<1>7. Stamps(s) \cup Stamps(t) \subseteq Stamps(u)
  BY <1>2, <1>3, <1>5
<1> QED BY <1>6, <1>7 DEF u

LEMMA StampedOnceConcat ==
  ASSUME NEW S, NEW s \in Seq(S), NEW t \in Seq(S),
         StampedOnce(s), StampedOnce(t), Stamps(s) \cap Stamps(t) = {}
  PROVE  StampedOnce(s \o t)
<1> DEFINE u == s \o t
<1>1. /\ u \in Seq(S) /\ Len(u) = Len(s) + Len(t)
      /\ \A i \in 1..Len(u) : u[i] = IF i <= Len(s) THEN s[i] ELSE t[i - Len(s)]
      /\ Len(s) \in Nat /\ Len(t) \in Nat
      /\ DOMAIN u = 1..Len(u) /\ DOMAIN s = 1..Len(s) /\ DOMAIN t = 1..Len(t)
  BY ConcatProperties
<1> HIDE DEF u
<1> SUFFICES ASSUME NEW i \in 1..Len(u), NEW j \in 1..Len(u),
                    u[i].stamp = u[j].stamp, u[i].stamp # 0
             PROVE  i = j
  BY <1>1 DEF StampedOnce, u
<1>2. \A k \in 1..Len(u) :
        \/ k \in 1..Len(s) /\ u[k] = s[k]
        \/ k - Len(s) \in 1..Len(t) /\ u[k] = t[k - Len(s)]
  BY <1>1
<1>3. CASE i \in 1..Len(s) /\ u[i] = s[i] /\ j \in 1..Len(s) /\ u[j] = s[j]
  BY <1>1, <1>3 DEF StampedOnce
<1>4. CASE /\ i - Len(s) \in 1..Len(t) /\ u[i] = t[i - Len(s)]
           /\ j - Len(s) \in 1..Len(t) /\ u[j] = t[j - Len(s)]
  <2>1. i - Len(s) = j - Len(s)
    BY <1>1, <1>4 DEF StampedOnce
  <2> QED BY <1>1, <2>1
<1>5. ASSUME NEW k \in 1..Len(s), NEW l \in 1..Len(t)
      PROVE  s[k].stamp # t[l].stamp \/ s[k].stamp = 0
  BY <1>1 DEF Stamps
<1> QED BY <1>2, <1>3, <1>4, <1>5

LEMMA StampedStamps ==
  ASSUME sequence \in Nat, NEW batch \in Seq(Spans)
  PROVE  /\ Stamps(Stamped(batch)) = sequence + 1 .. sequence + Len(batch)
         /\ StampedOnce(Stamped(batch))
<1> DEFINE s == Stamped(batch)
<1>1. Len(batch) \in Nat /\ DOMAIN s = 1..Len(batch)
      /\ \A i \in 1..Len(batch) : s[i].stamp = sequence + i
  BY DEF Stamped
<1> HIDE DEF s
<1>2. \A n \in sequence + 1 .. sequence + Len(batch) :
        n - sequence \in DOMAIN s /\ s[n - sequence].stamp = n /\ n # 0
  BY <1>1
<1>3. Stamps(s) = sequence + 1 .. sequence + Len(batch)
  <2>1. Stamps(s) \subseteq sequence + 1 .. sequence + Len(batch)
    BY <1>1 DEF Stamps
  <2>2. sequence + 1 .. sequence + Len(batch) \subseteq Stamps(s)
    BY <1>2 DEF Stamps
  <2> QED BY <2>1, <2>2
<1>4. StampedOnce(s)
  BY <1>1 DEF StampedOnce
<1> QED BY <1>3, <1>4 DEF s

LEMMA UnstampedStamps ==
  ASSUME NEW batch \in Seq(Spans)
  PROVE  Stamps(Unstamped(batch)) = {} /\ StampedOnce(Unstamped(batch))
<1>1. \A i \in DOMAIN Unstamped(batch) : Unstamped(batch)[i].stamp = 0
  BY DEF Unstamped
<1> QED BY <1>1 DEF Stamps, StampedOnce

LEMMA DropStamps ==
  ASSUME NEW spans \in Seq(Span), NEW reason, NEW err
  PROVE  /\ Stamps(Drop(spans, reason, err)) = Stamps(spans)
         /\ StampedOnce(spans) => StampedOnce(Drop(spans, reason, err))
<1> DEFINE d == Drop(spans, reason, err)
<1>1. /\ DOMAIN d = DOMAIN spans
      /\ \A i \in DOMAIN spans : d[i].stamp = spans[i].stamp
  BY DEF Drop
<1> HIDE DEF d
<1>2. Stamps(d) = Stamps(spans)
  BY <1>1 DEF Stamps
<1>3. StampedOnce(spans) => StampedOnce(d)
  BY <1>1 DEF StampedOnce
<1> QED BY <1>2, <1>3 DEF d

LEMMA StampsSplit ==
  ASSUME NEW spans \in Seq(Span), NEW k \in 0..Len(spans), StampedOnce(spans)
  PROVE  LET p == SubSeq(spans, 1, k)
             q == SubSeq(spans, k + 1, Len(spans))
         IN  /\ Stamps(p) \cup Stamps(q) = Stamps(spans)
             /\ Stamps(p) \cap Stamps(q) = {}
             /\ StampedOnce(p) /\ StampedOnce(q)
<1> DEFINE n == Len(spans)
           p == SubSeq(spans, 1, k)
           q == SubSeq(spans, k + 1, n)
<1>1. n \in Nat /\ DOMAIN spans = 1..n /\ k \in Nat /\ k <= n
  OBVIOUS
<1>2. /\ p \in Seq(Span) /\ Len(p) = k /\ DOMAIN p = 1..k
      /\ \A i \in 1..k : p[i] = spans[i]
  <2>1. \A i \in 1..k : spans[i] \in Span
    BY <1>1
  <2> QED BY <1>1, <2>1, SubSeqProperties
<1>3. /\ q \in Seq(Span) /\ Len(q) = n - k /\ DOMAIN q = 1..(n - k)
      /\ \A i \in 1..(n - k) : q[i] = spans[k + i]
  <2>1. \A i \in k + 1 .. n : spans[i] \in Span
    BY <1>1
  <2>2. /\ q \in Seq(Span)
        /\ Len(q) = IF k + 1 <= n THEN n - (k + 1) + 1 ELSE 0
        /\ \A i \in 1 .. n - (k + 1) + 1 : q[i] = spans[(k + 1) + i - 1]
    BY <1>1, <2>1, SubSeqProperties
  <2> HIDE DEF n, p, q
  <2>3. Len(q) = n - k /\ n - (k + 1) + 1 = n - k
    BY <1>1, <2>2
  <2>4. \A i \in 1..(n - k) : (k + 1) + i - 1 = k + i
    BY <1>1
  <2>5. DOMAIN q = 1..(n - k)
    BY <2>2, <2>3, LenProperties
  <2> QED BY <2>2, <2>3, <2>4, <2>5
<1> HIDE DEF n, p, q
<1>4. Stamps(p) \subseteq Stamps(spans)
  BY <1>1, <1>2 DEF Stamps
<1>5. \A i \in 1..(n - k) : k + i \in 1..n
  BY <1>1
<1>6. Stamps(q) \subseteq Stamps(spans)
  BY <1>1, <1>3, <1>5 DEF Stamps
<1>7. Stamps(spans) \subseteq Stamps(p) \cup Stamps(q)
  <2> SUFFICES ASSUME NEW i \in 1..n, spans[i].stamp # 0
               PROVE  spans[i].stamp \in Stamps(p) \cup Stamps(q)
    BY <1>1 DEF Stamps
  <2>1. CASE i <= k
    BY <1>1, <1>2, <2>1 DEF Stamps
  <2>2. CASE ~(i <= k)
    <3>1. i - k \in 1..(n - k) /\ q[i - k] = spans[i]
      BY <1>1, <1>3, <2>2
    <3> QED BY <1>3, <3>1 DEF Stamps
  <2> QED BY <2>1, <2>2
<1>8. Stamps(p) \cap Stamps(q) = {}
  <2> SUFFICES ASSUME NEW i \in 1..k, NEW j \in 1..(n - k),
                      p[i].stamp = q[j].stamp, p[i].stamp # 0
               PROVE  FALSE
    BY <1>2, <1>3 DEF Stamps
  <2>1. /\ i \in 1..n /\ k + j \in 1..n /\ i # k + j
        /\ spans[i].stamp = spans[k + j].stamp /\ spans[i].stamp # 0
    BY <1>1, <1>2, <1>3
  <2> QED BY <1>1, <2>1 DEF StampedOnce
<1>9. StampedOnce(p)
  BY <1>1, <1>2 DEF StampedOnce
<1>10. StampedOnce(q)
  <2> SUFFICES ASSUME NEW i \in 1..(n - k), NEW j \in 1..(n - k),
                      q[i].stamp = q[j].stamp, q[i].stamp # 0
               PROVE  i = j
    BY <1>3 DEF StampedOnce
  <2>1. /\ k + i \in 1..n /\ k + j \in 1..n
        /\ spans[k + i].stamp = spans[k + j].stamp /\ spans[k + i].stamp # 0
    BY <1>3, <1>5
  <2>2. k + i = k + j
    BY <1>1, <2>1 DEF StampedOnce
  <2> QED BY <1>1, <2>2
<1> QED
  BY <1>4, <1>6, <1>7, <1>8, <1>9, <1>10 DEF p, q, n

(* Where Admit puts what it is given: the stamps of spans are split between
   recorded and dropped. *)
LEMMA AdmitStamps ==
  ASSUME TypeOK, NEW spans \in Seq(Span), NEW err \in Error,
         Admit(spans, err), StampedOnce(spans)
  PROVE  \E A, B :
           /\ A \cup B = Stamps(spans) /\ A \cap B = {}
           /\ Stamps(recorded') = Stamps(recorded) \cup A
           /\ Stamps(dropped') = Stamps(dropped) \cup B
           /\ StampedOnce(recorded) /\ Stamps(recorded) \cap A = {}
                => StampedOnce(recorded')
           /\ StampedOnce(dropped) /\ Stamps(dropped) \cap B = {}
                => StampedOnce(dropped')
<1> DEFINE n == Len(spans)
           fit == Room(n)
           p == SubSeq(spans, 1, fit)
           q == SubSeq(spans, fit + 1, n)
           d == Drop(q, "capacity", err)
<1>1. fit \in 0..n
  <2>1. config.capacity \in Nat /\ Len(recorded) \in Nat /\ n \in Nat
    BY DEF TypeOK, Config
  <2> QED BY <2>1 DEF Room, Smaller, Larger
<1> HIDE DEF fit
<1>2. /\ Stamps(p) \cup Stamps(q) = Stamps(spans)
      /\ Stamps(p) \cap Stamps(q) = {}
      /\ StampedOnce(p) /\ StampedOnce(q)
  BY <1>1, StampsSplit
<1>3. p \in Seq(Span) /\ q \in Seq(Span)
  BY <1>1, SubSeqProperties
<1>4. /\ d \in Seq(Observation)
      /\ Stamps(d) = Stamps(q) /\ StampedOnce(d)
  BY <1>2, <1>3, DropType, DropStamps DEF Reasons
<1>5. recorded' = recorded \o p /\ dropped' = dropped \o d
  BY DEF Admit, fit
<1>6. recorded \in Seq(Span) /\ dropped \in Seq(Observation)
  BY DEF TypeOK
<1> HIDE DEF p, q, d
<1>7. /\ Stamps(recorded') = Stamps(recorded) \cup Stamps(p)
      /\ StampedOnce(recorded) /\ Stamps(recorded) \cap Stamps(p) = {}
           => StampedOnce(recorded')
  BY <1>2, <1>3, <1>5, <1>6, StampsConcat, StampedOnceConcat
<1>8. /\ Stamps(dropped') = Stamps(dropped) \cup Stamps(q)
      /\ StampedOnce(dropped) /\ Stamps(dropped) \cap Stamps(q) = {}
           => StampedOnce(dropped')
  BY <1>4, <1>5, <1>6, StampsConcat, StampedOnceConcat
<1> QED BY <1>2, <1>7, <1>8

LEMMA EmptyStamps == Stamps(<<>>) = {} /\ StampedOnce(<<>>)
BY DEF Stamps, StampedOnce

(* A new batch gets stamps nobody has. *)
LEMMA NewStamps ==
  ASSUME TypeOK, Accounting, NEW batch \in Seq(Spans)
  PROVE  LET s == Stamped(batch)
         IN  /\ s \in Seq(Span) /\ Len(s) = Len(batch) /\ StampedOnce(s)
             /\ Stamps(s) \cap (Stamps(recorded) \cup Stamps(pending)
                                  \cup Stamps(dropped) \cup discarded) = {}
             /\ 1..sequence \cup Stamps(s) = 1..(sequence + Len(s))
<1>1. sequence \in Nat /\ Len(batch) \in Nat
  BY DEF TypeOK
<1>2. /\ Stamped(batch) \in Seq(Span) /\ Len(Stamped(batch)) = Len(batch)
      /\ Stamps(Stamped(batch)) = sequence + 1 .. sequence + Len(batch)
      /\ StampedOnce(Stamped(batch))
  BY <1>1, StampedType, StampedStamps
<1>3. (sequence + 1 .. sequence + Len(batch)) \cap (1..sequence) = {}
  BY <1>1
<1>4. 1..sequence \cup (sequence + 1 .. sequence + Len(batch))
        = 1..(sequence + Len(batch))
  BY <1>1
<1> QED BY <1>2, <1>3, <1>4 DEF Accounting, EveryStampAccounted

-----------------------------------------------------------------------------
(* Each way in which a step changes the store keeps the accounts. *)

LEMMA AcceptKeepsAccounting ==
  ASSUME TypeOK, Accounting, NEW batch \in Seq(Spans), NEW err \in Error,
         Admit(Stamped(batch), err), sequence' = sequence + Len(batch),
         UNCHANGED <<pending, discarded>>
  PROVE  Accounting'
<1> DEFINE s == Stamped(batch)
<1>1. /\ s \in Seq(Span) /\ Len(s) = Len(batch) /\ StampedOnce(s)
      /\ Stamps(s) \cap (Stamps(recorded) \cup Stamps(pending)
                           \cup Stamps(dropped) \cup discarded) = {}
      /\ 1..sequence \cup Stamps(s) = 1..(sequence + Len(s))
  BY NewStamps
<1> HIDE DEF s
<1>2. PICK A, B :
        /\ A \cup B = Stamps(s) /\ A \cap B = {}
        /\ Stamps(recorded') = Stamps(recorded) \cup A
        /\ Stamps(dropped') = Stamps(dropped) \cup B
        /\ StampedOnce(recorded) /\ Stamps(recorded) \cap A = {}
             => StampedOnce(recorded')
        /\ StampedOnce(dropped) /\ Stamps(dropped) \cap B = {}
             => StampedOnce(dropped')
  BY <1>1, AdmitStamps DEF s
<1>3. EveryStampAccounted'
  BY <1>1, <1>2 DEF Accounting, EveryStampAccounted
<1>4. NoStampTwice'
  BY <1>1, <1>2 DEF Accounting, NoStampTwice
<1> QED BY <1>3, <1>4 DEF Accounting

LEMMA RetainKeepsAccounting ==
  ASSUME TypeOK, Accounting, NEW batch \in Seq(Spans),
         pending' = pending \o Stamped(batch),
         sequence' = sequence + Len(Stamped(batch)),
         UNCHANGED <<recorded, dropped, discarded>>
  PROVE  Accounting'
<1> DEFINE s == Stamped(batch)
<1>1. /\ s \in Seq(Span) /\ Len(s) = Len(batch) /\ StampedOnce(s)
      /\ Stamps(s) \cap (Stamps(recorded) \cup Stamps(pending)
                           \cup Stamps(dropped) \cup discarded) = {}
      /\ 1..sequence \cup Stamps(s) = 1..(sequence + Len(s))
  BY NewStamps
<1>2. pending' = pending \o s /\ sequence' = sequence + Len(s)
  OBVIOUS
<1> HIDE DEF s
<1>3. Stamps(pending') = Stamps(pending) \cup Stamps(s)
  BY <1>1, <1>2, StampsConcat DEF TypeOK
<1>4. StampedOnce(pending')
  BY <1>1, <1>2, StampedOnceConcat DEF TypeOK, Accounting, NoStampTwice
<1>5. EveryStampAccounted'
  BY <1>1, <1>2, <1>3 DEF Accounting, EveryStampAccounted
<1>6. NoStampTwice'
  BY <1>1, <1>3, <1>4 DEF Accounting, NoStampTwice
<1> QED BY <1>5, <1>6 DEF Accounting

LEMMA RefuseKeepsAccounting ==
  ASSUME TypeOK, Accounting, NEW batch \in Seq(Spans),
         NEW reason \in Reasons, NEW err \in Error,
         dropped' = dropped \o Drop(Stamped(batch), reason, err),
         sequence' = sequence + Len(Stamped(batch)),
         UNCHANGED <<recorded, pending, discarded>>
  PROVE  Accounting'
<1> DEFINE s == Stamped(batch)
           d == Drop(s, reason, err)
<1>1. /\ s \in Seq(Span) /\ Len(s) = Len(batch) /\ StampedOnce(s)
      /\ Stamps(s) \cap (Stamps(recorded) \cup Stamps(pending)
                           \cup Stamps(dropped) \cup discarded) = {}
      /\ 1..sequence \cup Stamps(s) = 1..(sequence + Len(s))
  BY NewStamps
<1>2. dropped' = dropped \o d /\ sequence' = sequence + Len(s)
  OBVIOUS
<1> HIDE DEF s
<1>3. d \in Seq(Observation) /\ Stamps(d) = Stamps(s) /\ StampedOnce(d)
  BY <1>1, DropType, DropStamps
<1> HIDE DEF d
<1>4. Stamps(dropped') = Stamps(dropped) \cup Stamps(s)
  BY <1>2, <1>3, StampsConcat DEF TypeOK
<1>5. StampedOnce(dropped')
  <2>1. Stamps(dropped) \cap Stamps(d) = {}
    BY <1>1, <1>3
  <2> QED
    BY <1>2, <1>3, <2>1, StampedOnceConcat DEF TypeOK, Accounting, NoStampTwice
<1>6. EveryStampAccounted'
  BY <1>1, <1>2, <1>4 DEF Accounting, EveryStampAccounted
<1>7. NoStampTwice'
  BY <1>1, <1>4, <1>5 DEF Accounting, NoStampTwice
<1> QED BY <1>6, <1>7 DEF Accounting

LEMMA ClosedKeepsAccounting ==
  ASSUME TypeOK, Accounting, NEW batch \in Seq(Spans),
         NEW reason \in Reasons, NEW err \in Error,
         dropped' = dropped \o Drop(Unstamped(batch), reason, err),
         UNCHANGED <<recorded, pending, sequence, discarded>>
  PROVE  Accounting'
<1> DEFINE u == Unstamped(batch)
           d == Drop(u, reason, err)
<1>1. u \in Seq(Span) /\ Stamps(u) = {} /\ StampedOnce(u)
  BY UnstampedType, UnstampedStamps
<1>2. dropped' = dropped \o d
  OBVIOUS
<1> HIDE DEF u
<1>3. d \in Seq(Observation) /\ Stamps(d) = {} /\ StampedOnce(d)
  BY <1>1, DropType, DropStamps
<1> HIDE DEF d
<1>4. Stamps(dropped') = Stamps(dropped)
  <2>1. dropped \in Seq(Observation)
    BY DEF TypeOK
  <2>2. Stamps(dropped \o d) = Stamps(dropped) \cup Stamps(d)
    BY <1>3, <2>1, StampsConcat
  <2> QED BY <1>2, <1>3, <2>2
<1>5. StampedOnce(dropped')
  <2>1. dropped \in Seq(Observation) /\ StampedOnce(dropped)
    BY DEF TypeOK, Accounting, NoStampTwice
  <2>2. Stamps(dropped) \cap Stamps(d) = {}
    BY <1>3
  <2> QED BY <1>2, <1>3, <2>1, <2>2, StampedOnceConcat
<1> QED BY <1>4, <1>5 DEF Accounting, EveryStampAccounted, NoStampTwice

LEMMA GiveUpKeepsAccounting ==
  ASSUME TypeOK, Accounting, NEW reason \in Reasons, NEW err \in Error,
         dropped' = dropped \o Drop(pending, reason, err), pending' = <<>>,
         UNCHANGED <<recorded, sequence, discarded>>
  PROVE  Accounting'
<1> DEFINE d == Drop(pending, reason, err)
<1>1. pending \in Seq(Span) /\ StampedOnce(pending)
  BY DEF TypeOK, Accounting, NoStampTwice
<1>2. d \in Seq(Observation) /\ Stamps(d) = Stamps(pending) /\ StampedOnce(d)
  BY <1>1, DropType, DropStamps
<1>3. dropped' = dropped \o d
  OBVIOUS
<1> HIDE DEF d
<1>4. Stamps(dropped') = Stamps(dropped) \cup Stamps(pending)
  BY <1>2, <1>3, StampsConcat DEF TypeOK
<1>5. StampedOnce(dropped')
  <2>1. Stamps(dropped) \cap Stamps(d) = {}
    BY <1>2 DEF Accounting, NoStampTwice
  <2> QED
    BY <1>2, <1>3, <2>1, StampedOnceConcat DEF TypeOK, Accounting, NoStampTwice
<1>6. Stamps(pending') = {} /\ StampedOnce(pending')
  BY EmptyStamps
<1>7. EveryStampAccounted'
  BY <1>4, <1>6 DEF Accounting, EveryStampAccounted
<1>8. NoStampTwice'
  BY <1>4, <1>5, <1>6 DEF Accounting, NoStampTwice
<1> QED BY <1>7, <1>8 DEF Accounting

LEMMA RetryKeepsAccounting ==
  ASSUME TypeOK, Accounting, NEW err \in Error,
         Admit(pending, err), pending' = <<>>,
         UNCHANGED <<sequence, discarded>>
  PROVE  Accounting'
<1>1. pending \in Seq(Span) /\ StampedOnce(pending)
  BY DEF TypeOK, Accounting, NoStampTwice
<1>2. PICK A, B :
        /\ A \cup B = Stamps(pending) /\ A \cap B = {}
        /\ Stamps(recorded') = Stamps(recorded) \cup A
        /\ Stamps(dropped') = Stamps(dropped) \cup B
        /\ StampedOnce(recorded) /\ Stamps(recorded) \cap A = {}
             => StampedOnce(recorded')
        /\ StampedOnce(dropped) /\ Stamps(dropped) \cap B = {}
             => StampedOnce(dropped')
  BY <1>1, AdmitStamps
<1>3. Stamps(pending') = {} /\ StampedOnce(pending')
  BY EmptyStamps
<1>4. EveryStampAccounted'
  BY <1>2, <1>3 DEF Accounting, EveryStampAccounted
<1>5. NoStampTwice'
  BY <1>2, <1>3 DEF Accounting, NoStampTwice
<1> QED BY <1>4, <1>5 DEF Accounting

LEMMA DiscardKeepsAccounting ==
  ASSUME Accounting, discarded' = discarded \cup Stamps(pending),
         pending' = <<>>, UNCHANGED <<recorded, dropped, sequence>>
  PROVE  Accounting'
<1>1. Stamps(pending') = {} /\ StampedOnce(pending')
  BY EmptyStamps
<1>2. EveryStampAccounted'
  BY <1>1 DEF Accounting, EveryStampAccounted
<1>3. NoStampTwice'
  BY <1>1 DEF Accounting, NoStampTwice
<1> QED BY <1>2, <1>3 DEF Accounting

LEMMA SameStoreKeepsAccounting ==
  ASSUME Accounting, UNCHANGED store
  PROVE  Accounting'
<1>1. /\ recorded' = recorded /\ pending' = pending /\ dropped' = dropped
      /\ sequence' = sequence /\ discarded' = discarded
  BY DEF store
<1> QED BY <1>1 DEF Accounting, EveryStampAccounted, NoStampTwice

LEMMA EmptyStoreIsAccounted ==
  /\ {} \cup {} \cup {} \cup {} = 1..0
  /\ Stamps(<<>>) = {} /\ StampedOnce(<<>>)
BY EmptyStamps

-----------------------------------------------------------------------------
(* A call of Record carries exactly one span: its stamp is the next one. *)
RecordsOneSpan ==
  \A t \in Threads : call[t].op = "record" => Len(call[t].batch) = 1

LEMMA ReturnKeepsOneSpan ==
  ASSUME TypeOK, RecordsOneSpan, NEW t \in Threads, NEW errs, Return(t, errs)
  PROVE  RecordsOneSpan'
BY DEF TypeOK, RecordsOneSpan, Return, Idle

LEMMA BeginKeepsOneSpan ==
  ASSUME TypeOK, RecordsOneSpan, NEW t \in Threads, NEW op, NEW batch, NEW err,
         Begin(t, op, batch, err), op = "record" => Len(batch) = 1
  PROVE  RecordsOneSpan'
BY DEF TypeOK, RecordsOneSpan, Begin

LEMMA EnterAccounts ==
  ASSUME TypeOK, Accounting, RecordsOneSpan, NEW t \in Threads, Enter(t)
  PROVE  Accounting' /\ RecordsOneSpan'
<1>1. CASE BeginRecord(t)
  <2>1. PICK s \in Spans : Begin(t, "record", <<s>>, None)
    BY <1>1 DEF BeginRecord
  <2>2. Len(<<s>>) = 1
    OBVIOUS
  <2>3. RecordsOneSpan'
    BY <2>1, <2>2, BeginKeepsOneSpan
  <2> QED BY <1>1, <2>3, SameStoreKeepsAccounting DEF BeginRecord
<1>2. CASE BeginExport(t)
  BY <1>2, SameStoreKeepsAccounting, BeginKeepsOneSpan DEF BeginExport
<1>3. CASE BeginFlush(t)
  BY <1>3, SameStoreKeepsAccounting, BeginKeepsOneSpan DEF BeginFlush
<1>4. CASE BeginShutdown(t)
  BY <1>4, SameStoreKeepsAccounting, BeginKeepsOneSpan DEF BeginShutdown
<1>5. CASE ShutdownAgain(t)
  BY <1>5, SameStoreKeepsAccounting DEF ShutdownAgain, RecordsOneSpan
<1> QED BY <1>1, <1>2, <1>3, <1>4, <1>5 DEF Enter

LEMMA SubmitAccounts ==
  ASSUME TypeOK, Accounting, RecordsOneSpan, NEW t \in Threads, Submit(t)
  PROVE  Accounting' /\ RecordsOneSpan'
<1> DEFINE batch == call[t].batch
           injected == InjectedError("export", call[t].n)
<1>1. batch \in Seq(Spans) /\ call[t].n \in Nat
  BY CallFields
<1>2. Injected("export", call[t].n) => injected \in Error
  BY <1>1, InjectedErrorType DEF TypeOK, Injectable
<1>3. Len(Stamped(batch)) = Len(batch)
  BY <1>1, StampedType DEF TypeOK
<1>4. CASE RecordSpan(t)
  <2> DEFINE err == Err("record", "capacity", FALSE, TRUE)
  <2>1. err \in Error
    BY ErrType DEF Operations, Classes
  <2>2. Len(batch) = 1
    BY <1>4 DEF RecordSpan, Finishing, RecordsOneSpan
  <2>3. /\ Admit(Stamped(batch), err) /\ sequence' = sequence + 1
        /\ UNCHANGED <<pending, discarded>>
        /\ \E errs : Return(t, errs)
    BY <1>4 DEF RecordSpan
  <2> HIDE DEF batch, err
  <2>4. Accounting'
    BY <1>1, <2>1, <2>2, <2>3, AcceptKeepsAccounting
  <2> QED BY <2>3, <2>4, ReturnKeepsOneSpan
<1>5. CASE CancelSubmission(t)
  BY <1>5, SameStoreKeepsAccounting, ReturnKeepsOneSpan
     DEF CancelSubmission, Fail
<1>6. CASE RejectRedaction(t)
  BY <1>6, SameStoreKeepsAccounting, ReturnKeepsOneSpan
     DEF RejectRedaction, Fail
<1>7. CASE RetainExport(t)
  <2>1. /\ pending' = pending \o Stamped(batch)
        /\ sequence' = sequence + Len(Stamped(batch))
        /\ UNCHANGED <<recorded, dropped, discarded>>
        /\ \E errs : Return(t, errs)
    BY <1>7 DEF RetainExport, Fail
  <2> HIDE DEF batch
  <2>2. Accounting'
    BY <1>1, <2>1, RetainKeepsAccounting
  <2> QED BY <2>1, <2>2, ReturnKeepsOneSpan
<1>8. CASE RefuseExport(t)
  <2>1. /\ dropped' = dropped \o Drop(Stamped(batch), "injected_failure", injected)
        /\ sequence' = sequence + Len(Stamped(batch))
        /\ UNCHANGED <<recorded, pending, discarded>>
        /\ \E errs : Return(t, errs)
    BY <1>8 DEF RefuseExport
  <2>2. injected \in Error /\ "injected_failure" \in Reasons
    BY <1>2, <1>8 DEF RefuseExport, Reasons
  <2> HIDE DEF batch, injected
  <2>3. Accounting'
    BY <1>1, <2>1, <2>2, RefuseKeepsAccounting
  <2> QED BY <2>1, <2>3, ReturnKeepsOneSpan
<1>9. CASE ExportClosed(t)
  <2> DEFINE err == Err("export", "exporter_closed", FALSE, TRUE)
  <2>1. /\ dropped' = dropped \o Drop(Unstamped(batch), "shutdown", err)
        /\ UNCHANGED <<recorded, pending, sequence, discarded>>
        /\ \E errs : Return(t, errs)
    BY <1>9 DEF ExportClosed
  <2>2. err \in Error /\ "shutdown" \in Reasons
    BY ErrType DEF Operations, Classes, Reasons
  <2> HIDE DEF batch, err
  <2>3. Accounting'
    BY <1>1, <2>1, <2>2, ClosedKeepsAccounting
  <2> QED BY <2>1, <2>3, ReturnKeepsOneSpan
<1>10. CASE ExportBatch(t)
  <2> DEFINE err == Err("export", "capacity", FALSE, TRUE)
  <2>1. err \in Error
    BY ErrType DEF Operations, Classes
  <2>2. /\ Admit(Stamped(batch), err) /\ sequence' = sequence + Len(batch)
        /\ UNCHANGED <<pending, discarded>>
        /\ \E errs : Return(t, errs)
    BY <1>10 DEF ExportBatch
  <2> HIDE DEF batch, err
  <2>3. Accounting'
    BY <1>1, <2>1, <2>2, AcceptKeepsAccounting
  <2> QED BY <2>2, <2>3, ReturnKeepsOneSpan
<1> QED BY <1>4, <1>5, <1>6, <1>7, <1>8, <1>9, <1>10 DEF Submit

LEMMA FlushAccounts ==
  ASSUME TypeOK, Accounting, RecordsOneSpan, NEW t \in Threads, Flush(t)
  PROVE  Accounting' /\ RecordsOneSpan'
<1>1. CASE CancelFlush(t)
  BY <1>1, SameStoreKeepsAccounting, ReturnKeepsOneSpan DEF CancelFlush, Fail
<1>2. CASE FailFlush(t)
  BY <1>2, SameStoreKeepsAccounting, ReturnKeepsOneSpan DEF FailFlush, Fail
<1>3. CASE FlushAfterFailedShutdown(t)
  <2>1. UNCHANGED store /\ \E errs : Return(t, errs)
    BY <1>3 DEF FlushAfterFailedShutdown, state
  <2> QED BY <2>1, SameStoreKeepsAccounting, ReturnKeepsOneSpan
<1>4. CASE FlushNothing(t)
  BY <1>4, SameStoreKeepsAccounting, ReturnKeepsOneSpan DEF FlushNothing
<1>5. CASE RetryFails(t)
  <2> DEFINE n == counts["export"] + 1
             err == InjectedError("export", n)
  <2>1. n \in Nat
    BY DEF TypeOK, Operations
  <2>2. err \in Error /\ "injected_failure" \in Reasons
    BY <1>5, <2>1, InjectedErrorType DEF RetryFails, TypeOK, Injectable, Reasons
  <2>3. UNCHANGED <<recorded, sequence, discarded>> /\ \E errs : Return(t, errs)
    BY <1>5 DEF RetryFails
  <2>4. CASE Retained(err)
    <3>1. UNCHANGED store
      BY <1>5, <2>3, <2>4 DEF RetryFails, store
    <3> QED BY <2>3, <3>1, SameStoreKeepsAccounting, ReturnKeepsOneSpan
  <2>5. CASE ~Retained(err)
    <3>1. dropped' = dropped \o Drop(pending, "injected_failure", err)
          /\ pending' = <<>>
      BY <1>5, <2>5 DEF RetryFails
    <3> HIDE DEF err
    <3>2. Accounting'
      BY <2>2, <2>3, <3>1, GiveUpKeepsAccounting
    <3> QED BY <2>3, <3>2, ReturnKeepsOneSpan
  <2> QED BY <2>4, <2>5
<1>6. CASE RetryDelivers(t)
  <2> DEFINE err == Err("flush", "capacity", FALSE, TRUE)
  <2>1. err \in Error
    BY ErrType DEF Operations, Classes
  <2>2. /\ Admit(pending, err) /\ pending' = <<>>
        /\ UNCHANGED <<sequence, discarded>>
        /\ \E errs : Return(t, errs)
    BY <1>6 DEF RetryDelivers
  <2> HIDE DEF err
  <2>3. Accounting'
    BY <2>1, <2>2, RetryKeepsAccounting
  <2> QED BY <2>2, <2>3, ReturnKeepsOneSpan
<1> QED BY <1>1, <1>2, <1>3, <1>4, <1>5, <1>6 DEF Flush

LEMMA ShutdownAccounts ==
  ASSUME TypeOK, Accounting, RecordsOneSpan, NEW t \in Threads, Shutdown(t)
  PROVE  Accounting' /\ RecordsOneSpan'
<1>1. CASE CancelShutdown(t)
  BY <1>1, SameStoreKeepsAccounting, ReturnKeepsOneSpan DEF CancelShutdown, Fail
<1>2. CASE FailShutdown(t)
  BY <1>2, SameStoreKeepsAccounting, ReturnKeepsOneSpan DEF FailShutdown, Fail
<1>3. CASE CompleteShutdown(t)
  <2>1. Accounting'
    BY <1>3, DiscardKeepsAccounting DEF CompleteShutdown
  <2>2. \E errs : Return(t, errs)
    BY <1>3 DEF CompleteShutdown
  <2> QED BY <2>1, <2>2, ReturnKeepsOneSpan
<1> QED BY <1>1, <1>2, <1>3 DEF Shutdown

(* The inductive invariant.  Neither part of Accounting is inductive alone:
   that a new stamp is unused follows from all used ones being in 1..sequence,
   and a retry moves each pending stamp to exactly one place only because no
   other place holds it. *)
LEMMA AccountingIsInvariant == Spec => [](Accounting /\ RecordsOneSpan)
<1> DEFINE IInv == Accounting /\ RecordsOneSpan
<1>1. Init => IInv
  <2> SUFFICES ASSUME Init PROVE IInv
    OBVIOUS
  <2>1. RecordsOneSpan
    BY DEF Init, Idle, RecordsOneSpan
  <2>2. recorded = <<>> /\ pending = <<>> /\ dropped = <<>>
        /\ discarded = {} /\ sequence = 0
    BY DEF Init, Fresh
  <2>3. Accounting
    BY <2>2, EmptyStoreIsAccounted
       DEF Accounting, EveryStampAccounted, NoStampTwice
  <2> QED BY <2>1, <2>3
<1>2. TypeOK /\ IInv /\ [Next]_vars => IInv'
  <2> SUFFICES ASSUME TypeOK, Accounting, RecordsOneSpan, [Next]_vars
               PROVE  Accounting' /\ RecordsOneSpan'
    OBVIOUS
  <2>1. ASSUME NEW t \in Threads, Abandon(t)
        PROVE  Accounting' /\ RecordsOneSpan'
    <3>1. UNCHANGED store /\ \E errs : Return(t, errs)
      BY <2>1 DEF Abandon, state
    <3> QED BY <3>1, SameStoreKeepsAccounting, ReturnKeepsOneSpan
  <2>2. ASSUME Reset
        PROVE  Accounting' /\ RecordsOneSpan'
    <3>1. recorded' = <<>> /\ pending' = <<>> /\ dropped' = <<>>
          /\ discarded' = {} /\ sequence' = 0
      BY <2>2 DEF Reset
    <3>2. Accounting'
      BY <3>1, EmptyStoreIsAccounted
         DEF Accounting, EveryStampAccounted, NoStampTwice
    <3> QED BY <2>2, <3>2 DEF Reset, RecordsOneSpan
  <2>3. CASE UNCHANGED vars
    BY <2>3, SameStoreKeepsAccounting DEF vars, state, RecordsOneSpan
  <2> QED
    BY <2>1, <2>2, <2>3, EnterAccounts, SubmitAccounts, FlushAccounts,
       ShutdownAccounts DEF Next, Finish, Rest
<1> QED BY <1>1, <1>2, TypeCorrect, PTL DEF Spec

(* No observation is lost without a trace, whatever Export, Flush, Shutdown and
   Reset calls overlap. *)
THEOREM Accounted == Spec => []EveryStampAccounted
<1>1. Accounting => EveryStampAccounted
  BY DEF Accounting
<1> QED BY <1>1, AccountingIsInvariant, PTL

(* No observation is in two places, or twice in one, whatever calls overlap:
   a retry moves it out of pending, and no stamp is given out twice. *)
THEOREM StampsUnique == Spec => []NoStampTwice
<1>1. Accounting => NoStampTwice
  BY DEF Accounting
<1> QED BY <1>1, AccountingIsInvariant, PTL

-----------------------------------------------------------------------------
(* Counting: how much Admit and Remember add *)

(* Room never exceeds what is asked, nor what is left of a limit. *)
LEMMA RoomBounds ==
  ASSUME TypeOK, NEW n \in Nat
  PROVE  /\ Room(n) \in 0..n
         /\ config.capacity > 0 /\ Len(recorded) <= config.capacity
              => Len(recorded) + Room(n) <= config.capacity
<1>1. config.capacity \in Nat /\ Len(recorded) \in Nat
  BY DEF TypeOK, Config
<1> QED BY <1>1 DEF Room, Smaller, Larger

(* Admit records as many of spans as there is room for, drops the others and
   remembers one error for each of those. *)
LEMMA AdmitCounts ==
  ASSUME TypeOK, NEW spans \in Seq(Span), NEW err \in Error,
         Admit(spans, err)
  PROVE  LET n == Len(spans)
             over == n - Room(n)
         IN  /\ Len(recorded') = Len(recorded) + Room(n)
             /\ Len(dropped') = Len(dropped) + over
             /\ \E errs \in Seq(Error) : Remember(errs) /\ Len(errs) = over
<1> DEFINE n == Len(spans)
           fit == Room(n)
           kept == SubSeq(spans, 1, fit)
           rest == SubSeq(spans, fit + 1, n)
<1>1. n \in Nat /\ fit \in 0..n
  BY RoomBounds
<1> HIDE DEF fit
<1>2. kept \in Seq(Span) /\ Len(kept) = fit
  BY <1>1, SubSeqProperties
<1>3. rest \in Seq(Span) /\ Len(rest) = n - fit
  BY <1>1, SubSeqProperties
<1>4. /\ recorded' = recorded \o kept
      /\ dropped' = dropped \o Drop(rest, "capacity", err)
      /\ Remember(Repeat(err, Len(rest)))
  BY DEF Admit, fit
<1> HIDE DEF n, kept, rest
<1>5. recorded \in Seq(Span) /\ dropped \in Seq(Observation)
  BY DEF TypeOK
<1>6. Len(recorded') = Len(recorded) + fit
  BY <1>2, <1>4, <1>5, ConcatProperties
<1>7. Len(dropped') = Len(dropped) + (n - fit)
  <2>1. /\ Drop(rest, "capacity", err) \in Seq(Observation)
        /\ Len(Drop(rest, "capacity", err)) = n - fit
    BY <1>3, DropType DEF Reasons
  <2> QED BY <1>4, <1>5, <2>1, ConcatProperties
<1>8. /\ Repeat(err, Len(rest)) \in Seq(Error)
      /\ Len(Repeat(err, Len(rest))) = n - fit
  BY <1>1, <1>3, RepeatType
<1> QED BY <1>4, <1>6, <1>7, <1>8 DEF n, fit

(* What a history of the given size evicts from m entries. *)
LEMMA EvictsTheExcess ==
  ASSUME NEW m \in Nat, NEW size \in Nat
  PROVE  /\ Larger(0, m - size) \in Nat
         /\ Larger(0, m - size) <= m
         /\ m - Larger(0, m - size) = Smaller(m, size)
BY DEF Larger, Smaller

(* The conjuncts of ErrorHistoryExact that are about errors alone. *)
ExactHistory ==
  /\ Len(errors) = Smaller(reported, ErrorHistorySize)
  /\ droppedErrHist = reported - Len(errors)
  /\ lastError = IF errors = <<>> THEN None ELSE errors[Len(errors)]

LEMMA EmptyHistoryIsExact ==
  /\ Len(<<>>) = Smaller(0, ErrorHistorySize)
  /\ 0 = 0 - Len(<<>>)
  /\ Len(<<>>) <= 0
<1>1. Len(<<>>) = 0
  OBVIOUS
<1>2. Smaller(0, ErrorHistorySize) = 0
  BY ConstantsAssumption DEF Smaller
<1>3. 0 = 0 - 0 /\ 0 <= 0
  OBVIOUS
<1> QED BY <1>1, <1>2, <1>3, Zenon

LEMMA RememberExact ==
  ASSUME HistoryType, ExactHistory, NEW errs \in Seq(Error), Remember(errs)
  PROVE  ExactHistory' /\ reported' = reported + Len(errs)
<1> DEFINE all == errors \o errs
           evicted == Larger(0, Len(all) - ErrorHistorySize)
<1>1. /\ all \in Seq(Error) /\ Len(all) = Len(errors) + Len(errs)
      /\ Len(errors) \in Nat /\ Len(errs) \in Nat /\ Len(all) \in Nat
      /\ reported \in Nat /\ droppedErrHist \in Nat
      /\ ErrorHistorySize \in Nat \ {0}
  BY ConstantsAssumption DEF HistoryType
<1>2. evicted \in Nat /\ evicted <= Len(all)
      /\ Len(all) - evicted = Smaller(Len(all), ErrorHistorySize)
  BY <1>1, EvictsTheExcess
<1>3. errs # <<>> => Len(errs) > 0 /\ all[Len(all)] = errs[Len(errs)]
  <2>1. errs # <<>> => Len(errs) > 0
    BY <1>1, EmptySeq
  <2> QED BY <1>1, <2>1
<1>4. errs = <<>> => all = errors
  BY <1>1 DEF HistoryType
<1> HIDE DEF all, evicted
<1>5. /\ errors' = SubSeq(all, evicted + 1, Len(all))
      /\ droppedErrHist' = droppedErrHist + evicted
      /\ reported' = reported + Len(errs)
      /\ lastError' = IF errs = <<>> THEN lastError ELSE errs[Len(errs)]
  BY DEF Remember, all, evicted
<1>6. /\ Len(errors') = Len(all) - evicted
      /\ \A i \in 1..(Len(all) - evicted) : errors'[i] = all[evicted + i]
  <2>1. \A i \in evicted + 1 .. Len(all) : all[i] \in Error
    BY <1>1, <1>2
  <2> QED BY <1>1, <1>2, <1>5, <2>1, SubSeqProperties
<1>7. Len(errors') = Smaller(reported', ErrorHistorySize)
  BY <1>1, <1>2, <1>5, <1>6 DEF ExactHistory, Smaller
<1>8. droppedErrHist' = reported' - Len(errors')
  <2>1. droppedErrHist = reported - Len(errors)
    BY DEF ExactHistory
  <2>2. Len(errors') = Len(all) - evicted
    BY <1>6
  <2>3. /\ droppedErrHist' = droppedErrHist + evicted
        /\ reported' = reported + Len(errs)
    BY <1>5
  <2>4. Len(all) = Len(errors) + Len(errs)
    BY <1>1
  <2> QED BY <1>1, <1>2, <2>1, <2>2, <2>3, <2>4
<1>9. lastError' = IF errors' = <<>> THEN None ELSE errors'[Len(errors')]
  <2>1. errors' \in Seq(Error)
    BY RememberType DEF HistoryType
  <2>2. CASE errs = <<>>
    <3>1. evicted = 0
      BY <1>1, <1>4, <2>2 DEF ExactHistory, Smaller, Larger, evicted
    <3>2. errors' = errors
      BY <1>1, <1>4, <1>5, <2>2, <3>1 DEF HistoryType
    <3> QED BY <1>5, <2>2, <3>2 DEF ExactHistory
  <2>3. CASE errs # <<>>
    <3>1. Len(errors') > 0 /\ errors' # <<>>
      BY <1>1, <1>2, <1>3, <1>6, <2>1, <2>3 DEF Smaller
    <3>2. errors'[Len(errors')] = all[Len(all)]
      BY <1>1, <1>2, <1>6, <3>1
    <3> QED BY <1>3, <1>5, <2>3, <3>1, <3>2
  <2> QED BY <2>2, <2>3
<1> QED BY <1>5, <1>7, <1>8, <1>9 DEF ExactHistory

-----------------------------------------------------------------------------
(* What one step of a call does to the error history and to recorded *)

(* Errors are remembered, at least one for each newly dropped observation. *)
Reports ==
  \E errs \in Seq(Error) :
    Remember(errs) /\ Len(dropped') <= Len(dropped) + Len(errs)

HistoryStep ==
  \/ UNCHANGED <<errors, droppedErrHist, lastError, reported, dropped>>
  \/ Reports

RecordedStep ==
  \/ recorded' = recorded
  \/ \E spans \in Seq(Span), err \in Error : Admit(spans, err)

LEMMA AdmitReports ==
  ASSUME TypeOK, NEW spans \in Seq(Span), NEW err \in Error,
         Admit(spans, err)
  PROVE  Reports
<1> DEFINE over == Len(spans) - Room(Len(spans))
<1>1. /\ Len(dropped') = Len(dropped) + over
      /\ \E errs \in Seq(Error) : Remember(errs) /\ Len(errs) = over
  BY AdmitCounts
<1>2. Len(dropped) \in Nat /\ over \in Nat
  <2>1. Len(spans) \in Nat /\ Len(dropped) \in Nat
    BY DEF TypeOK
  <2>2. Room(Len(spans)) \in 0..Len(spans)
    BY <2>1, RoomBounds
  <2> QED BY <2>1, <2>2
<1> HIDE DEF over
<1>3. Len(dropped') <= Len(dropped) + over
  BY <1>1, <1>2
<1> QED BY <1>1, <1>3 DEF Reports

LEMMA FailReports ==
  ASSUME TypeOK, NEW t \in Threads, NEW err \in Error, Fail(t, err),
         dropped' = dropped
  PROVE  Reports
<1>1. <<err>> \in Seq(Error) /\ Len(<<err>>) = 1
  OBVIOUS
<1>2. Len(dropped) \in Nat
  BY DEF TypeOK
<1>3. Len(dropped') <= Len(dropped) + Len(<<err>>)
  BY <1>1, <1>2
<1>4. Remember(<<err>>)
  BY DEF Fail
<1> QED BY <1>1, <1>3, <1>4, Zenon DEF Reports

(* more is the error remembered for the call itself, if it is. *)
LEMMA DropReports ==
  ASSUME TypeOK, NEW spans \in Seq(Span), NEW reason \in Reasons,
         NEW err \in Error, NEW more \in Nat,
         dropped' = dropped \o Drop(spans, reason, err),
         Remember(Repeat(err, Len(spans) + more))
  PROVE  Reports
<1> DEFINE d == Drop(spans, reason, err)
           n == Len(spans) + more
<1>1. d \in Seq(Observation) /\ Len(d) = Len(spans) /\ Len(spans) \in Nat
  BY DropType
<1>2. n \in Nat
  BY <1>1
<1>3. dropped \in Seq(Observation) /\ dropped' = dropped \o d
  BY DEF TypeOK
<1> HIDE DEF d
<1>4. Len(dropped') = Len(dropped) + Len(spans) /\ Len(dropped) \in Nat
  BY <1>1, <1>3, ConcatProperties
<1>5. Repeat(err, n) \in Seq(Error) /\ Len(Repeat(err, n)) = n
  BY <1>2, RepeatType
<1>6. Len(dropped') <= Len(dropped) + Len(Repeat(err, n))
  BY <1>1, <1>4, <1>5
<1> QED BY <1>5, <1>6 DEF Reports

LEMMA SubmitStep ==
  ASSUME TypeOK, NEW t \in Threads, Submit(t)
  PROVE  HistoryStep /\ RecordedStep
<1> USE DEF store
<1> DEFINE batch == call[t].batch
           injected == InjectedError("export", call[t].n)
<1>1. /\ batch \in Seq(Spans) /\ call[t].n \in Nat
      /\ call[t].op \in Operations \cup {"idle"}
  BY CallFields
<1>2. Stamped(batch) \in Seq(Span) /\ Unstamped(batch) \in Seq(Span)
  BY <1>1, StampedType, UnstampedType DEF TypeOK
<1>3. Injected("export", call[t].n) => injected \in Error
  BY <1>1, InjectedErrorType DEF TypeOK, Injectable
<1> HIDE DEF batch, injected
<1>4. CASE RecordSpan(t)
  <2> DEFINE err == Err("record", "capacity", FALSE, TRUE)
  <2>1. err \in Error
    BY ErrType DEF Operations, Classes
  <2>2. Admit(Stamped(batch), err)
    BY <1>4 DEF RecordSpan, batch
  <2> HIDE DEF err
  <2> QED
    BY <1>2, <2>1, <2>2, AdmitReports DEF HistoryStep, RecordedStep
<1>5. CASE CancelSubmission(t)
  <2> DEFINE err == Err(call[t].op, "canceled", TRUE, FALSE)
  <2>1. err \in Error
    BY <1>1, <1>5, ErrType DEF CancelSubmission, Finishing, Operations, Classes
  <2>2. Fail(t, err) /\ recorded' = recorded /\ dropped' = dropped
    BY <1>5 DEF CancelSubmission
  <2> HIDE DEF err
  <2> QED BY <2>1, <2>2, FailReports DEF HistoryStep, RecordedStep
<1>6. CASE RejectRedaction(t)
  <2> DEFINE err == Err("redact", "redaction", FALSE, TRUE)
  <2>1. err \in Error
    BY ErrType DEF Classes
  <2>2. Fail(t, err) /\ recorded' = recorded /\ dropped' = dropped
    BY <1>6 DEF RejectRedaction
  <2> HIDE DEF err
  <2> QED BY <2>1, <2>2, FailReports DEF HistoryStep, RecordedStep
<1>7. CASE RetainExport(t)
  <2>1. injected \in Error
    BY <1>3, <1>7 DEF RetainExport
  <2>2. Fail(t, injected) /\ recorded' = recorded /\ dropped' = dropped
    BY <1>7 DEF RetainExport, injected
  <2> QED BY <2>1, <2>2, FailReports DEF HistoryStep, RecordedStep
<1>8. CASE RefuseExport(t)
  <2>1. injected \in Error /\ "injected_failure" \in Reasons
    BY <1>3, <1>8 DEF RefuseExport, Reasons
  <2>2. /\ dropped' = dropped \o Drop(Stamped(batch), "injected_failure", injected)
        /\ Remember(Repeat(injected, Len(Stamped(batch)) + 1))
        /\ recorded' = recorded
    BY <1>8 DEF RefuseExport, batch, injected
  <2>3. Reports
    BY <1>2, <2>1, <2>2, DropReports
  <2> QED BY <2>2, <2>3 DEF HistoryStep, RecordedStep
<1>9. CASE ExportClosed(t)
  <2> DEFINE err == Err("export", "exporter_closed", FALSE, TRUE)
             spans == Unstamped(batch)
  <2>1. err \in Error /\ "shutdown" \in Reasons
    BY ErrType DEF Operations, Classes, Reasons
  <2>2. /\ dropped' = dropped \o Drop(spans, "shutdown", err)
        /\ Remember(Repeat(err, Len(spans)))
        /\ recorded' = recorded
    BY <1>9 DEF ExportClosed, batch
  <2> HIDE DEF err
  <2>3. Len(spans) + 0 = Len(spans)
    BY <1>2
  <2> HIDE DEF spans
  <2>4. Reports
    BY <1>2, <2>1, <2>2, <2>3, DropReports DEF spans
  <2> QED BY <2>2, <2>4 DEF HistoryStep, RecordedStep
<1>10. CASE ExportBatch(t)
  <2> DEFINE err == Err("export", "capacity", FALSE, TRUE)
  <2>1. err \in Error
    BY ErrType DEF Operations, Classes
  <2>2. Admit(Stamped(batch), err)
    BY <1>10 DEF ExportBatch, batch
  <2> HIDE DEF err
  <2> QED
    BY <1>2, <2>1, <2>2, AdmitReports DEF HistoryStep, RecordedStep
<1> QED
  BY <1>4, <1>5, <1>6, <1>7, <1>8, <1>9, <1>10 DEF Submit

LEMMA FlushStep ==
  ASSUME TypeOK, NEW t \in Threads, Flush(t)
  PROVE  HistoryStep /\ RecordedStep
<1> USE DEF store
<1>1. call[t].n \in Nat
  BY CallFields
<1>2. CASE CancelFlush(t)
  <2> DEFINE err == Err("flush", "canceled", TRUE, FALSE)
  <2>1. err \in Error
    BY ErrType DEF Operations, Classes
  <2>2. Fail(t, err) /\ recorded' = recorded /\ dropped' = dropped
    BY <1>2 DEF CancelFlush
  <2> HIDE DEF err
  <2> QED BY <2>1, <2>2, FailReports DEF HistoryStep, RecordedStep
<1>3. CASE FailFlush(t)
  <2> DEFINE err == InjectedError("flush", call[t].n)
  <2>1. err \in Error
    BY <1>1, <1>3, InjectedErrorType DEF FailFlush, TypeOK, Injectable
  <2>2. Fail(t, err) /\ recorded' = recorded /\ dropped' = dropped
    BY <1>3 DEF FailFlush
  <2> HIDE DEF err
  <2> QED BY <2>1, <2>2, FailReports DEF HistoryStep, RecordedStep
<1>4. CASE FlushAfterFailedShutdown(t)
  BY <1>4
     DEF FlushAfterFailedShutdown, state, history, HistoryStep, RecordedStep
<1>5. CASE FlushNothing(t)
  BY <1>5 DEF FlushNothing, history, HistoryStep, RecordedStep
<1>6. CASE RetryFails(t)
  <2> DEFINE n == counts["export"] + 1
             err == InjectedError("export", n)
  <2>1. n \in Nat
    BY DEF TypeOK, Operations
  <2>2. err \in Error /\ "injected_failure" \in Reasons
    BY <1>6, <2>1, InjectedErrorType DEF RetryFails, TypeOK, Injectable, Reasons
  <2>3. recorded' = recorded
    BY <1>6 DEF RetryFails
  <2>4. CASE Retained(err)
    <3>1. Remember(<<err>>) /\ dropped' = dropped
      BY <1>6, <2>4 DEF RetryFails
    <3>2. <<err>> \in Seq(Error) /\ Len(<<err>>) = 1
      BY <2>2
    <3>3. Len(dropped') <= Len(dropped) + Len(<<err>>)
      <4>1. Len(dropped) \in Nat
        BY DEF TypeOK
      <4> QED BY <3>1, <3>2, <4>1
    <3> QED BY <2>3, <3>1, <3>2, <3>3, Zenon DEF HistoryStep, RecordedStep, Reports
  <2>5. CASE ~Retained(err)
    <3>1. /\ dropped' = dropped \o Drop(pending, "injected_failure", err)
          /\ Remember(Repeat(err, Len(pending) + 1))
      BY <1>6, <2>5 DEF RetryFails
    <3>2. pending \in Seq(Span)
      BY DEF TypeOK
    <3> HIDE DEF err
    <3>3. Reports
      BY <2>2, <3>1, <3>2, DropReports
    <3> QED BY <2>3, <3>3 DEF HistoryStep, RecordedStep
  <2> QED BY <2>4, <2>5
<1>7. CASE RetryDelivers(t)
  <2> DEFINE err == Err("flush", "capacity", FALSE, TRUE)
  <2>1. err \in Error
    BY ErrType DEF Operations, Classes
  <2>2. Admit(pending, err) /\ pending \in Seq(Span)
    BY <1>7 DEF RetryDelivers, TypeOK
  <2> HIDE DEF err
  <2> QED BY <2>1, <2>2, AdmitReports DEF HistoryStep, RecordedStep
<1> QED BY <1>2, <1>3, <1>4, <1>5, <1>6, <1>7 DEF Flush

LEMMA ShutdownStep ==
  ASSUME TypeOK, NEW t \in Threads, Shutdown(t)
  PROVE  HistoryStep /\ RecordedStep
<1> USE DEF store
<1>1. CASE CancelShutdown(t)
  <2> DEFINE err == Err("shutdown", "canceled", TRUE, FALSE)
  <2>1. err \in Error
    BY ErrType DEF Operations, Classes
  <2>2. Fail(t, err) /\ recorded' = recorded /\ dropped' = dropped
    BY <1>1 DEF CancelShutdown
  <2> HIDE DEF err
  <2> QED BY <2>1, <2>2, FailReports DEF HistoryStep, RecordedStep
<1>2. CASE FailShutdown(t)
  <2> DEFINE err == InjectedError("shutdown", call[t].n)
  <2>1. err \in Error
    BY <1>2, CallFields, InjectedErrorType DEF FailShutdown, TypeOK, Injectable
  <2>2. Fail(t, err) /\ recorded' = recorded /\ dropped' = dropped
    BY <1>2 DEF FailShutdown
  <2> HIDE DEF err
  <2> QED BY <2>1, <2>2, FailReports DEF HistoryStep, RecordedStep
<1>3. CASE CompleteShutdown(t)
  BY <1>3 DEF CompleteShutdown, history, HistoryStep, RecordedStep
<1> QED BY <1>1, <1>2, <1>3 DEF Shutdown

(* Every step but Reset either leaves the history and the dropped observations
   alone or remembers enough errors, and changes recorded only by Admit. *)
LEMMA StepShape ==
  ASSUME TypeOK, NEW t \in Threads, Enter(t) \/ Finish(t)
  PROVE  HistoryStep /\ RecordedStep
<1>1. CASE Enter(t)
  BY <1>1 DEF Enter, BeginRecord, BeginExport, BeginFlush, BeginShutdown,
              ShutdownAgain, store, history, HistoryStep, RecordedStep
<1>2. CASE Abandon(t)
  BY <1>2 DEF Abandon, state, store, history, HistoryStep, RecordedStep
<1> QED
  BY <1>1, <1>2, SubmitStep, FlushStep, ShutdownStep DEF Finish

-----------------------------------------------------------------------------
(* The theorems about the error history and the capacity *)

(* The bounded error history loses nothing silently: it holds the newest
   errors, droppedErrHist counts those it evicted, lastError is the newest,
   and each dropped observation was an error of its own. *)
THEOREM HistoryIsExact == Spec => []ErrorHistoryExact
<1>1. Init => ErrorHistoryExact
  <2> SUFFICES ASSUME Init PROVE ErrorHistoryExact
    OBVIOUS
  <2>1. /\ errors = <<>> /\ dropped = <<>> /\ reported = 0
        /\ droppedErrHist = 0 /\ lastError = None
    BY DEF Init, Fresh
  <2> QED BY <2>1, EmptyHistoryIsExact, Zenon DEF ErrorHistoryExact
<1>2. TypeOK /\ TypeOK' /\ ErrorHistoryExact /\ [Next]_vars
        => ErrorHistoryExact'
  <2> SUFFICES ASSUME TypeOK, TypeOK', ErrorHistoryExact, [Next]_vars
               PROVE  ErrorHistoryExact'
    OBVIOUS
  <2>1. HistoryType /\ ExactHistory
    BY DEF TypeOK, HistoryType, ErrorHistoryExact, ExactHistory
  <2>2. ASSUME NEW t \in Threads, Enter(t) \/ Finish(t)
        PROVE  ErrorHistoryExact'
    <3>1. HistoryStep
      BY <2>2, StepShape
    <3>2. CASE UNCHANGED <<errors, droppedErrHist, lastError, reported, dropped>>
      BY <3>2 DEF ErrorHistoryExact
    <3>3. CASE Reports
      <4>1. PICK errs \in Seq(Error) :
              Remember(errs) /\ Len(dropped') <= Len(dropped) + Len(errs)
        BY <3>3 DEF Reports
      <4>2. ExactHistory' /\ reported' = reported + Len(errs)
        BY <2>1, <4>1, RememberExact
      <4>3. Len(dropped') <= reported'
        <5>1. /\ Len(dropped) \in Nat /\ Len(errs) \in Nat /\ reported \in Nat
              /\ Len(dropped) <= reported
          <6>1. dropped \in Seq(Observation) /\ reported \in Nat
            BY Zenon DEF TypeOK
          <6>2. Len(dropped) <= reported
            BY Zenon DEF ErrorHistoryExact
          <6> QED BY <6>1, <6>2, <4>1, LenProperties, Zenon
        <5>2. Len(dropped') \in Nat
          <6>1. dropped' \in Seq(Observation)
            BY Zenon DEF TypeOK
          <6> QED BY <6>1, LenProperties, Zenon
        <5> QED BY <4>1, <4>2, <5>1, <5>2
      <4> QED BY <4>2, <4>3 DEF ExactHistory, ErrorHistoryExact
    <3> QED BY <3>1, <3>2, <3>3 DEF HistoryStep
  <2>3. CASE Reset
    <3>1. /\ errors' = <<>> /\ dropped' = <<>> /\ reported' = 0
          /\ droppedErrHist' = 0 /\ lastError' = None
      BY <2>3 DEF Reset
    <3> QED BY <3>1, EmptyHistoryIsExact, Zenon DEF ErrorHistoryExact
  <2>4. CASE UNCHANGED vars
    BY <2>4 DEF vars, state, store, history, ErrorHistoryExact
  <2> QED BY <2>2, <2>3, <2>4 DEF Next, Rest
<1> QED BY <1>1, <1>2, TypeCorrect, PTL DEF Spec

(* Retries and overlapping exports obey the capacity too. *)
THEOREM CapacityIsRespected == Spec => []CapacityRespected
<1>1. Init => CapacityRespected
  <2> SUFFICES ASSUME Init PROVE CapacityRespected
    OBVIOUS
  <2>1. recorded = <<>> /\ config.capacity \in Nat /\ Len(<<>>) = 0
    BY ConstantsAssumption DEF Init, Fresh, Config
  <2> QED BY <2>1 DEF CapacityRespected
<1>2. TypeOK /\ CapacityRespected /\ [Next]_vars => CapacityRespected'
  <2> SUFFICES ASSUME TypeOK, CapacityRespected, [Next]_vars
               PROVE  CapacityRespected'
    OBVIOUS
  <2>1. config' = config
    BY DEF Next, vars
  <2>2. CASE recorded' = recorded
    BY <2>1, <2>2 DEF CapacityRespected
  <2>3. ASSUME NEW spans \in Seq(Span), NEW err \in Error, Admit(spans, err)
        PROVE  CapacityRespected'
    <3>1. Len(recorded') = Len(recorded) + Room(Len(spans))
      BY <2>3, AdmitCounts
    <3>2. config.capacity > 0 /\ Len(recorded) <= config.capacity
            => Len(recorded) + Room(Len(spans)) <= config.capacity
      BY RoomBounds
    <3> QED BY <2>1, <3>1, <3>2 DEF CapacityRespected
  <2>4. ASSUME NEW t \in Threads, Enter(t) \/ Finish(t)
        PROVE  CapacityRespected'
    BY <2>2, <2>3, <2>4, StepShape DEF RecordedStep
  <2>5. CASE Reset
    <3>1. recorded' = <<>> /\ config'.capacity \in Nat /\ Len(<<>>) = 0
      BY <2>1, <2>5 DEF Reset, TypeOK, Config
    <3> QED BY <3>1 DEF CapacityRespected
  <2>6. CASE UNCHANGED vars
    BY <2>2, <2>6 DEF vars, state, store
  <2> QED BY <2>4, <2>5, <2>6 DEF Next, Rest
<1> QED BY <1>1, <1>2, TypeCorrect, PTL DEF Spec

-----------------------------------------------------------------------------
(* The dirty flag *)

(* Dirty means unfinished work: while spans wait for a retry the state is
   dirty, and a failed Flush is forgotten only by a later one or by a clean
   Shutdown.  The invariant is inductive: every step that makes pending grow
   or sets lastFlushError sets dirty, and every step that clears dirty leaves
   nothing pending. *)
THEOREM UnfinishedStaysDirty == Spec => []UnfinishedIsDirty
<1>1. Init => UnfinishedIsDirty
  BY DEF Init, Fresh, UnfinishedIsDirty
<1>2. TypeOK /\ UnfinishedIsDirty /\ [Next]_vars => UnfinishedIsDirty'
  <2> SUFFICES ASSUME TypeOK, UnfinishedIsDirty, [Next]_vars
               PROVE  UnfinishedIsDirty'
    OBVIOUS
  <2> USE DEF store, history, status, UnfinishedIsDirty
  <2>1. ASSUME NEW t \in Threads, Enter(t)
        PROVE  UnfinishedIsDirty'
    <3>1. UNCHANGED <<pending, dirty, lastFlushError>>
          /\ (acknowledged => acknowledged')
      BY <2>1 DEF Enter, BeginRecord, BeginExport, BeginFlush, BeginShutdown,
                  ShutdownAgain
    <3> QED BY <3>1
  <2>2. ASSUME NEW t \in Threads, Submit(t)
        PROVE  UnfinishedIsDirty'
    <3>1. UNCHANGED <<lastFlushError, acknowledged>> /\ (dirty => dirty')
      BY <2>2, Zenon
         DEF Submit, RecordSpan, CancelSubmission, RejectRedaction,
             RetainExport, RefuseExport, ExportClosed, ExportBatch, Fail
    <3>2. pending' = pending \/ dirty'
      BY <2>2, Zenon
         DEF Submit, RecordSpan, CancelSubmission, RejectRedaction,
             RetainExport, RefuseExport, ExportClosed, ExportBatch, Fail
    <3> QED BY <3>1, <3>2
  <2>3. ASSUME NEW t \in Threads, Flush(t)
        PROVE  UnfinishedIsDirty'
    <3>1. CASE CancelFlush(t) \/ FailFlush(t) \/ RetryFails(t)
      <4>1. dirty' = TRUE
        BY <3>1 DEF CancelFlush, FailFlush, RetryFails, Fail
      <4> QED BY <4>1
    <3>2. CASE FlushAfterFailedShutdown(t)
      BY <3>2 DEF FlushAfterFailedShutdown, state
    <3>3. CASE FlushNothing(t)
      BY <3>3 DEF FlushNothing
    <3>4. CASE RetryDelivers(t)
      <4> DEFINE bad == Overflows(Len(pending))
      <4>1. /\ pending' = <<>> /\ dirty' = bad
            /\ lastFlushError' # None => bad
        BY <3>4, Zenon DEF RetryDelivers
      <4> QED BY <4>1, Zenon
    <3> QED BY <2>3, <3>1, <3>2, <3>3, <3>4 DEF Flush
  <2>4. ASSUME NEW t \in Threads, Shutdown(t)
        PROVE  UnfinishedIsDirty'
    <3>1. CASE CancelShutdown(t) \/ FailShutdown(t)
      <4>1. dirty' = TRUE
        BY <3>1 DEF CancelShutdown, FailShutdown, Fail
      <4> QED BY <4>1
    <3>2. CASE CompleteShutdown(t)
      BY <3>2 DEF CompleteShutdown
    <3> QED BY <2>4, <3>1, <3>2 DEF Shutdown
  <2>5. ASSUME NEW t \in Threads, Abandon(t)
        PROVE  UnfinishedIsDirty'
    BY <2>5 DEF Abandon, state
  <2>6. CASE Reset
    BY <2>6 DEF Reset
  <2>7. CASE UNCHANGED vars
    BY <2>7 DEF vars, state
  <2> QED BY <2>1, <2>2, <2>3, <2>4, <2>5, <2>6, <2>7 DEF Next, Finish, Rest
<1> QED BY <1>1, <1>2, TypeCorrect, PTL DEF Spec

-----------------------------------------------------------------------------
(* The shutdown error *)

(* No call carries an epoch from the future, so Reset overtakes every call. *)
CallsNotAhead == \A t \in Threads : call[t].epoch <= epoch

(* A Shutdown under way in the current epoch has closed the state: nothing
   but Reset opens it again, and Reset overtakes the Shutdown. *)
ClosingIsClosed == \A t \in Threads : Finishing(t, "shutdown") => shutdown

Closing == CallsNotAhead /\ ClosingIsClosed /\ ShutdownErrorMeansShutdown

LEMMA BeginKeepsClosing ==
  ASSUME TypeOK, CallsNotAhead, ClosingIsClosed,
         NEW t \in Threads, NEW op, NEW batch, NEW err,
         Begin(t, op, batch, err), epoch' = epoch,
         shutdown => shutdown', op = "shutdown" => shutdown'
  PROVE  CallsNotAhead' /\ ClosingIsClosed'
<1>1. epoch \in Nat /\ call \in [Threads -> Call]
  BY DEF TypeOK
<1>2. /\ call'[t].epoch = epoch /\ call'[t].op = op
      /\ \A u \in Threads \ {t} : call'[u] = call[u]
  BY <1>1 DEF Begin
<1>3. CallsNotAhead'
  BY <1>1, <1>2 DEF CallsNotAhead
<1>4. ClosingIsClosed'
  BY <1>2 DEF ClosingIsClosed, Finishing, Current
<1> QED BY <1>3, <1>4

LEMMA ReturnKeepsClosing ==
  ASSUME TypeOK, CallsNotAhead, ClosingIsClosed,
         NEW t \in Threads, NEW errs, Return(t, errs), epoch' = epoch,
         shutdown => shutdown'
  PROVE  CallsNotAhead' /\ ClosingIsClosed'
<1>1. epoch \in Nat /\ call \in [Threads -> Call]
  BY DEF TypeOK
<1>2. /\ call'[t].epoch = 0 /\ call'[t].op = "idle"
      /\ \A u \in Threads \ {t} : call'[u] = call[u]
  BY <1>1 DEF Return, Idle
<1>3. CallsNotAhead'
  BY <1>1, <1>2 DEF CallsNotAhead
<1>4. ClosingIsClosed'
  BY <1>2 DEF ClosingIsClosed, Finishing, Current
<1> QED BY <1>3, <1>4

(* The inductive invariant behind the next theorem. *)
LEMMA ClosingIsInvariant == Spec => []Closing
<1>1. Init => Closing
  <2> SUFFICES ASSUME Init PROVE Closing
    OBVIOUS
  <2>1. /\ epoch = 0 /\ lastShutdownErr = None
        /\ \A t \in Threads : call[t] = Idle
    BY DEF Init, Fresh
  <2>2. Idle.epoch = 0 /\ Idle.op = "idle"
    BY DEF Idle
  <2> QED
    BY <2>1, <2>2 DEF Closing, CallsNotAhead, ClosingIsClosed, Finishing,
                      ShutdownErrorMeansShutdown
<1>2. TypeOK /\ Closing /\ [Next]_vars => Closing'
  <2> SUFFICES ASSUME TypeOK, Closing, [Next]_vars
               PROVE  Closing'
    OBVIOUS
  <2> USE DEF store, history, status
  <2>1. CallsNotAhead /\ ClosingIsClosed /\ ShutdownErrorMeansShutdown
    BY DEF Closing
  <2>2. ASSUME NEW t \in Threads, Enter(t)
        PROVE  Closing'
    <3>1. CASE BeginRecord(t)
      BY <2>1, <3>1, BeginKeepsClosing
         DEF BeginRecord, Closing, ShutdownErrorMeansShutdown
    <3>2. CASE BeginExport(t)
      BY <2>1, <3>2, BeginKeepsClosing
         DEF BeginExport, Closing, ShutdownErrorMeansShutdown
    <3>3. CASE BeginFlush(t)
      BY <2>1, <3>3, BeginKeepsClosing
         DEF BeginFlush, Closing, ShutdownErrorMeansShutdown
    <3>4. CASE BeginShutdown(t)
      BY <2>1, <3>4, BeginKeepsClosing
         DEF BeginShutdown, Closing, ShutdownErrorMeansShutdown
    <3>5. CASE ShutdownAgain(t)
      BY <2>1, <3>5
         DEF ShutdownAgain, Closing, CallsNotAhead, ClosingIsClosed, Finishing,
             Current, ShutdownErrorMeansShutdown
    <3> QED BY <2>2, <3>1, <3>2, <3>3, <3>4, <3>5 DEF Enter
  <2>3. ASSUME NEW t \in Threads, Submit(t) \/ Flush(t) \/ Abandon(t)
        PROVE  Closing'
    <3>1. /\ epoch' = epoch /\ shutdown' = shutdown
          /\ lastShutdownErr' = lastShutdownErr
          /\ \E errs : Return(t, errs)
      <4>1. CASE Submit(t)
        BY <4>1, Zenon
           DEF Submit, RecordSpan, CancelSubmission, RejectRedaction,
               RetainExport, RefuseExport, ExportClosed, ExportBatch, Fail
      <4>2. CASE Flush(t)
        BY <4>2, Zenon
           DEF Flush, CancelFlush, FailFlush, FlushAfterFailedShutdown,
               FlushNothing, RetryFails, RetryDelivers, Fail, state
      <4>3. CASE Abandon(t)
        BY <4>3 DEF Abandon, state
      <4> QED BY <2>3, <4>1, <4>2, <4>3
    <3> QED
      BY <2>1, <3>1, ReturnKeepsClosing DEF Closing, ShutdownErrorMeansShutdown
  <2>4. ASSUME NEW t \in Threads, Shutdown(t)
        PROVE  Closing'
    <3>1. /\ Finishing(t, "shutdown") /\ epoch' = epoch
          /\ shutdown' = shutdown \/ shutdown' = TRUE
          /\ \E errs : Return(t, errs)
      BY <2>4, Zenon
         DEF Shutdown, CancelShutdown, FailShutdown, CompleteShutdown, Fail
    <3>2. shutdown
      BY <2>1, <3>1, Zenon DEF ClosingIsClosed
    <3>3. shutdown'
      BY <3>1, <3>2
    <3> QED
      BY <2>1, <3>1, <3>2, <3>3, ReturnKeepsClosing
         DEF Closing, ShutdownErrorMeansShutdown
  <2>5. CASE Reset
    <3>1. /\ epoch' = epoch + 1 /\ lastShutdownErr' = None /\ call' = call
          /\ epoch \in Nat /\ call \in [Threads -> Call]
      BY <2>5 DEF Reset, TypeOK
    <3>2. \A t \in Threads :
            call'[t].epoch <= epoch' /\ call'[t].epoch # epoch'
      <4> SUFFICES ASSUME NEW t \in Threads
                   PROVE  call'[t].epoch <= epoch' /\ call'[t].epoch # epoch'
        OBVIOUS
      <4>1. call[t].epoch \in Nat /\ call[t].epoch <= epoch
        BY <2>1, <3>1 DEF Call, CallsNotAhead
      <4> QED BY <3>1, <4>1
    <3> QED
      BY <3>1, <3>2 DEF Closing, CallsNotAhead, ClosingIsClosed, Finishing,
                        Current, ShutdownErrorMeansShutdown
  <2>6. CASE UNCHANGED vars
    BY <2>1, <2>6
       DEF vars, state, Closing, CallsNotAhead, ClosingIsClosed, Finishing,
           Current, ShutdownErrorMeansShutdown
  <2> QED BY <2>2, <2>3, <2>4, <2>5, <2>6 DEF Next, Finish, Rest
<1> QED BY <1>1, <1>2, TypeCorrect, PTL DEF Spec

(* A shutdown error is only ever held by a state that is shut down.  It is not
   inductive alone: a Shutdown sets the error long after it set the flag, and
   in between a Reset may have cleared the flag. *)
THEOREM ShutdownErrorIsClosed == Spec => []ShutdownErrorMeansShutdown
<1>1. Closing => ShutdownErrorMeansShutdown
  BY DEF Closing
<1> QED BY <1>1, ClosingIsInvariant, PTL

-----------------------------------------------------------------------------
(* What a nil result means *)

(* Where there is room for all of spans, Admit records all of them. *)
LEMMA AdmitsAll ==
  ASSUME TypeOK, NEW spans \in Seq(Span), NEW err, Admit(spans, err),
         ~Overflows(Len(spans))
  PROVE  recorded' = recorded \o spans
<1>1. Len(spans) \in Nat /\ Room(Len(spans)) \in 0..Len(spans)
  BY RoomBounds
<1>2. Room(Len(spans)) = Len(spans)
  BY <1>1 DEF Overflows
<1>3. SubSeq(spans, 1, Len(spans)) = spans
  OBVIOUS
<1> QED BY <1>2, <1>3 DEF Admit

(* The end of a call of t in its own epoch, with a nil result. *)
ReturnsNil(t) ==
  /\ call[t].op \in {"record", "export", "flush"}
  /\ call'[t] = Idle
  /\ result'[t] = {}
  /\ Current(t)

Delivered(t) ==
  IF call[t].op = "flush"
  THEN /\ pending' = <<>> /\ ~dirty'
       /\ Stamps(pending) \subseteq Stamps(recorded')
  ELSE recorded' = recorded \o Stamped(call[t].batch)

LEMMA ReturnedResult ==
  ASSUME TypeOK, NEW t \in Threads, NEW errs, Return(t, errs), ReturnsNil(t)
  PROVE  errs = {}
<1>1. result \in [Threads -> SUBSET Error]
  BY DEF TypeOK
<1> QED BY <1>1 DEF Return, ReturnsNil

LEMMA SubmitNilDelivers ==
  ASSUME TypeOK, RecordsOneSpan, NEW t \in Threads, Submit(t), ReturnsNil(t)
  PROVE  Delivered(t)
<1> DEFINE batch == call[t].batch
<1>1. batch \in Seq(Spans)
  BY CallFields
<1>2. Stamped(batch) \in Seq(Span) /\ Len(Stamped(batch)) = Len(batch)
  BY <1>1, StampedType DEF TypeOK
<1>3. CASE RecordSpan(t)
  <2> DEFINE err == Err("record", "capacity", FALSE, TRUE)
  <2>1. /\ call[t].op = "record" /\ Admit(Stamped(batch), err)
        /\ Return(t, IF Overflows(1) THEN {err} ELSE {})
    BY <1>3 DEF RecordSpan, Finishing
  <2> HIDE DEF err
  <2>2. ~Overflows(1)
    BY <2>1, ReturnedResult
  <2>3. Len(batch) = 1
    BY <2>1 DEF RecordsOneSpan
  <2> HIDE DEF batch
  <2>4. recorded' = recorded \o Stamped(batch)
    BY <1>2, <2>1, <2>2, <2>3, AdmitsAll
  <2> QED BY <2>1, <2>4 DEF Delivered, batch
<1>4. CASE ExportBatch(t)
  <2> DEFINE err == Err("export", "capacity", FALSE, TRUE)
  <2>1. /\ call[t].op = "export" /\ Admit(Stamped(batch), err)
        /\ Return(t, IF Overflows(Len(batch)) THEN {err} ELSE {})
    BY <1>4 DEF ExportBatch, Exporting, Finishing
  <2> HIDE DEF err
  <2>2. ~Overflows(Len(batch))
    BY <2>1, ReturnedResult
  <2> HIDE DEF batch
  <2>3. recorded' = recorded \o Stamped(batch)
    BY <1>2, <2>1, <2>2, AdmitsAll
  <2> QED BY <2>1, <2>3 DEF Delivered, batch
<1>5. CASE \/ CancelSubmission(t) \/ RejectRedaction(t) \/ RetainExport(t)
           \/ RefuseExport(t) \/ ExportClosed(t)
  <2>1. \E err : Return(t, {err})
    BY <1>5, Zenon
       DEF CancelSubmission, RejectRedaction, RetainExport, RefuseExport,
           ExportClosed, Fail
  <2> QED BY <2>1, ReturnedResult
<1> QED BY <1>3, <1>4, <1>5 DEF Submit

LEMMA FlushNilDelivers ==
  ASSUME TypeOK, Accounting, NEW t \in Threads, Flush(t), ReturnsNil(t)
  PROVE  Delivered(t)
<1>1. CASE FlushNothing(t)
  <2>1. /\ call[t].op = "flush" /\ pending = <<>> /\ pending' = pending
        /\ dirty' = FALSE
    BY <1>1 DEF FlushNothing, Flushing, Finishing, store
  <2> QED BY <2>1, EmptyStamps DEF Delivered
<1>2. CASE RetryDelivers(t)
  <2> DEFINE err == Err("flush", "capacity", FALSE, TRUE)
             bad == Overflows(Len(pending))
  <2>1. /\ call[t].op = "flush" /\ Admit(pending, err) /\ pending' = <<>>
        /\ dirty' = bad
        /\ Return(t, IF bad THEN {err} ELSE {})
    BY <1>2, Zenon DEF RetryDelivers, Flushing, Finishing
  <2> HIDE DEF err
  <2>2. ~bad
    <3> HIDE DEF bad
    <3>1. (IF bad THEN {err} ELSE {}) = {}
      BY <2>1, ReturnedResult
    <3> QED BY <3>1
  <2>3. pending \in Seq(Span) /\ recorded \in Seq(Span)
    BY DEF TypeOK
  <2>4. recorded' = recorded \o pending
    BY <2>1, <2>2, <2>3, AdmitsAll
  <2>5. Stamps(recorded') = Stamps(recorded) \cup Stamps(pending)
    BY <2>3, <2>4, StampsConcat
  <2> HIDE DEF bad
  <2> QED BY <2>1, <2>2, <2>5, Zenon DEF Delivered
<1>3. CASE CancelFlush(t) \/ FailFlush(t) \/ FlushAfterFailedShutdown(t)
           \/ RetryFails(t)
  <2>1. \E err : Return(t, {err})
    BY <1>3, Zenon
       DEF CancelFlush, FailFlush, FlushAfterFailedShutdown, RetryFails, Fail
  <2> QED BY <2>1, ReturnedResult
<1> QED BY <1>1, <1>2, <1>3 DEF Flush

(* A step of goroutine u ends no call of another goroutine. *)
LEMMA OnlyOwnCall ==
  ASSUME TypeOK, NEW u \in Threads, Enter(u) \/ Finish(u),
         NEW t \in Threads, ReturnsNil(t)
  PROVE  u = t /\ (Submit(t) \/ Flush(t))
<1>1. Idle.op = "idle" /\ call \in [Threads -> Call]
  BY DEF Idle, TypeOK
<1>2. call[t] # Idle /\ call'[t] # call[t]
  BY <1>1 DEF ReturnsNil
<1>3. \/ \E op, batch, err : Begin(u, op, batch, err)
      \/ ShutdownAgain(u)
      \/ \E errs : Return(u, errs)
  <2>1. CASE Enter(u)
    BY <2>1, Zenon DEF Enter, BeginRecord, BeginExport, BeginFlush, BeginShutdown
  <2>2. CASE Submit(u)
    BY <2>2, Zenon
       DEF Submit, RecordSpan, CancelSubmission, RejectRedaction,
           RetainExport, RefuseExport, ExportClosed, ExportBatch, Fail
  <2>3. CASE Flush(u)
    BY <2>3, Zenon
       DEF Flush, CancelFlush, FailFlush, FlushAfterFailedShutdown,
           FlushNothing, RetryFails, RetryDelivers, Fail
  <2>4. CASE Shutdown(u)
    BY <2>4, Zenon
       DEF Shutdown, CancelShutdown, FailShutdown, CompleteShutdown, Fail
  <2>5. CASE Abandon(u)
    BY <2>5 DEF Abandon
  <2> QED BY <2>1, <2>2, <2>3, <2>4, <2>5 DEF Finish
<1>4. u = t
  BY <1>1, <1>2, <1>3 DEF Begin, ShutdownAgain, Return
<1>5. ~Enter(t)
  BY <1>2, Zenon DEF Enter, BeginRecord, BeginExport, BeginFlush, BeginShutdown,
                     ShutdownAgain, Begin
<1>6. ~Shutdown(t)
  BY DEF ReturnsNil, Shutdown, CancelShutdown, FailShutdown, CompleteShutdown,
         Finishing
<1>7. ~Abandon(t)
  BY DEF ReturnsNil, Abandon
<1> QED BY <1>4, <1>5, <1>6, <1>7 DEF Finish

(* A call that returns nil in its own epoch did its job, whatever ran while it
   was suspended: Record and Export have recorded all they were given, Flush
   leaves nothing pending and a clean state, and all it found is recorded. *)
THEOREM NilIsDelivered == Spec => NilMeansDelivered
<1>1. TypeOK /\ Accounting /\ RecordsOneSpan /\ [Next]_vars
        => [\A t \in Threads : ReturnsNil(t) => Delivered(t)]_vars
  <2> SUFFICES ASSUME TypeOK, Accounting, RecordsOneSpan, Next,
                      NEW t \in Threads, ReturnsNil(t)
               PROVE  Delivered(t)
    OBVIOUS
  <2>1. ASSUME NEW u \in Threads, Enter(u) \/ Finish(u)
        PROVE  Delivered(t)
    BY <2>1, OnlyOwnCall, SubmitNilDelivers, FlushNilDelivers
  <2>2. CASE call' = call
    <3>1. Idle.op = "idle"
      BY DEF Idle
    <3> QED BY <2>2, <3>1 DEF ReturnsNil
  <2> QED BY <2>1, <2>2 DEF Next, Reset, Rest, vars
<1> QED
  BY <1>1, TypeCorrect, AccountingIsInvariant, PTL
     DEF Spec, NilMeansDelivered, ReturnsNil, Delivered

-----------------------------------------------------------------------------
(* RecorderState implements ObservationLedger: seen through the fate of    *)
(* each stamp, every step of a call is an acceptance, a settlement, a      *)
(* closing, a discarding, a wipe, or changes nothing.                      *)
(*                                                                         *)
(* The mapping reads FateOf, which is defined only for stamps that are in  *)
(* exactly one place: the accounts of RecorderProofs are what makes it a   *)
(* function, and Closing is what lets a Shutdown discard.                  *)

-----------------------------------------------------------------------------
(* The mapped ledger *)

Fate == [n \in 1..sequence |-> FateOf(n)]

LEMMA FateIs ==
  ASSUME Accounting, NEW n \in 1..sequence
  PROVE  /\ n \in Stamps(recorded) => Fate[n] = "recorded"
         /\ n \in Stamps(pending)  => Fate[n] = "pending"
         /\ n \in Stamps(dropped)  => Fate[n] = "dropped"
         /\ n \in discarded        => Fate[n] = "discarded"
         /\ n \in Stamps(recorded) \cup Stamps(pending) \cup Stamps(dropped)
                    \cup discarded
<1>1. Fate[n] = FateOf(n)
  BY DEF Fate
<1>2. n \in Stamps(recorded) \cup Stamps(pending) \cup Stamps(dropped)
              \cup discarded
  BY DEF Accounting, EveryStampAccounted
<1>3. /\ Stamps(recorded) \cap Stamps(pending) = {}
      /\ Stamps(recorded) \cap Stamps(dropped) = {}
      /\ Stamps(pending) \cap Stamps(dropped) = {}
      /\ discarded \cap (Stamps(recorded) \cup Stamps(pending)
                           \cup Stamps(dropped)) = {}
  BY DEF Accounting, NoStampTwice
<1> QED BY <1>1, <1>2, <1>3 DEF FateOf

(* The same of the next state. *)
LEMMA FateWillBe ==
  ASSUME Accounting', NEW n \in 1..sequence'
  PROVE  /\ n \in Stamps(recorded') => Fate'[n] = "recorded"
         /\ n \in Stamps(pending')  => Fate'[n] = "pending"
         /\ n \in Stamps(dropped')  => Fate'[n] = "dropped"
         /\ n \in discarded'        => Fate'[n] = "discarded"
         /\ n \in Stamps(recorded') \cup Stamps(pending') \cup Stamps(dropped')
                    \cup discarded'
<1>1. Fate'[n] = FateOf(n)'
  BY DEF Fate
<1>2. n \in Stamps(recorded') \cup Stamps(pending') \cup Stamps(dropped')
              \cup discarded'
  BY DEF Accounting, EveryStampAccounted
<1>3. /\ Stamps(recorded') \cap Stamps(pending') = {}
      /\ Stamps(recorded') \cap Stamps(dropped') = {}
      /\ Stamps(pending') \cap Stamps(dropped') = {}
      /\ discarded' \cap (Stamps(recorded') \cup Stamps(pending')
                            \cup Stamps(dropped')) = {}
  BY DEF Accounting, NoStampTwice
<1> QED BY <1>1, <1>2, <1>3 DEF FateOf

LEMMA FateDomain ==
  /\ Fate = [n \in 1..sequence |-> Fate[n]] /\ DOMAIN Fate = 1..sequence
  /\ Fate' = [n \in 1..sequence' |-> Fate'[n]] /\ DOMAIN Fate' = 1..sequence'
BY DEF Fate

(* An empty ledger. *)
LEMMA EmptyFate == [n \in 1..0 |-> FateOf(n)] = <<>>
OBVIOUS

-----------------------------------------------------------------------------
(* Each way in which a step changes the store is a step of the ledger. *)

(* A batch arrives: what is there stays where it is. *)
Arrives ==
  /\ Stamps(recorded) \subseteq Stamps(recorded')
  /\ Stamps(pending) \subseteq Stamps(pending')
  /\ Stamps(dropped) \subseteq Stamps(dropped')
  /\ sequence' >= sequence
  /\ UNCHANGED <<discarded, epoch, shutdown>>

(* A retry: all that waited is recorded or dropped. *)
Settles ==
  /\ Stamps(recorded) \subseteq Stamps(recorded')
  /\ Stamps(dropped) \subseteq Stamps(dropped')
  /\ pending' = <<>>
  /\ UNCHANGED <<sequence, discarded, epoch, shutdown>>

LEMMA ArrivalRefines ==
  ASSUME TypeOK, TypeOK', Accounting, Accounting', Arrives
  PROVE  Ledger!Accept \/ UNCHANGED Ledger!ledger
<1>1. sequence \in Nat /\ sequence' \in Nat /\ sequence <= sequence'
  BY DEF TypeOK, Arrives
<1>2. \A n \in 1..sequence : n \in 1..sequence' /\ Fate'[n] = Fate[n]
  <2> SUFFICES ASSUME NEW n \in 1..sequence
               PROVE  n \in 1..sequence' /\ Fate'[n] = Fate[n]
    OBVIOUS
  <2>1. n \in 1..sequence'
    BY <1>1
  <2> QED BY <2>1, FateIs, FateWillBe DEF Arrives
<1>3. CASE sequence' = sequence
  <2>1. Fate' = Fate
    BY <1>2, <1>3, FateDomain
  <2> QED BY <2>1 DEF Ledger!ledger, Fate, Arrives
<1>4. CASE sequence' # sequence
  <2>1. 1..sequence # 1..sequence' /\ 1..sequence \subseteq 1..sequence'
    <3>1. sequence' \in 1..sequence' /\ sequence' \notin 1..sequence
      BY <1>1, <1>4
    <3>2. 1..sequence \subseteq 1..sequence'
      BY <1>1
    <3> QED BY <3>1, <3>2
  <2>2. \A n \in (1..sequence') \ (1..sequence) :
          Fate'[n] \in {"pending", "recorded", "dropped"}
    <3> SUFFICES ASSUME NEW n \in 1..sequence', n \notin 1..sequence
                 PROVE  Fate'[n] \in {"pending", "recorded", "dropped"}
      OBVIOUS
    <3>1. n \notin discarded'
      BY DEF Arrives, Accounting, EveryStampAccounted
    <3> QED BY <3>1, FateWillBe
  <2> QED
    BY <1>2, <2>1, <2>2, FateDomain DEF Ledger!Accept, Fate, Arrives
<1> QED BY <1>3, <1>4

LEMMA SettlementRefines ==
  ASSUME Accounting, Accounting', Settles
  PROVE  Ledger!Settle
<1>1. sequence' = sequence /\ Stamps(pending') = {}
  BY EmptyStamps DEF Settles
<1>2. ASSUME NEW n \in 1..sequence
      PROVE  IF Fate[n] = "pending" THEN Fate'[n] \in {"recorded", "dropped"}
                                    ELSE Fate'[n] = Fate[n]
  <2>1. CASE n \in Stamps(pending)
    <3>1. n \notin discarded' /\ n \notin Stamps(pending')
      BY <1>1, <2>1 DEF Settles, Accounting, NoStampTwice
    <3> QED BY <1>1, <2>1, <3>1, FateIs, FateWillBe
  <2>2. CASE n \notin Stamps(pending)
    BY <1>1, <2>2, FateIs, FateWillBe DEF Settles
  <2> QED BY <2>1, <2>2
<1> QED
  BY <1>1, <1>2, FateDomain
     DEF Ledger!Settle, Ledger!Waiting, Fate, Settles

LEMMA DiscardingRefines ==
  ASSUME Accounting, Accounting', shutdown, shutdown',
         shutdown \in BOOLEAN, shutdown' \in BOOLEAN,
         discarded' = discarded \cup Stamps(pending), pending' = <<>>,
         UNCHANGED <<recorded, dropped, sequence, epoch>>
  PROVE  Ledger!Discard
<1>1. ASSUME NEW n \in 1..sequence
      PROVE  Fate'[n] = IF Fate[n] = "pending" THEN "discarded" ELSE Fate[n]
  <2>1. CASE n \in Stamps(pending)
    BY <2>1, FateIs, FateWillBe
  <2>2. CASE n \notin Stamps(pending)
    BY <2>2, FateIs, FateWillBe
  <2> QED BY <2>1, <2>2
<1>2. Fate' = [n \in DOMAIN Fate |->
                 IF Fate[n] = "pending" THEN "discarded" ELSE Fate[n]]
  BY <1>1, FateDomain
<1>3. shutdown' = shutdown
  OBVIOUS
<1> QED
  BY <1>2, <1>3 DEF Ledger!Discard, Ledger!Waiting, Fate

LEMMA SameStoreRefines ==
  ASSUME UNCHANGED <<store, epoch>>,
         shutdown' = shutdown \/ shutdown' = TRUE
  PROVE  Ledger!Close \/ UNCHANGED Ledger!ledger
<1>1. Fate' = Fate
  BY DEF store, Fate, FateOf
<1> QED BY <1>1 DEF Ledger!Close, Ledger!ledger, Fate

-----------------------------------------------------------------------------
(* Which of these each step is *)

(* The store, epoch and shutdown flag stay, or the flag is set. *)
KeepsStore ==
  UNCHANGED <<store, epoch>> /\ (shutdown' = shutdown \/ shutdown' = TRUE)

LEMMA EnterKeepsStore ==
  ASSUME NEW t \in Threads, Enter(t)
  PROVE  KeepsStore
BY Zenon DEF Enter, BeginRecord, BeginExport, BeginFlush, BeginShutdown,
             ShutdownAgain, status, KeepsStore

(* Admit moves spans into recorded and dropped and takes nothing out. *)
LEMMA AdmitGrows ==
  ASSUME TypeOK, NEW spans \in Seq(Span), NEW err \in Error,
         Admit(spans, err), StampedOnce(spans)
  PROVE  /\ Stamps(recorded) \subseteq Stamps(recorded')
         /\ Stamps(dropped) \subseteq Stamps(dropped')
BY AdmitStamps

(* Dropping spans takes nothing out of dropped. *)
LEMMA DropGrows ==
  ASSUME TypeOK, NEW spans \in Seq(Span), NEW reason \in Reasons,
         NEW err \in Error, dropped' = dropped \o Drop(spans, reason, err)
  PROVE  Stamps(dropped) \subseteq Stamps(dropped')
<1> DEFINE d == Drop(spans, reason, err)
<1>1. d \in Seq(Observation) /\ dropped \in Seq(Observation)
  BY DropType DEF TypeOK
<1>2. dropped' = dropped \o d
  OBVIOUS
<1> HIDE DEF d
<1> QED BY <1>1, <1>2, StampsConcat

LEMMA SubmitRefines ==
  ASSUME TypeOK, NEW t \in Threads, Submit(t)
  PROVE  KeepsStore \/ Arrives
<1> DEFINE batch == call[t].batch
           injected == InjectedError("export", call[t].n)
<1>1. batch \in Seq(Spans) /\ call[t].n \in Nat /\ Len(batch) \in Nat
  BY CallFields
<1>2. /\ Stamped(batch) \in Seq(Span) /\ Len(Stamped(batch)) = Len(batch)
      /\ StampedOnce(Stamped(batch)) /\ Unstamped(batch) \in Seq(Span)
  BY <1>1, StampedType, StampedStamps, UnstampedType DEF TypeOK
<1>3. Injected("export", call[t].n) => injected \in Error
  BY <1>1, InjectedErrorType DEF TypeOK, Injectable
<1>4. sequence \in Nat
  BY DEF TypeOK
<1>5. CASE RecordSpan(t)
  <2> DEFINE err == Err("record", "capacity", FALSE, TRUE)
  <2>1. err \in Error
    BY ErrType DEF Operations, Classes
  <2>2. /\ Admit(Stamped(batch), err) /\ sequence' = sequence + 1
        /\ UNCHANGED <<pending, discarded, epoch, shutdown>>
    BY <1>5 DEF RecordSpan
  <2> HIDE DEF batch, err
  <2> QED BY <1>2, <1>4, <2>1, <2>2, AdmitGrows DEF Arrives
<1>6. CASE CancelSubmission(t) \/ RejectRedaction(t)
  BY <1>6 DEF CancelSubmission, RejectRedaction, Fail, KeepsStore
<1>7. CASE RetainExport(t)
  <2>1. /\ pending' = pending \o Stamped(batch)
        /\ sequence' = sequence + Len(Stamped(batch))
        /\ UNCHANGED <<recorded, dropped, discarded, epoch, shutdown>>
    BY <1>7 DEF RetainExport, Fail
  <2> HIDE DEF batch
  <2>2. Stamps(pending) \subseteq Stamps(pending')
    BY <1>2, <2>1, StampsConcat DEF TypeOK
  <2>3. sequence' >= sequence
    BY <1>1, <1>2, <1>4, <2>1
  <2> QED BY <2>1, <2>2, <2>3 DEF Arrives
<1>8. CASE RefuseExport(t)
  <2>1. /\ dropped' = dropped \o Drop(Stamped(batch), "injected_failure", injected)
        /\ sequence' = sequence + Len(Stamped(batch))
        /\ UNCHANGED <<recorded, pending, discarded, epoch, shutdown>>
    BY <1>8 DEF RefuseExport
  <2>2. injected \in Error /\ "injected_failure" \in Reasons
    BY <1>3, <1>8 DEF RefuseExport, Reasons
  <2> HIDE DEF batch, injected
  <2>3. Stamps(dropped) \subseteq Stamps(dropped')
    BY <1>2, <2>1, <2>2, DropGrows
  <2>4. sequence' >= sequence
    BY <1>1, <1>2, <1>4, <2>1
  <2> QED BY <2>1, <2>3, <2>4 DEF Arrives
<1>9. CASE ExportClosed(t)
  <2> DEFINE err == Err("export", "exporter_closed", FALSE, TRUE)
  <2>1. /\ dropped' = dropped \o Drop(Unstamped(batch), "shutdown", err)
        /\ UNCHANGED <<recorded, pending, sequence, discarded, epoch, shutdown>>
    BY <1>9 DEF ExportClosed
  <2>2. err \in Error /\ "shutdown" \in Reasons
    BY ErrType DEF Operations, Classes, Reasons
  <2> HIDE DEF batch, err
  <2>3. Stamps(dropped) \subseteq Stamps(dropped')
    BY <1>2, <2>1, <2>2, DropGrows
  <2> QED BY <1>4, <2>1, <2>3 DEF Arrives
<1>10. CASE ExportBatch(t)
  <2> DEFINE err == Err("export", "capacity", FALSE, TRUE)
  <2>1. err \in Error
    BY ErrType DEF Operations, Classes
  <2>2. /\ Admit(Stamped(batch), err) /\ sequence' = sequence + Len(batch)
        /\ UNCHANGED <<pending, discarded, epoch, shutdown>>
    BY <1>10 DEF ExportBatch
  <2> HIDE DEF batch, err
  <2> QED BY <1>1, <1>2, <1>4, <2>1, <2>2, AdmitGrows DEF Arrives
<1> QED BY <1>5, <1>6, <1>7, <1>8, <1>9, <1>10 DEF Submit

LEMMA FlushRefines ==
  ASSUME TypeOK, Accounting, NEW t \in Threads, Flush(t)
  PROVE  KeepsStore \/ Settles
<1>1. CASE CancelFlush(t) \/ FailFlush(t) \/ FlushNothing(t)
  BY <1>1 DEF CancelFlush, FailFlush, FlushNothing, Fail, KeepsStore
<1>2. CASE FlushAfterFailedShutdown(t)
  BY <1>2 DEF FlushAfterFailedShutdown, state, status, KeepsStore
<1>3. pending \in Seq(Span) /\ StampedOnce(pending)
  BY DEF TypeOK, Accounting, NoStampTwice
<1>4. CASE RetryFails(t)
  <2> DEFINE n == counts["export"] + 1
             err == InjectedError("export", n)
  <2>1. n \in Nat
    BY DEF TypeOK, Operations
  <2>2. err \in Error /\ "injected_failure" \in Reasons
    BY <1>4, <2>1, InjectedErrorType DEF RetryFails, TypeOK, Injectable, Reasons
  <2>3. UNCHANGED <<epoch, recorded, sequence, discarded, shutdown>>
    BY <1>4 DEF RetryFails
  <2>4. CASE Retained(err)
    BY <1>4, <2>3, <2>4 DEF RetryFails, KeepsStore, store
  <2>5. CASE ~Retained(err)
    <3>1. dropped' = dropped \o Drop(pending, "injected_failure", err)
          /\ pending' = <<>>
      BY <1>4, <2>5 DEF RetryFails
    <3> HIDE DEF err
    <3>2. Stamps(dropped) \subseteq Stamps(dropped')
      BY <1>3, <2>2, <3>1, DropGrows
    <3> QED BY <2>3, <3>1, <3>2 DEF Settles
  <2> QED BY <2>4, <2>5
<1>5. CASE RetryDelivers(t)
  <2> DEFINE err == Err("flush", "capacity", FALSE, TRUE)
  <2>1. err \in Error
    BY ErrType DEF Operations, Classes
  <2>2. /\ Admit(pending, err) /\ pending' = <<>>
        /\ UNCHANGED <<sequence, discarded, epoch, shutdown>>
    BY <1>5 DEF RetryDelivers
  <2> HIDE DEF err
  <2> QED BY <1>3, <2>1, <2>2, AdmitGrows DEF Settles
<1> QED BY <1>1, <1>2, <1>4, <1>5 DEF Flush

LEMMA ShutdownRefines ==
  ASSUME TypeOK, TypeOK', Accounting, Accounting', Closing,
         NEW t \in Threads, Shutdown(t)
  PROVE  KeepsStore \/ Ledger!Discard
<1>1. CASE CancelShutdown(t) \/ FailShutdown(t)
  BY <1>1 DEF CancelShutdown, FailShutdown, Fail, KeepsStore
<1>2. CASE CompleteShutdown(t)
  <2>1. /\ discarded' = discarded \cup Stamps(pending) /\ pending' = <<>>
        /\ UNCHANGED <<recorded, dropped, sequence, epoch>>
        /\ shutdown' = TRUE /\ Finishing(t, "shutdown")
    BY <1>2 DEF CompleteShutdown
  <2>2. shutdown /\ shutdown \in BOOLEAN /\ shutdown' \in BOOLEAN
    BY <2>1 DEF Closing, ClosingIsClosed, TypeOK
  <2> QED BY <2>1, <2>2, DiscardingRefines
<1> QED BY <1>1, <1>2 DEF Shutdown

(* The recorder keeps the promises of the ledger: a stamp that is recorded,
   dropped or discarded keeps its fate until Reset, a retry settles everything
   that waits, and only a closed recorder discards.  Steps that touch the
   shutdown flag alone are closings or stutter; an Export of an empty batch
   stutters. *)
THEOREM RecorderImplementsLedger == Spec => ImplementsLedger
<1>1. Init => Ledger!Init
  <2> SUFFICES ASSUME Init PROVE Ledger!Init
    OBVIOUS
  <2>1. epoch = 0 /\ shutdown = FALSE /\ sequence = 0
    BY DEF Init, Fresh
  <2>2. [n \in 1..sequence |-> FateOf(n)] = <<>>
    BY <2>1, EmptyFate
  <2> QED BY <2>1, <2>2 DEF Ledger!Init
<1>2. /\ TypeOK /\ TypeOK' /\ Accounting /\ Accounting' /\ Closing
      /\ [Next]_vars
      => [Ledger!Next]_(Ledger!ledger)
  <2> SUFFICES ASSUME TypeOK, TypeOK', Accounting, Accounting', Closing,
                      [Next]_vars
               PROVE  Ledger!Next \/ UNCHANGED Ledger!ledger
    OBVIOUS
  <2>1. CASE KeepsStore
    BY <2>1, SameStoreRefines DEF KeepsStore, Ledger!Next
  <2>2. ASSUME NEW t \in Threads, Enter(t)
        PROVE  KeepsStore
    BY <2>2, EnterKeepsStore
  <2>3. ASSUME NEW t \in Threads, Submit(t)
        PROVE  Ledger!Next \/ UNCHANGED Ledger!ledger
    BY <2>1, <2>3, SubmitRefines, ArrivalRefines DEF Ledger!Next
  <2>4. ASSUME NEW t \in Threads, Flush(t)
        PROVE  Ledger!Next \/ UNCHANGED Ledger!ledger
    BY <2>1, <2>4, FlushRefines, SettlementRefines DEF Ledger!Next
  <2>5. ASSUME NEW t \in Threads, Shutdown(t)
        PROVE  Ledger!Next \/ UNCHANGED Ledger!ledger
    BY <2>1, <2>5, ShutdownRefines DEF Ledger!Next
  <2>6. ASSUME NEW t \in Threads, Abandon(t)
        PROVE  KeepsStore
    BY <2>6 DEF Abandon, state, status, KeepsStore
  <2>7. CASE Reset
    <3>1. epoch' = epoch + 1 /\ shutdown' = FALSE /\ sequence' = 0
      BY <2>7 DEF Reset
    <3>2. Fate' = <<>>
      <4>1. 1..sequence' = {}
        BY <3>1
      <4> QED BY <4>1 DEF Fate
    <3> QED BY <3>1, <3>2 DEF Ledger!Next, Ledger!Wipe, Fate
  <2>8. CASE UNCHANGED vars
    <3>1. UNCHANGED <<epoch, store, status>>
      BY <2>8 DEF vars, state
    <3>2. shutdown' = shutdown
      BY <3>1 DEF status
    <3> QED BY <2>1, <3>1, <3>2 DEF KeepsStore
  <2> QED
    BY <2>1, <2>2, <2>3, <2>4, <2>5, <2>6, <2>7, <2>8 DEF Next, Finish, Rest
<1> QED
  BY <1>1, <1>2, TypeCorrect, AccountingIsInvariant, ClosingIsInvariant, PTL
     DEF Spec, ImplementsLedger, Ledger!Spec

=============================================================================
