--------------------------- MODULE RecorderState ---------------------------
(***************************************************************************)
(* The in-memory state behind recorder.Recorder and fake.Exporter          *)
(* (internal/recorder/state.go).                                           *)
(*                                                                         *)
(* Every public call is several critical sections of one mutex.  The first *)
(* one captures the epoch (and, for Flush, the last shutdown error) and    *)
(* takes a call index; what happens after it is unlocked, so any other     *)
(* call may run in between; the last one re-checks the epoch and publishes *)
(* the result.  Each critical section is one action.  The test of          *)
(* ctx.Err() and the lookup in the failure plan, which never changes, are  *)
(* folded into the critical section that follows them.                     *)
(*                                                                         *)
(* Abstracted: a span is its identifier, an error loses its message, and   *)
(* RecordCount, ExportCount, ... are operationCounts (they are incremented *)
(* together).                                                              *)
(***************************************************************************)
EXTENDS Integers, Sequences, FiniteSets

CONSTANTS
  Threads,          \* goroutines that call the exporter
  Spans,            \* identifiers of the observations callers hand in
  Batches,          \* the batches given to Export: sequences of identifiers
  Configs,          \* the configurations New may be given
  ErrorHistorySize, \* 256 in New
  InjectedClasses,  \* classifications a failure plan may give
  MaxCalls,         \* bound: calls of an operation between two Resets
  MaxEpoch,         \* bound: number of Resets
  None              \* a nil *ObservationError

Operations == {"record", "export", "flush", "shutdown"}
Injectable == {"export", "flush", "shutdown"}

Reasons    == {"capacity", "shutdown", "injected_failure"}
Classes    == InjectedClasses
              \cup {"canceled", "redaction", "capacity", "exporter_closed"}

Rule == [atCall : Nat, classification : InjectedClasses,
         retryable : BOOLEAN, dropped : BOOLEAN]

Error == [operation : Operations \cup {"redact"}, classification : Classes,
          retryable : BOOLEAN, dropped : BOOLEAN]

(* What New is given: the operations the wrapper offers (recorder.Recorder
   has Record, fake.Exporter has Export), Config.Capacity, where 0 stands for
   "no limit", the rules of each operation in the order in which they are
   tried, and whether the redaction options are invalid (MaxSummaryBytes < 0),
   which New does not check. *)
Config == [operations : SUBSET Operations, capacity : Nat,
           failures : [Injectable -> Seq(Rule)], redactionFails : BOOLEAN]

Span        == [id : Spans, stamp : Nat]
Observation == [id : Spans, stamp : Nat, reason : Reasons, error : Error]

ASSUME ConstantsAssumption ==
  /\ Batches \subseteq Seq(Spans)
  /\ Configs \subseteq Config
  /\ ErrorHistorySize \in Nat \ {0}
  /\ MaxCalls \in [Operations -> Nat]
  /\ MaxEpoch \in Nat
  /\ None \notin Error

VARIABLES
  config,           \* fixed by New
  epoch,            \* State.epoch, advanced by Reset
  recorded,         \* spans delivered, in order
  pending,          \* spans kept for a retry by Flush
  dropped,          \* dropped observations with reason and error
  errors,           \* the last ErrorHistorySize errors
  droppedErrHist,   \* errors evicted from errors
  dirty,
  counts,           \* operationCounts
  lastError, lastFlushError, lastShutdownErr,
  sequence,         \* last stamp given out
  shutdown,
  call,             \* what each goroutine is in the middle of
  result,           \* what its last call returned: {} is nil
  reported,         \* history: number of errors remembered since Reset
  discarded,        \* history: stamps of the spans Shutdown threw away
  acknowledged      \* history: some Shutdown of this epoch returned nil

store   == <<recorded, pending, dropped, sequence, discarded>>
history == <<errors, droppedErrHist, lastError, reported>>
status  == <<dirty, lastFlushError, lastShutdownErr, shutdown, acknowledged>>
state   == <<epoch, counts, store, history, status>>
vars    == <<config, state, call, result>>

Idle == [op |-> "idle", epoch |-> 0, n |-> 0, batch |-> <<>>, err |-> None]

-----------------------------------------------------------------------------
(* Helpers *)

Err(op, class, retry, drop) ==
  [operation |-> op, classification |-> class,
   retryable |-> retry, dropped |-> drop]

Smaller(a, b) == IF a <= b THEN a ELSE b
Larger(a, b)  == IF a <= b THEN b ELSE a

(* The rules of operation op that apply to its n-th call; the first wins. *)
Matching(op, n) ==
  LET rules == config.failures[op]
  IN  {i \in DOMAIN rules : rules[i].atCall = 0 \/ rules[i].atCall = n}

Injected(op, n) == Matching(op, n) # {}

InjectedError(op, n) ==
  LET first == CHOOSE i \in Matching(op, n) :
                 \A j \in Matching(op, n) : i <= j
      rule  == config.failures[op][first]
  IN  Err(op, rule.classification, rule.retryable, rule.dropped)

(* A failure keeps the spans pending only if it may be retried. *)
Retained(err) == err.retryable /\ ~err.dropped

Repeat(e, n) == [i \in 1..n |-> e]

(* Slip: evicts when one slot is still free. *)
RememberShort(errs) ==
  LET all     == errors \o errs
      evicted == Larger(0, Len(all) - ErrorHistorySize + 1)
  IN  /\ errors' = SubSeq(all, evicted + 1, Len(all))
      /\ droppedErrHist' = droppedErrHist + evicted
      /\ lastError' = IF errs = <<>> THEN lastError ELSE errs[Len(errs)]
      /\ reported' = reported + Len(errs)

(* The stamps of spans; a span refused by a closed exporter has none. *)
Stamps(s) == {s[i].stamp : i \in DOMAIN s} \ {0}

(* rememberErrorLocked for each of errs, in order. *)
Remember(errs) ==
  LET all     == errors \o errs
      evicted == Larger(0, Len(all) - ErrorHistorySize)
  IN  /\ errors' = SubSeq(all, evicted + 1, Len(all))
      /\ droppedErrHist' = droppedErrHist + evicted
      /\ lastError' = IF errs = <<>> THEN lastError ELSE errs[Len(errs)]
      /\ reported' = reported + Len(errs)

(* Slips: stamps from 0; one stamp for the whole batch. *)
StampedFromZero(batch) ==
  [i \in 1..Len(batch) |-> [id |-> batch[i], stamp |-> sequence + i - 1]]

StampedAlike(batch) ==
  [i \in 1..Len(batch) |-> [id |-> batch[i], stamp |-> sequence + 1]]

(* stampSpan for each identifier of a batch, with consecutive stamps. *)
Stamped(batch) ==
  [i \in 1..Len(batch) |-> [id |-> batch[i], stamp |-> sequence + i]]

Unstamped(batch) == [i \in 1..Len(batch) |-> [id |-> batch[i], stamp |-> 0]]

(* Slip: keeps the span without the reason and the error. *)
DropBare(spans, reason, err) == spans

(* dropLocked for each of spans, without the error history. *)
Drop(spans, reason, err) ==
  [i \in 1..Len(spans) |->
     [id |-> spans[i].id, stamp |-> spans[i].stamp,
      reason |-> reason, error |-> err]]

(* Slip: > for >= in the comparison with the capacity. *)
RoomForOneMore(n) ==
  IF config.capacity = 0 THEN n
  ELSE Smaller(n, Larger(0, config.capacity + 1 - Len(recorded)))

(* How many of n more spans shouldDropLocked lets into recorded. *)
Room(n) == IF config.capacity = 0 THEN n
           ELSE Smaller(n, Larger(0, config.capacity - Len(recorded)))

(* Slip: makes room by evicting the oldest span, as the error history does. *)
AdmitEvicting(spans, err) ==
  LET all  == recorded \o spans
      over == IF config.capacity = 0 THEN 0
              ELSE Larger(0, Len(all) - config.capacity)
  IN  /\ recorded' = SubSeq(all, over + 1, Len(all))
      /\ dropped' = dropped \o Drop(SubSeq(all, 1, over), "capacity", err)
      /\ Remember(Repeat(err, over))

(* Appends spans to recorded as far as capacity allows, drops the rest. *)
Admit(spans, err) ==
  LET fit  == Room(Len(spans))
      rest == SubSeq(spans, fit + 1, Len(spans))
  IN  /\ recorded' = recorded \o SubSeq(spans, 1, fit)
      /\ dropped' = dropped \o Drop(rest, "capacity", err)
      /\ Remember(Repeat(err, Len(rest)))

(* Slip: the capacity errors are not joined into the result. *)
OverflowsSilently(n) == FALSE

Overflows(n) == Room(n) < n

-----------------------------------------------------------------------------
(* Entering and leaving a call *)

(* Slip: the epoch is not checked again. *)
CurrentUnchecked(t) == TRUE

Current(t) == call[t].epoch = epoch

Begin(t, op, batch, err) ==
  /\ call[t] = Idle
  /\ op \in config.operations
  /\ counts[op] < MaxCalls[op]
  /\ counts' = [counts EXCEPT ![op] = @ + 1]
  /\ call' = [call EXCEPT ![t] = [op |-> op, epoch |-> epoch,
                                  n |-> counts[op] + 1,
                                  batch |-> batch, err |-> err]]
  /\ result' = [result EXCEPT ![t] = {}]

Return(t, errs) ==
  /\ call' = [call EXCEPT ![t] = Idle]
  /\ result' = [result EXCEPT ![t] = errs]

(* The call of thread t is op and still belongs to the current epoch. *)
Finishing(t, op) == call[t].op = op /\ Current(t)

(* The end of a call that fails with one error: it is remembered, the state
   is marked dirty and the error is returned. *)
Fail(t, err) ==
  /\ Remember(<<err>>)
  /\ dirty' = TRUE
  /\ Return(t, {err})
  /\ UNCHANGED epoch

-----------------------------------------------------------------------------
(* Record *)

BeginRecord(t) ==
  /\ \E s \in Spans : Begin(t, "record", <<s>>, None)
  /\ UNCHANGED <<epoch, store, history, status>>

RecordSpan(t) ==
  LET err == Err("record", "capacity", FALSE, TRUE)
  IN  /\ Finishing(t, "record")
      /\ ~config.redactionFails
      /\ sequence' = sequence + 1
      /\ Admit(Stamped(call[t].batch), err)
      /\ dirty' = (dirty \/ Overflows(1))
      /\ Return(t, IF Overflows(1) THEN {err} ELSE {})
      /\ UNCHANGED <<epoch, counts, pending, discarded, lastFlushError,
                     lastShutdownErr, shutdown, acknowledged>>

(* ctx is done before the span or the batch is accepted: it is lost, only the
   error is remembered. *)
CancelSubmission(t) ==
  /\ Finishing(t, "record") \/ Finishing(t, "export")
  /\ Fail(t, Err(call[t].op, "canceled", TRUE, FALSE))
  /\ UNCHANGED <<counts, store, lastFlushError, lastShutdownErr, shutdown,
                 acknowledged>>

(* redaction.ApplySpan rejects the first span of the batch. *)
RejectRedaction(t) ==
  /\ Finishing(t, "record") \/ Finishing(t, "export")
  /\ config.redactionFails
  /\ call[t].batch # <<>>
  /\ Fail(t, Err("redact", "redaction", FALSE, TRUE))
  /\ UNCHANGED <<counts, store, lastFlushError, lastShutdownErr, shutdown,
                 acknowledged>>

-----------------------------------------------------------------------------
(* Export *)

BeginExport(t) ==
  /\ \E batch \in Batches : Begin(t, "export", batch, None)
  /\ UNCHANGED <<epoch, store, history, status>>

(* Export has passed ctx and redaction. *)
Exporting(t) ==
  /\ Finishing(t, "export")
  /\ ~config.redactionFails \/ call[t].batch = <<>>

(* recordInjectedExportErrorAtEpoch, the failure may be retried. *)
RetainExport(t) ==
  LET err   == InjectedError("export", call[t].n)
      spans == Stamped(call[t].batch)
  IN  /\ Exporting(t)
      /\ Injected("export", call[t].n)
      /\ Retained(err)
      /\ sequence' = sequence + Len(spans)
      /\ pending' = pending \o spans
      /\ Fail(t, err)
      /\ UNCHANGED <<counts, recorded, dropped, discarded, lastFlushError,
                     lastShutdownErr, shutdown, acknowledged>>

(* recordInjectedExportErrorAtEpoch, the failure is final: dropLocked
   remembers the error once per span, and it is remembered once more. *)
RefuseExport(t) ==
  LET err   == InjectedError("export", call[t].n)
      spans == Stamped(call[t].batch)
  IN  /\ Exporting(t)
      /\ Injected("export", call[t].n)
      /\ ~Retained(err)
      /\ sequence' = sequence + Len(spans)
      /\ dropped' = dropped \o Drop(spans, "injected_failure", err)
      /\ Remember(Repeat(err, Len(spans) + 1))
      /\ dirty' = TRUE
      /\ Return(t, {err})
      /\ UNCHANGED <<epoch, counts, recorded, pending, discarded,
                     lastFlushError, lastShutdownErr, shutdown, acknowledged>>

ExportClosed(t) ==
  LET err   == Err("export", "exporter_closed", FALSE, TRUE)
      spans == Unstamped(call[t].batch)
  IN  /\ Exporting(t)
      /\ ~Injected("export", call[t].n)
      /\ shutdown
      /\ dropped' = dropped \o Drop(spans, "shutdown", err)
      /\ Remember(Repeat(err, Len(spans)))
      /\ dirty' = (dirty \/ spans # <<>>)
      /\ Return(t, {err})
      /\ UNCHANGED <<epoch, counts, recorded, pending, sequence, discarded,
                     lastFlushError, lastShutdownErr, shutdown, acknowledged>>

ExportBatch(t) ==
  LET err == Err("export", "capacity", FALSE, TRUE)
      n   == Len(call[t].batch)
  IN  /\ Exporting(t)
      /\ ~Injected("export", call[t].n)
      /\ ~shutdown
      /\ sequence' = sequence + n
      /\ Admit(Stamped(call[t].batch), err)
      /\ dirty' = (dirty \/ Overflows(n))
      /\ Return(t, IF Overflows(n) THEN {err} ELSE {})
      /\ UNCHANGED <<epoch, counts, pending, discarded, lastFlushError,
                     lastShutdownErr, shutdown, acknowledged>>

-----------------------------------------------------------------------------
(* Flush *)

BeginFlush(t) ==
  /\ Begin(t, "flush", <<>>, lastShutdownErr)
  /\ UNCHANGED <<epoch, store, history, status>>

CancelFlush(t) ==
  LET err == Err("flush", "canceled", TRUE, FALSE)
  IN  /\ Finishing(t, "flush")
      /\ lastFlushError' = err
      /\ Fail(t, err)
      /\ UNCHANGED <<counts, store, lastShutdownErr, shutdown, acknowledged>>

FailFlush(t) ==
  LET err == InjectedError("flush", call[t].n)
  IN  /\ Finishing(t, "flush")
      /\ Injected("flush", call[t].n)
      /\ lastFlushError' = err
      /\ Fail(t, err)
      /\ UNCHANGED <<counts, store, lastShutdownErr, shutdown, acknowledged>>

(* Flush returns the shutdown error it copied on entry. *)
FlushAfterFailedShutdown(t) ==
  /\ call[t].op = "flush"
  /\ ~Injected("flush", call[t].n)
  /\ call[t].err # None
  /\ Return(t, {call[t].err})
  /\ UNCHANGED state

(* Flush reaches the critical section that retries what is pending. *)
Flushing(t) ==
  /\ Finishing(t, "flush")
  /\ ~Injected("flush", call[t].n)
  /\ call[t].err = None

(* Slip: the error of an earlier Flush is kept. *)
FlushNothingKeepsError(t) ==
  /\ Flushing(t)
  /\ pending = <<>>
  /\ dirty' = FALSE
  /\ Return(t, {})
  /\ UNCHANGED <<epoch, counts, store, history, lastFlushError,
                 lastShutdownErr, shutdown, acknowledged>>

FlushNothing(t) ==
  /\ Flushing(t)
  /\ pending = <<>>
  /\ dirty' = FALSE
  /\ lastFlushError' = None
  /\ Return(t, {})
  /\ UNCHANGED <<epoch, counts, store, history, lastShutdownErr, shutdown,
                 acknowledged>>

(* The retry counts as an export call and may fail by the export rules. *)
RetryFails(t) ==
  LET n   == counts["export"] + 1
      err == InjectedError("export", n)
  IN  /\ Flushing(t)
      /\ pending # <<>>
      /\ Injected("export", n)
      /\ counts' = [counts EXCEPT !["export"] = n]
      /\ IF Retained(err)
         THEN /\ UNCHANGED <<pending, dropped>>
              /\ Remember(<<err>>)
         ELSE /\ pending' = <<>>
              /\ dropped' = dropped \o Drop(pending, "injected_failure", err)
              /\ Remember(Repeat(err, Len(pending) + 1))
      /\ lastFlushError' = err
      /\ dirty' = TRUE
      /\ Return(t, {err})
      /\ UNCHANGED <<epoch, recorded, sequence, discarded, lastShutdownErr,
                     shutdown, acknowledged>>

RetryDelivers(t) ==
  LET n   == counts["export"] + 1
      err == Err("flush", "capacity", FALSE, TRUE)
      bad == Overflows(Len(pending))
  IN  /\ Flushing(t)
      /\ pending # <<>>
      /\ ~Injected("export", n)
      /\ counts' = [counts EXCEPT !["export"] = n]
      /\ Admit(pending, err)
      /\ pending' = <<>>
      /\ lastFlushError' = IF bad THEN err ELSE None
      /\ dirty' = bad
      /\ Return(t, IF bad THEN {err} ELSE {})
      /\ UNCHANGED <<epoch, sequence, discarded, lastShutdownErr, shutdown,
                     acknowledged>>

-----------------------------------------------------------------------------
(* Shutdown *)

(* A Shutdown that finds the state shut down, without an error, is done. *)
ShutdownAgain(t) ==
  /\ call[t] = Idle
  /\ shutdown
  /\ lastShutdownErr = None
  /\ "shutdown" \in config.operations
  /\ counts["shutdown"] < MaxCalls["shutdown"]
  /\ counts' = [counts EXCEPT !["shutdown"] = @ + 1]
  /\ acknowledged' = TRUE
  /\ result' = [result EXCEPT ![t] = {}]
  /\ UNCHANGED <<epoch, store, history, dirty, lastFlushError,
                 lastShutdownErr, shutdown, call>>

BeginShutdown(t) ==
  /\ ~shutdown \/ lastShutdownErr # None
  /\ Begin(t, "shutdown", <<>>, None)
  /\ shutdown' = TRUE
  /\ UNCHANGED <<epoch, store, history, dirty, lastFlushError,
                 lastShutdownErr, acknowledged>>

CancelShutdown(t) ==
  LET err == Err("shutdown", "canceled", TRUE, FALSE)
  IN  /\ Finishing(t, "shutdown")
      /\ lastShutdownErr' = err
      /\ Fail(t, err)
      /\ UNCHANGED <<counts, store, lastFlushError, shutdown, acknowledged>>

FailShutdown(t) ==
  LET err == InjectedError("shutdown", call[t].n)
  IN  /\ Finishing(t, "shutdown")
      /\ Injected("shutdown", call[t].n)
      /\ lastShutdownErr' = err
      /\ Fail(t, err)
      /\ UNCHANGED <<counts, store, lastFlushError, shutdown, acknowledged>>

CompleteShutdown(t) ==
  /\ Finishing(t, "shutdown")
  /\ ~Injected("shutdown", call[t].n)
  /\ shutdown' = TRUE
  /\ pending' = <<>>
  /\ discarded' = discarded \cup Stamps(pending)
  /\ dirty' = FALSE
  /\ lastShutdownErr' = None
  /\ acknowledged' = TRUE
  /\ Return(t, {})
  /\ UNCHANGED <<epoch, counts, recorded, dropped, sequence, history,
                 lastFlushError>>

-----------------------------------------------------------------------------
(* A call that Reset overtook publishes nothing and returns nil. *)
Abandon(t) ==
  /\ call[t].op # "idle"
  /\ ~Current(t)
  /\ Return(t, {})
  /\ UNCHANGED state

(* What a new State holds, whatever its epoch. *)
Fresh ==
  /\ recorded = <<>> /\ pending = <<>> /\ dropped = <<>> /\ errors = <<>>
  /\ dirty = FALSE
  /\ counts = [op \in Operations |-> 0]
  /\ lastError = None /\ lastFlushError = None /\ lastShutdownErr = None
  /\ sequence = 0
  /\ shutdown = FALSE
  /\ droppedErrHist = 0
  /\ reported = 0 /\ discarded = {} /\ acknowledged = FALSE

Reset ==
  /\ epoch < MaxEpoch
  /\ epoch' = epoch + 1
  /\ recorded' = <<>> /\ pending' = <<>> /\ dropped' = <<>> /\ errors' = <<>>
  /\ dirty' = FALSE
  /\ counts' = [op \in Operations |-> 0]
  /\ lastError' = None /\ lastFlushError' = None /\ lastShutdownErr' = None
  /\ sequence' = 0
  /\ shutdown' = FALSE
  /\ droppedErrHist' = 0
  /\ reported' = 0 /\ discarded' = {} /\ acknowledged' = FALSE
  /\ UNCHANGED <<call, result>>

(* The application may make no further call once every call has returned. *)
Rest ==
  /\ \A t \in Threads : call[t] = Idle
  /\ UNCHANGED vars

Init ==
  /\ config \in Configs
  /\ epoch = 0
  /\ Fresh
  /\ call = [t \in Threads |-> Idle]
  /\ result = [t \in Threads |-> {}]

Enter(t) ==
  \/ BeginRecord(t) \/ BeginExport(t) \/ BeginFlush(t)
  \/ BeginShutdown(t) \/ ShutdownAgain(t)

Submit(t) ==
  \/ RecordSpan(t) \/ CancelSubmission(t) \/ RejectRedaction(t)
  \/ RetainExport(t) \/ RefuseExport(t) \/ ExportClosed(t) \/ ExportBatch(t)

Flush(t) ==
  \/ CancelFlush(t) \/ FailFlush(t) \/ FlushAfterFailedShutdown(t)
  \/ FlushNothing(t) \/ RetryFails(t) \/ RetryDelivers(t)

Shutdown(t) ==
  \/ CancelShutdown(t) \/ FailShutdown(t) \/ CompleteShutdown(t)

(* The rest of a call once it has been entered. *)
Finish(t) == Submit(t) \/ Flush(t) \/ Shutdown(t) \/ Abandon(t)

Next ==
  /\ \/ \E t \in Threads : Enter(t) \/ Finish(t)
     \/ Reset
     \/ Rest
  /\ UNCHANGED config

Spec == Init /\ [][Next]_vars

-----------------------------------------------------------------------------
(* Properties *)

Call == [op : Operations \cup {"idle"}, epoch : Nat, n : Nat,
         batch : Seq(Spans), err : Error \cup {None}]

(* Every variable keeps its type. *)
TypeOK ==
  /\ config \in Config
  /\ epoch \in Nat
  /\ recorded \in Seq(Span)
  /\ pending \in Seq(Span)
  /\ dropped \in Seq(Observation)
  /\ errors \in Seq(Error)
  /\ droppedErrHist \in Nat
  /\ dirty \in BOOLEAN
  /\ counts \in [Operations -> Nat]
  /\ lastError \in Error \cup {None}
  /\ lastFlushError \in Error \cup {None}
  /\ lastShutdownErr \in Error \cup {None}
  /\ sequence \in Nat
  /\ shutdown \in BOOLEAN
  /\ call \in [Threads -> Call]
  /\ result \in [Threads -> SUBSET Error]
  /\ reported \in Nat
  /\ discarded \in SUBSET Nat
  /\ acknowledged \in BOOLEAN

StampedOnce(s) ==
  \A i, j \in DOMAIN s : s[i].stamp = s[j].stamp /\ s[i].stamp # 0 => i = j

(* No observation is lost without a trace: every stamp given out since Reset
   is recorded, pending, dropped, or was thrown away by a Shutdown. *)
EveryStampAccounted ==
  Stamps(recorded) \cup Stamps(pending) \cup Stamps(dropped) \cup discarded
    = 1..sequence

(* No observation is in two places or twice in one: a retry moves it out of
   pending, and no stamp is given out twice. *)
NoStampTwice ==
  /\ StampedOnce(recorded) /\ StampedOnce(pending) /\ StampedOnce(dropped)
  /\ Stamps(recorded) \cap Stamps(pending) = {}
  /\ Stamps(recorded) \cap Stamps(dropped) = {}
  /\ Stamps(pending) \cap Stamps(dropped) = {}
  /\ discarded \cap (Stamps(recorded) \cup Stamps(pending) \cup Stamps(dropped))
       = {}

(* The bounded error history loses nothing silently: it holds the newest
   errors, DroppedErrorHistory counts exactly those it evicted, and each
   dropped observation was an error of its own. *)
ErrorHistoryExact ==
  /\ Len(errors) = Smaller(reported, ErrorHistorySize)
  /\ droppedErrHist = reported - Len(errors)
  /\ lastError = IF errors = <<>> THEN None ELSE errors[Len(errors)]
  /\ Len(dropped) <= reported

(* Retries obey the capacity too: recorded never outgrows it. *)
CapacityRespected == config.capacity > 0 => Len(recorded) <= config.capacity

(* Dirty means unfinished work: while spans wait for a retry the state is
   dirty, and a failed Flush is forgotten only by a later one or by a clean
   Shutdown, whatever calls run in between. *)
UnfinishedIsDirty ==
  /\ pending # <<>> => dirty
  /\ lastFlushError # None => dirty \/ acknowledged

(* A shutdown error is only ever held by a state that is shut down: a Shutdown
   overtaken by Reset does not leave its error in the next epoch. *)
ShutdownErrorMeansShutdown == lastShutdownErr # None => shutdown

(* A call that returns nil in its own epoch did its job: the submitted spans
   are recorded; a Flush leaves nothing pending, all it found is recorded,
   and the state is clean. *)
NilMeansDelivered ==
  [][\A t \in Threads :
       /\ call[t].op \in {"record", "export", "flush"}
       /\ call'[t] = Idle
       /\ result'[t] = {}
       /\ Current(t)
       => IF call[t].op = "flush"
          THEN /\ pending' = <<>> /\ ~dirty'
               /\ Stamps(pending) \subseteq Stamps(recorded')
          ELSE recorded' = recorded \o Stamped(call[t].batch)]_vars

(* After Shutdown has started no observation is accepted any more. *)
ClosedAcceptsNothing ==
  [][shutdown /\ epoch' = epoch => sequence' = sequence]_vars

(* A failed Shutdown leaves the state dirty until a Shutdown succeeds. *)
ShutdownFailureStaysDirty == lastShutdownErr # None => dirty

(* Seen through the fate of each stamp, the state is the ledger. *)
FateOf(n) ==
  CASE n \in Stamps(recorded) -> "recorded"
    [] n \in Stamps(pending)  -> "pending"
    [] n \in Stamps(dropped)  -> "dropped"
    [] n \in discarded        -> "discarded"

Ledger == INSTANCE ObservationLedger
            WITH age    <- epoch,
                 fate   <- [n \in 1..sequence |-> FateOf(n)],
                 closed <- shutdown

(* The recorder keeps the promises of the ledger. *)
ImplementsLedger == Ledger!Spec
=============================================================================
