-------------------------- MODULE MCRecorderState --------------------------
(***************************************************************************)
(* Constants for model checking RecorderState.                             *)
(***************************************************************************)
EXTENDS RecorderState, TLC

CONSTANT a

(* Goroutines are interchangeable; sound where no liveness is checked. *)
ThreadSymmetry == Permutations(Threads)

At(n, class, retry, drop) ==
  [atCall |-> n, classification |-> class, retryable |-> retry,
   dropped |-> drop]

NoFailures == [op \in Injectable |-> <<>>]

(* The first export may be retried, the third is refused: it is a Flush's
   retry, since callers export twice.  The second Flush fails. *)
FailingExports ==
  [NoFailures EXCEPT
     !["export"] = <<At(1, "transport", TRUE, FALSE),
                     At(3, "status", FALSE, FALSE)>>,
     !["flush"]  = <<At(2, "injected_failure", TRUE, FALSE)>>]

(* The first two exports may be retried, the first Shutdown fails. *)
FailingShutdown ==
  [NoFailures EXCEPT
     !["export"]   = <<At(1, "transport", TRUE, FALSE),
                       At(2, "transport", TRUE, FALSE)>>,
     !["shutdown"] = <<At(1, "injected_failure", TRUE, FALSE)>>]

(* The second export is refused for good. *)
RefusedExport ==
  [NoFailures EXCEPT !["export"] = <<At(2, "status", FALSE, FALSE)>>]

(* Every export and every retry of a Flush may be retried: the rule for call 1
   is never reached, since the first rule wins. *)
AlwaysRetryable ==
  [NoFailures EXCEPT
     !["export"] = <<At(0, "transport", TRUE, FALSE),
                     At(1, "status", FALSE, TRUE)>>]

Recorder(capacity, invalid) ==
  [operations |-> {"record", "flush", "shutdown"}, capacity |-> capacity,
   failures |-> NoFailures, redactionFails |-> invalid]

Exporter(capacity, failures, invalid) ==
  [operations |-> {"export", "flush", "shutdown"}, capacity |-> capacity,
   failures |-> failures, redactionFails |-> invalid]

AllConfigs ==
  {Recorder(1, FALSE), Recorder(0, TRUE),
   Exporter(2, FailingExports, FALSE), Exporter(0, FailingShutdown, FALSE),
   Exporter(1, RefusedExport, FALSE), Exporter(0, AlwaysRetryable, FALSE),
   Exporter(0, NoFailures, TRUE)}

RetryingExporter  == {Exporter(0, AlwaysRetryable, FALSE)}
PlainExporter     == {Exporter(0, NoFailures, FALSE)}

OneSpan == {<<a>>}
EmptyOrTwo == {<<>>, <<a, a>>}

Budget(r, e, f, s) ==
  [record |-> r, export |-> e, flush |-> f, shutdown |-> s]

(* Two Flushes, so that one may follow or overlap a failed one. *)
ManyCalls == Budget(2, 2, 2, 2)
=============================================================================
