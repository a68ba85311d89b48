------------------------- MODULE MCDatadogExporter -------------------------
(***************************************************************************)
(* Constants for model checking DatadogExporter.                           *)
(***************************************************************************)
EXTENDS DatadogExporter, TLC

CONSTANTS a, b, big, open

(* Callers are interchangeable; sound where no liveness is checked. *)
CallerSymmetry == Permutations(Callers)

(* a and b together are too large for a request, as is big alone; open has
   not ended.  A retained batch and a new one also hit the batch size. *)
Sizes == (a :> 1) @@ (b :> 3) @@ (big :> 4) @@ (open :> 1)

AllEnded  == {a, b, big}

MixedBatches == {<<a, big, a>>, <<open, a, b>>}
TwoRequests  == {<<a, b>>}
LargeBatches == {<<a, big>>}
=============================================================================
