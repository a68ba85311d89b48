----------------------------- MODULE MCObserver -----------------------------
(***************************************************************************)
(* Constants for model checking Observer.                                  *)
(***************************************************************************)
EXTENDS Observer, TLC

CallerSymmetry == Permutations(Callers)

With(exporter, invalid, redactionFails) ==
  [exporter |-> exporter, configErr |-> invalid,
   redactionFails |-> redactionFails]

AllConfigs == {With("no_network", FALSE, FALSE), With("custom", FALSE, FALSE),
               With("no_network", TRUE, FALSE), With("no_network", FALSE, TRUE)}

NoNetwork == {With("no_network", FALSE, FALSE)}
=============================================================================
