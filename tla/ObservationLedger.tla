------------------------- MODULE ObservationLedger -------------------------
(***************************************************************************)
(* What the in-memory recorder promises about the observations it stamped, *)
(* whatever goroutines do: each stamp, from 1 on without gaps, has one     *)
(* fate.  An observation may wait for a retry; once recorded, dropped or   *)
(* discarded its fate never changes, and only a new epoch forgets it.      *)
(* Discarding happens only when the recorder is closed, to everything that *)
(* waits, all at once.                                                     *)
(***************************************************************************)
EXTENDS Integers, Sequences

VARIABLES
  age,     \* number of times the ledger was wiped
  fate,    \* fate of each stamp given out since then
  closed

ledger == <<age, fate, closed>>

Fates == {"pending", "recorded", "dropped", "discarded"}

Waiting(n) == fate[n] = "pending"

Init == age = 0 /\ fate = <<>> /\ closed = FALSE

(* A batch gets the next stamps; it is not discarded on arrival. *)
Accept ==
  /\ DOMAIN fate # DOMAIN fate'
  /\ DOMAIN fate \subseteq DOMAIN fate'
  /\ \A n \in DOMAIN fate : fate'[n] = fate[n]
  /\ \A n \in DOMAIN fate' \ DOMAIN fate :
       fate'[n] \in {"pending", "recorded", "dropped"}
  /\ UNCHANGED <<age, closed>>

(* A retry settles everything that waits. *)
Settle ==
  /\ DOMAIN fate' = DOMAIN fate
  /\ \A n \in DOMAIN fate :
       IF Waiting(n) THEN fate'[n] \in {"recorded", "dropped"}
                     ELSE fate'[n] = fate[n]
  /\ UNCHANGED <<age, closed>>

Close == closed' = TRUE /\ UNCHANGED <<age, fate>>

Discard ==
  /\ closed
  /\ fate' = [n \in DOMAIN fate |->
                IF Waiting(n) THEN "discarded" ELSE fate[n]]
  /\ UNCHANGED <<age, closed>>

Wipe == age' = age + 1 /\ fate' = <<>> /\ closed' = FALSE

Next == Accept \/ Settle \/ Close \/ Discard \/ Wipe

Spec == Init /\ [][Next]_ledger
=============================================================================
