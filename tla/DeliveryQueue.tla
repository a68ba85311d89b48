--------------------------- MODULE DeliveryQueue ---------------------------
(***************************************************************************)
(* What an exporter over a network promises about the observations it      *)
(* accepted: they reach the intake in order and at least once.             *)
(*                                                                         *)
(* Observations are numbered as they are accepted.  A request carries the  *)
(* first of those that wait.  Whatever becomes of its response, it may     *)
(* have arrived, and arrive again with the next request; once it is        *)
(* acknowledged it is never sent again.  Observations leave the queue      *)
(* when they are acknowledged, or all at once when the exporter gives up.  *)
(* An accepted observation that can never be sent does not wait at all.    *)
(***************************************************************************)
EXTENDS Naturals

VARIABLES
  accepted,   \* how many were accepted
  waiting,    \* those still to be delivered
  arrived,    \* those the intake has received, once or more
  acked       \* those it has acknowledged

vars == <<accepted, waiting, arrived, acked>>

FirstOfWaiting(request) ==
  /\ request \subseteq waiting
  /\ request # {}
  /\ \A sent \in request, later \in waiting \ request : sent < later

Accept ==
  /\ accepted' \in Nat /\ accepted' >= accepted
  /\ waiting \subseteq waiting'
  /\ waiting' \ waiting \subseteq accepted + 1 .. accepted'
  /\ UNCHANGED <<arrived, acked>>

Acknowledge(request) ==
  /\ FirstOfWaiting(request)
  /\ arrived' = arrived \cup request
  /\ acked' = acked \cup request
  /\ waiting' = waiting \ request
  /\ UNCHANGED accepted

(* No response, or one that asks to try again. *)
Arrive(request) ==
  /\ FirstOfWaiting(request)
  /\ arrived' = arrived \cup request
  /\ UNCHANGED <<accepted, waiting, acked>>

(* The request may have been the last one. *)
GiveUp(request) ==
  /\ request = {} \/ FirstOfWaiting(request)
  /\ arrived' = arrived \cup request
  /\ waiting' = {}
  /\ UNCHANGED <<accepted, acked>>

Init ==
  /\ accepted = 0
  /\ waiting = {} /\ arrived = {} /\ acked = {}

Next ==
  \/ Accept
  \/ \E request \in SUBSET waiting :
       Acknowledge(request) \/ Arrive(request) \/ GiveUp(request)

Spec == Init /\ [][Next]_vars
=============================================================================
