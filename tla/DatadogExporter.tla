-------------------------- MODULE DatadogExporter --------------------------
(***************************************************************************)
(* The delivery engine of the Datadog exporter                             *)
(* (exporter/datadog/exporter.go: Export, Flush, Shutdown and the drain    *)
(* they share).                                                            *)
(*                                                                         *)
(* One mutex is held during a whole call, the HTTP requests and the pauses *)
(* between retries included.  A call that finds it free runs alone until   *)
(* it ends; meanwhile other calls queue up, and any context may end.  Each *)
(* HTTP attempt is one action, whose outcome the network chooses.          *)
(*                                                                         *)
(* Abstracted: the payload is its sequence of observations and its size    *)
(* the sum of theirs; the status codes and transport errors are the three  *)
(* outcomes the code tells apart (transient, permanent, context ended).    *)
(* A request without a good answer may have arrived all the same.          *)
(* Redaction cannot fail here: New leaves the options zero.                *)
(***************************************************************************)
EXTENDS Integers, Sequences, SequencesExt

CONSTANTS
  Callers,          \* goroutines that call the exporter
  Observations,
  Ended,            \* those with a known duration; the others are not sent
  SizeOf,           \* encoded size of each observation
  Batches,          \* what Export is given
  BatchSize, MaxPayloadBytes, MaxRetries,
  MaxAccepted,      \* bound: observations accepted in a behaviour
  None              \* nobody holds the mutex

ASSUME ConstantsAssumption ==
  /\ Ended \subseteq Observations
  /\ SizeOf \in [Observations -> Nat \ {0}]
  /\ Batches \subseteq Seq(Observations)
  /\ BatchSize \in Nat \ {0}
  /\ MaxPayloadBytes \in Nat \ {0}
  /\ MaxRetries \in Nat
  /\ MaxAccepted \in Nat
  /\ None \notin Callers

Operations == {"export", "flush", "shutdown"}

Error == [operation : Operations \cup {"batch"},
          classification : {"exporter_closed", "payload_too_large",
                            "context", "transient", "permanent"},
          retryable : BOOLEAN, dropped : BOOLEAN]

(* Every accepted observation carries a tag, for the properties only. *)
Item == [obs : Observations, tag : Nat]

VARIABLES
  pending,          \* observations not yet delivered, in order
  shutdown,
  lastShutdownErr,  \* a set of errors, as every result; {} is nil
  lock,             \* the caller that holds mu
  drain,            \* its progress: the groups left, what was delivered,
                    \* the attempt it is at, whether it pauses
  call,             \* operation and batch of each caller
  ended,            \* callers whose context has ended
  result,           \* of the last call to return, until another begins
  accepted,         \* history: observations ever put into pending
  acked,            \* history: tags answered with 2xx, in order
  received          \* history: tags that reached the intake

queue == <<pending, accepted, acked, received>>
vars  == <<queue, shutdown, lastShutdownErr, lock, drain, call, ended, result>>

Idle    == [op |-> "idle", batch |-> <<>>]
NoDrain == [groups |-> <<>>, delivered |-> {}, attempt |-> 0, paused |-> FALSE]

-----------------------------------------------------------------------------
(* Helpers *)

Err(op, class, retry, drop) ==
  [operation |-> op, classification |-> class,
   retryable |-> retry, dropped |-> drop]

(* The context check of drainLocked, an aborted pause or an aborted request. *)
ContextError(op) == Err(op, "context", FALSE, FALSE)

Tags(s) == {s[i].tag : i \in DOMAIN s}

Bytes(s) ==
  LET sum[i \in 0..Len(s)] == IF i = 0 THEN 0 ELSE sum[i - 1] + SizeOf[s[i].obs]
  IN  sum[Len(s)]

Oversize(item)  == item.obs \in Ended /\ Bytes(<<item>>) > MaxPayloadBytes
Shippable(item) == item.obs \in Ended /\ Bytes(<<item>>) <= MaxPayloadBytes

Tagged(batch) ==
  [i \in 1..Len(batch) |-> [obs |-> batch[i], tag |-> accepted + i]]

(* The elements of s that are in S, in their order. *)
Among(s, S) ==
  LET upTo[n \in 0..Len(s)] ==
        IF n = 0 THEN <<>>
        ELSE IF s[n] \in S THEN Append(upTo[n - 1], s[n]) ELSE upTo[n - 1]
  IN  upTo[Len(s)]

Shippables == {item \in Item : Shippable(item)}

(* Slip: > for >= in the comparison with the batch size. *)
FitsOneMore(group, item) ==
  /\ Len(group) <= BatchSize
  /\ Bytes(Append(group, item)) <= MaxPayloadBytes

(* A group takes one more item if neither limit is exceeded. *)
Fits(group, item) ==
  /\ Len(group) < BatchSize
  /\ Bytes(Append(group, item)) <= MaxPayloadBytes

(* Slip: the item that does not fit is lost with the group it closes. *)
PlacedLossy(groups, item) ==
  IF groups = <<>> THEN <<<<item>>>>
  ELSE IF Fits(Last(groups), item)
       THEN [groups EXCEPT ![Len(groups)] = Append(@, item)]
       ELSE Append(groups, <<>>)

(* An item goes into the last group or begins a group of its own. *)
Placed(groups, item) ==
  IF groups # <<>> /\ Fits(Last(groups), item)
  THEN [groups EXCEPT ![Len(groups)] = Append(@, item)]
  ELSE Append(groups, <<item>>)

(* The groups of a sequence of items, none of which is too large by itself. *)
Groups(s) ==
  LET upTo[n \in 0..Len(s)] ==
        IF n = 0 THEN <<>> ELSE Placed(upTo[n - 1], s[n])
  IN  upTo[Len(s)]

(* splitPayloadGroups, in order; an item too large for any group is left out. *)
Grouped(items) == Groups(Among(items, Shippables))

(* Slip: what was left out is not reported. *)
NoBatchErrs(items) == {}

(* batchErr of splitPayloadGroups. *)
BatchErrs(items) ==
  IF \E i \in DOMAIN items : Oversize(items[i])
  THEN {Err("batch", "payload_too_large", FALSE, TRUE)} ELSE {}

(* Slip: what was delivered stays pending. *)
CompactSkipped(items, delivered) == Among(items, Shippables)

(* compactPending: drops what was skipped and what was delivered. *)
Compact(items, delivered) ==
  Among(items, {item \in Shippables : item.tag \notin delivered})

(* Slip: every failed drain empties pending. *)
KeptNothing(err) == <<>>

(* What stays pending when a group fails: nothing unless it may be retried. *)
Kept(err) ==
  IF err.retryable THEN Compact(pending, drain.delivered) ELSE <<>>

-----------------------------------------------------------------------------
(* Calls *)

Begin(c) ==
  /\ call[c] = Idle
  /\ \/ \E batch \in Batches :
          /\ accepted + Len(batch) <= MaxAccepted
          /\ call' = [call EXCEPT ![c] = [op |-> "export", batch |-> batch]]
     \/ \E op \in {"flush", "shutdown"} :
          call' = [call EXCEPT ![c] = [op |-> op, batch |-> <<>>]]
  /\ result' = {}
  /\ UNCHANGED <<queue, shutdown, lastShutdownErr, lock, drain, ended>>

(* The context of a call is canceled or its deadline passes. *)
EndContext(c) ==
  /\ call[c] # Idle
  /\ c \notin ended
  /\ ended' = ended \cup {c}
  /\ UNCHANGED <<queue, shutdown, lastShutdownErr, lock, drain, call, result>>

Leave(c, errs) ==
  /\ call' = [call EXCEPT ![c] = Idle]
  /\ ended' = ended \ {c}
  /\ result' = errs
  /\ lock' = None
  /\ drain' = NoDrain

(* The end of a drain: rest stays pending, Shutdown stores its error. *)
Finish(c, errs, rest) ==
  /\ Leave(c, errs)
  /\ pending' = rest
  /\ lastShutdownErr' = IF call[c].op = "shutdown" THEN errs
                        ELSE lastShutdownErr

Acquires(c) == call[c] # Idle /\ lock = None

ExportClosed(c) ==
  /\ Acquires(c) /\ shutdown
  /\ call[c].op = "export"
  /\ Leave(c, {Err("export", "exporter_closed", FALSE, TRUE)})
  /\ UNCHANGED <<queue, shutdown, lastShutdownErr>>

(* Flush and Shutdown after Shutdown report its error, nothing is sent. *)
AnswerClosed(c) ==
  /\ Acquires(c) /\ shutdown
  /\ call[c].op \in {"flush", "shutdown"}
  /\ Leave(c, lastShutdownErr)
  /\ UNCHANGED <<queue, shutdown, lastShutdownErr>>

(* Slip: Flush drains also after Shutdown. *)
EntersAfterShutdown(c) ==
  /\ Acquires(c)
  /\ ~shutdown \/ call[c].op = "flush"
  /\ shutdown' = (shutdown \/ call[c].op = "shutdown")
  /\ accepted' = accepted + Len(call[c].batch)

(* An open exporter takes the batch in before anything else. *)
Enters(c) ==
  /\ Acquires(c)
  /\ ~shutdown
  /\ shutdown' = (call[c].op = "shutdown")
  /\ accepted' = accepted + Len(call[c].batch)

Taken(c) == pending \o Tagged(call[c].batch)

DrainCanceled(c) ==
  /\ Enters(c)
  /\ c \in ended
  /\ Finish(c, {ContextError(call[c].op)}, Taken(c))
  /\ UNCHANGED <<acked, received>>

DrainNothing(c) ==
  /\ Enters(c)
  /\ c \notin ended
  /\ Grouped(Taken(c)) = <<>>
  /\ Finish(c, BatchErrs(Taken(c)), Compact(Taken(c), {}))
  /\ UNCHANGED <<acked, received>>

DrainStarts(c) ==
  /\ Enters(c)
  /\ c \notin ended
  /\ Grouped(Taken(c)) # <<>>
  /\ pending' = Taken(c)
  /\ lock' = c
  /\ drain' = [NoDrain EXCEPT !.groups = Grouped(Taken(c)), !.attempt = 1]
  /\ call' = [call EXCEPT ![c].batch = <<>>]
  /\ UNCHANGED <<acked, received, lastShutdownErr, ended, result>>

-----------------------------------------------------------------------------
(* The holder of the mutex sends one group after the other. *)

Sending(c) == lock = c /\ ~drain.paused

(* A request whose response is lost, late or bad. *)
Attempted ==
  received' \in {received, received \cup Tags(Head(drain.groups))}

(* 2xx *)
Delivered(c) ==
  LET sent      == Head(drain.groups)
      delivered == drain.delivered \cup Tags(sent)
  IN  /\ Sending(c)
      /\ c \notin ended
      /\ acked' = acked \o [i \in DOMAIN sent |-> sent[i].tag]
      /\ received' = received \cup Tags(sent)
      /\ IF Len(drain.groups) > 1
         THEN /\ drain' = [drain EXCEPT !.groups = Tail(@), !.attempt = 1,
                                        !.delivered = delivered]
              /\ UNCHANGED <<pending, lastShutdownErr, lock, call, ended,
                             result>>
         ELSE Finish(c, BatchErrs(pending), Compact(pending, delivered))
      /\ UNCHANGED <<shutdown, accepted>>

(* A group failed for good. *)
Abort(c, err) ==
  /\ Finish(c, {err}, Kept(err))
  /\ IF drain.paused THEN UNCHANGED received ELSE Attempted
  /\ UNCHANGED <<shutdown, accepted, acked>>

(* Slip: one attempt too many. *)
PauseOnceMore(c) ==
  /\ Sending(c)
  /\ c \notin ended
  /\ drain.attempt <= MaxRetries + 1
  /\ drain' = [drain EXCEPT !.paused = TRUE]
  /\ Attempted
  /\ UNCHANGED <<pending, accepted, acked, shutdown, lastShutdownErr, lock,
                 call, ended, result>>

(* 408, 429, 5xx, a timeout or a temporary error: the next attempt follows a
   pause. *)
Pause(c) ==
  /\ Sending(c)
  /\ c \notin ended
  /\ drain.attempt <= MaxRetries
  /\ drain' = [drain EXCEPT !.paused = TRUE]
  /\ Attempted
  /\ UNCHANGED <<pending, accepted, acked, shutdown, lastShutdownErr, lock,
                 call, ended, result>>

(* The same, and no attempt is left. *)
Exhausted(c) ==
  /\ Sending(c)
  /\ c \notin ended
  /\ drain.attempt > MaxRetries
  /\ Abort(c, Err(call[c].op, "transient", TRUE, FALSE))

(* Another status or transport error. *)
Refused(c) ==
  /\ Sending(c)
  /\ Abort(c, Err(call[c].op, "permanent", FALSE, TRUE))

(* The context ends during a request or during the pause after one. *)
Interrupted(c) ==
  /\ lock = c
  /\ c \in ended
  /\ Abort(c, ContextError(call[c].op))

(* Slip: the retry is not counted. *)
ResumeUncounted(c) ==
  /\ lock = c
  /\ drain.paused
  /\ drain' = [drain EXCEPT !.paused = FALSE]
  /\ UNCHANGED <<queue, shutdown, lastShutdownErr, lock, call, ended, result>>

(* The pause is over, or its delay is not positive. *)
Resume(c) ==
  /\ lock = c
  /\ drain.paused
  /\ drain' = [drain EXCEPT !.paused = FALSE, !.attempt = @ + 1]
  /\ UNCHANGED <<queue, shutdown, lastShutdownErr, lock, call, ended, result>>

-----------------------------------------------------------------------------
Init ==
  /\ pending = <<>> /\ accepted = 0 /\ acked = <<>> /\ received = {}
  /\ shutdown = FALSE
  /\ lastShutdownErr = {}
  /\ lock = None
  /\ drain = NoDrain
  /\ call = [c \in Callers |-> Idle]
  /\ ended = {}
  /\ result = {}

Enter(c) ==
  \/ ExportClosed(c) \/ AnswerClosed(c)
  \/ DrainCanceled(c) \/ DrainNothing(c) \/ DrainStarts(c)

Send(c) ==
  \/ Delivered(c) \/ Pause(c) \/ Exhausted(c) \/ Refused(c)
  \/ Interrupted(c) \/ Resume(c)

Next == \E c \in Callers : Begin(c) \/ EndContext(c) \/ Enter(c) \/ Send(c)

Spec == Init /\ [][Next]_vars

(* Every request ends (Timeout > 0) and so does every pause; sync.Mutex
   starves no goroutine. *)
Fairness == \A c \in Callers : WF_vars(Send(c)) /\ SF_vars(Enter(c))

FairSpec == Spec /\ Fairness

-----------------------------------------------------------------------------
(* Properties *)

(* Every variable keeps its type; no request is sent more than MaxRetries + 1
   times. *)
TypeOK ==
  /\ pending \in Seq(Item)
  /\ accepted \in Nat
  /\ acked \in Seq(Nat)
  /\ received \subseteq 1..accepted
  /\ shutdown \in BOOLEAN
  /\ lastShutdownErr \in SUBSET Error
  /\ lock \in Callers \cup {None}
  /\ drain \in [groups : Seq(Seq(Item)), delivered : SUBSET Nat,
                attempt : 0..(MaxRetries + 1), paused : BOOLEAN]
  /\ call \in [Callers -> [op : Operations \cup {"idle"},
                           batch : Seq(Observations)]]
  /\ ended \in SUBSET Callers
  /\ result \in SUBSET Error

(* While a drain is on the network, what it still has to send is exactly what
   is pending and undelivered: nobody changes the queue under it. *)
DrainMatchesQueue ==
  lock # None =>
    FlattenSeq(drain.groups) = Compact(pending, drain.delivered)

(* Every request respects both limits, and none is empty. *)
WithinLimits ==
  \A i \in DOMAIN drain.groups :
    /\ Len(drain.groups[i]) \in 1..BatchSize
    /\ Bytes(drain.groups[i]) <= MaxPayloadBytes

Returns(c) == call[c] # Idle /\ call'[c] = Idle

(* A call that returns nil delivered everything that had ended, what earlier
   calls left pending included. *)
NilMeansDelivered ==
  [][\A c \in Callers :
       Returns(c) /\ result' = {}
       => /\ pending' = <<>>
          /\ \A i \in DOMAIN Taken(c) :
               Taken(c)[i].obs \in Ended => Taken(c)[i].tag \in Range(acked')
    ]_vars

(* An observation that had ended leaves pending undelivered only by an error
   that is not retryable, or because it is too large for any request. *)
LossIsReported ==
  [][\A i \in DOMAIN pending :
       /\ Shippable(pending[i])
       /\ pending[i].tag \notin Tags(pending')
       /\ pending[i].tag \notin Range(acked')
       => \E c \in Callers : /\ Returns(c)
                             /\ \E e \in result' : ~e.retryable]_vars

(* Once Shutdown has returned nothing is sent, accepted or forgotten. *)
ClosedIsSilent ==
  [][shutdown /\ lock = None
       => UNCHANGED <<queue, lastShutdownErr, shutdown, drain>>]_vars

(* What DeliveryQueue calls waiting: undelivered, and small enough to send. *)
Waiting ==
  {pending[i].tag : i \in {j \in DOMAIN pending : Shippable(pending[j])}}
    \ drain.delivered

Queue == INSTANCE DeliveryQueue WITH
  waiting <- Waiting,
  arrived <- received,
  acked   <- Range(acked)

(* Across failed drains, lost responses, retries and whoever flushes,
   observations reach the intake in the order of acceptance, at least once if
   they are acknowledged, and never again afterwards. *)
ImplementsQueue == Queue!Spec

(* Every call returns, also while others keep calling. *)
EveryCallReturns ==
  \A c \in Callers : call[c] # Idle ~> call[c] = Idle

(* What is lost is lost with an error that says so. *)
LossSaysDropped ==
  [][\A i \in DOMAIN pending :
       /\ pending[i].obs \in Ended
       /\ pending[i].tag \notin Tags(pending')
       /\ pending[i].tag \notin Range(acked')
       => \E c \in Callers : /\ Returns(c)
                             /\ \E e \in result' : e.dropped]_vars
=============================================================================
