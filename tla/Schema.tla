------------------------------- MODULE Schema -------------------------------
(***************************************************************************)
(* The normalized model of spans and events (internal/model): what its     *)
(* validation asks of them, how errors are normalized, and how a public    *)
(* Observation becomes a span or an event (internal/recorder/state.go).    *)
(*                                                                         *)
(* Validation is the set of its complaints, one name for each message.     *)
(* An attribute is a pair of its type and its value; "" is an absent       *)
(* string, time 0 the zero time, NoError a nil error; an optional flag is  *)
(* the set of its values, empty for a nil pointer.  An id is the sequence  *)
(* of its parts, <<>> if it is absent.  The checks of names and of UTC are *)
(* left out: the helpers give every span a name, NewSpan, NewEvent and the *)
(* conversions call UTC().  So are two rules about pointers, that every    *)
(* error says whether it is retryable and an observation.error whether it  *)
(* was dropped: a converted error says both (boolPtr).  And so is the rule *)
(* that a redaction.applied event has records: no helper makes that event, *)
(* and observations carry no records here.                                 *)
(***************************************************************************)
EXTENDS Integers, Sequences, FiniteSetsExt

(* A map with one entry, and what f says, or g where f says nothing. *)
Only(key, value) == [k \in {key} |-> value]
Over(f, g) ==
  [k \in DOMAIN f \cup DOMAIN g |-> IF k \in DOMAIN f THEN f[k] ELSE g[k]]

NoAttributes == [k \in {} |-> k]
NoID == <<>>

Text(v) == <<"string", v>>
Int64(n) == <<"int64", n>>
Flag(b) == <<"bool", b>>

NoError == [operation |-> ""]

FirstNonEmpty(value, other) == IF value # "" THEN value ELSE other

-----------------------------------------------------------------------------
(* Validation *)

SpanKinds == {"session", "run", "model_call", "stream", "tool_call",
              "export_flush", "export_shutdown"}

Statuses == {"ok", "error", "canceled"}

StreamEvents    == {"stream.chunk", "stream.first_token"}
ToolEventNames  == {"tool.registered", "tool.materialized", "tool.settled"}
ErrorEvents     == {"error", "observation.error"}
LifecycleEvents == {"retry", "compaction", "interrupt", "resume", "cancellation"}

EventNames == StreamEvents \cup ToolEventNames \cup ErrorEvents
                \cup {"redaction.applied"} \cup LifecycleEvents

CategoryOf ==
  [name \in EventNames |->
     CASE name \in StreamEvents    -> "stream"
       [] name \in ToolEventNames  -> "tool"
       [] name \in ErrorEvents     -> "error"
       [] name \in LifecycleEvents -> "lifecycle"
       [] OTHER                    -> "redaction"]

ReasonKey ==
  [compaction |-> "compaction.reason", interrupt |-> "interrupt.reason",
   resume |-> "resume.reason", cancellation |-> "cancellation.reason"]

Complaint(condition, message) == IF condition THEN {message} ELSE {}

HasTyped(attrs, type, keys) ==
  \A key \in keys : key \in DOMAIN attrs /\ attrs[key][1] = type

HasText(attrs, keys)  == HasTyped(attrs, "string", keys)
HasInt64(attrs, keys) == HasTyped(attrs, "int64", keys)

OptionalInt64(attrs, keys) == HasInt64(attrs, keys \cap DOMAIN attrs)

IdentityComplaints(o) ==
  Complaint(o.id = NoID, "observation id") \cup Complaint(o.trace = "", "trace id")

AttributeComplaints(attrs) ==
  Complaint(\E key \in DOMAIN attrs : attrs[key][1] \notin {"string", "int64", "bool"},
            "attribute type")

ErrorComplaints(error) ==
  Complaint(error.operation = "", "error operation") \cup
  Complaint(error.classification = "", "error classification") \cup
  Complaint(error.canceled = {TRUE} /\ error.retryable, "retryable canceled error")

(* validateTerminalErrorFlags *)
CanceledFlagComplaints(status, error) ==
  Complaint(status = "canceled" /\ error.canceled # {TRUE}, "error.canceled") \cup
  Complaint(status = "canceled" /\ error.retryable, "error.retryable")

ModelCounters ==
  {"genai.usage.input_tokens", "genai.usage.output_tokens",
   "genai.usage.total_tokens", "genai.usage.reasoning_tokens",
   "genai.usage.cached_input_tokens", "genai.latency.first_token_ms",
   "genai.latency.total_ms", "genai.retry.attempt"}

ToolTexts == {"tool.name", "tool.call_id", "tool.kind", "tool.status"}

SpanAttributesComplete(span) ==
  /\ span.kind \in {"model_call", "stream"} =>
       /\ HasText(span.attrs, {"genai.provider", "genai.model"})
       /\ OptionalInt64(span.attrs, ModelCounters)
  /\ span.kind = "tool_call" =>
       /\ HasText(span.attrs, ToolTexts)
       /\ span.end # 0 => HasInt64(span.attrs, {"tool.latency.ms"})

EventAttributesComplete(event) ==
  /\ event.name = "stream.chunk" =>
       HasInt64(event.attrs, {"stream.chunk.index"})
  /\ event.name = "stream.first_token" =>
       HasInt64(event.attrs, {"genai.latency.first_token_ms"})
  /\ event.name = "tool.registered" =>
       HasText(event.attrs, ToolTexts \ {"tool.call_id"})
  /\ event.name \in {"tool.materialized", "tool.settled"} =>
       HasText(event.attrs, ToolTexts)
  /\ event.name = "retry" =>
       /\ HasInt64(event.attrs, {"retry.attempt"})
       /\ HasText(event.attrs, {"retry.reason"})
  /\ event.name \in DOMAIN ReasonKey =>
       HasText(event.attrs, {ReasonKey[event.name]})

ToolStatus(attrs) ==
  IF "tool.status" \in DOMAIN attrs THEN attrs["tool.status"][2] ELSE ""

(* validateToolTerminalError *)
ToolErrorComplaints(error, canceled) ==
  IF error = NoError THEN {"tool error"}
  ELSE Complaint(error.operation # "tool_call", "tool error operation") \cup
       ErrorComplaints(error) \cup
       CanceledFlagComplaints(IF canceled THEN "canceled" ELSE "ok", error)

(* How a finished tool call or a settled tool ended. *)
SettledComplaints(status, error) ==
  CASE status \in {"", "succeeded"} -> {}
    [] status = "failed"   -> ToolErrorComplaints(error, FALSE)
    [] status = "canceled" -> ToolErrorComplaints(error, TRUE)
    [] OTHER -> {"tool status"}

ToolSpanComplaints(span) ==
  IF span.kind # "tool_call" THEN {}
  ELSE IF span.end = 0
  THEN Complaint(ToolStatus(span.attrs) \notin {"", "started"}, "tool status")
  ELSE SettledComplaints(ToolStatus(span.attrs), span.error)

ToolEventComplaints(event) ==
  LET status == ToolStatus(event.attrs)
  IN  CASE event.name = "tool.registered" ->
             Complaint(status \notin {"", "registered"}, "tool status")
        [] event.name = "tool.materialized" ->
             Complaint(status \notin {"", "materialized"}, "tool status")
        [] event.name = "tool.settled" -> SettledComplaints(status, event.error)
        [] OTHER -> {}

EventErrorComplaints(event) ==
  IF /\ event.name \in ErrorEvents \cup {"cancellation"}
     /\ event.error = NoError
  THEN {"event error"}
  ELSE IF event.name = "cancellation"
  THEN CanceledFlagComplaints("canceled", event.error)
  ELSE {}

(* Event.Validate *)
EventComplaints(event) ==
  IdentityComplaints(event) \cup
  AttributeComplaints(event.attrs) \cup
  Complaint(event.name \notin EventNames, "event name") \cup
  Complaint(event.at = 0, "event timestamp") \cup
  Complaint(event.status \notin Statuses \cup {""}, "event status") \cup
  (IF event.error = NoError THEN {} ELSE ErrorComplaints(event.error)) \cup
  Complaint(~EventAttributesComplete(event), "event attributes") \cup
  ToolEventComplaints(event) \cup
  EventErrorComplaints(event)

(* Span.Validate *)
SpanComplaints(span) ==
  IdentityComplaints(span) \cup
  AttributeComplaints(span.attrs) \cup
  Complaint(span.kind \notin SpanKinds, "span kind") \cup
  Complaint(span.status \notin Statuses, "span status") \cup
  Complaint(span.start = 0, "start time") \cup
  Complaint(span.end # 0 /\ span.end < span.start, "end before start") \cup
  (IF span.error = NoError
   THEN Complaint(span.status \in {"error", "canceled"}, "span error")
   ELSE ErrorComplaints(span.error) \cup
        CanceledFlagComplaints(span.status, span.error)) \cup
  Complaint(~SpanAttributesComplete(span), "span attributes") \cup
  ToolSpanComplaints(span) \cup
  UNION {EventComplaints(span.events[i]) : i \in DOMAIN span.events}

-----------------------------------------------------------------------------
(* Conversion of a public Observation *)

(* Only the attribute says that an error is a cancellation: the public error
   has no such field. *)
ToModelError(o) ==
  IF o.error = NoError THEN NoError
  ELSE [operation      |-> o.error.operation,
        classification |-> o.error.classification,
        retryable      |-> o.error.retryable,
        dropped        |-> o.error.dropped,
        canceled       |-> IF "error.canceled" \in DOMAIN o.attrs
                           THEN {o.attrs["error.canceled"][2]} ELSE {}]

(* publicObservationToEvent *)
ToEvent(o) ==
  [id |-> o.id, parent |-> o.parent, trace |-> o.trace, name |-> o.kind,
   status |-> o.status, at |-> o.start, attrs |-> o.attrs,
   error |-> ToModelError(o)]

(* PublicObservationToSpan *)
ToSpan(o) ==
  [id |-> o.id, parent |-> o.parent, trace |-> o.trace, kind |-> o.kind,
   status |-> o.status, start |-> o.start, end |-> o.end, attrs |-> o.attrs,
   error |-> ToModelError(o),
   events |-> [i \in DOMAIN o.events |-> ToEvent(o.events[i])]]
=============================================================================
