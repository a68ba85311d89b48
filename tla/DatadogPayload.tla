--------------------------- MODULE DatadogPayload ---------------------------
(***************************************************************************)
(* What the Datadog exporter makes of a normalized span                    *)
(* (exporter/datadog/payload.go).                                          *)
(*                                                                         *)
(* Left out: names, redaction records, the message of an error, and the    *)
(* names of service and application, which are alike in every span.        *)
(* Every attribute of the schema has a type that jsonSafeValue accepts.    *)
(***************************************************************************)
EXTENDS Schema

MetricOf ==
  Over(Only("genai.usage.input_tokens", "input_tokens"),
  Over(Only("genai.usage.output_tokens", "output_tokens"),
       Only("genai.usage.total_tokens", "total_tokens")))

datadogKind(kind) ==
  CASE kind = "run" -> "workflow"
    [] kind \in {"model_call", "stream"} -> "llm"
    [] kind = "tool_call" -> "tool"
    [] kind \in {"export_flush", "export_shutdown"} -> "task"
    [] OTHER -> kind

(* addErrorMeta: a flag that is unset has no entry. *)
ErrorMeta(error) ==
  IF error = NoError THEN NoAttributes
  ELSE Over(Only("error.operation", Text(error.operation)),
       Over(Only("error.classification", Text(error.classification)),
       Over(Only("error.retryable", Flag(error.retryable)),
       Over(Only("error.dropped", Flag(error.dropped)),
            IF error.canceled = {} THEN NoAttributes
            ELSE Only("error.canceled", Flag(TRUE \in error.canceled))))))

(* Attributes that are no metrics keep their names; the error has the last
   word. *)
Meta(span) ==
  Over(ErrorMeta(span.error),
  Over([key \in DOMAIN span.attrs \ DOMAIN MetricOf |-> span.attrs[key]],
  Over(Only("kind", Text(datadogKind(span.kind))),
  Over(Only("obs.kind", Text(span.kind)),
       Only("status", Text(span.status))))))

Metrics(span) ==
  LET known == DOMAIN span.attrs \cap DOMAIN MetricOf
  IN  [metric \in {MetricOf[key] : key \in known} |->
         span.attrs[CHOOSE key \in known : MetricOf[key] = metric]]

(* Slip: the event that ended the stream is left behind. *)
MapEventsButLast(events) ==
  [i \in 1..(Len(events) - 1) |->
     [id |-> events[i].id, parent |-> events[i].parent,
      trace |-> events[i].trace, name |-> events[i].name,
      at |-> events[i].at,
      meta |-> Over(ErrorMeta(events[i].error), events[i].attrs)]]

(* An event keeps all its attributes, its status and its category. *)
EventMeta(event) ==
  Over(ErrorMeta(event.error),
  Over(event.attrs,
  Over(Only("obs.name", Text(event.name)),
  Over(Only("obs.kind", Text(CategoryOf[event.name])),
       Only("obs.status", Text(event.status))))))

MapEvents(events) ==
  [i \in DOMAIN events |->
     [id |-> events[i].id, parent |-> events[i].parent,
      trace |-> events[i].trace, name |-> events[i].name,
      at |-> events[i].at, meta |-> EventMeta(events[i])]]

(* A span without a duration is not sent. *)
MapSpan(span) ==
  IF span.end = 0 THEN <<>>
  ELSE <<[id |-> span.id, parent |-> span.parent, trace |-> span.trace,
          start |-> span.start, duration |-> span.end - span.start,
          meta |-> Meta(span), metrics |-> Metrics(span),
          events |-> MapEvents(span.events)]>>
=============================================================================
