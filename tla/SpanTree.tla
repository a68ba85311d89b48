------------------------------ MODULE SpanTree ------------------------------
(***************************************************************************)
(* What the helpers build: sessions, runs, model calls, streams, tool      *)
(* calls and one-call events (session.go, model_call.go, stream.go,        *)
(* tool.go, lifecycle.go) with the correlation they inherit from a context *)
(* or from their session (correlation.go).                                 *)
(*                                                                         *)
(* One program makes a few observations.  It derives contexts, starts      *)
(* handles in them, adds to streams and ends handles; each step that       *)
(* exports leaves the observation in "exported".  Races of calls on one    *)
(* handle, the Observer's state and the error handler belong to the module *)
(* Observer, summaries and redaction to ObservationPipeline: here the      *)
(* Observer is open, and calls that are rejected or come too late, which   *)
(* change no handle and export nothing, are left out.                      *)
(***************************************************************************)
EXTENDS DatadogPayload

CONSTANTS
  Correlations,   \* what a program passes to helpers and to contexts
  ToolCallIDs,    \* ids passed to tool helpers, "" for none
  AGUIIDs,        \* pairs of a thread and a run, "" for none
  Operations,     \* operations named by one-call events, "" for none
  Indexes,        \* of chunks, and attempts
  Latencies,      \* latencies a program measured, 0 for none
  Usages,         \* token counts that are known
  Classes,        \* classifications, "" for none
  SettledErrors,  \* errors passed to the helpers of settled tools
  Causes,         \* errors passed to Error of the Observer
  Times,          \* times a program or the clock may give
  MaxContexts,    \* bound: contexts
  MaxMade,        \* bound: one-call events, and handles but runs of a session
  MaxRuns,        \* bound: runs started from sessions
  MaxEvents       \* bound: chunks and first tokens of a stream

(* Fields that become attributes are named by the key of their attribute. *)
Propagated ==
  {"correlation.session_id", "correlation.run_id", "correlation.agent_id",
   "correlation.assistant_message_id", "correlation.thread_id",
   "correlation.agui_run_id", "correlation.tool_call_id"}

IDs == {"id", "parent"}

Fields == IDs \cup {"trace", "provider", "model"} \cup Propagated

IsCorrelation(corr) ==
  /\ DOMAIN corr = Fields
  /\ \A f \in Fields : corr[f] \in IF f \in IDs THEN Seq(STRING) ELSE STRING

NoCorrelation == [f \in Fields |-> IF f \in IDs THEN NoID ELSE ""]

UsageCounts ==
  {"genai.usage.input_tokens", "genai.usage.output_tokens",
   "genai.usage.total_tokens", "genai.usage.reasoning_tokens",
   "genai.usage.cached_input_tokens"}

ASSUME ConstantsAssumption ==
  /\ \A corr \in Correlations \cup {NoCorrelation} : IsCorrelation(corr)
  /\ ToolCallIDs \subseteq STRING /\ Operations \cup Classes \subseteq STRING
  /\ \A agui \in AGUIIDs : {agui[1], agui[2]} \subseteq STRING
  /\ Times \subseteq Nat \ {0}
  /\ Indexes \cup Latencies \subseteq Int
  /\ \A usage \in Usages : /\ DOMAIN usage \subseteq UsageCounts
                           /\ \A count \in DOMAIN usage : usage[count] \in Int
  /\ \A error \in SettledErrors :
       /\ {error.operation, error.classification} \subseteq STRING
       /\ {error.cause, error.retryable, error.dropped} \subseteq BOOLEAN
  /\ \A cause \in Causes : cause.observation =>
       /\ {cause.operation, cause.classification} \subseteq STRING
       /\ {cause.retryable, cause.dropped} \subseteq BOOLEAN
  /\ {MaxContexts, MaxMade, MaxRuns, MaxEvents} \subseteq Nat

VARIABLES
  contexts,   \* the correlation of each context; the first is Background
  handles,    \* every handle started, in order
  made,       \* one-call events and handles so far, but runs of a session
  exported    \* what the last step exported: <<>> or one observation

vars == <<contexts, handles, made, exported>>

-----------------------------------------------------------------------------
(* Correlation *)

MergeCorrelation(base, explicit) ==
  [f \in Fields |-> IF explicit[f] # NoCorrelation[f] THEN explicit[f]
                    ELSE base[f]]

FromContext(c, explicit) == MergeCorrelation(contexts[c], explicit)

(* Slip: the session's own parent stays. *)
FromSessionStale(h, explicit) == MergeCorrelation(handles[h].corr, explicit)

(* Session.StartRun: the session takes the place of its own parent. *)
FromSession(h, explicit) ==
  MergeCorrelation([handles[h].corr EXCEPT !.parent = handles[h].corr.id],
                   explicit)

(* The id of a tool call: what the caller gave, or else the correlation's. *)
CallID(corr, toolCallID) ==
  FirstNonEmpty(toolCallID, corr["correlation.tool_call_id"])

NamingTool(corr, toolCallID) ==
  [corr EXCEPT !["correlation.tool_call_id"] = CallID(corr, toolCallID)]

(* aguiToolCorrelation, but the id of the call *)
AGUICorrelation(c, explicit, thread, run) ==
  LET corr == FromContext(c, explicit)
      Given(key, value) == Only(key, FirstNonEmpty(value, corr[key]))
  IN  Over(Given("correlation.thread_id", thread),
      Over(Given("correlation.agui_run_id", run), corr))

-----------------------------------------------------------------------------
(* Attributes *)

TextAttribute(key, value) ==
  IF value = "" THEN NoAttributes ELSE Only(key, Text(value))

FlagIf(condition, key) ==
  IF condition THEN Only(key, Flag(TRUE)) ELSE NoAttributes

(* baseObservationAttributes *)
BaseAttributes(corr) ==
  [key \in {f \in Propagated : corr[f] # ""} |-> Text(corr[key])]

ProviderAttributes(corr) ==
  Over(Only("genai.provider", Text(corr.provider)),
       Only("genai.model", Text(corr.model)))

(* addToolAttributes, with the default name *)
ToolAttributes(callID, kind, status) ==
  Over(TextAttribute("tool.call_id", callID),
  Over(Only("tool.name", Text("tool_call")),
  Over(Only("tool.kind", Text(kind)),
       Only("tool.status", Text(status)))))

(* Slip: the flag of a cancellation is forgotten. *)
UnmarkedErrorAttributes(error, canceled) ==
  Over(TextAttribute("error.operation", error.operation),
  Over(TextAttribute("error.classification", error.classification),
       Only("error.retryable", Flag(error.retryable))))

(* addModelErrorAttributes, addToolErrorAttributes *)
ErrorAttributes(error, canceled) ==
  Over(TextAttribute("error.operation", error.operation),
  Over(TextAttribute("error.classification", error.classification),
  Over(Only("error.retryable", Flag(error.retryable)),
  Over(FlagIf(canceled, "error.canceled"),
       FlagIf(error.dropped, "error.dropped")))))

TerminalError(operation, classification, retryable) ==
  [operation |-> operation, classification |-> classification,
   retryable |-> retryable, dropped |-> FALSE]

(* normalizeObservationError: an error that is an ObservationError keeps its
   flags, and the fields it has. *)
Normalized(operation, classification, cause, retryable, dropped) ==
  IF cause.observation
  THEN [operation      |-> FirstNonEmpty(cause.operation, operation),
        classification |-> FirstNonEmpty(cause.classification,
                                         classification),
        retryable |-> cause.retryable, dropped |-> cause.dropped]
  ELSE [operation |-> operation, classification |-> classification,
        retryable |-> retryable, dropped |-> dropped]

Observation(corr, kind, status, start, end, attrs, events, error) ==
  [id |-> corr.id, parent |-> corr.parent, trace |-> corr.trace,
   kind |-> kind, status |-> status, start |-> start, end |-> end,
   attrs |-> attrs, events |-> events, error |-> error]

(* An event has no duration. *)
EventObservation(corr, name, status, at, attrs, error) ==
  Observation(corr, name, status, at, 0, attrs, <<>>, error)

-----------------------------------------------------------------------------
(* Contexts and the start of handles *)

ContextWithCorrelation(c, corr) ==
  /\ Len(contexts) < MaxContexts
  /\ contexts' = Append(contexts, FromContext(c, corr))
  /\ exported' = <<>>
  /\ UNCHANGED <<handles, made>>

(* The session of a run, or 0, is for the properties only, and so is what the
   caller gave to it. *)
Start(kind, corr, start, attrs, session, given) ==
  /\ handles' = Append(handles,
       [kind |-> kind, corr |-> corr, start |-> start, attrs |-> attrs,
        events |-> <<>>, firstToken |-> {}, ended |-> FALSE,
        session |-> session, given |-> given])
  /\ exported' = <<>>
  /\ UNCHANGED contexts

(* Handles share nothing, except that a session starts runs. *)
StartFromContext(kind, corr, start, attrs) ==
  /\ made' = made + 1
  /\ Start(kind, corr, start, attrs, 0, NoCorrelation)

(* Observer.StartSession and Observer.StartRun *)
StartScope(kind, c, given, start) ==
  LET corr == FromContext(c, given)
  IN  StartFromContext(kind, corr, start, BaseAttributes(corr))

(* Also for a session that has ended. *)
SessionStartRun(h, given, start) ==
  LET corr == FromSession(h, given)
  IN  /\ handles[h].kind = "session"
      /\ Cardinality({r \in DOMAIN handles : handles[r].session # 0}) < MaxRuns
      /\ Start("run", corr, start, BaseAttributes(corr), h, given)
      /\ UNCHANGED made

(* StartModelCall and StartStream, when provider and model are known. *)
StartGeneration(kind, c, given, start) ==
  LET corr == FromContext(c, given)
  IN  /\ corr.provider # "" /\ corr.model # ""
      /\ StartFromContext(kind, corr, start,
                          Over(ProviderAttributes(corr), BaseAttributes(corr)))

(* StartToolCall, when an id is known. *)
StartToolCall(c, given, toolCallID, start) ==
  LET known  == FromContext(c, given)
      callID == CallID(known, toolCallID)
      corr   == NamingTool(known, toolCallID)
  IN  /\ callID # ""
      /\ StartFromContext("tool_call", corr, start,
                          Over(ToolAttributes(callID, "server", "started"),
                               BaseAttributes(corr)))

-----------------------------------------------------------------------------
(* Streams *)

Open(h, kinds) == handles[h].kind \in kinds /\ ~handles[h].ended

(* eventCorrelationLocked *)
EventCorrelation(corr, suffix) ==
  [corr EXCEPT !.parent = corr.id,
               !.id = IF @ = NoID THEN NoID ELSE @ \o suffix]

AddEvent(h, event, firstToken) ==
  /\ Len(handles[h].events) < MaxEvents
  /\ handles' = [handles EXCEPT ![h].events = Append(@, event),
                                ![h].firstToken = firstToken]
  /\ exported' = <<>>
  /\ UNCHANGED <<contexts, made>>

StreamEvent(corr, suffix, name, status, at, attrs, error) ==
  LET event == EventCorrelation(corr, suffix)
  IN  EventObservation(event, name, status, at,
                       Over(attrs, BaseAttributes(event)), error)

ChunkEvent(corr, index, at) ==
  StreamEvent(corr, <<"chunk", index>>, "stream.chunk", "ok", at,
              Only("stream.chunk.index", Int64(index)), NoError)

FirstTokenEvent(corr, latency, at) ==
  StreamEvent(corr, <<"first_token">>, "stream.first_token", "ok", at,
              Only("genai.latency.first_token_ms", Int64(latency)), NoError)

Chunk(h, index, at) ==
  /\ Open(h, {"stream"})
  /\ AddEvent(h, ChunkEvent(handles[h].corr, index, at), handles[h].firstToken)

(* Slip: a clock that went back gives a negative latency. *)
FirstTokenLatencyRaw(h, at, given) ==
  IF given # 0 THEN given ELSE at - handles[h].start

FirstTokenLatency(h, at, given) ==
  IF given # 0 THEN Max({given, 0}) ELSE Max({at - handles[h].start, 0})

(* Slip: a second first token counts as well. *)
FirstTokenAgain(h, at, given) ==
  LET latency == FirstTokenLatency(h, at, given)
  IN  /\ Open(h, {"stream"})
      /\ AddEvent(h, FirstTokenEvent(handles[h].corr, latency, at), {latency})

(* Only the first call counts. *)
FirstToken(h, at, given) ==
  LET latency == FirstTokenLatency(h, at, given)
  IN  /\ Open(h, {"stream"})
      /\ handles[h].firstToken = {}
      /\ AddEvent(h, FirstTokenEvent(handles[h].corr, latency, at), {latency})

-----------------------------------------------------------------------------
(* End and Error of handles *)

(* Slip: the event keeps the flags the caller gave. *)
CancellationRetryable(corr, at, error) ==
  StreamEvent(corr, <<"cancellation">>, "cancellation", "canceled", at,
              Only("cancellation.reason", Text(error.classification)),
              [error EXCEPT !.retryable = TRUE])

(* cancellationEventLocked *)
CancellationEvent(corr, at, error) ==
  StreamEvent(corr, <<"cancellation">>, "cancellation", "canceled", at,
              Over(Only("cancellation.reason", Text(error.classification)),
                   ErrorAttributes(error, TRUE)), error)

UsageAttributes(usage) == [count \in DOMAIN usage |-> Int64(usage[count])]

ToolOutcome(status) ==
  CASE status = "ok" -> "succeeded" [] status = "error" -> "failed"
    [] OTHER -> "canceled"

(* What the end of a handle adds; sessions and runs say of their error only
   what the observation itself says. *)
TerminalAttributes(handle, status, latency, usage, error) ==
  LET errorAttributes == IF error = NoError THEN NoAttributes
                         ELSE ErrorAttributes(error, status = "canceled")
  IN  CASE handle.kind \in {"session", "run"} -> NoAttributes
        [] handle.kind \in {"model_call", "stream"} ->
             Over(errorAttributes,
             Over(UsageAttributes(usage),
             Over(IF handle.firstToken = {} THEN NoAttributes
                  ELSE Only("genai.latency.first_token_ms",
                            Int64(CHOOSE known \in handle.firstToken : TRUE)),
                  Only("genai.latency.total_ms", Int64(latency)))))
        [] handle.kind = "tool_call" ->
             Over(errorAttributes,
             Over(Only("tool.latency.ms", Int64(latency)),
                  Only("tool.status", Text(ToolOutcome(status)))))

(* finish of a handle: the events it has now and the observation of it *)
FinalEvents(handle, status, end, error) ==
  IF handle.kind = "stream" /\ status = "canceled"
  THEN Append(handle.events, CancellationEvent(handle.corr, end, error))
  ELSE handle.events

Finished(handle, status, end, usage, error) ==
  Observation(handle.corr, handle.kind, status, handle.start, end,
              Over(TerminalAttributes(handle, status, end - handle.start, usage,
                                      error), handle.attrs),
              FinalEvents(handle, status, end, error), error)

Finish(h, status, at, usage, error) ==
  LET end == Max({at, handles[h].start})
  IN  /\ ~handles[h].ended
      /\ handles' = [handles EXCEPT ![h].ended = TRUE,
                       ![h].events = FinalEvents(handles[h], status, end, error)]
      /\ exported' = <<Finished(handles[h], status, end, usage, error)>>
      /\ UNCHANGED <<contexts, made>>

End(h, at, usage) == Finish(h, "ok", at, usage, NoError)

(* Sessions have no retryable flag and never are; what is canceled is not
   retryable either.  The operation is the kind of the handle. *)
Error(h, at, usage, classification, canceled, retryable) ==
  LET status == IF canceled THEN "canceled" ELSE "error"
  IN  Finish(h, status, at, usage,
             TerminalError(handles[h].kind,
                           FirstNonEmpty(classification, status),
                           retryable /\ ~canceled
                             /\ handles[h].kind # "session"))

-----------------------------------------------------------------------------
(* One-call events *)

EmitEvent(corr, name, status, at, attrs, error) ==
  /\ made' = made + 1
  /\ exported' = <<EventObservation(corr, name, status, at,
                                    Over(attrs, BaseAttributes(corr)), error)>>
  /\ UNCHANGED <<contexts, handles>>

(* The helpers of tools name the call before they build the event. *)
ToolEvent(known, toolCallID, name, status, at, kind, toolStatus, attrs, error) ==
  EmitEvent(NamingTool(known, toolCallID), name, status, at,
            Over(attrs,
                 ToolAttributes(CallID(known, toolCallID), kind, toolStatus)),
            error)

ToolRegistered(c, given, toolCallID, at) ==
  ToolEvent(FromContext(c, given), toolCallID, "tool.registered", "ok", at,
            "unknown", "registered", NoAttributes, NoError)

(* ToolMaterialized and AGUIToolMaterialized, when an id is known. *)
Materialized(known, toolCallID, kind, at) ==
  /\ CallID(known, toolCallID) # ""
  /\ ToolEvent(known, toolCallID, "tool.materialized", "ok", at,
               kind, "materialized", NoAttributes, NoError)

ToolMaterialized(c, given, toolCallID, at) ==
  Materialized(FromContext(c, given), toolCallID, "unknown", at)

AGUIToolMaterialized(c, given, thread, run, toolCallID, at) ==
  Materialized(AGUICorrelation(c, given, thread, run), toolCallID,
               "client_proposed", at)

(* The error of a settled tool: the caller's, with what it lacks.  One that is
   all empty is replaced, and loses its Dropped. *)
SettledError(status, error, classification, retryable) ==
  LET empty == error.operation = "" /\ error.classification = "" /\ ~error.cause
  IN  [operation |-> FirstNonEmpty(error.operation, "tool_call"),
       classification |-> FirstNonEmpty(error.classification,
                           FirstNonEmpty(classification, status)),
       retryable |-> status = "failed" /\ (error.retryable \/ retryable),
       dropped |-> error.dropped /\ ~empty]

(* ToolSettled and AGUIToolSettled, when an id and the status are known. *)
Settled(known, toolCallID, kind, at, latencyAttributes) ==
  \E outcome \in {"succeeded", "failed", "canceled"}, error \in SettledErrors,
     classification \in Classes, retryable \in BOOLEAN :
    LET settled == IF outcome = "succeeded" THEN NoError
                   ELSE SettledError(outcome, error, classification, retryable)
        status  == CASE outcome = "succeeded" -> "ok"
                     [] outcome = "failed" -> "error" [] OTHER -> "canceled"
    IN  /\ CallID(known, toolCallID) # ""
        /\ ToolEvent(known, toolCallID, "tool.settled", status, at, kind, outcome,
             Over(IF settled = NoError THEN NoAttributes
                  ELSE ErrorAttributes(settled, outcome = "canceled"),
                  latencyAttributes), settled)

ToolSettled(c, given, toolCallID, at, known, latency) ==
  Settled(FromContext(c, given), toolCallID, "server", at,
          IF known THEN Only("tool.latency.ms", Int64(Max({latency, 0})))
          ELSE NoAttributes)

AGUIToolSettled(c, given, thread, run, toolCallID, at) ==
  Settled(AGUICorrelation(c, given, thread, run), toolCallID,
          "client_proposed", at, NoAttributes)

Retry(c, given, attempt, classification, at) ==
  EmitEvent(FromContext(c, given), "retry", "ok", at,
            Over(Only("retry.attempt", Int64(attempt)),
            Over(Only("retry.reason",
                      Text(FirstNonEmpty(classification, "retry"))),
                 TextAttribute("error.classification", classification))), NoError)

(* Compaction, Interrupt and Resume *)
LifecycleEvent(c, given, name, at) ==
  EmitEvent(FromContext(c, given), name, "ok", at,
            Over(Only(ReasonKey[name], Text(name)),
                 CASE name = "interrupt" -> Only("interrupt.status",
                                                 Text("interrupted"))
                   [] name = "resume" -> Only("resume.status", Text("resumed"))
                   [] OTHER -> NoAttributes), NoError)

Cancellation(c, given, operation, classification, at) ==
  LET class == FirstNonEmpty(classification, "canceled")
      error == TerminalError(FirstNonEmpty(operation, "lifecycle"),
                             class, FALSE)
  IN  EmitEvent(FromContext(c, given), "cancellation", "canceled", at,
                Over(Only("cancellation.reason", Text(class)),
                     ErrorAttributes(error, TRUE)), error)

(* Observer.Error *)
ReportError(c, given, operation, classification, cause, retryable, dropped, at) ==
  LET error == Normalized(FirstNonEmpty(operation, "lifecycle"),
                          FirstNonEmpty(classification, "error"),
                          cause, retryable, dropped)
  IN  EmitEvent(FromContext(c, given), "error", "error", at,
                ErrorAttributes(error, FALSE), error)

-----------------------------------------------------------------------------
Init ==
  /\ contexts = <<NoCorrelation>>
  /\ handles = <<>>
  /\ made = 0
  /\ exported = <<>>

Starts(c, given, at) ==
  \/ \E kind \in {"session", "run"} : StartScope(kind, c, given, at)
  \/ \E kind \in {"model_call", "stream"} : StartGeneration(kind, c, given, at)
  \/ \E id \in ToolCallIDs : StartToolCall(c, given, id, at)

ToolEvents(c, given, at) ==
  \E id \in ToolCallIDs :
    \/ ToolRegistered(c, given, id, at)
    \/ ToolMaterialized(c, given, id, at)
    \/ \E known \in BOOLEAN, latency \in Latencies :
         ToolSettled(c, given, id, at, known, latency)
    \/ \E agui \in AGUIIDs :
         \/ AGUIToolMaterialized(c, given, agui[1], agui[2], id, at)
         \/ AGUIToolSettled(c, given, agui[1], agui[2], id, at)

OtherEvents(c, given, at) ==
  \/ \E name \in {"compaction", "interrupt", "resume"} :
       LifecycleEvent(c, given, name, at)
  \/ \E attempt \in Indexes, class \in Classes :
       Retry(c, given, attempt, class, at)
  \/ \E operation \in Operations, class \in Classes :
       \/ Cancellation(c, given, operation, class, at)
       \/ \E cause \in Causes, retryable, dropped \in BOOLEAN :
            ReportError(c, given, operation, class, cause, retryable, dropped,
                        at)

Continues(h, at) ==
  \/ \E given \in Correlations : SessionStartRun(h, given, at)
  \/ \E index \in Indexes : Chunk(h, index, at)
  \/ \E latency \in Latencies : FirstToken(h, at, latency)
  \/ \E usage \in Usages :
       \/ End(h, at, usage)
       \/ \E class \in Classes, canceled, retryable \in BOOLEAN :
            Error(h, at, usage, class, canceled, retryable)

Next ==
  \/ \E c \in DOMAIN contexts, given \in Correlations :
       ContextWithCorrelation(c, given)
  \/ /\ made < MaxMade
     /\ \E c \in DOMAIN contexts, given \in Correlations, at \in Times :
          Starts(c, given, at) \/ ToolEvents(c, given, at)
            \/ OtherEvents(c, given, at)
  \/ \E h \in DOMAIN handles, at \in Times : Continues(h, at)

Spec == Init /\ [][Next]_vars

-----------------------------------------------------------------------------
(* Properties *)

Exported == {exported[i] : i \in DOMAIN exported}

EventsOf(o) == {o.events[i] : i \in DOMAIN o.events}

(* Numbers that are passed on as the caller gave them. *)
GivenNumbers == UsageCounts \cup {"stream.chunk.index", "retry.attempt"}

AttributeOK(key, value) ==
  \/ value[1] = "string" /\ value[2] # ""
  \/ value[1] = "int64"  /\ value[2] \in IF key \in GivenNumbers THEN Int ELSE Nat
  \/ value = Flag(TRUE)
  \/ key = "error.retryable" /\ value = Flag(FALSE)

AttributesOK(attrs) == \A key \in DOMAIN attrs : AttributeOK(key, attrs[key])

HasType(o) ==
  /\ o.kind \in SpanKinds \cup EventNames
  /\ o.status \in Statuses
  /\ o.start \in Nat /\ o.end \in Nat
  /\ AttributesOK(o.attrs)

(* Every context and handle keeps its type; no attribute that a helper adds is
   empty, no latency is negative whatever clock or caller it comes from, and no
   flag but error.retryable is written as false. *)
TypeOK ==
  /\ \A c \in DOMAIN contexts : IsCorrelation(contexts[c])
  /\ \A h \in DOMAIN handles :
       /\ IsCorrelation(handles[h].corr)
       /\ handles[h].ended \in BOOLEAN
       /\ \A e \in EventsOf(handles[h]) : HasType(e)
  /\ made \in 0..MaxMade
  /\ \A o \in Exported : HasType(o)

Complaints(o) == IF o.kind \in SpanKinds THEN SpanComplaints(ToSpan(o))
                 ELSE EventComplaints(ToEvent(o))

(* What validation holds against observations that helpers do produce:
   canceled sessions and runs without the flag, and settled tools whose caller
   passed an error of another operation. *)
KnownComplaints(o) ==
  (IF o.kind \in {"session", "run"} THEN {"error.canceled"} ELSE {}) \cup
  (IF o.kind = "tool.settled" /\ \E e \in SettledErrors :
                                   e.operation = o.error.operation
   THEN {"tool error operation"} ELSE {})

(* Whatever order of legal calls built it, an observation that was given an id
   and a trace satisfies the schema's validation, its stream events included;
   no helper calls that validation. *)
SatisfiesSchema ==
  \A o \in Exported :
    o.id # NoID /\ o.trace # "" => Complaints(o) \subseteq KnownComplaints(o)

Part(attrs, keys) == [key \in DOMAIN attrs \cap keys |-> attrs[key]]

CorrelationOf(o) == Part(o.attrs, Propagated)

Named(o, name) == {i \in DOMAIN o.events : o.events[i].kind = name}

TellsOneStory(o) ==
  /\ \A e \in EventsOf(o) :
       /\ e.parent = o.id /\ e.trace = o.trace
       /\ e.id # o.id \/ o.id = NoID
       /\ CorrelationOf(e) = CorrelationOf(o)
  /\ {o.attrs[key] : key \in DOMAIN o.attrs \cap {"genai.latency.first_token_ms"}}
       = {o.events[i].attrs["genai.latency.first_token_ms"] :
            i \in Named(o, "stream.first_token")}
  /\ Cardinality(Named(o, "stream.first_token")) <= 1
  /\ Named(o, "cancellation")
       = IF o.status = "canceled" THEN {Len(o.events)} ELSE {}
  /\ \A i \in Named(o, "cancellation") :
       o.events[i].error = o.error /\ o.events[i].start = o.end

(* The events of a stream belong to it (parent, trace, correlation); there is
   at most one first token and the stream repeats its latency; a cancellation
   event is there exactly if the stream was canceled, as the last one, at the
   end of the stream and with its error. *)
StreamTellsOneStory == \A o \in Exported : o.kind = "stream" => TellsOneStory(o)

ErrorKeys == {"error.operation", "error.classification", "error.retryable",
              "error.canceled", "error.dropped"}

Agrees(e) ==
  LET said == Part(e.attrs, ErrorKeys)
  IN  IF e.error = NoError
      THEN DOMAIN said # {} => /\ e.kind = "retry"
                               /\ DOMAIN said = {"error.classification"}
      ELSE \/ e.kind \in {"session", "run"} /\ DOMAIN said = {}
           \/ said = ErrorAttributes(e.error, e.status = "canceled")

(* The error attributes of an observation or an event and its error are built
   by different code and never contradict each other; whatever ended in an
   error that is not a session or a run carries both. *)
ErrorFieldsAgree ==
  \A o \in Exported : \A e \in {o} \cup EventsOf(o) : Agrees(e)

JoinsSession(run, session) ==
  /\ run.corr.parent = IF run.given.parent = NoID THEN session.corr.id
                       ELSE run.given.parent
  /\ \A f \in Fields \ IDs :
       run.corr[f] = FirstNonEmpty(run.given[f], session.corr[f])

HasOneCallID(o) ==
  "tool.call_id" \in DOMAIN o.attrs =>
    /\ "correlation.tool_call_id" \in DOMAIN o.attrs
    /\ o.attrs["tool.call_id"] = o.attrs["correlation.tool_call_id"]

(* A run joins its session: what its caller left empty is the session's, and
   then the session is its parent.  A tool has one call id, as an attribute and in
   its correlation. *)
IdentitiesAgree ==
  /\ \A h \in DOMAIN handles : handles[h].session # 0 =>
       JoinsSession(handles[h], handles[handles[h].session])
  /\ \A o \in Exported : HasOneCallID(o)

Says(sent, meta, attrs) ==
  \A key \in DOMAIN attrs :
    IF key \in DOMAIN MetricOf THEN sent.metrics[MetricOf[key]] = attrs[key]
    ELSE meta[key] = attrs[key]

Keeps(sent, o) ==
  /\ <<sent.id, sent.parent, sent.trace>> = <<o.id, o.parent, o.trace>>
  /\ sent.start + sent.duration = o.end
  /\ Says(sent, sent.meta, o.attrs)
  /\ Len(sent.events) = Len(o.events)
  /\ \A i \in DOMAIN o.events :
       /\ sent.events[i].id = o.events[i].id
       /\ Says(sent, sent.events[i].meta, o.events[i].attrs)

IsSent(o) ==
  LET payload == MapSpan(ToSpan(o))
  IN  IF o.kind \in SpanKinds THEN payload # <<>> /\ Keeps(payload[1], o)
      ELSE payload = <<>>

(* What Datadog is sent of a handle that ended says all the handle said: its
   identity, each attribute as a metric or as metadata with its value, and
   each event with its attributes, in order.  Nothing else is ever sent. *)
PayloadKeepsObservation == \A o \in Exported : IsSent(o)

(* Every span has an identifier of its own (schema.md); a run that a session
   started without one has not taken the session's. *)
RunHasItsOwnId ==
  \A h \in DOMAIN handles :
    LET run == handles[h]
    IN  run.session # 0 /\ run.corr.id # NoID /\ run.given.id = NoID
        => run.corr.id # handles[run.session].corr.id
=============================================================================
