------------------------------ MODULE Observer ------------------------------
(***************************************************************************)
(* The public Observer, the handles it gives out and the exporter below it *)
(* (observer.go, session.go, model_call.go, stream.go, tool.go,            *)
(* lifecycle.go, no_network.go).                                           *)
(*                                                                         *)
(* Three kinds of lock: each handle has one, the Observer has one          *)
(* (shutdown, lastShutdownErr), the exporter has one.  A helper ends its   *)
(* handle under the first, releases it, reads the Observer's state under   *)
(* the second, releases it, exports under the third, and calls the error   *)
(* handler under none.  Each of these critical sections is one action, so  *)
(* that other goroutines run between any two.  (Under a handle's lock the  *)
(* Observer's is taken too, to read a configuration that never changes.)   *)
(*                                                                         *)
(* Abstracted: an observation is its handle and, for a stream, its events  *)
(* and whether it was canceled; other statuses, attributes, times and      *)
(* correlation are left out, as are the three call counters of the         *)
(* no-network exporter.  Handle contexts come from context.WithoutCancel,  *)
(* so Export is never canceled.                                            *)
(***************************************************************************)
EXTENDS Integers, Sequences, FiniteSets, SequencesExt

CONSTANTS
  Callers,      \* goroutines
  Operations,   \* handles without events: sessions, runs, model and tool calls
  Streams,      \* stream handles
  Events,       \* observations of one call: Retry, Error, ToolRegistered, ...
  Configs,      \* the configurations New may be given
  MaxEvents,    \* bound: chunks and first tokens of a stream
  MaxControls,  \* bound: calls of Flush, Shutdown and Reset
  None          \* nil, or no observation

Handles  == Operations \cup Streams \cup Events
Marks    == {"chunk", "first_token", "cancellation"}
Classes  == {"invalid_schema", "invalid_config", "redaction", "canceled",
             "exporter_closed", "exporter_failure"}
Points   == {"idle", "reading", "exporting", "handling", "flushing",
             "closing", "settling", "reopening"}

Observation == [handle : Handles, canceled : BOOLEAN, events : Seq(Marks)]

(* Config.Exporter is the no-network exporter or the program's own; configErr
   is what Validate or an option returned; redactionFails says that a
   no-network exporter was built with negative MaxSummaryBytes and passed in. *)
Config == [exporter : {"no_network", "custom"}, configErr : BOOLEAN,
           redactionFails : BOOLEAN]

ASSUME ConstantsAssumption ==
  /\ Operations \cap Streams = {}
  /\ Operations \cap Events = {}
  /\ Streams \cap Events = {}
  /\ Configs \subseteq Config
  /\ MaxEvents \in Nat
  /\ MaxControls \in Nat
  /\ None \notin Classes \cup Observation

VARIABLES
  config,           \* fixed by New
  handle,           \* the fields of each handle
  shutdown,         \* Observer.shutdown
  lastShutdownErr,  \* Observer.lastShutdownErr
  observations,     \* what the exporter holds
  dirty,
  closed,           \* the exporter's own shutdown flag
  call,             \* what each goroutine is in the middle of
  controls,         \* history: calls of Flush, Shutdown and Reset so far
  reported,         \* history: handles whose loss the error handler was told
  skipped,          \* history: handles that ended while the Observer was shut
  cleared,          \* history: handles whose observation Reset cleared
  answer,           \* history: the exporter's answer to Shutdown since Reset
  overtaken         \* history: some Reset finished during a Shutdown

observerVars == <<shutdown, lastShutdownErr>>
exporterVars == <<observations, dirty, closed>>
historyVars  == <<reported, skipped, cleared, answer, overtaken>>
vars == <<config, handle, observerVars, exporterVars, call, controls,
          historyVars>>

Idle == [at |-> "idle", obs |-> None, err |-> None, late |-> FALSE]

Init ==
  /\ config \in Configs
  /\ handle = [h \in Handles |->
                 [phase |-> "unborn", events |-> <<>>, firstToken |-> FALSE]]
  /\ shutdown = FALSE
  /\ lastShutdownErr = None
  /\ observations = <<>>
  /\ dirty = FALSE
  /\ closed = FALSE
  /\ call = [c \in Callers |-> Idle]
  /\ controls = 0
  /\ reported = {}
  /\ skipped = {}
  /\ cleared = {}
  /\ answer = None
  /\ overtaken = FALSE

-----------------------------------------------------------------------------
(* The call of c returns, goes on to the point `at', or has an error to give
   to the error handler. *)
Return(c)       == call' = [call EXCEPT ![c] = Idle]
GoTo(c, at)     == call' = [call EXCEPT ![c].at = at]
Fail(c, class)  == call' = [call EXCEPT ![c].at = "handling", ![c].err = class]

(* A helper of c begins; it is late if the Observer is already shut. *)
BeginHelper(c, at, obs, err) ==
  /\ call[c].at = "idle"
  /\ call' = [call EXCEPT ![c] = [at |-> at, obs |-> obs, err |-> err,
                                  late |-> shutdown]]

(* A helper that was given no provider, model or tool call id tells the error
   handler and leaves an inert handle. *)
Reject(c, h) ==
  /\ handle[h].phase = "unborn"
  /\ BeginHelper(c, "handling", None, "invalid_schema")
  /\ handle' = [handle EXCEPT ![h].phase = "inert"]
  /\ UNCHANGED <<config, observerVars, exporterVars, controls, historyVars>>

Start(c, h) ==
  /\ h \notin Events
  /\ call[c].at = "idle"
  /\ handle[h].phase = "unborn"
  /\ handle' = [handle EXCEPT ![h].phase = "open"]
  /\ UNCHANGED <<config, observerVars, exporterVars, call, controls,
                 historyVars>>

(* The helpers that record one observation and have no handle. *)
Emit(c, e) ==
  /\ e \in Events
  /\ handle[e].phase = "unborn"
  /\ BeginHelper(c, "reading",
                 [handle |-> e, canceled |-> FALSE, events |-> <<>>], None)
  /\ handle' = [handle EXCEPT ![e].phase = "ended"]
  /\ UNCHANGED <<config, observerVars, exporterVars, controls, historyVars>>

(* Slip: a chunk that comes after the end is appended as well. *)
ChunkAfterEnd(c, s) ==
  /\ call[c].at = "idle"
  /\ handle[s].phase \in {"open", "ended"}
  /\ Len(handle[s].events) < MaxEvents
  /\ handle' = [handle EXCEPT ![s].events = Append(@, "chunk")]
  /\ UNCHANGED <<config, observerVars, exporterVars, call, controls,
                 historyVars>>

(* Stream.Chunk and Stream.FirstToken append under the handle's lock. *)
Chunk(c, s) ==
  /\ call[c].at = "idle"
  /\ handle[s].phase = "open"
  /\ Len(handle[s].events) < MaxEvents
  /\ handle' = [handle EXCEPT ![s].events = Append(@, "chunk")]
  /\ UNCHANGED <<config, observerVars, exporterVars, call, controls,
                 historyVars>>

FirstToken(c, s) ==
  /\ call[c].at = "idle"
  /\ handle[s].phase = "open"
  /\ ~handle[s].firstToken
  /\ Len(handle[s].events) < MaxEvents
  /\ handle' = [handle EXCEPT ![s].events = Append(@, "first_token"),
                              ![s].firstToken = TRUE]
  /\ UNCHANGED <<config, observerVars, exporterVars, call, controls,
                 historyVars>>

(* Slip: End does not look whether the handle has ended. *)
EndAgain(c, h, canceled, events) ==
  /\ handle[h].phase \in {"open", "ended"}
  /\ BeginHelper(c, "reading",
                 [handle |-> h, canceled |-> canceled, events |-> events],
                 None)
  /\ handle' = [handle EXCEPT ![h].phase = "ended"]
  /\ UNCHANGED <<config, observerVars, exporterVars, controls, historyVars>>

(* The first terminal call to find the handle open marks it and leaves with
   its observation. *)
End(c, h, canceled, events) ==
  /\ handle[h].phase = "open"
  /\ BeginHelper(c, "reading",
                 [handle |-> h, canceled |-> canceled, events |-> events],
                 None)
  /\ handle' = [handle EXCEPT ![h].phase = "ended", ![h].events = events]
  /\ UNCHANGED <<config, observerVars, exporterVars, controls, historyVars>>

FinishOperation(c, h) == End(c, h, FALSE, <<>>)

FinishStream(c, s) ==
  \/ End(c, s, FALSE, handle[s].events)
  \/ End(c, s, TRUE, Append(handle[s].events, "cancellation"))

(* End, Error, Chunk or FirstToken on a handle that has ended, or that never
   was valid, returns at once. *)
TooLate(c, h) ==
  /\ call[c].at = "idle"
  /\ handle[h].phase \in {"ended", "inert"}
  /\ UNCHANGED vars

(* Slip: exportObservation does not look at Observer.shutdown. *)
ReadStateBlindly(c) ==
  /\ call[c].at = "reading"
  /\ ~config.configErr
  /\ GoTo(c, "exporting")
  /\ UNCHANGED <<config, handle, observerVars, exporterVars, controls,
                 historyVars>>

(* exportObservation reads the Observer's state. *)
ReadState(c) ==
  /\ call[c].at = "reading"
  /\ \/ /\ config.configErr
        /\ Fail(c, "invalid_config")
        /\ UNCHANGED skipped
     \/ /\ ~config.configErr /\ shutdown
        /\ Return(c)
        /\ skipped' = skipped \cup {call[c].obs.handle}
     \/ /\ ~config.configErr /\ ~shutdown
        /\ GoTo(c, "exporting")
        /\ UNCHANGED skipped
  /\ UNCHANGED <<config, handle, observerVars, exporterVars, controls,
                 reported, cleared, answer, overtaken>>

(* Slip: another exporter's error keeps its empty classification. *)
ExportAnswersRaw ==
  IF config.exporter = "no_network" THEN {None} ELSE {None, ""}

(* Slip: the no-network exporter forgets that it is closed. *)
ExportAnswersOpen == {None}

(* What the exporter's Export may answer: NoNetworkExporter decides by its
   state, another exporter may also fail for reasons of its own. *)
ExportAnswers ==
  IF config.exporter = "no_network"
  THEN {IF config.redactionFails THEN "redaction"
        ELSE IF closed THEN "exporter_closed" ELSE None}
  ELSE IF closed THEN {"exporter_closed"} ELSE {None, "exporter_failure"}

Export(c) ==
  /\ call[c].at = "exporting"
  /\ \E err \in ExportAnswers :
       \/ /\ err = None
          /\ observations' = Append(observations, call[c].obs)
          /\ dirty' = TRUE
          /\ Return(c)
       \/ /\ err # None
          /\ Fail(c, err)
          /\ UNCHANGED <<observations, dirty>>
  /\ UNCHANGED <<config, handle, observerVars, closed, controls, historyVars>>

(* handleError: the handler runs with no lock held. *)
HandleError(c) ==
  /\ call[c].at = "handling"
  /\ Return(c)
  /\ reported' = IF call[c].obs = None THEN reported
                 ELSE reported \cup {call[c].obs.handle}
  /\ UNCHANGED <<config, handle, observerVars, exporterVars, controls,
                 skipped, cleared, answer, overtaken>>

-----------------------------------------------------------------------------
(* A call of Flush, Shutdown or Reset begins and goes on as `next'. *)
BeginControl(c) ==
  /\ call[c].at = "idle"
  /\ controls < MaxControls
  /\ controls' = controls + 1

Control(at, err) == [Idle EXCEPT !.at = at, !.err = err]

Flush(c) ==
  /\ BeginControl(c)
  /\ call' = [call EXCEPT ![c] =
       IF config.configErr THEN Control("handling", "invalid_config")
       ELSE IF shutdown    THEN Idle
       ELSE Control("flushing", None)]
  /\ UNCHANGED <<config, handle, observerVars, exporterVars, historyVars>>

(* Flush of the exporter; a context that has ended changes nothing. *)
FlushExporter(c) ==
  /\ call[c].at = "flushing"
  /\ \/ Fail(c, "canceled") /\ UNCHANGED dirty
     \/ /\ config.exporter = "custom"
        /\ Fail(c, "exporter_failure")
        /\ UNCHANGED dirty
     \/ Return(c) /\ dirty' = FALSE
  /\ UNCHANGED <<config, handle, observerVars, observations, closed, controls,
                 historyVars>>

(* Slip: the Observer is not marked before the exporter is shut down. *)
ShutdownUnmarked(c) ==
  /\ BeginControl(c)
  /\ ~shutdown /\ ~config.configErr
  /\ call' = [call EXCEPT ![c] = Control("closing", None)]
  /\ UNCHANGED <<config, handle, observerVars, exporterVars, historyVars>>

(* markShutdown: the first Shutdown goes on, the others return what
   lastShutdownErr was. *)
Shutdown(c) ==
  /\ BeginControl(c)
  /\ shutdown' = TRUE
  /\ call' = [call EXCEPT ![c] =
       IF shutdown              THEN Idle
       ELSE IF config.configErr THEN Control("handling", "invalid_config")
       ELSE Control("closing", None)]
  /\ UNCHANGED <<config, handle, lastShutdownErr, exporterVars, historyVars>>

(* Shutdown of the exporter.  Another one than NoNetworkExporter may close
   although its Shutdown fails, as the Datadog exporter does. *)
ShutdownExporter(c) ==
  /\ call[c].at = "closing"
  /\ \E err \in {None, "canceled"} \cup
                (IF config.exporter = "custom" THEN {"exporter_failure"}
                 ELSE {}),
        closes \in BOOLEAN :
       /\ closes => config.exporter = "custom"
       /\ call' = [call EXCEPT ![c] = Control("settling", err)]
       /\ answer' = err
       /\ closed' = (closed \/ closes \/ err = None)
       /\ dirty' = IF err = None /\ ~closed THEN FALSE ELSE dirty
  /\ UNCHANGED <<config, handle, observerVars, observations, controls,
                 reported, skipped, cleared, overtaken>>

(* Slip: the error of a failed Shutdown is returned but not kept. *)
SettleAndForget(c) ==
  /\ call[c].at = "settling"
  /\ lastShutdownErr' = None
  /\ IF call[c].err = None THEN Return(c) ELSE GoTo(c, "handling")
  /\ UNCHANGED <<config, handle, shutdown, exporterVars, controls, historyVars>>

(* setLastShutdownError or clearLastShutdownError. *)
SettleShutdown(c) ==
  /\ call[c].at = "settling"
  /\ lastShutdownErr' = call[c].err
  /\ IF call[c].err = None THEN Return(c) ELSE GoTo(c, "handling")
  /\ UNCHANGED <<config, handle, shutdown, exporterVars, controls, historyVars>>

(* Reset clears the no-network exporter first ... *)
Reset(c) ==
  /\ BeginControl(c)
  /\ call' = [call EXCEPT ![c] = Control("reopening", None)]
  /\ IF config.exporter = "no_network"
     THEN /\ observations' = <<>>
          /\ dirty' = FALSE
          /\ closed' = FALSE
          /\ cleared' = cleared \cup {o.handle : o \in ToSet(observations)}
     ELSE UNCHANGED <<exporterVars, cleared>>
  /\ UNCHANGED <<config, handle, observerVars, reported, skipped, answer,
                 overtaken>>

(* ... and then opens the Observer, in a critical section of its own. *)
ResetObserver(c) ==
  /\ call[c].at = "reopening"
  /\ call' = [d \in Callers |->
                IF d = c THEN Idle ELSE [call[d] EXCEPT !.late = FALSE]]
  /\ shutdown' = FALSE
  /\ lastShutdownErr' = None
  /\ answer' = None
  /\ overtaken' = (overtaken \/ \E d \in Callers :
                                  call[d].at \in {"closing", "settling"})
  /\ UNCHANGED <<config, handle, exporterVars, controls, reported, skipped,
                 cleared>>

-----------------------------------------------------------------------------
Helper(c) ==
  \/ \E h \in Handles : Reject(c, h) \/ Start(c, h) \/ TooLate(c, h)
  \/ \E e \in Events : Emit(c, e)
  \/ \E s \in Streams : Chunk(c, s) \/ FirstToken(c, s) \/ FinishStream(c, s)
  \/ \E h \in Operations : FinishOperation(c, h)
  \/ ReadState(c)
  \/ Export(c)

Next == \E c \in Callers :
  \/ Helper(c)
  \/ HandleError(c)
  \/ Flush(c) \/ FlushExporter(c)
  \/ Shutdown(c) \/ ShutdownExporter(c) \/ SettleShutdown(c)
  \/ Reset(c) \/ ResetObserver(c)

Spec == Init /\ [][Next]_vars

-----------------------------------------------------------------------------
(* Every variable keeps its shape. *)
TypeOK ==
  /\ config \in Configs
  /\ handle \in [Handles -> [phase : {"unborn", "open", "ended", "inert"},
                             events : Seq(Marks), firstToken : BOOLEAN]]
  /\ shutdown \in BOOLEAN
  /\ lastShutdownErr \in Classes \cup {None}
  /\ observations \in Seq(Observation)
  /\ dirty \in BOOLEAN
  /\ closed \in BOOLEAN
  /\ call \in [Callers -> [at : Points, obs : Observation \cup {None},
                           err : Classes \cup {None}, late : BOOLEAN]]
  /\ controls \in 0..MaxControls
  /\ reported \subseteq Handles
  /\ skipped \subseteq Handles
  /\ cleared \subseteq Handles
  /\ answer \in Classes \cup {None}
  /\ overtaken \in BOOLEAN

(* The places where the observation of a handle can be; a place is counted
   as often as it holds the observation. *)
CallsCarrying(h) == {c \in Callers : call[c].obs # None
                                     /\ call[c].obs.handle = h}
IndicesHolding(h) == {i \in DOMAIN observations : observations[i].handle = h}
Occurs(h, S) == Cardinality(S \cap {h})

(* The observation of a handle whose End or Error was called, by one or by
   several goroutines, is in exactly one place: on its way in one call, once
   in the exporter, given to the error handler, not exported because the
   Observer was shut, or cleared by Reset.  Nothing is exported twice and
   nothing disappears without a report (activeObservation.end, finish,
   exportObservation, NoNetworkExporter.Export). *)
EveryObservationAccounted ==
  \A h \in Handles :
    Cardinality(CallsCarrying(h)) + Cardinality(IndicesHolding(h))
      + Occurs(h, reported) + Occurs(h, skipped) + Occurs(h, cleared)
    = IF handle[h].phase = "ended" THEN 1 ELSE 0

(* A stream's observation holds every event its handle accepted, in order,
   with at most one first token and with a cancellation event exactly at the
   end of a canceled stream, although Chunk, FirstToken and Error race. *)
WholeStream(o) ==
  /\ o.events = handle[o.handle].events
  /\ Cardinality({i \in DOMAIN o.events : o.events[i] = "first_token"}) <= 1
  /\ {i \in DOMAIN o.events : o.events[i] = "cancellation"} =
       IF o.canceled THEN {Len(o.events)} ELSE {}

StreamsAreWhole ==
  /\ \A o \in ToSet(observations) : WholeStream(o)
  /\ \A c \in Callers : call[c].obs # None => WholeStream(call[c].obs)

(* A helper that began when the Observer was shut, and that no Reset has
   overtaken, never reaches the exporter, not even when the exporter itself
   is still open because its Shutdown failed or is not done. *)
LateHelpersAreInert ==
  \A c \in Callers : call[c].at = "exporting" => ~call[c].late

ShuttingDown == {c \in Callers : call[c].at \in {"closing", "settling"}}

(* However many goroutines call Shutdown, one of them shuts the exporter
   down, unless a Reset finished in the middle of it. *)
OneShutdown == overtaken \/ Cardinality(ShuttingDown) <= 1

(* Once that Shutdown is done, what later calls of Flush and Shutdown return
   is the exporter's answer (lastShutdownErr). *)
AnswerIsKept ==
  shutdown /\ ~overtaken /\ ShuttingDown = {} => lastShutdownErr = answer

(* A closed exporter takes no observation, though helpers that read the
   Observer's state before Shutdown still call Export after it. *)
ClosedExporterIsFrozen ==
  [][closed /\ closed' => observations' = observations]_vars

=============================================================================
