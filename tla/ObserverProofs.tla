--------------------------- MODULE ObserverProofs ---------------------------
(***************************************************************************)
(* Proofs about Observer, for every set of goroutines and handles, every   *)
(* exporter configuration and every bound.                                 *)
(*                                                                         *)
(* The first half: types, handles that stay inert, the one Shutdown, the   *)
(* kept answer, the closed exporter.  The second half follows an           *)
(* observation on its way, to show that none is lost or doubled and that   *)
(* every stream arrives whole.  There every step of every goroutine is one *)
(* of four moves: nothing that counts happens, a call takes up the         *)
(* observation of a handle it ends, a call puts its observation down in    *)
(* one place, or Reset clears the exporter.                                *)
(***************************************************************************)
EXTENDS Observer, FiniteSetTheorems, TLAPS

-----------------------------------------------------------------------------
(* Type correctness *)

HandleState == [phase : {"unborn", "open", "ended", "inert"},
                events : Seq(Marks), firstToken : BOOLEAN]

CallState == [at : Points, obs : Observation \cup {None},
              err : Classes \cup {None}, late : BOOLEAN]

(* What a goroutine carries: an observation from the end of a helper until it
   is exported, and none in Flush, Shutdown and Reset. *)
Carries(k) ==
  /\ k.at \in {"reading", "exporting"} => k.obs # None
  /\ k.at \in {"idle", "flushing", "closing", "settling", "reopening"}
       => k.obs = None

Carrying == \A c \in Callers : Carries(call[c])

(* TypeOK is inductive only together with Carrying: ReadState and Export read
   the fields of the observation they carry. *)
Shape == TypeOK /\ Carrying

LEMMA IdleType == Idle \in CallState
BY DEF Idle, CallState, Points

LEMMA ControlType ==
  ASSUME NEW at \in Points, NEW err \in Classes \cup {None}
  PROVE  Control(at, err) \in CallState
BY DEF Control, Idle, CallState

LEMMA ReturnType ==
  ASSUME TypeOK, NEW c \in Callers, Return(c)
  PROVE  call' \in [Callers -> CallState]
BY IdleType DEF TypeOK, Return, CallState

LEMMA GoToType ==
  ASSUME TypeOK, NEW c \in Callers, NEW at \in Points, GoTo(c, at)
  PROVE  call' \in [Callers -> CallState]
BY DEF TypeOK, GoTo, CallState

LEMMA FailType ==
  ASSUME TypeOK, NEW c \in Callers, NEW class \in Classes, Fail(c, class)
  PROVE  call' \in [Callers -> CallState]
BY DEF TypeOK, Fail, CallState, Points

LEMMA BeginHelperType ==
  ASSUME TypeOK, NEW c \in Callers, NEW at \in Points,
         NEW obs \in Observation \cup {None}, NEW err \in Classes \cup {None},
         BeginHelper(c, at, obs, err)
  PROVE  call' \in [Callers -> CallState]
<1>1. [at |-> at, obs |-> obs, err |-> err, late |-> shutdown] \in CallState
  BY DEF TypeOK, CallState
<1> QED BY <1>1 DEF TypeOK, BeginHelper, CallState

LEMMA EndType ==
  ASSUME TypeOK, NEW c \in Callers, NEW h \in Handles,
         NEW canceled \in BOOLEAN, NEW events \in Seq(Marks),
         End(c, h, canceled, events)
  PROVE  TypeOK'
<1>1. [handle |-> h, canceled |-> canceled, events |-> events] \in Observation
  BY DEF Observation
<1>2. "reading" \in Points
  BY DEF Points
<1>3. call' \in [Callers -> CallState]
  BY <1>1, <1>2, BeginHelperType DEF End
<1>4. handle' \in [Handles -> HandleState]
  BY DEF End, TypeOK, HandleState
<1> QED
  BY <1>3, <1>4 DEF End, TypeOK, observerVars, exporterVars, historyVars,
                    CallState, HandleState

LEMMA StreamEventsType ==
  ASSUME TypeOK, NEW s \in Handles, NEW mark \in Marks
  PROVE  /\ handle[s].events \in Seq(Marks)
         /\ Append(handle[s].events, mark) \in Seq(Marks)
BY DEF TypeOK

LEMMA HelperType ==
  ASSUME TypeOK, Carrying, NEW c \in Callers, Helper(c)
  PROVE  TypeOK'
<1> USE DEF observerVars, exporterVars, historyVars
<1>1. CASE \E h \in Handles : Reject(c, h)
  <2>1. PICK h \in Handles : Reject(c, h)
    BY <1>1
  <2>2. call' \in [Callers -> CallState]
    BY <2>1, BeginHelperType DEF Reject, Points, Classes
  <2>3. handle' \in [Handles -> HandleState]
    BY <2>1 DEF Reject, TypeOK, HandleState
  <2> QED BY <2>1, <2>2, <2>3 DEF Reject, TypeOK, CallState, HandleState
<1>2. CASE \E h \in Handles : Start(c, h)
  <2>1. PICK h \in Handles : Start(c, h)
    BY <1>2
  <2>2. handle' \in [Handles -> HandleState]
    BY <2>1 DEF Start, TypeOK, HandleState
  <2> QED BY <2>1, <2>2 DEF Start, TypeOK, HandleState
<1>3. CASE \E h \in Handles : TooLate(c, h)
  BY <1>3 DEF TooLate, TypeOK, vars
<1>4. CASE \E e \in Events : Emit(c, e)
  <2>1. PICK e \in Events : Emit(c, e)
    BY <1>4
  <2>2. [handle |-> e, canceled |-> FALSE, events |-> <<>>] \in Observation
    BY DEF Observation, Handles
  <2>3. call' \in [Callers -> CallState]
    BY <2>1, <2>2, BeginHelperType DEF Emit, Points
  <2>4. handle' \in [Handles -> HandleState]
    BY <2>1 DEF Emit, TypeOK, HandleState
  <2> QED BY <2>1, <2>3, <2>4 DEF Emit, TypeOK, CallState, HandleState
<1>5. CASE \E s \in Streams : Chunk(c, s)
  <2>1. PICK s \in Streams : Chunk(c, s)
    BY <1>5
  <2>2. s \in Handles /\ Append(handle[s].events, "chunk") \in Seq(Marks)
    BY StreamEventsType DEF Handles, Marks
  <2>3. handle' \in [Handles -> HandleState]
    BY <2>1, <2>2 DEF Chunk, TypeOK, HandleState
  <2> QED BY <2>1, <2>3 DEF Chunk, TypeOK, HandleState
<1>6. CASE \E s \in Streams : FirstToken(c, s)
  <2>1. PICK s \in Streams : FirstToken(c, s)
    BY <1>6
  <2>2. s \in Handles /\ Append(handle[s].events, "first_token") \in Seq(Marks)
    BY StreamEventsType DEF Handles, Marks
  <2>3. handle' \in [Handles -> HandleState]
    BY <2>1, <2>2 DEF FirstToken, TypeOK, HandleState
  <2> QED BY <2>1, <2>3 DEF FirstToken, TypeOK, HandleState
<1>7. CASE \E s \in Streams : FinishStream(c, s)
  <2>1. PICK s \in Streams : FinishStream(c, s)
    BY <1>7
  <2>2. /\ s \in Handles /\ handle[s].events \in Seq(Marks)
        /\ Append(handle[s].events, "cancellation") \in Seq(Marks)
    BY StreamEventsType DEF Handles, Marks
  <2> QED BY <2>1, <2>2, EndType DEF FinishStream
<1>8. CASE \E h \in Operations : FinishOperation(c, h)
  <2>1. <<>> \in Seq(Marks)
    OBVIOUS
  <2> QED BY <1>8, <2>1, EndType DEF FinishOperation, Handles
<1>9. CASE ReadState(c)
  <2>1. call' \in [Callers -> CallState]
    BY <1>9, ReturnType, GoToType, FailType DEF ReadState, Points, Classes
  <2>2. skipped' \subseteq Handles
    <3>1. CASE UNCHANGED skipped
      BY <3>1 DEF TypeOK
    <3>2. CASE skipped' = skipped \cup {call[c].obs.handle}
      <4>1. call[c].obs # None
        BY <1>9 DEF ReadState, Carrying, Carries
      <4>2. call[c].obs \in Observation
        BY <4>1 DEF TypeOK
      <4> QED BY <3>2, <4>2 DEF TypeOK, Observation
    <3> QED BY <1>9, <3>1, <3>2 DEF ReadState
  <2> QED BY <1>9, <2>1, <2>2 DEF ReadState, TypeOK, CallState
<1>10. CASE Export(c)
  <2>1. call[c].obs \in Observation
    BY <1>10 DEF Export, Carrying, Carries, TypeOK
  <2>2. PICK err \in ExportAnswers :
          \/ /\ err = None
             /\ observations' = Append(observations, call[c].obs)
             /\ dirty' = TRUE
             /\ Return(c)
          \/ /\ err # None
             /\ Fail(c, err)
             /\ UNCHANGED <<observations, dirty>>
    BY <1>10 DEF Export
  <2>3. err \in Classes \cup {None}
    BY DEF ExportAnswers, Classes
  <2>4. call' \in [Callers -> CallState]
    BY <2>2, <2>3, ReturnType, FailType
  <2>5. observations' \in Seq(Observation) /\ dirty' \in BOOLEAN
    <3>1. /\ observations \in Seq(Observation) /\ dirty \in BOOLEAN
          /\ Append(observations, call[c].obs) \in Seq(Observation)
      BY <2>1 DEF TypeOK
    <3> QED BY <2>2, <3>1
  <2> QED BY <1>10, <2>4, <2>5 DEF Export, TypeOK, CallState
<1> QED
  BY <1>1, <1>2, <1>3, <1>4, <1>5, <1>6, <1>7, <1>8, <1>9, <1>10 DEF Helper

LEMMA ControlCallsType ==
  ASSUME TypeOK, Carrying, NEW c \in Callers,
         \/ HandleError(c) \/ Flush(c) \/ FlushExporter(c)
         \/ Shutdown(c) \/ ShutdownExporter(c) \/ SettleShutdown(c)
         \/ Reset(c) \/ ResetObserver(c)
  PROVE  TypeOK'
<1> USE DEF observerVars, exporterVars, historyVars
<1>1. ASSUME BeginControl(c)
      PROVE  controls' \in 0..MaxControls
  <2>1. controls \in 0..MaxControls /\ controls < MaxControls
        /\ controls' = controls + 1 /\ MaxControls \in Nat
    BY <1>1, ConstantsAssumption DEF BeginControl, TypeOK
  <2> QED BY <2>1
<1>2. ASSUME NEW k \in CallState, call' = [call EXCEPT ![c] = k]
      PROVE  call' \in [Callers -> CallState]
  BY <1>2 DEF TypeOK, CallState
<1>3. /\ {"handling", "flushing", "closing", "settling", "reopening"}
           \subseteq Points
      /\ {"invalid_config", "canceled", "exporter_failure"} \subseteq Classes
  BY DEF Points, Classes
<1>4. CASE HandleError(c)
  <2>1. call' \in [Callers -> CallState]
    BY <1>4, ReturnType DEF HandleError
  <2>2. reported' \subseteq Handles
    <3>1. CASE call[c].obs = None
      BY <1>4, <3>1 DEF HandleError, TypeOK
    <3>2. CASE call[c].obs # None
      <4>1. call[c].obs \in Observation
        BY <3>2 DEF TypeOK
      <4> QED BY <1>4, <3>2, <4>1 DEF HandleError, TypeOK, Observation
    <3> QED BY <3>1, <3>2
  <2> QED BY <1>4, <2>1, <2>2 DEF HandleError, TypeOK, CallState
<1>5. CASE Flush(c)
  <2>1. PICK k \in CallState : call' = [call EXCEPT ![c] = k]
    BY <1>3, <1>5, IdleType, ControlType DEF Flush
  <2>2. call' \in [Callers -> CallState] /\ controls' \in 0..MaxControls
    BY <1>1, <1>2, <1>5, <2>1 DEF Flush
  <2> QED BY <1>5, <2>2 DEF Flush, TypeOK, CallState
<1>6. CASE FlushExporter(c)
  <2>1. call' \in [Callers -> CallState] /\ dirty' \in BOOLEAN
    BY <1>3, <1>6, ReturnType, FailType DEF FlushExporter, TypeOK
  <2> QED BY <1>6, <2>1 DEF FlushExporter, TypeOK, CallState
<1>7. CASE Shutdown(c)
  <2>1. PICK k \in CallState : call' = [call EXCEPT ![c] = k]
    BY <1>3, <1>7, IdleType, ControlType DEF Shutdown
  <2>2. call' \in [Callers -> CallState] /\ controls' \in 0..MaxControls
    BY <1>1, <1>2, <1>7, <2>1 DEF Shutdown
  <2> QED BY <1>7, <2>2 DEF Shutdown, TypeOK, CallState
<1>8. CASE ShutdownExporter(c)
  <2>1. PICK err \in {None, "canceled"} \cup
                  (IF config.exporter = "custom" THEN {"exporter_failure"}
                   ELSE {}),
                 closes \in BOOLEAN :
          /\ call' = [call EXCEPT ![c] = Control("settling", err)]
          /\ answer' = err
          /\ closed' = (closed \/ closes \/ err = None)
          /\ dirty' = IF err = None /\ ~closed THEN FALSE ELSE dirty
    BY <1>8, Zenon DEF ShutdownExporter
  <2>2. err \in Classes \cup {None}
    BY <1>3
  <2>3. call' \in [Callers -> CallState]
    BY <1>2, <1>3, <2>1, <2>2, ControlType
  <2>4. closed' \in BOOLEAN /\ dirty' \in BOOLEAN
    BY <2>1 DEF TypeOK
  <2> QED BY <1>8, <2>1, <2>2, <2>3, <2>4 DEF ShutdownExporter, TypeOK, CallState
<1>9. CASE SettleShutdown(c)
  <2>1. call' \in [Callers -> CallState]
    BY <1>3, <1>9, ReturnType, GoToType DEF SettleShutdown
  <2>2. lastShutdownErr' \in Classes \cup {None}
    BY <1>9 DEF SettleShutdown, TypeOK
  <2> QED BY <1>9, <2>1, <2>2 DEF SettleShutdown, TypeOK, CallState
<1>10. CASE Reset(c)
  <2>1. call' \in [Callers -> CallState] /\ controls' \in 0..MaxControls
    BY <1>1, <1>2, <1>3, <1>10, ControlType DEF Reset
  <2>2. /\ observations' \in Seq(Observation) /\ dirty' \in BOOLEAN
        /\ closed' \in BOOLEAN
    <3>1. CASE config.exporter = "no_network"
      <4>1. observations' = <<>> /\ dirty' = FALSE /\ closed' = FALSE
        BY <1>10, <3>1 DEF Reset
      <4>2. <<>> \in Seq(Observation) /\ FALSE \in BOOLEAN
        OBVIOUS
      <4> QED BY <4>1, <4>2, Zenon
    <3>2. CASE config.exporter # "no_network"
      BY <1>10, <3>2 DEF Reset, TypeOK
    <3> QED BY <3>1, <3>2
  <2>3. cleared' \subseteq Handles
    <3>1. {o.handle : o \in ToSet(observations)} \subseteq Handles
      <4>1. ToSet(observations) \subseteq Observation
        BY DEF TypeOK, ToSet
      <4>2. \A o \in Observation : o.handle \in Handles
        BY DEF Observation
      <4> QED BY <4>1, <4>2
    <3> QED BY <1>10, <3>1 DEF Reset, TypeOK
  <2> QED BY <1>10, <2>1, <2>2, <2>3 DEF Reset, TypeOK, CallState
<1>11. CASE ResetObserver(c)
  <2>1. \A d \in Callers :
          (IF d = c THEN Idle ELSE [call[d] EXCEPT !.late = FALSE]) \in CallState
    BY IdleType DEF TypeOK, CallState
  <2>2. call' \in [Callers -> CallState]
    BY <1>11, <2>1 DEF ResetObserver
  <2>3. overtaken' \in BOOLEAN
    BY <1>11 DEF ResetObserver
  <2> QED BY <1>11, <2>2, <2>3 DEF ResetObserver, TypeOK, CallState
<1> QED BY <1>4, <1>5, <1>6, <1>7, <1>8, <1>9, <1>10, <1>11

(* No step leaves a goroutine at a point without what it has to carry there. *)
LEMMA StepCarries ==
  ASSUME TypeOK, Carrying, Next
  PROVE  Carrying'
<1>1. PICK c \in Callers :
        \/ Helper(c) \/ HandleError(c) \/ Flush(c) \/ FlushExporter(c)
        \/ Shutdown(c) \/ ShutdownExporter(c) \/ SettleShutdown(c)
        \/ Reset(c) \/ ResetObserver(c)
  BY DEF Next
<1>2. call \in [Callers -> CallState] /\ None \notin Observation
  BY ConstantsAssumption DEF TypeOK, CallState
<1>3. ASSUME NEW k, Carries(k), call' = [call EXCEPT ![c] = k]
      PROVE  Carrying'
  BY <1>2, <1>3 DEF Carrying
<1>4. Carries(Idle)
  BY DEF Idle, Carries
<1>5. ASSUME NEW at, NEW err, at # "reading", at # "exporting"
      PROVE  Carries(Control(at, err))
  BY <1>5 DEF Control, Idle, Carries
<1>6. CASE Return(c)
  BY <1>3, <1>4, <1>6 DEF Return
<1>7. ASSUME NEW class, Fail(c, class)
      PROVE  Carrying'
  <2>1. Carries([call[c] EXCEPT !.at = "handling", !.err = class])
    BY <1>2 DEF Carries, CallState
  <2> QED BY <1>2, <1>3, <1>7, <2>1 DEF Fail
<1>8. ASSUME NEW at \in {"reading", "handling"}, NEW obs, NEW err,
             BeginHelper(c, at, obs, err), at = "reading" => obs # None
      PROVE  Carrying'
  <2>1. Carries([at |-> at, obs |-> obs, err |-> err, late |-> shutdown])
    BY <1>8 DEF Carries
  <2> QED BY <1>3, <1>8, <2>1 DEF BeginHelper
<1>9. CASE Helper(c)
  <2>1. CASE \E h \in Handles : Reject(c, h)
    BY <1>8, <2>1 DEF Reject
  <2>2. CASE \/ \E h \in Handles : Start(c, h) \/ TooLate(c, h)
             \/ \E s \in Streams : Chunk(c, s) \/ FirstToken(c, s)
    <3>1. call' = call
      BY <2>2, Zenon DEF Start, TooLate, Chunk, FirstToken, vars
    <3> QED BY <3>1 DEF Carrying
  <2>3. CASE \E e \in Events : Emit(c, e)
    <3>1. PICK e \in Events : Emit(c, e)
      BY <2>3
    <3>2. [handle |-> e, canceled |-> FALSE, events |-> <<>>] \in Observation
      BY DEF Observation, Handles
    <3>3. [handle |-> e, canceled |-> FALSE, events |-> <<>>] # None
      BY <1>2, <3>2
    <3> QED BY <1>8, <3>1, <3>3 DEF Emit
  <2>4. ASSUME NEW h \in Handles, NEW canceled \in BOOLEAN,
               NEW events \in Seq(Marks), End(c, h, canceled, events)
        PROVE  Carrying'
    <3>1. [handle |-> h, canceled |-> canceled, events |-> events] # None
      BY <1>2 DEF Observation
    <3> QED BY <1>8, <2>4, <3>1 DEF End
  <2>5. CASE \E s \in Streams : FinishStream(c, s)
    <3>1. PICK s \in Streams : FinishStream(c, s)
      BY <2>5
    <3>2. /\ s \in Handles /\ handle[s].events \in Seq(Marks)
          /\ Append(handle[s].events, "cancellation") \in Seq(Marks)
      BY StreamEventsType DEF Handles, Marks
    <3> QED BY <2>4, <3>1, <3>2 DEF FinishStream
  <2>6. CASE \E h \in Operations : FinishOperation(c, h)
    <3>1. <<>> \in Seq(Marks)
      OBVIOUS
    <3> QED BY <2>4, <2>6, <3>1 DEF FinishOperation, Handles
  <2>7. CASE ReadState(c)
    <3>1. CASE GoTo(c, "exporting")
      <4>1. Carries([call[c] EXCEPT !.at = "exporting"])
        BY <1>2, <2>7 DEF ReadState, Carrying, Carries, CallState
      <4> QED BY <1>2, <1>3, <3>1, <4>1 DEF GoTo
    <3> QED BY <1>6, <1>7, <2>7, <3>1 DEF ReadState
  <2>8. CASE Export(c)
    BY <1>6, <1>7, <2>8 DEF Export
  <2> QED
    BY <1>9, <2>1, <2>2, <2>3, <2>5, <2>6, <2>7, <2>8 DEF Helper
<1>10. CASE HandleError(c)
  BY <1>6, <1>10 DEF HandleError
<1>11. CASE Flush(c)
  BY <1>3, <1>4, <1>5, <1>11 DEF Flush
<1>12. CASE FlushExporter(c)
  BY <1>6, <1>7, <1>12 DEF FlushExporter
<1>13. CASE Shutdown(c)
  BY <1>3, <1>4, <1>5, <1>13 DEF Shutdown
<1>14. CASE ShutdownExporter(c)
  BY <1>3, <1>5, <1>14 DEF ShutdownExporter
<1>15. CASE SettleShutdown(c)
  <2>1. CASE GoTo(c, "handling")
    <3>1. Carries([call[c] EXCEPT !.at = "handling"])
      BY <1>2 DEF Carries, CallState
    <3> QED BY <1>2, <1>3, <2>1, <3>1 DEF GoTo
  <2> QED BY <1>6, <1>15, <2>1 DEF SettleShutdown
<1>16. CASE Reset(c)
  BY <1>3, <1>5, <1>16 DEF Reset
<1>17. CASE ResetObserver(c)
  <2>1. \A d \in Callers : Carries([call[d] EXCEPT !.late = FALSE])
    BY <1>2 DEF Carrying, Carries, CallState
  <2> QED BY <1>4, <1>17, <2>1 DEF ResetObserver, Carrying
<1> QED
  BY <1>1, <1>9, <1>10, <1>11, <1>12, <1>13, <1>14, <1>15, <1>16, <1>17

LEMMA ShapeIsInvariant == Spec => []Shape
<1>1. Init => Shape
  <2> SUFFICES ASSUME Init PROVE Shape
    OBVIOUS
  <2>1. [phase |-> "unborn", events |-> <<>>, firstToken |-> FALSE]
          \in HandleState
    BY DEF HandleState
  <2>2. handle \in [Handles -> HandleState] /\ call \in [Callers -> CallState]
    BY <2>1, IdleType DEF Init
  <2>3. <<>> \in Seq(Observation) /\ 0 \in 0..MaxControls
    BY ConstantsAssumption
  <2>4. TypeOK
    BY <2>2, <2>3 DEF Init, TypeOK, HandleState, CallState
  <2>5. Carrying
    BY DEF Init, Idle, Carrying, Carries
  <2> QED BY <2>4, <2>5 DEF Shape
<1>2. Shape /\ [Next]_vars => Shape'
  <2> SUFFICES ASSUME TypeOK, Carrying, [Next]_vars
               PROVE  TypeOK' /\ Carrying'
    BY DEF Shape
  <2>1. CASE Next
    BY <2>1, HelperType, ControlCallsType, StepCarries DEF Next
  <2>2. CASE UNCHANGED vars
    BY <2>2 DEF vars, observerVars, exporterVars, historyVars, TypeOK, Carrying
  <2> QED BY <2>1, <2>2
<1> QED BY <1>1, <1>2, PTL DEF Spec

(* Every variable keeps its shape; a goroutine has an observation with it
   exactly while a helper is on its way to the exporter. *)
THEOREM TypeCorrect == Spec => []TypeOK
<1>1. Shape => TypeOK
  BY DEF Shape
<1> QED BY <1>1, ShapeIsInvariant, PTL

-----------------------------------------------------------------------------
(* Shutdown against everything else *)

(* What a step of c does to the Observer's own state when it is no part of a
   Shutdown and not the end of a Reset: nothing; it may move c between points
   outside Shutdown, and it lets c reach the exporter only past the check of
   the shutdown flag. *)
Ordinary(c) ==
  /\ UNCHANGED <<shutdown, lastShutdownErr, answer, overtaken>>
  /\ \A d \in Callers \ {c} : call'[d] = call[d]
  /\ \/ call'[c] = call[c]
     \/ /\ call[c].at \notin {"closing", "settling"}
        /\ call'[c].at \notin {"closing", "settling"}
        /\ call'[c].late => call[c].late \/ shutdown
        /\ call'[c].at = "exporting" => ~shutdown

LEMMA OrdinaryChange ==
  ASSUME TypeOK, NEW c \in Callers, NEW k, call' = [call EXCEPT ![c] = k]
  PROVE  call'[c] = k /\ \A d \in Callers \ {c} : call'[d] = call[d]
BY DEF TypeOK

LEMMA ControlIs ==
  ASSUME NEW at \in Points, NEW err \in Classes \cup {None}
  PROVE  Control(at, err)
           = [at |-> at, obs |-> None, err |-> err, late |-> FALSE]
<1> DEFINE k == Control(at, err)
<1>1. k \in CallState
  BY ControlType
<1>2. /\ k.at = at /\ k.err = err
      /\ k.obs = Idle.obs /\ k.late = Idle.late
  BY IdleType DEF Control, CallState
<1>3. Idle.obs = None /\ Idle.late = FALSE
  BY DEF Idle
<1> HIDE DEF k
<1>4. k = [at |-> at, obs |-> None, err |-> err, late |-> FALSE]
  BY <1>1, <1>2, <1>3 DEF CallState
<1> QED BY <1>4 DEF k

(* Where Flush, Shutdown and ShutdownExporter may go on. *)
LEMMA ControlPoints ==
  /\ {"idle", "handling", "flushing", "closing", "settling", "reopening"}
       \subseteq Points
  /\ {"invalid_config", "canceled", "exporter_failure"} \subseteq Classes
  /\ "idle" \in Points /\ None \in Classes \cup {None}
BY DEF Points, Classes

LEMMA IdleIsControl == Control("idle", None) = Idle
BY ControlIs, ControlPoints DEF Idle

LEMMA OrdinaryReturn ==
  ASSUME TypeOK, NEW c \in Callers, Return(c),
         call[c].at \notin {"closing", "settling"},
         UNCHANGED <<shutdown, lastShutdownErr, answer, overtaken>>
  PROVE  Ordinary(c)
BY OrdinaryChange DEF Return, Idle, Ordinary

LEMMA OrdinaryFail ==
  ASSUME TypeOK, NEW c \in Callers, NEW class, Fail(c, class),
         call[c].at \notin {"closing", "settling"},
         UNCHANGED <<shutdown, lastShutdownErr, answer, overtaken>>
  PROVE  Ordinary(c)
<1>1. /\ call'[c].at = "handling" /\ call'[c].late = call[c].late
      /\ \A d \in Callers \ {c} : call'[d] = call[d]
  BY DEF TypeOK, Fail
<1> QED BY <1>1 DEF Ordinary

LEMMA OrdinaryBegin ==
  ASSUME TypeOK, NEW c \in Callers, NEW at \in {"reading", "handling"},
         NEW obs, NEW err, BeginHelper(c, at, obs, err),
         UNCHANGED <<shutdown, lastShutdownErr, answer, overtaken>>
  PROVE  Ordinary(c)
<1>1. /\ call'[c].at = at /\ call'[c].late = shutdown /\ call[c].at = "idle"
      /\ \A d \in Callers \ {c} : call'[d] = call[d]
  BY DEF TypeOK, BeginHelper
<1> QED BY <1>1 DEF Ordinary

LEMMA OrdinaryControl ==
  ASSUME TypeOK, NEW c \in Callers, BeginControl(c),
         NEW at \in {"handling", "flushing", "reopening"},
         NEW err \in Classes \cup {None},
         call' = [call EXCEPT ![c] = Control(at, err)],
         UNCHANGED <<shutdown, lastShutdownErr, answer, overtaken>>
  PROVE  Ordinary(c)
<1>1. /\ call'[c] = Control(at, err) /\ call[c].at = "idle"
      /\ \A d \in Callers \ {c} : call'[d] = call[d]
  BY OrdinaryChange DEF BeginControl
<1>2. call'[c] = [at |-> at, obs |-> None, err |-> err, late |-> FALSE]
  BY <1>1, ControlIs, ControlPoints
<1> QED BY <1>1, <1>2 DEF Ordinary

LEMMA OrdinarySteps ==
  ASSUME TypeOK, NEW c \in Callers,
         \/ Helper(c) \/ HandleError(c) \/ Flush(c) \/ FlushExporter(c)
         \/ Reset(c)
  PROVE  Ordinary(c)
<1> USE DEF observerVars, historyVars
<1>1. CASE \/ \E h \in Handles : Start(c, h) \/ TooLate(c, h)
           \/ \E s \in Streams : Chunk(c, s) \/ FirstToken(c, s)
  <2>1. UNCHANGED <<call, shutdown, lastShutdownErr, answer, overtaken>>
    BY <1>1 DEF Start, TooLate, Chunk, FirstToken, vars
  <2> QED BY <2>1 DEF Ordinary
<1>2. CASE \/ \E h \in Handles : Reject(c, h)
           \/ \E e \in Events : Emit(c, e)
  <2>1. /\ \E at \in {"reading", "handling"} :
             \E obs, err : BeginHelper(c, at, obs, err)
        /\ UNCHANGED <<shutdown, lastShutdownErr, answer, overtaken>>
    BY <1>2 DEF Reject, Emit
  <2> QED BY <2>1, OrdinaryBegin
<1>3. CASE \/ \E s \in Streams : FinishStream(c, s)
           \/ \E h \in Operations : FinishOperation(c, h)
  <2>1. /\ \E obs, err : BeginHelper(c, "reading", obs, err)
        /\ UNCHANGED <<shutdown, lastShutdownErr, answer, overtaken>>
    BY <1>3 DEF FinishStream, FinishOperation, End
  <2> QED BY <2>1, OrdinaryBegin
<1>4. CASE ReadState(c)
  <2>1. /\ call[c].at = "reading"
        /\ UNCHANGED <<shutdown, lastShutdownErr, answer, overtaken>>
    BY <1>4 DEF ReadState
  <2>2. CASE GoTo(c, "exporting") /\ ~shutdown
    <3>1. /\ call'[c].at = "exporting" /\ call'[c].late = call[c].late
          /\ \A d \in Callers \ {c} : call'[d] = call[d]
      BY <2>2 DEF TypeOK, GoTo
    <3> QED BY <2>1, <2>2, <3>1 DEF Ordinary
  <2> QED BY <1>4, <2>1, <2>2, OrdinaryReturn, OrdinaryFail DEF ReadState
<1>5. CASE Export(c)
  <2>1. /\ call[c].at = "exporting"
        /\ Return(c) \/ \E class : Fail(c, class)
        /\ UNCHANGED <<shutdown, lastShutdownErr, answer, overtaken>>
    BY <1>5, Zenon DEF Export
  <2> QED BY <2>1, OrdinaryReturn, OrdinaryFail
<1>6. CASE HandleError(c)
  BY <1>6, OrdinaryReturn DEF HandleError
<1>7. CASE Flush(c)
  <2>1. /\ BeginControl(c)
        /\ UNCHANGED <<shutdown, lastShutdownErr, answer, overtaken>>
        /\ \/ Return(c)
           \/ \E at \in {"handling", "flushing"}, err \in Classes \cup {None} :
                call' = [call EXCEPT ![c] = Control(at, err)]
    BY <1>7, ControlPoints DEF Flush, Return
  <2> QED BY <2>1, OrdinaryReturn, OrdinaryControl DEF BeginControl
<1>8. CASE FlushExporter(c)
  BY <1>8, OrdinaryReturn, OrdinaryFail DEF FlushExporter
<1>9. CASE Reset(c)
  BY <1>9, OrdinaryControl, ControlPoints DEF Reset
<1> QED BY <1>1, <1>2, <1>3, <1>4, <1>5, <1>6, <1>7, <1>8, <1>9 DEF Helper

(* What Shutdown and ShutdownExporter leave c to do. *)
LEMMA ShutdownGoesOn ==
  ASSUME NEW c \in Callers, Shutdown(c) \/ ShutdownExporter(c)
  PROVE  \E at \in {"idle", "handling", "closing", "settling"},
             err \in Classes \cup {None} :
           call' = [call EXCEPT ![c] = Control(at, err)]
<1>1. CASE Shutdown(c)
  BY <1>1, ControlPoints, IdleIsControl DEF Shutdown
<1>2. CASE ShutdownExporter(c)
  <2>1. PICK err \in {None, "canceled"} \cup
                  (IF config.exporter = "custom" THEN {"exporter_failure"}
                   ELSE {}) :
          call' = [call EXCEPT ![c] = Control("settling", err)]
    BY <1>2, Zenon DEF ShutdownExporter
  <2>2. err \in Classes \cup {None}
    BY ControlPoints
  <2> QED BY <2>1, <2>2
<1> QED BY <1>1, <1>2

(* A late helper implies that the Observer is still shut, and one at the
   exporter is not late. *)
LateMeansShut ==
  \A c \in Callers : /\ call[c].late => shutdown
                     /\ call[c].at = "exporting" => ~call[c].late

(* A helper that began when the Observer was shut, and that no Reset has
   overtaken, never reaches the exporter: being late outlives the check of the
   flag only as long as the flag does. *)
THEOREM LateHelpersStayInert == Spec => []LateHelpersAreInert
<1>1. Init => LateMeansShut
  BY DEF Init, Idle, LateMeansShut
<1>2. TypeOK /\ LateMeansShut /\ [Next]_vars => LateMeansShut'
  <2> SUFFICES ASSUME TypeOK, LateMeansShut, [Next]_vars
               PROVE  LateMeansShut'
    OBVIOUS
  <2>1. ASSUME NEW c \in Callers, Ordinary(c)
        PROVE  LateMeansShut'
    BY <2>1 DEF Ordinary, LateMeansShut
  <2>2. ASSUME NEW c \in Callers, Shutdown(c) \/ ShutdownExporter(c)
        PROVE  LateMeansShut'
    <3>1. PICK at \in {"idle", "handling", "closing", "settling"},
               err \in Classes \cup {None} :
            call' = [call EXCEPT ![c] = Control(at, err)]
      BY <2>2, ShutdownGoesOn
    <3>2. /\ call'[c] = Control(at, err)
          /\ \A d \in Callers \ {c} : call'[d] = call[d]
      BY <3>1, OrdinaryChange
    <3>4. call'[c] = [at |-> at, obs |-> None, err |-> err, late |-> FALSE]
      BY <3>2, ControlIs, ControlPoints
    <3>3. shutdown => shutdown'
      BY <2>2 DEF Shutdown, ShutdownExporter, observerVars
    <3> QED BY <3>2, <3>3, <3>4 DEF LateMeansShut
  <2>3. ASSUME NEW c \in Callers, SettleShutdown(c)
        PROVE  LateMeansShut'
    <3>1. /\ call'[c].at \in {"idle", "handling"}
          /\ call'[c].late => call[c].late
          /\ \A d \in Callers \ {c} : call'[d] = call[d]
          /\ shutdown' = shutdown
      BY <2>3 DEF SettleShutdown, Return, GoTo, Idle, TypeOK
    <3> QED BY <3>1 DEF LateMeansShut
  <2>4. ASSUME NEW c \in Callers, ResetObserver(c)
        PROVE  LateMeansShut'
    <3>1. \A d \in Callers : ~call'[d].late
      BY <2>4 DEF ResetObserver, Idle, TypeOK
    <3> QED BY <3>1 DEF LateMeansShut
  <2>5. CASE UNCHANGED vars
    BY <2>5 DEF vars, observerVars, LateMeansShut
  <2> QED
    BY <2>1, <2>2, <2>3, <2>4, <2>5, OrdinarySteps DEF Next
<1>3. LateMeansShut => LateHelpersAreInert
  BY DEF LateMeansShut, LateHelpersAreInert
<1> QED BY <1>1, <1>2, <1>3, TypeCorrect, PTL DEF Spec

(* The inductive invariant of Shutdown, until a Reset finishes in the middle
   of one: at most one goroutine shuts the exporter down, the flag is set
   meanwhile, the goroutine carries the exporter's answer until it is kept,
   and from then on it is kept. *)
OneCloser ==
  /\ \A c, d \in ShuttingDown : c = d
  /\ ShuttingDown # {} => shutdown
  /\ \A c \in Callers : call[c].at = "settling" => call[c].err = answer
  /\ ShuttingDown = {} => lastShutdownErr = answer

CloserInv == overtaken \/ OneCloser

LEMMA CloserIsInvariant == Spec => []CloserInv
<1>1. Init => CloserInv
  BY DEF Init, Idle, CloserInv, OneCloser, ShuttingDown
<1>2. TypeOK /\ CloserInv /\ [Next]_vars => CloserInv'
  <2> SUFFICES ASSUME TypeOK, CloserInv, [Next]_vars
               PROVE  CloserInv'
    OBVIOUS
  <2> USE DEF historyVars, observerVars
  <2>1. ASSUME NEW c \in Callers, Ordinary(c)
        PROVE  CloserInv'
    <3>1. CASE overtaken
      BY <2>1, <3>1 DEF Ordinary, CloserInv
    <3>2. CASE OneCloser
      <4>1. ShuttingDown' = ShuttingDown
        BY <2>1 DEF Ordinary, ShuttingDown
      <4>2. \A d \in Callers :
              call'[d].at = "settling" => call'[d].err = answer'
        BY <2>1, <3>2 DEF Ordinary, OneCloser
      <4> QED BY <2>1, <3>2, <4>1, <4>2 DEF Ordinary, CloserInv, OneCloser
    <3> QED BY <3>1, <3>2 DEF CloserInv
  <2>2. ASSUME NEW c \in Callers, Shutdown(c)
        PROVE  CloserInv'
    <3>1. /\ shutdown' = TRUE /\ call[c].at = "idle"
          /\ UNCHANGED <<lastShutdownErr, answer, overtaken>>
      BY <2>2 DEF Shutdown, BeginControl
    <3>2. PICK at \in {"idle", "handling", "closing"},
               err \in Classes \cup {None} :
            /\ call' = [call EXCEPT ![c] = Control(at, err)]
            /\ at = "closing" => ~shutdown
      BY <2>2, ControlPoints, IdleIsControl DEF Shutdown
    <3>3. /\ call'[c] = Control(at, err)
          /\ \A d \in Callers \ {c} : call'[d] = call[d]
      BY <3>2, OrdinaryChange
    <3>4. call'[c] = [at |-> at, obs |-> None, err |-> err, late |-> FALSE]
      BY <3>3, ControlIs, ControlPoints
    <3>5. CASE overtaken
      BY <3>1, <3>5 DEF CloserInv
    <3>6. CASE OneCloser /\ at = "closing"
      <4>1. ShuttingDown = {} /\ ShuttingDown' = {c}
        BY <3>2, <3>3, <3>4, <3>6 DEF OneCloser, ShuttingDown
      <4>2. \A d \in Callers : call'[d].at # "settling"
        BY <3>3, <3>4, <3>6, <4>1 DEF ShuttingDown
      <4> QED BY <3>1, <4>1, <4>2 DEF CloserInv, OneCloser
    <3>7. CASE OneCloser /\ at # "closing"
      <4>1. ShuttingDown' = ShuttingDown
        BY <3>1, <3>3, <3>4, <3>7 DEF ShuttingDown
      <4>2. \A d \in Callers :
              call'[d].at = "settling" => call'[d].err = answer'
        BY <3>1, <3>3, <3>4, <3>7 DEF OneCloser
      <4> QED BY <3>1, <3>7, <4>1, <4>2 DEF CloserInv, OneCloser
    <3> QED BY <3>5, <3>6, <3>7 DEF CloserInv
  <2>3. ASSUME NEW c \in Callers, ShutdownExporter(c)
        PROVE  CloserInv'
    <3>1. /\ call[c].at = "closing"
          /\ UNCHANGED <<shutdown, lastShutdownErr, overtaken>>
      BY <2>3 DEF ShutdownExporter
    <3>2. PICK err \in {None, "canceled"} \cup
                  (IF config.exporter = "custom" THEN {"exporter_failure"}
                   ELSE {}) :
            call' = [call EXCEPT ![c] = Control("settling", err)]
            /\ answer' = err
      BY <2>3, Zenon DEF ShutdownExporter
    <3>3. /\ call'[c] = Control("settling", err)
          /\ \A d \in Callers \ {c} : call'[d] = call[d]
      BY <3>2, OrdinaryChange
    <3>4. err \in Classes \cup {None}
      BY ControlPoints
    <3>5. call'[c]
            = [at |-> "settling", obs |-> None, err |-> err, late |-> FALSE]
      BY <3>3, <3>4, ControlIs, ControlPoints
    <3>6. CASE overtaken
      BY <3>1, <3>6 DEF CloserInv
    <3>7. CASE OneCloser
      <4>1. ShuttingDown = {c} /\ ShuttingDown' = {c}
        BY <3>1, <3>3, <3>5, <3>7 DEF OneCloser, ShuttingDown
      <4>2. \A d \in Callers :
              call'[d].at = "settling" => call'[d].err = answer'
        BY <3>2, <3>5, <4>1 DEF ShuttingDown
      <4> QED BY <3>1, <3>7, <4>1, <4>2 DEF CloserInv, OneCloser
    <3> QED BY <3>6, <3>7 DEF CloserInv
  <2>4. ASSUME NEW c \in Callers, SettleShutdown(c)
        PROVE  CloserInv'
    <3>1. /\ call[c].at = "settling" /\ lastShutdownErr' = call[c].err
          /\ UNCHANGED <<shutdown, answer, overtaken>>
          /\ call'[c].at \notin {"closing", "settling"}
          /\ \A d \in Callers \ {c} : call'[d] = call[d]
      BY <2>4 DEF SettleShutdown, Return, GoTo, Idle, TypeOK
    <3>2. CASE overtaken
      BY <3>1, <3>2 DEF CloserInv
    <3>3. CASE OneCloser
      <4>1. ShuttingDown = {c} /\ ShuttingDown' = {}
        BY <3>1, <3>3 DEF OneCloser, ShuttingDown
      <4>2. lastShutdownErr' = answer'
        BY <3>1, <3>3 DEF OneCloser
      <4>3. \A d \in Callers : call'[d].at # "settling"
        BY <4>1 DEF ShuttingDown
      <4> QED BY <4>1, <4>2, <4>3 DEF CloserInv, OneCloser
    <3> QED BY <3>2, <3>3 DEF CloserInv
  <2>5. ASSUME NEW c \in Callers, ResetObserver(c)
        PROVE  CloserInv'
    <3>1. /\ lastShutdownErr' = None /\ answer' = None
          /\ overtaken' = (overtaken \/ \E d \in Callers :
                                          call[d].at \in {"closing", "settling"})
          /\ \A d \in Callers : call'[d].at \in {"idle", call[d].at}
      BY <2>5 DEF ResetObserver, Idle, TypeOK
    <3>2. CASE ShuttingDown # {}
      BY <3>1, <3>2 DEF CloserInv, ShuttingDown
    <3>3. CASE ShuttingDown = {}
      <4>1. ShuttingDown' = {} /\ \A d \in Callers : call'[d].at # "settling"
        BY <3>1, <3>3 DEF ShuttingDown
      <4> QED BY <3>1, <4>1 DEF CloserInv, OneCloser
    <3> QED BY <3>2, <3>3
  <2>6. CASE UNCHANGED vars
    BY <2>6 DEF vars, CloserInv, OneCloser, ShuttingDown
  <2> QED
    BY <2>1, <2>2, <2>3, <2>4, <2>5, <2>6, OrdinarySteps DEF Next
<1> QED BY <1>1, <1>2, TypeCorrect, PTL DEF Spec

(* A set without two different elements has at most one. *)
LEMMA AtMostOneElement ==
  ASSUME NEW S, \A x, y \in S : x = y
  PROVE  IsFiniteSet(S) /\ Cardinality(S) \in {0, 1}
<1>1. CASE S = {}
  BY <1>1, FS_EmptySet
<1>2. CASE S # {}
  <2>1. PICK x : x \in S
    BY <1>2
  <2>2. S = {x}
    BY <2>1
  <2> QED BY <2>2, FS_Singleton
<1> QED BY <1>1, <1>2

(* However many goroutines call Shutdown, one of them shuts the exporter down,
   unless a Reset finished in the middle of it. *)
THEOREM OneShutsDown == Spec => []OneShutdown
<1>1. CloserInv => OneShutdown
  <2> SUFFICES ASSUME OneCloser PROVE Cardinality(ShuttingDown) <= 1
    BY DEF CloserInv, OneShutdown
  <2>1. Cardinality(ShuttingDown) \in {0, 1}
    BY AtMostOneElement DEF OneCloser
  <2> QED BY <2>1
<1> QED BY <1>1, CloserIsInvariant, PTL

(* Once that Shutdown is done, what later calls of Flush and Shutdown return
   is the exporter's answer. *)
THEOREM AnswerStaysKept == Spec => []AnswerIsKept
<1>1. CloserInv => AnswerIsKept
  BY DEF CloserInv, OneCloser, AnswerIsKept
<1> QED BY <1>1, CloserIsInvariant, PTL

(* A closed exporter takes no observation, though helpers that read the
   Observer's state before Shutdown still call Export after it. *)
THEOREM ClosedStaysFrozen == Spec => ClosedExporterIsFrozen
<1>1. [Next]_vars => [closed /\ closed' => observations' = observations]_vars
  <2> SUFFICES ASSUME Next, closed, closed'
               PROVE  observations' = observations
    OBVIOUS
  <2> USE DEF exporterVars
  <2>1. PICK c \in Callers :
          \/ Helper(c) \/ HandleError(c) \/ Flush(c) \/ FlushExporter(c)
          \/ Shutdown(c) \/ ShutdownExporter(c) \/ SettleShutdown(c)
          \/ Reset(c) \/ ResetObserver(c)
    BY DEF Next
  <2>2. CASE Export(c)
    <3>1. None \notin ExportAnswers
      BY ConstantsAssumption DEF ExportAnswers, Classes
    <3> QED BY <2>2, <3>1, Zenon DEF Export
  <2>3. CASE Helper(c) /\ ~Export(c)
    BY <2>3, Zenon
       DEF Helper, Reject, Start, TooLate, Emit, Chunk, FirstToken,
           FinishStream, FinishOperation, End, ReadState, vars
  <2>4. CASE Reset(c)
    BY <2>4, Zenon DEF Reset
  <2>5. CASE \/ HandleError(c) \/ Flush(c) \/ FlushExporter(c) \/ Shutdown(c)
             \/ ShutdownExporter(c) \/ SettleShutdown(c) \/ ResetObserver(c)
    BY <2>5, Zenon
       DEF HandleError, Flush, FlushExporter, Shutdown, ShutdownExporter,
           SettleShutdown, ResetObserver
  <2> QED BY <2>1, <2>2, <2>3, <2>4, <2>5
<1> QED BY <1>1, PTL DEF Spec, ClosedExporterIsFrozen

-----------------------------------------------------------------------------
(* What a handle knows of its stream *)

MarkedAt(events, mark) == {i \in DOMAIN events : events[i] = mark}

TidyHandle(h, k) ==
  /\ k.phase = "unborn" => k.events = <<>> /\ ~k.firstToken
  /\ h \notin Streams => k.events = <<>>
  /\ k.phase \in {"unborn", "open"} => MarkedAt(k.events, "cancellation") = {}
  /\ \A i, j \in MarkedAt(k.events, "first_token") : i = j
  /\ ~k.firstToken => MarkedAt(k.events, "first_token") = {}

Tidy == \A h \in Handles : TidyHandle(h, handle[h])

LEMMA MarkedAppend ==
  ASSUME NEW events \in Seq(Marks), NEW new, NEW mark
  PROVE  MarkedAt(Append(events, new), mark) =
           IF new = mark THEN MarkedAt(events, mark) \cup {Len(events) + 1}
                         ELSE MarkedAt(events, mark)
<1> DEFINE n == Len(events)
<1>1. /\ n \in Nat /\ DOMAIN events = 1..n
      /\ DOMAIN Append(events, new) = 1..(n + 1)
      /\ \A i \in 1..n : Append(events, new)[i] = events[i]
      /\ Append(events, new)[n + 1] = new
  OBVIOUS
<1> HIDE DEF n
<1>2. 1..(n + 1) = 1..n \cup {n + 1}
  BY <1>1
<1> QED BY <1>1, <1>2 DEF MarkedAt, n

LEMMA TidyChange ==
  ASSUME TypeOK, Tidy, NEW h \in Handles, NEW k, TidyHandle(h, k),
         handle' = [handle EXCEPT ![h] = k]
  PROVE  Tidy'
<1>1. \A g \in Handles : handle'[g] = IF g = h THEN k ELSE handle[g]
  BY DEF TypeOK
<1> QED BY <1>1 DEF Tidy, TidyHandle, MarkedAt

(* A handle that only changes its phase, and not back to "unborn", stays
   tidy; "open" is reached from "unborn" alone. *)
LEMMA TidyPhase ==
  ASSUME TypeOK, Tidy, NEW h \in Handles,
         NEW phase \in {"open", "ended", "inert"},
         phase = "open" => handle[h].phase \in {"unborn", "open"},
         handle' = [handle EXCEPT ![h].phase = phase]
  PROVE  Tidy'
<1> DEFINE k == [handle[h] EXCEPT !.phase = phase]
<1>1. /\ k.phase = phase /\ k.events = handle[h].events
      /\ k.firstToken = handle[h].firstToken
  BY DEF TypeOK
<1>2. handle' = [handle EXCEPT ![h] = k]
  OBVIOUS
<1> HIDE DEF k
<1>3. TidyHandle(h, k)
  BY <1>1 DEF Tidy, TidyHandle
<1> QED BY <1>2, <1>3, TidyChange

LEMMA TidyEnd ==
  ASSUME TypeOK, Tidy, NEW c \in Callers, NEW h \in Handles,
         NEW canceled, NEW events \in Seq(Marks),
         h \notin Streams => events = <<>>,
         MarkedAt(events, "first_token")
           = MarkedAt(handle[h].events, "first_token"),
         End(c, h, canceled, events)
  PROVE  Tidy'
<1> DEFINE k == [handle[h] EXCEPT !.phase = "ended", !.events = events]
<1>1. /\ k.phase = "ended" /\ k.events = events
      /\ k.firstToken = handle[h].firstToken
  BY DEF TypeOK
<1>2. handle' = [handle EXCEPT ![h] = k]
  BY DEF End
<1> HIDE DEF k
<1>3. TidyHandle(h, k)
  BY <1>1 DEF Tidy, TidyHandle
<1> QED BY <1>2, <1>3, TidyChange

LEMMA TidyIsInvariant == Spec => []Tidy
<1>1. Init => Tidy
  <2> SUFFICES ASSUME Init, NEW h \in Handles
               PROVE  TidyHandle(h, handle[h])
    BY DEF Tidy
  <2>1. /\ handle[h].phase = "unborn" /\ handle[h].events = <<>>
        /\ ~handle[h].firstToken
    BY DEF Init
  <2>2. \A mark : MarkedAt(<<>>, mark) = {}
    BY DEF MarkedAt
  <2> QED BY <2>1, <2>2 DEF TidyHandle
<1>2. TypeOK /\ Tidy /\ [Next]_vars => Tidy'
  <2> SUFFICES ASSUME TypeOK, Tidy, [Next]_vars
               PROVE  Tidy'
    OBVIOUS
  <2>1. CASE UNCHANGED handle
    BY <2>1 DEF Tidy
  <2>2. ASSUME NEW c \in Callers, NEW h \in Handles, Reject(c, h)
        PROVE  Tidy'
    BY <2>2, TidyPhase DEF Reject
  <2>3. ASSUME NEW c \in Callers, NEW h \in Handles, Start(c, h)
        PROVE  Tidy'
    BY <2>3, TidyPhase DEF Start
  <2>4. ASSUME NEW c \in Callers, NEW e \in Events, Emit(c, e)
        PROVE  Tidy'
    BY <2>4, TidyPhase DEF Emit, Handles
  <2>5. ASSUME NEW c \in Callers, NEW s \in Streams, Chunk(c, s)
        PROVE  Tidy'
    <3> DEFINE k == [handle[s] EXCEPT !.events = Append(@, "chunk")]
    <3>1. s \in Handles
      BY DEF Handles
    <3>2. /\ k.phase = "open" /\ k.events = Append(handle[s].events, "chunk")
          /\ k.firstToken = handle[s].firstToken
          /\ handle[s].events \in Seq(Marks) /\ handle[s].phase = "open"
      BY <2>5, <3>1 DEF TypeOK, Chunk
    <3>3. handle' = [handle EXCEPT ![s] = k]
      BY <2>5 DEF Chunk
    <3> HIDE DEF k
    <3>4. \A mark \in {"first_token", "cancellation"} :
            MarkedAt(k.events, mark) = MarkedAt(handle[s].events, mark)
      BY <3>2, MarkedAppend
    <3>5. TidyHandle(s, k)
      BY <3>1, <3>2, <3>4 DEF Tidy, TidyHandle
    <3> QED BY <3>1, <3>3, <3>5, TidyChange
  <2>6. ASSUME NEW c \in Callers, NEW s \in Streams, FirstToken(c, s)
        PROVE  Tidy'
    <3> DEFINE k == [handle[s] EXCEPT !.events = Append(@, "first_token"),
                                      !.firstToken = TRUE]
               n == Len(handle[s].events)
    <3>1. s \in Handles
      BY DEF Handles
    <3>2. /\ k.phase = "open" /\ k.firstToken
          /\ k.events = Append(handle[s].events, "first_token")
          /\ handle[s].events \in Seq(Marks) /\ handle[s].phase = "open"
          /\ ~handle[s].firstToken
      BY <2>6, <3>1 DEF TypeOK, FirstToken
    <3>3. handle' = [handle EXCEPT ![s] = k]
      BY <2>6 DEF FirstToken
    <3> HIDE DEF k
    <3>4. MarkedAt(k.events, "cancellation")
            = MarkedAt(handle[s].events, "cancellation")
      BY <3>2, MarkedAppend
    <3>5. MarkedAt(k.events, "first_token")
            = MarkedAt(handle[s].events, "first_token") \cup {n + 1}
      BY <3>2, MarkedAppend
    <3>6. MarkedAt(handle[s].events, "first_token") = {}
      BY <3>1, <3>2 DEF Tidy, TidyHandle
    <3>7. TidyHandle(s, k)
      BY <3>1, <3>2, <3>4, <3>5, <3>6 DEF Tidy, TidyHandle
    <3> QED BY <3>1, <3>3, <3>7, TidyChange
  <2>7. ASSUME NEW c \in Callers, NEW s \in Streams, FinishStream(c, s)
        PROVE  Tidy'
    <3>1. /\ s \in Handles /\ handle[s].events \in Seq(Marks)
          /\ Append(handle[s].events, "cancellation") \in Seq(Marks)
      BY StreamEventsType DEF Handles, Marks
    <3>2. MarkedAt(Append(handle[s].events, "cancellation"), "first_token")
            = MarkedAt(handle[s].events, "first_token")
      BY <3>1, MarkedAppend
    <3> QED BY <2>7, <3>1, <3>2, TidyEnd DEF FinishStream
  <2>8. ASSUME NEW c \in Callers, NEW h \in Operations, FinishOperation(c, h)
        PROVE  Tidy'
    <3>1. h \in Handles /\ h \notin Streams /\ <<>> \in Seq(Marks)
      BY ConstantsAssumption DEF Handles
    <3>2. handle[h].events = <<>>
      BY <3>1 DEF Tidy, TidyHandle
    <3> QED BY <2>8, <3>1, <3>2, TidyEnd DEF FinishOperation
  <2>9. \/ UNCHANGED handle
        \/ \E c \in Callers :
             \/ \E h \in Handles : Reject(c, h) \/ Start(c, h)
             \/ \E e \in Events : Emit(c, e)
             \/ \E s \in Streams :
                  Chunk(c, s) \/ FirstToken(c, s) \/ FinishStream(c, s)
             \/ \E h \in Operations : FinishOperation(c, h)
    <3>1. CASE UNCHANGED vars
      BY <3>1 DEF vars
    <3>2. CASE Next
      BY <3>2, Zenon
         DEF Next, Helper, TooLate, ReadState, Export, HandleError, Flush,
             FlushExporter, Shutdown, ShutdownExporter, SettleShutdown, Reset,
             ResetObserver, vars
    <3> QED BY <3>1, <3>2
  <2> QED
    BY <2>1, <2>2, <2>3, <2>4, <2>5, <2>6, <2>7, <2>8, <2>9
<1> QED BY <1>1, <1>2, TypeCorrect, PTL DEF Spec

-----------------------------------------------------------------------------
(* The four moves *)

Sinks == <<observations, reported, skipped, cleared>>

Others(c) == \A d \in Callers \ {c} : call'[d].obs = call[d].obs

Quiet ==
  /\ UNCHANGED Sinks
  /\ \A d \in Callers : call'[d].obs = call[d].obs
  /\ \A h \in Handles : \/ handle'[h] = handle[h]
                        \/ /\ handle[h].phase # "ended"
                           /\ handle'[h].phase # "ended"

(* A handle that had not ended ends, and c leaves with its observation. *)
TakesUp(c, h, o) ==
  /\ UNCHANGED Sinks
  /\ call[c].obs = None /\ call'[c].obs = o
  /\ Others(c)
  /\ handle[h].phase \in {"unborn", "open"}
  /\ \A g \in Handles \ {h} : handle'[g] = handle[g]
  /\ handle'[h].phase = "ended" /\ handle'[h].events = o.events
  /\ o.handle = h
  /\ \/ ~o.canceled /\ o.events = handle[h].events
     \/ o.canceled /\ o.events = Append(handle[h].events, "cancellation")

PutsDown(c) ==
  /\ call[c].obs # None /\ call'[c].obs = None
  /\ Others(c)
  /\ UNCHANGED <<handle, cleared>>
  /\ \/ /\ observations' = Append(observations, call[c].obs)
        /\ UNCHANGED <<reported, skipped>>
     \/ /\ reported' = reported \cup {call[c].obs.handle}
        /\ UNCHANGED <<observations, skipped>>
     \/ /\ skipped' = skipped \cup {call[c].obs.handle}
        /\ UNCHANGED <<observations, reported>>

Clears ==
  /\ \A d \in Callers : call'[d].obs = call[d].obs
  /\ UNCHANGED <<handle, reported, skipped>>
  /\ observations' = <<>>
  /\ cleared' = cleared \cup {o.handle : o \in ToSet(observations)}

Moves ==
  \/ Quiet
  \/ \E c \in Callers, h \in Handles, o \in Observation : TakesUp(c, h, o)
  \/ \E c \in Callers : PutsDown(c)
  \/ Clears

LEMMA ReturnDrops ==
  ASSUME TypeOK, NEW c \in Callers, Return(c)
  PROVE  call'[c].obs = None /\ \A d \in Callers \ {c} : call'[d] = call[d]
<1>1. call'[c] = Idle /\ \A d \in Callers \ {c} : call'[d] = call[d]
  BY OrdinaryChange DEF Return
<1> QED BY <1>1 DEF Idle

LEMMA QuietReturn ==
  ASSUME TypeOK, NEW c \in Callers, call[c].obs = None,
         Return(c), UNCHANGED <<Sinks, handle>>
  PROVE  Quiet
<1>1. \A d \in Callers : call'[d].obs = call[d].obs
  BY ReturnDrops
<1> QED BY <1>1 DEF Quiet, Sinks

LEMMA QuietControl ==
  ASSUME TypeOK, NEW c \in Callers, call[c].obs = None,
         NEW at \in Points, NEW err \in Classes \cup {None},
         call' = [call EXCEPT ![c] = Control(at, err)],
         UNCHANGED <<Sinks, handle>>
  PROVE  Quiet
<1>1. call'[c] = Control(at, err) /\ \A d \in Callers \ {c} : call'[d] = call[d]
  BY OrdinaryChange
<1>2. call'[c].obs = None
  BY <1>1, ControlIs
<1> QED BY <1>1, <1>2 DEF Quiet, Sinks

LEMMA QuietField ==
  ASSUME TypeOK, NEW c \in Callers, NEW x,
         GoTo(c, x) \/ Fail(c, x), UNCHANGED <<Sinks, handle>>
  PROVE  Quiet
<1>1. call'[c].obs = call[c].obs /\ \A d \in Callers \ {c} : call'[d] = call[d]
  BY DEF GoTo, Fail, TypeOK
<1> QED BY <1>1 DEF Quiet, Sinks

LEMMA EndTakesUp ==
  ASSUME TypeOK, Carrying, NEW c \in Callers, NEW h \in Handles,
         NEW canceled \in BOOLEAN, NEW events \in Seq(Marks),
         \/ ~canceled /\ events = handle[h].events
         \/ canceled /\ events = Append(handle[h].events, "cancellation"),
         End(c, h, canceled, events)
  PROVE  Moves
<1> DEFINE o == [handle |-> h, canceled |-> canceled, events |-> events]
<1>1. o \in Observation
  BY DEF Observation
<1>2. o.handle = h /\ o.canceled = canceled /\ o.events = events
  OBVIOUS
<1>3. call[c].at = "idle" /\ call[c].obs = None
  BY DEF End, BeginHelper, Carrying, Carries
<1>4. /\ call'[c].obs = o
      /\ \A d \in Callers \ {c} : call'[d] = call[d]
  <2> DEFINE k == [at |-> "reading", obs |-> o, err |-> None, late |-> shutdown]
  <2>1. call' = [call EXCEPT ![c] = k] /\ k.obs = o
    BY DEF End, BeginHelper
  <2> HIDE DEF k
  <2> QED BY <2>1, OrdinaryChange
<1>5. /\ handle[h].phase = "open" /\ handle'[h].phase = "ended"
      /\ handle'[h].events = events
      /\ \A g \in Handles \ {h} : handle'[g] = handle[g]
  BY DEF End, TypeOK
<1>6. UNCHANGED Sinks
  BY DEF End, exporterVars, historyVars, Sinks
<1> HIDE DEF o
<1>7. TakesUp(c, h, o)
  BY <1>2, <1>3, <1>4, <1>5, <1>6 DEF TakesUp, Others
<1> QED BY <1>1, <1>7 DEF Moves

LEMMA ReturnPutsDown ==
  ASSUME TypeOK, NEW c \in Callers, call[c].obs # None, Return(c),
         UNCHANGED <<handle, cleared>>,
         \/ /\ observations' = Append(observations, call[c].obs)
            /\ UNCHANGED <<reported, skipped>>
         \/ /\ reported' = reported \cup {call[c].obs.handle}
            /\ UNCHANGED <<observations, skipped>>
         \/ /\ skipped' = skipped \cup {call[c].obs.handle}
            /\ UNCHANGED <<observations, reported>>
  PROVE  Moves
<1>1. PutsDown(c)
  BY ReturnDrops DEF PutsDown, Others
<1> QED BY <1>1 DEF Moves

(* Every step is one of the four moves. *)
LEMMA EveryStepMoves ==
  ASSUME TypeOK, Carrying, Tidy, [Next]_vars
  PROVE  Moves
<1> USE DEF observerVars, exporterVars, historyVars
<1>1. CASE UNCHANGED vars
  <2>1. Quiet
    BY <1>1 DEF vars, Quiet, Sinks
  <2> QED BY <2>1 DEF Moves
<1>2. ASSUME NEW c \in Callers, NEW h \in Handles,
             Reject(c, h) \/ Start(c, h) \/ TooLate(c, h)
      PROVE  Moves
  <2>1. CASE Reject(c, h)
    <3>1. /\ call[c].obs = None
          /\ \E k : k.obs = None /\ call' = [call EXCEPT ![c] = k]
      BY <2>1 DEF Reject, BeginHelper, Carrying, Carries
    <3>2. \A d \in Callers : call'[d].obs = call[d].obs
      BY <3>1, OrdinaryChange
    <3>3. /\ handle[h].phase = "unborn" /\ handle'[h].phase = "inert"
          /\ \A g \in Handles \ {h} : handle'[g] = handle[g]
          /\ UNCHANGED Sinks
      BY <2>1 DEF Reject, TypeOK, Sinks
    <3>4. Quiet
      BY <3>2, <3>3 DEF Quiet
    <3> QED BY <3>4 DEF Moves
  <2>2. CASE Start(c, h)
    <3>1. /\ handle[h].phase = "unborn" /\ handle'[h].phase = "open"
          /\ \A g \in Handles \ {h} : handle'[g] = handle[g]
          /\ UNCHANGED Sinks /\ UNCHANGED call
      BY <2>2 DEF Start, TypeOK, Sinks
    <3>2. Quiet
      BY <3>1 DEF Quiet
    <3> QED BY <3>2 DEF Moves
  <2>3. CASE TooLate(c, h)
    BY <1>1, <2>3 DEF TooLate
  <2> QED BY <1>2, <2>1, <2>2, <2>3
<1>3. ASSUME NEW c \in Callers, NEW e \in Events, Emit(c, e)
      PROVE  Moves
  <2> DEFINE o == [handle |-> e, canceled |-> FALSE, events |-> <<>>]
             k == [at |-> "reading", obs |-> o, err |-> None, late |-> shutdown]
  <2>1. o \in Observation /\ e \in Handles
    BY DEF Observation, Handles
  <2>2. /\ o.handle = e /\ ~o.canceled /\ o.events = <<>>
        /\ k.obs = o /\ call' = [call EXCEPT ![c] = k]
        /\ call[c].obs = None /\ handle[e].phase = "unborn"
    BY <1>3 DEF Emit, BeginHelper, Carrying, Carries
  <2> HIDE DEF o, k
  <2>3. call'[c].obs = o /\ \A d \in Callers \ {c} : call'[d] = call[d]
    BY <2>2, OrdinaryChange
  <2>4. /\ handle'[e].phase = "ended" /\ handle'[e].events = handle[e].events
        /\ \A g \in Handles \ {e} : handle'[g] = handle[g]
        /\ UNCHANGED Sinks
    BY <1>3, <2>1 DEF Emit, TypeOK, Sinks
  <2>5. handle[e].events = <<>>
    BY <2>1, <2>2 DEF Tidy, TidyHandle
  <2>6. TakesUp(c, e, o)
    BY <2>2, <2>3, <2>4, <2>5 DEF TakesUp, Others
  <2> QED BY <2>1, <2>6 DEF Moves
<1>4. ASSUME NEW c \in Callers, NEW s \in Streams, Chunk(c, s) \/ FirstToken(c, s)
      PROVE  Moves
  <2>1. /\ handle[s].phase = "open" /\ handle'[s].phase = "open"
        /\ \A g \in Handles \ {s} : handle'[g] = handle[g]
        /\ UNCHANGED Sinks /\ UNCHANGED call
    BY <1>4 DEF Chunk, FirstToken, TypeOK, Sinks, Handles
  <2>2. Quiet
    BY <2>1 DEF Quiet
  <2> QED BY <2>2 DEF Moves
<1>5. ASSUME NEW c \in Callers, NEW s \in Streams, FinishStream(c, s)
      PROVE  Moves
  <2>1. /\ s \in Handles /\ handle[s].events \in Seq(Marks)
        /\ Append(handle[s].events, "cancellation") \in Seq(Marks)
    BY StreamEventsType DEF Handles, Marks
  <2> QED BY <1>5, <2>1, EndTakesUp DEF FinishStream
<1>6. ASSUME NEW c \in Callers, NEW h \in Operations, FinishOperation(c, h)
      PROVE  Moves
  <2>1. h \in Handles /\ h \notin Streams /\ <<>> \in Seq(Marks)
    BY ConstantsAssumption DEF Handles
  <2>2. handle[h].events = <<>>
    BY <2>1 DEF Tidy, TidyHandle
  <2> QED BY <1>6, <2>1, <2>2, EndTakesUp DEF FinishOperation
<1>7. ASSUME NEW c \in Callers, ReadState(c)
      PROVE  Moves
  <2>1. call[c].obs # None /\ UNCHANGED <<handle, observations, reported, cleared>>
    BY <1>7 DEF ReadState, Carrying, Carries
  <2>2. CASE Return(c) /\ skipped' = skipped \cup {call[c].obs.handle}
    BY <2>1, <2>2, ReturnPutsDown
  <2>3. CASE (\E x : GoTo(c, x) \/ Fail(c, x)) /\ UNCHANGED skipped
    <3>1. Quiet
      BY <2>1, <2>3, QuietField DEF Sinks
    <3> QED BY <3>1 DEF Moves
  <2> QED BY <1>7, <2>2, <2>3 DEF ReadState
<1>8. ASSUME NEW c \in Callers, Export(c)
      PROVE  Moves
  <2>1. call[c].obs # None /\ UNCHANGED <<handle, reported, skipped, cleared>>
    BY <1>8 DEF Export, Carrying, Carries
  <2>2. CASE Return(c) /\ observations' = Append(observations, call[c].obs)
    BY <2>1, <2>2, ReturnPutsDown
  <2>3. CASE (\E x : Fail(c, x)) /\ UNCHANGED observations
    <3>1. Quiet
      BY <2>1, <2>3, QuietField DEF Sinks
    <3> QED BY <3>1 DEF Moves
  <2> QED BY <1>8, <2>2, <2>3, Zenon DEF Export
<1>9. ASSUME NEW c \in Callers, HandleError(c)
      PROVE  Moves
  <2>1. Return(c) /\ UNCHANGED <<handle, observations, skipped, cleared>>
    BY <1>9 DEF HandleError
  <2>2. CASE call[c].obs = None
    <3>1. Quiet
      BY <1>9, <2>1, <2>2, QuietReturn DEF HandleError, Sinks
    <3> QED BY <3>1 DEF Moves
  <2>3. CASE call[c].obs # None
    BY <1>9, <2>1, <2>3, ReturnPutsDown DEF HandleError
  <2> QED BY <2>2, <2>3
<1>10. ASSUME NEW c \in Callers,
              \/ Flush(c) \/ FlushExporter(c) \/ Shutdown(c)
              \/ ShutdownExporter(c) \/ SettleShutdown(c)
       PROVE  Moves
  <2>1. call[c].obs = None /\ UNCHANGED <<handle, Sinks>>
    BY <1>10 DEF Flush, FlushExporter, Shutdown, ShutdownExporter,
                 SettleShutdown, BeginControl, Carrying, Carries, Sinks
  <2>2. \/ Return(c)
        \/ \E x : GoTo(c, x) \/ Fail(c, x)
        \/ \E at \in Points, err \in Classes \cup {None} :
             call' = [call EXCEPT ![c] = Control(at, err)]
    <3>1. CASE Flush(c)
      BY <3>1, ControlPoints, IdleIsControl DEF Flush
    <3>2. CASE FlushExporter(c)
      BY <3>2, Zenon DEF FlushExporter
    <3>3. CASE Shutdown(c) \/ ShutdownExporter(c)
      BY <3>3, ShutdownGoesOn, ControlPoints
    <3>4. CASE SettleShutdown(c)
      BY <3>4, Zenon DEF SettleShutdown
    <3> QED BY <1>10, <3>1, <3>2, <3>3, <3>4
  <2>3. Quiet
    BY <2>1, <2>2, QuietReturn, QuietField, QuietControl
  <2> QED BY <2>3 DEF Moves
<1>11. ASSUME NEW c \in Callers, Reset(c)
       PROVE  Moves
  <2>1. /\ call[c].obs = None /\ UNCHANGED <<handle, reported, skipped>>
        /\ call' = [call EXCEPT ![c] = Control("reopening", None)]
    BY <1>11 DEF Reset, BeginControl, Carrying, Carries
  <2>2. \A d \in Callers : call'[d].obs = call[d].obs
    BY <2>1, OrdinaryChange, ControlIs, ControlPoints
  <2>3. CASE config.exporter = "no_network"
    <3>1. Clears
      BY <1>11, <2>1, <2>2, <2>3 DEF Clears, Reset
    <3> QED BY <3>1 DEF Moves
  <2>4. CASE config.exporter # "no_network"
    <3>1. Quiet
      BY <1>11, <2>1, <2>2, <2>4 DEF Quiet, Reset, Sinks
    <3> QED BY <3>1 DEF Moves
  <2> QED BY <2>3, <2>4
<1>12. ASSUME NEW c \in Callers, ResetObserver(c)
       PROVE  Moves
  <2>1. call[c].obs = None
    BY <1>12 DEF ResetObserver, Carrying, Carries
  <2>2. \A d \in Callers : call'[d].obs = call[d].obs
    BY <1>12, <2>1 DEF ResetObserver, Idle, TypeOK
  <2>3. Quiet
    BY <1>12, <2>2 DEF ResetObserver, Quiet, Sinks
  <2> QED BY <2>3 DEF Moves
<1>13. CASE Next
  BY <1>2, <1>3, <1>4, <1>5, <1>6, <1>7, <1>8, <1>9, <1>10, <1>11, <1>12,
     <1>13 DEF Next, Helper
<1> QED BY <1>1, <1>13

-----------------------------------------------------------------------------
(* Where the observation of a handle is *)

Nowhere(h) ==
  /\ CallsCarrying(h) = {} /\ IndicesHolding(h) = {}
  /\ h \notin reported /\ h \notin skipped /\ h \notin cleared

(* It is in one place and once. *)
Somewhere(h) ==
  \/ /\ \E c \in Callers : CallsCarrying(h) = {c}
     /\ IndicesHolding(h) = {}
     /\ h \notin reported /\ h \notin skipped /\ h \notin cleared
  \/ /\ CallsCarrying(h) = {}
     /\ \E i \in DOMAIN observations : IndicesHolding(h) = {i}
     /\ h \notin reported /\ h \notin skipped /\ h \notin cleared
  \/ /\ CallsCarrying(h) = {} /\ IndicesHolding(h) = {}
     /\ \/ h \in reported /\ h \notin skipped /\ h \notin cleared
        \/ h \notin reported /\ h \in skipped /\ h \notin cleared
        \/ h \notin reported /\ h \notin skipped /\ h \in cleared

(* The inductive invariant: an observation has its one place from the moment
   its handle ends. *)
OnePlace ==
  \A h \in Handles : IF handle[h].phase = "ended" THEN Somewhere(h)
                                                  ELSE Nowhere(h)

LEMMA SamePlaces ==
  ASSUME NEW h, UNCHANGED Sinks, CallsCarrying(h)' = CallsCarrying(h)
  PROVE  /\ Somewhere(h) => Somewhere(h)'
         /\ Nowhere(h) => Nowhere(h)'
<1>1. IndicesHolding(h)' = IndicesHolding(h) /\ observations' = observations
  BY DEF Sinks, IndicesHolding
<1> QED BY <1>1 DEF Sinks, Somewhere, Nowhere

LEMMA SameCalls ==
  ASSUME NEW h, \A d \in Callers : call'[d].obs = call[d].obs
  PROVE  CallsCarrying(h)' = CallsCarrying(h)
BY DEF CallsCarrying

LEMMA OnePlaceQuiet ==
  ASSUME OnePlace, Quiet
  PROVE  OnePlace'
<1> SUFFICES ASSUME NEW h \in Handles
             PROVE  IF handle'[h].phase = "ended" THEN Somewhere(h)'
                                                  ELSE Nowhere(h)'
  BY DEF OnePlace
<1>1. (handle'[h].phase = "ended") <=> (handle[h].phase = "ended")
  BY DEF Quiet
<1>2. /\ Somewhere(h) => Somewhere(h)'
      /\ Nowhere(h) => Nowhere(h)'
  BY SameCalls, SamePlaces DEF Quiet
<1> QED BY <1>1, <1>2 DEF OnePlace

LEMMA OnePlaceTakesUp ==
  ASSUME OnePlace, NEW c \in Callers, NEW h \in Handles, NEW o \in Observation,
         TakesUp(c, h, o)
  PROVE  OnePlace'
<1>1. o # None
  BY ConstantsAssumption
<1>2. /\ CallsCarrying(h)' = CallsCarrying(h) \cup {c}
      /\ \A g \in Handles \ {h} : CallsCarrying(g)' = CallsCarrying(g)
  BY <1>1 DEF TakesUp, Others, CallsCarrying
<1>3. Nowhere(h)
  BY DEF OnePlace, TakesUp
<1>4. Somewhere(h)'
  <2>1. IndicesHolding(h)' = IndicesHolding(h)
    BY DEF TakesUp, Sinks, IndicesHolding
  <2> QED BY <1>2, <1>3, <2>1 DEF TakesUp, Sinks, Somewhere, Nowhere
<1>5. ASSUME NEW g \in Handles \ {h}
      PROVE  IF handle'[g].phase = "ended" THEN Somewhere(g)' ELSE Nowhere(g)'
  <2>1. /\ Somewhere(g) => Somewhere(g)'
        /\ Nowhere(g) => Nowhere(g)'
    BY <1>2, SamePlaces DEF TakesUp
  <2> QED BY <2>1 DEF OnePlace, TakesUp
<1> QED BY <1>4, <1>5 DEF OnePlace, TakesUp

LEMMA IndicesAppend ==
  ASSUME TypeOK, NEW o, observations' = Append(observations, o), NEW h
  PROVE  IndicesHolding(h)' =
           IF o.handle = h THEN IndicesHolding(h) \cup {Len(observations) + 1}
                           ELSE IndicesHolding(h)
<1> DEFINE n == Len(observations)
<1>1. observations \in Seq(Observation)
  BY DEF TypeOK
<1>2. /\ n \in Nat /\ DOMAIN observations = 1..n
      /\ DOMAIN observations' = 1..(n + 1)
      /\ \A i \in 1..n : observations'[i] = observations[i]
      /\ observations'[n + 1] = o
  BY <1>1
<1> HIDE DEF n
<1>3. 1..(n + 1) = 1..n \cup {n + 1}
  BY <1>2
<1> QED BY <1>2, <1>3 DEF IndicesHolding, n

LEMMA OnePlacePutsDown ==
  ASSUME TypeOK, OnePlace, NEW c \in Callers, PutsDown(c)
  PROVE  OnePlace'
<1>1. PICK h \in Handles : h = call[c].obs.handle
  BY DEF PutsDown, TypeOK, Observation
<1>2. /\ c \in CallsCarrying(h) /\ CallsCarrying(h)' = CallsCarrying(h) \ {c}
      /\ \A g \in Handles \ {h} : CallsCarrying(g)' = CallsCarrying(g)
  BY <1>1 DEF PutsDown, Others, CallsCarrying
<1>3. handle[h].phase = "ended" /\ Somewhere(h)
  BY <1>1, <1>2 DEF OnePlace, Nowhere
<1>4. /\ CallsCarrying(h) = {c} /\ IndicesHolding(h) = {}
      /\ h \notin reported /\ h \notin skipped /\ h \notin cleared
  BY <1>2, <1>3 DEF Somewhere
<1>5. CallsCarrying(h)' = {} /\ UNCHANGED <<handle, cleared>>
  BY <1>2, <1>4 DEF PutsDown
<1>6. CASE /\ observations' = Append(observations, call[c].obs)
           /\ UNCHANGED <<reported, skipped>>
  <2>1. /\ IndicesHolding(h)' = {Len(observations) + 1}
        /\ \A g \in Handles \ {h} : IndicesHolding(g)' = IndicesHolding(g)
    BY <1>1, <1>4, <1>6, IndicesAppend
  <2>2. Len(observations) + 1 \in DOMAIN observations'
    BY <2>1 DEF IndicesHolding
  <2>3. Somewhere(h)'
    BY <1>4, <1>5, <1>6, <2>1, <2>2 DEF Somewhere
  <2>4. ASSUME NEW g \in Handles \ {h}
        PROVE  (Somewhere(g) => Somewhere(g)') /\ (Nowhere(g) => Nowhere(g)')
    <3>1. DOMAIN observations \subseteq DOMAIN observations'
      BY <1>6 DEF TypeOK
    <3> QED BY <1>2, <1>5, <1>6, <2>1, <3>1 DEF Somewhere, Nowhere
  <2> QED BY <1>3, <1>5, <2>3, <2>4 DEF OnePlace
<1>7. CASE /\ UNCHANGED observations
           /\ \/ reported' = reported \cup {h} /\ skipped' = skipped
              \/ skipped' = skipped \cup {h} /\ reported' = reported
  <2>1. \A g \in Handles : IndicesHolding(g)' = IndicesHolding(g)
    BY <1>7 DEF IndicesHolding
  <2>2. Somewhere(h)'
    BY <1>1, <1>4, <1>5, <1>7, <2>1 DEF Somewhere
  <2>3. ASSUME NEW g \in Handles \ {h}
        PROVE  (Somewhere(g) => Somewhere(g)') /\ (Nowhere(g) => Nowhere(g)')
    BY <1>2, <1>5, <1>7, <2>1 DEF Somewhere, Nowhere
  <2> QED BY <1>3, <1>5, <2>2, <2>3 DEF OnePlace
<1> QED BY <1>1, <1>6, <1>7 DEF PutsDown

LEMMA OnePlaceClears ==
  ASSUME OnePlace, Clears
  PROVE  OnePlace'
<1> SUFFICES ASSUME NEW h \in Handles
             PROVE  IF handle'[h].phase = "ended" THEN Somewhere(h)'
                                                  ELSE Nowhere(h)'
  BY DEF OnePlace
<1>1. /\ CallsCarrying(h)' = CallsCarrying(h) /\ IndicesHolding(h)' = {}
      /\ UNCHANGED <<handle, reported, skipped>>
  BY SameCalls DEF Clears, IndicesHolding
<1>2. h \in cleared' <=> h \in cleared \/ IndicesHolding(h) # {}
  BY DEF Clears, ToSet, IndicesHolding
<1>3. Nowhere(h) => Nowhere(h)'
  BY <1>1, <1>2 DEF Nowhere
<1>4. Somewhere(h) => Somewhere(h)'
  BY <1>1, <1>2 DEF Somewhere
<1> QED BY <1>1, <1>3, <1>4 DEF OnePlace

LEMMA OnePlaceIsInvariant == Spec => []OnePlace
<1>1. Init => OnePlace
  BY DEF Init, Idle, OnePlace, Nowhere, CallsCarrying, IndicesHolding
<1>2. TypeOK /\ Carrying /\ Tidy /\ OnePlace /\ [Next]_vars => OnePlace'
  BY EveryStepMoves, OnePlaceQuiet, OnePlaceTakesUp, OnePlacePutsDown,
     OnePlaceClears DEF Moves
<1>3. Shape => TypeOK /\ Carrying
  BY DEF Shape
<1> QED BY <1>1, <1>2, <1>3, ShapeIsInvariant, TidyIsInvariant, PTL DEF Spec

(* The observation of a handle that ended is in exactly one place, and that of
   a handle that did not end in none: on its way in one call, once in the
   exporter, given to the error handler, not exported because the Observer was
   shut, or cleared by Reset. *)
THEOREM ObservationsAccounted == Spec => []EveryObservationAccounted
<1>1. OnePlace => EveryObservationAccounted
  <2> SUFFICES ASSUME OnePlace, NEW h \in Handles
               PROVE  Cardinality(CallsCarrying(h))
                        + Cardinality(IndicesHolding(h)) + Occurs(h, reported)
                        + Occurs(h, skipped) + Occurs(h, cleared)
                      = IF handle[h].phase = "ended" THEN 1 ELSE 0
    BY DEF EveryObservationAccounted
  <2>1. /\ Cardinality({}) = 0
        /\ \A x : Cardinality({x}) = 1
    BY FS_EmptySet, FS_Singleton
  <2>2. \A S : Occurs(h, S) = IF h \in S THEN 1 ELSE 0
    <3>1. \A S : S \cap {h} = IF h \in S THEN {h} ELSE {}
      OBVIOUS
    <3> QED BY <2>1, <3>1 DEF Occurs
  <2>3. CASE handle[h].phase = "ended"
    <3>1. Somewhere(h)
      BY <2>3 DEF OnePlace
    <3>2. CASE CallsCarrying(h) # {}
      <4>1. Cardinality(CallsCarrying(h)) = 1 /\ Cardinality(IndicesHolding(h)) = 0
        BY <2>1, <3>1, <3>2 DEF Somewhere
      <4> QED BY <2>2, <2>3, <3>1, <3>2, <4>1 DEF Somewhere
    <3>3. CASE IndicesHolding(h) # {}
      <4>1. Cardinality(CallsCarrying(h)) = 0 /\ Cardinality(IndicesHolding(h)) = 1
        BY <2>1, <3>1, <3>3 DEF Somewhere
      <4> QED BY <2>2, <2>3, <3>1, <3>3, <4>1 DEF Somewhere
    <3>4. CASE CallsCarrying(h) = {} /\ IndicesHolding(h) = {}
      BY <2>1, <2>2, <2>3, <3>1, <3>4 DEF Somewhere
    <3> QED BY <3>2, <3>3, <3>4
  <2>4. CASE handle[h].phase # "ended"
    <3>1. Nowhere(h)
      BY <2>4 DEF OnePlace
    <3> QED BY <2>1, <2>2, <2>4, <3>1 DEF Nowhere
  <2> QED BY <2>3, <2>4
<1> QED BY <1>1, OnePlaceIsInvariant, PTL

-----------------------------------------------------------------------------
(* What an observation owes to its handle *)

Sound(o) ==
  /\ handle[o.handle].phase = "ended"
  /\ o.events = handle[o.handle].events
  /\ MarkedAt(o.events, "cancellation") =
       IF o.canceled THEN {Len(o.events)} ELSE {}

(* The observations on their way and in the exporter. *)
Around == ToSet(observations)
            \cup {o \in Observation : \E c \in Callers : call[c].obs = o}

(* The inductive invariant: the handle of an observation around has ended, so
   that no event can come after it. *)
AllSound == \A o \in Around : Sound(o)

LEMMA AroundType ==
  ASSUME TypeOK
  PROVE  \A o \in Around : o.handle \in Handles
<1>1. ToSet(observations) \subseteq Observation
  BY DEF TypeOK, ToSet
<1>2. \A o \in Observation : o.handle \in Handles
  BY DEF Observation
<1> QED BY <1>1, <1>2 DEF Around

LEMMA StaysSound ==
  ASSUME NEW o, Sound(o), handle'[o.handle] = handle[o.handle]
  PROVE  Sound(o)'
BY DEF Sound, MarkedAt

LEMMA TakenUpIsSound ==
  ASSUME TypeOK, Tidy, NEW c \in Callers, NEW h \in Handles,
         NEW o \in Observation, TakesUp(c, h, o)
  PROVE  Sound(o)'
<1> DEFINE events == handle[h].events
<1>1. /\ handle'[o.handle].phase = "ended"
      /\ o.events = handle'[o.handle].events
  BY DEF TakesUp
<1>2. MarkedAt(events, "cancellation") = {} /\ events \in Seq(Marks)
  BY DEF TakesUp, Tidy, TidyHandle, TypeOK
<1>3. CASE ~o.canceled /\ o.events = events
  BY <1>1, <1>2, <1>3 DEF Sound, MarkedAt
<1>4. CASE o.canceled /\ o.events = Append(events, "cancellation")
  <2>1. Len(o.events) = Len(events) + 1
    BY <1>2, <1>4
  <2>2. MarkedAt(o.events, "cancellation") = {Len(events) + 1}
    BY <1>2, <1>4, MarkedAppend
  <2> QED BY <1>1, <1>4, <2>1, <2>2 DEF Sound, MarkedAt
<1> QED BY <1>3, <1>4 DEF TakesUp

(* No step leaves an observation around that was not, but the one taken up. *)
LEMMA AroundAfter ==
  ASSUME TypeOK, Moves
  PROVE  \/ Around' \subseteq Around
         \/ \E c \in Callers, h \in Handles, o \in Observation :
              TakesUp(c, h, o) /\ Around' \subseteq Around \cup {o}
<1>1. CASE Quiet
  BY <1>1 DEF Quiet, Sinks, Around, ToSet
<1>2. ASSUME NEW c \in Callers, NEW h \in Handles, NEW o \in Observation,
             TakesUp(c, h, o)
      PROVE  Around' \subseteq Around \cup {o}
  BY <1>2 DEF TakesUp, Others, Sinks, Around, ToSet
<1>3. ASSUME NEW c \in Callers, PutsDown(c)
      PROVE  Around' \subseteq Around
  <2>1. call[c].obs \in Observation /\ None \notin Observation
    BY <1>3, ConstantsAssumption DEF PutsDown, TypeOK
  <2>2. ToSet(observations') \subseteq ToSet(observations) \cup {call[c].obs}
    <3>1. CASE observations' = observations
      BY <3>1
    <3>2. CASE observations' = Append(observations, call[c].obs)
      <4>1. observations \in Seq(Observation)
        BY DEF TypeOK
      <4> QED BY <2>1, <3>2, <4>1 DEF ToSet
    <3> QED BY <1>3, <3>1, <3>2 DEF PutsDown
  <2>3. \A d \in Callers : call'[d].obs \in {None, call[d].obs}
    BY <1>3 DEF PutsDown, Others
  <2> QED BY <2>1, <2>2, <2>3 DEF Around
<1>4. CASE Clears
  BY <1>4 DEF Clears, Around, ToSet
<1> QED BY <1>1, <1>2, <1>3, <1>4 DEF Moves

LEMMA AllSoundIsInvariant == Spec => []AllSound
<1>1. Init => AllSound
  <2> SUFFICES ASSUME Init PROVE Around = {}
    BY DEF AllSound
  <2>1. None \notin Observation
    BY ConstantsAssumption
  <2> QED BY <2>1 DEF Init, Idle, Around, ToSet
<1>2. TypeOK /\ Carrying /\ Tidy /\ AllSound /\ [Next]_vars => AllSound'
  <2> SUFFICES ASSUME TypeOK, Carrying, Tidy, AllSound, [Next]_vars
               PROVE  AllSound'
    OBVIOUS
  <2>1. Moves
    BY EveryStepMoves
  <2>2. \A o \in Around : o.handle \in Handles
    BY AroundType
  <2>3. ASSUME NEW o \in Around
        PROVE  Sound(o)'
    <3>1. Sound(o) /\ handle[o.handle].phase = "ended" /\ o.handle \in Handles
      BY <2>2 DEF AllSound, Sound
    <3>2. handle'[o.handle] = handle[o.handle]
      <4>1. CASE Quiet
        BY <3>1, <4>1 DEF Quiet
      <4>2. ASSUME NEW c \in Callers, NEW h \in Handles, NEW p \in Observation,
                   TakesUp(c, h, p)
            PROVE  handle'[o.handle] = handle[o.handle]
        BY <3>1, <4>2 DEF TakesUp
      <4>3. CASE UNCHANGED handle
        BY <4>3
      <4> QED BY <2>1, <4>1, <4>2, <4>3 DEF Moves, PutsDown, Clears
    <3> QED BY <3>1, <3>2, StaysSound
  <2>4. ASSUME NEW c \in Callers, NEW h \in Handles, NEW o \in Observation,
               TakesUp(c, h, o)
        PROVE  Sound(o)'
    BY <2>4, TakenUpIsSound
  <2> QED BY <2>1, <2>3, <2>4, AroundAfter DEF AllSound
<1>3. Shape => TypeOK /\ Carrying
  BY DEF Shape
<1> QED BY <1>1, <1>2, <1>3, ShapeIsInvariant, TidyIsInvariant, PTL DEF Spec

(* A stream's observation holds every event its handle accepted, in order,
   with at most one first token and with a cancellation event exactly at the
   end of a canceled stream, although Chunk, FirstToken and Error race. *)
THEOREM StreamsStayWhole == Spec => []StreamsAreWhole
<1>1. TypeOK /\ Tidy /\ AllSound => StreamsAreWhole
  <2> SUFFICES ASSUME TypeOK, Tidy, AllSound
               PROVE  StreamsAreWhole
    OBVIOUS
  <2> SUFFICES ASSUME NEW o \in Around
               PROVE  WholeStream(o)
    <3>1. ToSet(observations) \subseteq Around
      BY DEF Around
    <3>2. \A c \in Callers : call[c].obs # None => call[c].obs \in Around
      BY DEF Around, TypeOK
    <3> QED BY <3>1, <3>2 DEF StreamsAreWhole
  <2>1. Sound(o) /\ o.handle \in Handles
    BY AroundType DEF AllSound
  <2>2. \A i, j \in MarkedAt(o.events, "first_token") : i = j
    BY <2>1 DEF Sound, Tidy, TidyHandle
  <2>3. Cardinality(MarkedAt(o.events, "first_token")) \in {0, 1}
    BY <2>2, AtMostOneElement
  <2>4. Cardinality({i \in DOMAIN o.events : o.events[i] = "first_token"}) <= 1
    BY <2>3 DEF MarkedAt
  <2> QED BY <2>1, <2>4 DEF Sound, MarkedAt, WholeStream
<1> QED BY <1>1, TypeCorrect, TidyIsInvariant, AllSoundIsInvariant, PTL

=============================================================================
