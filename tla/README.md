# Formal models of eino-obs

eino-obs records what an agent program does (sessions, runs, model calls, streams,
tool calls) and exports it. This directory holds TLA+ models of its stateful parts,
TLC configurations that check them on small instances, and proofs checked by TLAPS.
Paths below are those of the repository; in `PROJECT.json` they begin with `src/`.

## Inventory

| Component | Code | State | Operations | Hard because |
|---|---|---|---|---|
| In-memory recorder, fake exporter | `internal/recorder/state.go`, `recorder/`, `exporter/fake/` | epoch, recorded, pending and dropped spans, error history, dirty, last errors, call counts | Record, Export, Flush, Shutdown, Reset, Snapshot | each call is two or more critical sections; Reset may run between them; failure plans, capacity |
| Datadog exporter | `exporter/datadog/` | pending queue, shutdown, lastShutdownErr | Export, Flush, Shutdown | one mutex held over requests and pauses; partial delivery, retries, contexts that end |
| Observer, no-network exporter | `observer.go`, `no_network.go` | shutdown, lastShutdownErr; observations, dirty, shutdown | Flush, Shutdown, Reset, Export | two locks that are taken one after the other: what was read under one is used under the other |
| Handles and helpers | `session.go`, `model_call.go`, `stream.go`, `tool.go`, `lifecycle.go` | ended flag, events, first token of each handle | Start..., Chunk, FirstToken, End, Error, one-call events | duplicate and concurrent terminal calls |
| Correlation | `correlation.go` | the correlation of a context | ContextWithCorrelation, merge | inherited along contexts and from sessions, overridden field by field |
| Datadog configuration | `exporter/datadog/exporter.go` 88-209, 312-351, 441-484, 598-756 | none; New is at an attempt | ResolveConfig, New with its credential check | precedence of up to five sources; retries with delays |
| Redaction | `internal/redaction/` | none | ApplySpan, ApplyAttributes, SummaryAttributes, truncation | applied twice with different options; a chain of rules on keys; byte limits, map limit |
| Schema and payload | `internal/model/`, `exporter/datadog/payload.go` | none | Validate, conversion of an observation, mapSpan | rules on status, error and attributes that the helpers must meet without calling them |
| Snapshots | `recorder/snapshot.go` | none | conversion, copies | - |

Helpers of a handle build an observation under the handle's lock and give it to
`exportObservation`, which reads the Observer's state and calls `Exporter.Export`.
The Observer calls Flush and Shutdown of the same exporter and gives every error to
the error handler, with no lock held. `PROJECT.json` lists under "hazards" what can
go wrong in this code that a test would hardly reach, each at its line, with the
properties that would notice.

What makes the components correct, in one sentence each:

- recorder: each observation that was given a stamp has exactly one fate, what nil
  and an error mean is true under every interleaving, and nothing of an epoch
  survives Reset;
- Datadog exporter: delivery in order, within the limits, nil only if everything that
  can be sent was acknowledged, nothing lost without an error, every call returns;
- Observer and handles: each ended handle yields one observation which is exported,
  reported, or skipped because the Observer was shut; a stream's observation is whole;
  one Shutdown reaches the exporter and its answer is kept;
- what helpers build: an observation satisfies the schema whatever calls built it, its
  error, attributes and events tell one story, it belongs to the trace, session and
  parent it should, and Datadog is sent all of it;
- configuration: an exporter that exists can be used as configured, and the environment
  changes nothing that the program set;
- redaction: nothing that an option or a rule excludes is kept, nothing is dropped or
  cut without a record, and the limits are met exactly, however often it is applied.

## Modules

| Module | Models | Notes |
|---|---|---|
| `RecorderState` | `internal/recorder/state.go` | each critical section is one action |
| `ObservationLedger` | the promise of the recorder about each stamp | abstract; `RecorderState` implements it |
| `RecorderProofs` | proofs: all properties that the run `recorder` checks, that it implements `ObservationLedger` among them | extends `RecorderState` |
| `DatadogExporter` | `exporter/datadog/exporter.go` 225-584 | each request and each pause is a step; the network is the environment |
| `DeliveryQueue` | what the Datadog intake sees of the observations an exporter accepted | abstract; `DatadogExporter` implements it |
| `DatadogProofs` | lemmas: what grouping and compaction compute; proofs: invariants of the Datadog exporter, that it implements `DeliveryQueue` | extends `DatadogExporter` |
| `DatadogConfig` | `ResolveConfig`, `New`, the retry delay | numbers wrap around at `MaxInt` |
| `DatadogConfigProofs` | proofs: all properties that the run `datadog_config` checks | extends `DatadogConfig` |
| `Schema` | validation in `internal/model/model.go`, `PublicObservationToSpan` | operators, no state |
| `DatadogPayload` | `exporter/datadog/payload.go` | operators; extends `Schema` |
| `SpanTree` | what the helpers build and export, with correlation | extends `DatadogPayload`: each observation is validated and mapped |
| `SpanTreeProofs` | proofs: all properties that the run `span_tree` checks | extends `SpanTree` |
| `Observer` | Observer, handles, no-network exporter or a foreign one | composition of three components with their locks |
| `ObserverProofs` | proofs: all properties that the run `observer` checks | extends `Observer` |
| `Redaction` | `internal/redaction/redaction.go` | operators, no state |
| `ObservationPipeline` | what helpers, the exporter and a second exporter do to the contents of an observation | extends `Redaction` |
| `RedactionProofs` | lemmas: what truncation, the rules on keys and the map limit compute | extends `Redaction` |
| `PipelineProofs` | proofs: all properties that the run `pipeline` checks | extends `ObservationPipeline`, `RedactionProofs` |
| `InductionLemmas` | lemmas: induction over numbers and sequences, recursive functions, `FlattenSeq` | used by all proofs but those of `Observer` and `SpanTree` |
| `MC...` | constants and configurations for TLC | |

Definitions whose comment begins with "Slip" are faulty variants of the definition
after them. Nothing refers to them; putting one in the place of that definition must
make the property that `PROJECT.json` names for it fail.

### RecorderState

A call of a goroutine begins with `Begin...` (which takes the epoch and the call
index as `beginOperation` does), then one of the finishing actions of that operation
runs, or `Abandon` if Reset has come in between. `Flush` copies the last shutdown
error when it begins and decides by the copy later, as the code does. A configuration
gives the capacity, the failure plan of each operation, which operations the wrapper
has (`recorder.Recorder` has Record, `fake.Exporter` has Export), and whether the
redaction options are invalid. `reported`, `discarded` and `acknowledged` are history
variables that only properties read. A span is its identifier and its stamp.

`ObservationLedger` is the abstract specification: each stamp has one fate among
pending, recorded, dropped and discarded, may leave only pending, and only a new epoch
forgets. The run `recorder` checks `ImplementsLedger`, the refinement under the mapping
`FateOf`.

### DatadogExporter

`Begin` is a call before it has the mutex. `Enter` acquires it: a closed exporter
answers at once (`ExportClosed`, `AnswerClosed`); otherwise the batch is appended and
the drain begins (`DrainCanceled`, `DrainNothing`, `DrainStarts`). While a caller holds
the mutex, `Delivered`, `Pause`, `Exhausted`, `Refused` are the outcomes of one request
and `Resume`, `Interrupted` those of a pause. `EndContext` is the environment: it may
end the context of any caller at any time. Sizes are small numbers; an observation
without a duration is never sent; delays have no length. The error of redaction inside
a drain is left out: `New` builds the exporter with options that cannot fail.
`accepted`, `acked` and `received` (what may have reached the intake) are history.

`DeliveryQueue` is the abstract specification. Observations wait in the order in which
they were accepted, a request carries the first ones that wait, may reach the intake
whether or not it is acknowledged, and is never sent again afterwards; giving up empties
the queue. The run `datadog` checks `ImplementsQueue`. The mapping forgets groups,
attempts, the mutex and contexts; observations that can never be sent do not wait.

Two behaviours are not judged by a passing run and are worth knowing. A request that
fails permanently empties the whole queue, also the groups that were never attempted,
and when it fails because the context ended its error has `Dropped` false
(`exporter.go` 254-262). A response lost after the intake accepted the spans makes the
retry send them again: delivery is at least once.

### DatadogConfig

A supply is what the program sets (plain fields and overrides) and what the environment
holds; `Resolve` computes the configuration, or none for an error. If it asks for a
check of the credentials, `Accepted`, `Rejected`, `Retried`, `Resume` and `TimedOut` are
what becomes of its request: they are the attempts of `postPayload` again, here with the
length of the pauses, which `DatadogExporter` leaves out. The overflow of `int` and of
`time.Duration` is modelled with one small width.

### Schema, DatadogPayload and SpanTree

`SpanTree` is one program that derives contexts (`ContextWithCorrelation`), starts
handles in them or from a session, adds chunks and first tokens, and ends handles, in
any order, with any correlation and any clock; `exported` is the observation that the
last step gave to the exporter. It has an action for each helper. Two goroutines on one
handle, and calls that come too late, are in `Observer`, contents and redaction in
`ObservationPipeline`. A validation error is a complaint with a name, so that a property
can except one by name.

The helpers do not call the validation of `internal/model`: `SatisfiesSchema` shows that
what they build would pass it. Left out are the rules that no observation of a helper can
break: that times are UTC, that spans have names, that the flags retryable and dropped of a
converted error are not nil, and that `redaction.applied`, which no helper emits, has
records. Two exceptions are named in `KnownComplaints`; the second
is that the error of a settled tool keeps the operation its caller gave.

Attributes are finite functions. `Only` is one entry, `Over(f, g)` what f says and
otherwise what g says, as an assignment to a Go map; an identifier is the sequence of its
parts, so that `id.chunk.3` is the id of the stream followed by what the helper adds. Fields
of a correlation and counts of tokens that become attributes go by the key of the attribute.
Token counts, chunk indexes and attempts are any integers, since the helpers pass them on as
they are; latencies are computed or clamped, and `TypeOK` says that they are never negative.

### Observer

A helper ends its handle (`End`), reads the Observer's state (`ReadState`), exports
(`Export`) and, after an error, calls the handler (`HandleError`); other goroutines run
between any two. Handles are of three kinds: operations, streams (with `Chunk` and
`FirstToken`), and one-call events which begin and end in `Emit`. `Reject` is a helper
without a required id: an inert handle and a call of the handler. `Reset` is two
actions, as in the code. The exporter is the no-network one, or a foreign one that may
fail for reasons of its own; when its Shutdown fails it stays open or closes all the
same, as the Datadog exporter does. It refuses once it is closed. A helper is `late` if the Observer was shut when it began and no Reset has finished since.

If a Reset finishes while a Shutdown is under way, the Observer may be left open over
a closed exporter, or with the error of that Shutdown. The code promises nothing for
it; `OneShutdown` and `AnswerIsKept` leave these behaviours out by name (`overtaken`).

### Redaction and ObservationPipeline

`Redaction` has one operator for each function of `redaction.go`. A string is the
sequence of the byte lengths of its runes; a key is its canonical path and the name at
its end; a name is its canonical form, its spelling, its length and whether white space
surrounds it. How `canonicalName` finds that form is left out: names arrive with it.

`ObservationPipeline` follows one observation: `Start`, `Chunk` and `Finish` (or
`Compact`, or `HandIn` for an observation that the program makes itself) build it with
the Observer's options, `Export` redacts it with the exporter's, which may differ, or
`Refuse` rejects it since they are invalid, and `Forward` gives what a snapshot shows
to an exporter again. Two field names that are equal after trimming share a key: the
model lets either value win, as `sort.Slice` does, and `EveryItemAccounted` leaves such
pairs out. An error whose operation is an encrypted name loses its cause and gains a
record in each pass, since its class then takes the place of the message
(`types.go` 71-82).

### Worth knowing

Behaviour of the code that the models show and no violated run records:

- A successful Shutdown of the recorder discards what a retryable failure left pending
  (`state.go` 254), while `fake-recorder.md` 230 says that it drains.
- A second Shutdown that overlaps a first one returns nil before the first one fails
  (`state.go` 226; `failure-surface.md` 154).
- After Shutdown a helper without its id, provider or model still calls the error handler
  (`tool.go` 135; `failure-surface.md` 257).
- A canceled session or run is exported without `error.canceled` (`session.go` 203),
  which `schema.md` 177-178 requires of terminal canceled spans.
- One-call events have no duration; the Datadog exporter accepts them and sends nothing
  (`payload.go` 54-60). `PayloadKeepsObservation` holds it to that.
- A plain flag that the program sets to true yields to the environment (`exporter.go`
  181-198), while `exporter-config.md` 63 gives constructor options the highest
  precedence; only the overrides have it.
- With `MaxRetries` at the largest `int` the number of attempts wraps around: nothing is
  sent and the result is nil (`exporter.go` 335). `ValidatedMeansAccepted` leaves it out.
- `addMetadataAttributes` sets no limit on the number of entries, and the function of
  `redaction.go` that would (`MetadataAttributes`) is called by tests only, while
  `redaction.md` 142 limits metadata to 32 entries.
- The exporter's pass of redaction keeps the name of a summary whose text and fields its
  options disable: `NothingForbidden` speaks of text and fields.

## Runs

| Run | Checks | Bounds | Result |
|---|---|---|---|
| `recorder` | 7 invariants, 1 action property, refinement of the ledger | 2 goroutines, 7 configurations, 2 calls of each operation between two Resets (a retry by a Flush counts as one more export), 1 Reset, error history of 2 | holds |
| `datadog` | 3 invariants, 3 action properties, refinement of the queue | 2 callers, batches of 3 with an oversize and an unended observation, groups of 2 or 3 bytes, 1 retry, 6 observations | holds |
| `datadog_config` | 4 invariants | 1528 supplies, base delays 0 to 40 and maxima 0 to 100, 4 retries, `MaxInt` 1023 | holds |
| `span_tree` | 6 invariants | 2 contexts besides the background, 1 handle or event and 1 run from a session, 3 correlations, 2 stream events and a cancellation, 2 instants | holds |
| `datadog_liveness` | every call returns | 2 callers, 2 observations, 1 retry | holds |
| `observer` | 6 invariants, 1 action property | 2 goroutines, one handle of each kind, 2 events, 3 calls of Flush, Shutdown and Reset, 4 configurations | holds |
| `pipeline` | 5 invariants, 1 action property | 344 supplies with 5 kinds of summary names, 3 texts and 4 field maps, 13 kinds of keys, 8 options of the Observer and 12 of the exporter, limits of 1, 2 and 3 bytes, 2 map entries | holds |
| `recorder_dirty_shutdown`, `recorder_closed_retry`, `datadog_oversize`, `span_own_id`, `tool_summary_name` | one sentence of the documentation each | as small as the disagreement allows | violated |

The bounds let each interesting case happen and meet the others: two goroutines are
enough for each pair of critical sections to interleave in both orders, and a history
variable stands for a third where one is needed; a capacity and an error history
smaller than the number of calls overflow; two Flushes of the recorder follow, overlap and
retry a failed one, and its failure plans have retries that succeed, that fail for good and
that stay retryable; a queue of two batches has a delivered, a failing and an unattempted
group; three control calls are a Shutdown, a Reset and one more. For redaction, texts of one to three runes meet limits below, inside, at the edge
of and beyond a rune, and a map of four entries overflows with and without entries that
do not count. Handles of `SpanTree` share nothing but the contexts they begin in and a session with
its runs, so one handle and one run meet every case; two instants make a clock stand
still, advance and go back. The configurations of `DatadogConfig` vary together what is
resolved together. Goroutines are symmetric in the safety runs.
`MaxCalls`, `MaxEpoch`, `MaxAccepted`, `MaxEvents`, `MaxControls`, `MaxContexts`,
`MaxMade` and `MaxRuns` are the only bounds in guards. The runs of
`ObservationPipeline`, `SpanTree` and `DatadogConfig` switch the deadlock check off: an
observation, a program and the making of an exporter come to an end.

Fairness is assumed in `datadog_liveness` alone: weak fairness of the caller that holds
the mutex, since the HTTP client has a timeout and a pause has an end, and strong
fairness of acquiring it, since `sync.Mutex` hands over to a goroutine that has waited
for 1 ms. Calls of the other components never wait for one another, so there is nothing
to assume and little to show.

The violated properties say what a document states and the code does not do; each
finding in `PROJECT.json` quotes the line.

- `ShutdownFailureStaysDirty`: a Flush that began before a failing Shutdown clears dirty.
- `ClosedAcceptsNothing`: a closed recorder retains spans when the failure plan says so.
- `LossSaysDropped`: the error of an oversize span is lost when another group fails.
- `EnabledSummaryKeepsName`: the exporter takes the name of a tool output summary for raw
  tool output and omits it, though the summary is enabled and the other five keep theirs.
- `RunHasItsOwnId`: a run that a session starts without an id takes the session's id and
  is its own parent; the first example of the repository's README does it.

## Proofs

Each property that the runs `recorder`, `datadog`, `datadog_config`, `span_tree`, `observer`
and `pipeline` check, both refinements included, is a theorem of the specification: for any
number of goroutines, handles and observations, any configuration, sizes and limits, and
any bound. Nothing is assumed but the assumptions on constants that each module names,
which TLC evaluates in every run: they say of what type the inputs are, that a program
hands a finite map to a helper, and that the limits are natural numbers. The module bounds
(`MaxCalls` and the like) are any numbers, so they take nothing away.

Few of the properties are inductive as they stand. What had to be added, and why, is what
the proofs say about the code.

### Recorder

- `TypeCorrect`: one lemma for each group of actions; what an injected failure,
  `Remember`, `Drop`, `Stamped` and `Admit` return are lemmas of their own.
- `Accounted`, `StampsUnique`: `EveryStampAccounted` and `NoStampTwice` need each other. A
  new stamp is used once because all stamps in use are among `1..sequence`; that a retry
  keeps this equality needs uniqueness. And `RecordSpan` advances `sequence` by one
  whatever the call carries, so `RecordsOneSpan` must be known: a suspended Record carries
  one span. `Stamped` gives the next stamps in order, every other action moves whole parts
  of sequences, and `Reset` empties all places.
- `HistoryIsExact`, `CapacityIsRespected`: each operation reports at least one error for each
  observation that it drops, and `Room` never exceeds what a limit leaves. These two need
  only types besides.
- `UnfinishedStaysDirty` is inductive: what makes `pending` grow or sets `lastFlushError`
  sets `dirty`, and what clears `dirty` leaves nothing pending.
- `ShutdownErrorIsClosed` is not: a Shutdown sets its error long after it set the flag,
  with a Reset possible in between. `Closing` adds that no call is of a later epoch than
  the state's, and that a Shutdown of this epoch in progress has the flag set.
- `NilIsDelivered` is about single steps: what each finishing action does if the call
  returns nil, from `TypeOK` and the lemma on `Admit`.
- `RecorderImplementsLedger`: under the mapping each stamp has the fate `FateOf`, which is
  a function because of `Accounted` and `StampsUnique`. Each step is an acceptance, a
  settlement, a closing, a discarding, a wipe, or stutters; `Closing` is what allows a
  Shutdown to discard.

### Datadog exporter

All seven theorems follow from one inductive invariant, `Inv` of `DatadogProofs`. Next to
`TypeOK`, `DrainMatchesQueue` and `WithinLimits` it has

- `Holding`: with the mutex free no drain exists; with it held the drain has a group to
  send, its holder has queued its batch, only a Shutdown drains a closed exporter, and
  what counts as delivered was acknowledged;
- `Calling`: only an Export carries a batch;
- `InOrder`: the tags in `pending` ascend, so they are distinct, and what was delivered can
  be told from what was not by its tag. Without it `Compact` could forget two at once;
- `Emptied`: a Shutdown that succeeded left nothing pending. `NilAlwaysDelivers` needs it
  for a Flush or Shutdown that is answered with nil afterwards.

`DrainMatchesQueue` relates the groups to the queue by equality of sequences: the groups
that are left, put one after another, are the pending observations without those
delivered. It is preserved because removing the delivered ones of a sequence that begins
with a group leaves the rest (`CompactAfter`), and established because grouping loses and
reorders nothing (`GroupedFacts`). `DeliversInOrder` follows: a request carries
`Head(groups)`, which the equality makes the first of what waits.

The first half of `DatadogProofs` proves what the recursive helpers compute for every sequence:
`Among` keeps exactly the items of a set, in order; `Groups` splits what can be shipped
into nonempty runs within both limits, and their concatenation is the input; `Compact`
is what remains.

### Observer

- `TypeCorrect` needs `Carrying`: a goroutine has an observation from the end of a helper
  until it is exported, and none in Flush, Shutdown and Reset.
- `LateHelpersStayInert` needs `LateMeansShut`: being late lasts only as long as the flag,
  and no late call is past the check of it.
- `OneShutsDown`, `AnswerStaysKept`: `OneCloser` says that at most one goroutine is shutting
  the exporter down, that the flag is set meanwhile, that this goroutine carries the
  exporter's answer until the Observer keeps it, and that it is kept from then on. It holds until a Reset overtakes a
  Shutdown, which is what the two properties leave out.
- `ClosedStaysFrozen`: only `Export` and `Reset` change what the exporter holds; a closed
  exporter refuses the one and is opened by the other.
- `ObservationsAccounted`: each step of each goroutine is one of four moves: nothing that
  counts happens, a call takes up the observation of a handle that it ends, a call puts
  its observation down in one place, or Reset clears the exporter. `OnePlace` is
  preserved by each of them, whatever action made it.
- `StreamsStayWhole`: `Tidy` is about handles (which marks their events have), `AllSound`
  about every observation on its way or put down: it still equals its handle, because an
  ended handle never changes again.

### Datadog configuration

The inductive invariant has `PhaseType`, `ValidatedMeansAccepted` and two parts that tie
what New holds to the functions of the code: `ConfigIsResolved` (the configuration is what
`ResolveConfig` makes of the supply) and `PauseIsDelay` (a pause is the delay of its
attempt).

- `TypeCorrect` rests on `ResolvedNumbers` and `ResolvedFields`: what passed `Valid` has its numbers within their
  limits. That each number is one of `Width` before it is validated needs the types of
  the supplies.
- `ExplicitStays`: `FirstValue` of a list depends on nothing after its first value (`FirstValueFirst`), and
  what the program set comes first. So the number, flag or text is a function of what the
  program gave, whichever environment it is read in.
- `DelaysStayWithinCap`: `Backoff` doubles until it exceeds the maximum. Its recursion is
  unrolled once, and induction shows that before the cut the delay is the base times the
  power of two, that the test before each doubling comes early enough for the product not
  to wrap, and that the jitter, at most half of the delay, is cut at the maximum. The sum
  with the jitter may wrap for maxima of more than two thirds of `MaxInt`; the property
  leaves them out by name.
- `ValidatedIsAccepted` is inductive: only `Accepted` leads from a request to `open`,
  unless no request is made, which needs `MaxRetries + 1` to wrap.

### Redaction

`RedactionProofs` has what each function returns. `TruncateUTF8` is the longest prefix of
whole runes within the limit, and truncating twice is truncating once with the smaller
limit. Two passes of `ApplyAttributes` with the same options are one, since what
`Omission` keeps and `BoundedString` cuts is kept and not cut again. `StringMapAttributes`
is a fold over an order of the map; by induction over that order it keeps those of the
entries that count which come first, in whatever order equal names are sorted.

The inductive invariant of `PipelineProofs`, `IInv`, says what the observation is at each stage: what
the helper made of the supply with the Observer's options and some order of each map,
and after that what `ApplySpan` made of such an observation with the exporter's. From
it the six properties are facts about functions:

- `NothingForbiddenIsKept` and `SecondPass` need only the last pass, since a key that
  `Omission` keeps is not forbidden, and redacting is idempotent;
- `TextsAreCutOnce` and `EveryItemIsAccounted` need both passes: the text of an item after
  the helper is a prefix, and the exporter cuts that prefix. The lengths in the records
  join up because what the first pass retained is what the second one began with;
- `FirstEntriesAreKept` needs that keys of two parts of an observation never meet:
  metadata, summaries of different sides and their fields have different paths.

### What helpers build

`IInv` of `SpanTreeProofs` says of each context that it is a correlation, of each handle
`HandleFits` and `Joins`, and of the observation that the last step exported `WellFormed`,
from which the six theorems follow at once. `WellFormed` of what a step exports is what has
to be shown, and it is not inductive: an observation is put together over several calls, so
all depends on what `HandleFits` remembers of a handle until it ends:

- `StartFits`: the attributes at the start are those of the correlation, those that
  validation requires of the kind, and no others. So none of them collides with what the
  end adds, and the call id of a tool is the one of its correlation;
- `EventsFit`: each event of a stream has the parent, the trace and the correlation of its
  stream, an id that differs from it, error attributes that agree with its error, and
  satisfies validation if the stream has an id and a trace. The events were built while the
  stream was open, and this is all that is known of them when it ends;
- `TokensFit`, while the handle is open: there is at most one first token, exactly if the
  handle knows a latency, and with that latency, and there is no cancellation yet. So
  appending the cancellation makes it the only one and the last.

`Joins` is inductive because a handle never changes its correlation. The two terminal paths
of validation are the largest part: what `ErrorAttributes` writes and what `ToModelError`
reads back must agree on each flag (`ErrorSays`, `ErrorStated`), also where the payload has
the same key twice, in the metadata of the error and in the attributes. A few lemmas about
`Over` and `Only` stand for all reasoning about maps.

Two assumptions on the constants carry weight. Strings that a program passes are strings,
and times are positive, since a helper replaces the zero time by the clock. Latencies,
counts and indexes are any integers.

### Induction over data

The induction theorems of the library take a predicate as a parameter, which no installed
prover can instantiate. `InductionLemmas` states induction with a set in its place: a set
of numbers or sequences that contains the first one and with each one the next contains
all. It comes from the well-foundedness of `<` on the naturals. From it follow that
recursive functions over `0..n` exist and are determined by their equations, and what
`FlattenSeq` computes. The proofs about `Groups`, `Among` and `Compact`, and those about
appending to sequences in `RecorderProofs`, rest on these lemmas.

### Only model-checked

- `EveryCallReturns`: liveness under fairness, which the prover does not handle.
- The violated properties: one counterexample says all there is to say.

The theorems are about the models. That actions are the code's critical sections, that
`Reset` is two of them in the Observer, and what the network may do are modelling
decisions, explained above.

## Not modelled, and why

- Snapshots and deep copies (`recorder/snapshot.go`, the clone functions): they copy field
  by field, and a TLA+ value cannot be shared by accident, so a model would show nothing.
- `internal/model/error.go`: only tests call its constructors and `RecordError`.
- The text of names, messages and durations, compression and HTTP headers, parsing of
  URLs and numbers.
- The call counters of the no-network exporter; panics of an error handler, which the
  code does not recover; handlers that call back into the Observer.
- Examples and scripts, which are not part of the library.

## Plan

1. Done: recorder and ledger, Datadog delivery and queue, configuration, Observer with
   handles, what helpers build with schema and payload, redaction and the pipeline.
2. Done: proofs of every safety property, action property and refinement that a passing
   run checks.
3. Left: `EveryCallReturns` stays with TLC. A Datadog exporter behind the Observer, in one
   model, would show what two queues of one program promise together.
