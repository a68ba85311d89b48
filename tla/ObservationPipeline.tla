------------------------- MODULE ObservationPipeline -------------------------
(***************************************************************************)
(* What a caller hands to a helper, on its way into an exporter.           *)
(*                                                                         *)
(* A helper redacts summaries with the options of the Observer when it     *)
(* builds an observation (model_call.go, stream.go, tool.go, lifecycle.go) *)
(* and adds metadata as it is (session.go).  An exporter with options of   *)
(* its own then redacts the whole observation (no_network.go), and a       *)
(* program may hand what it finds in a snapshot to another exporter.       *)
(*                                                                         *)
(* Abstracted: attributes that no rule concerns (times, correlation,       *)
(* provider, token counts).  Who else runs meanwhile is Observer's matter. *)
(***************************************************************************)
EXTENDS Redaction

CONSTANTS
  Supplies,         \* what the calls on one handle are given
  ObserverOptions,  \* Observer.Config().Redaction
  ExporterOptions   \* the options given to NewNoNetworkExporter

Handles == {"tool", "model", "stream", "compaction", "own"}

(* Names of one spelling differ in the white space around them only. *)
Entries ==
  {map \in SUBSET [name : Name, runes : Runes] :
     /\ IsFiniteSet(map)
     /\ \A e, f \in map :
          e.name.canonical = f.name.canonical /\ e.name.spelling = f.name.spelling
            => Trimmed(e.name) = Trimmed(f.name)}

Summary   == [name : Name \cup {NoName}, runes : Runes, fields : Entries]
NoSummary == [name |-> NoName, runes |-> <<>>, fields |-> {}]
Error     == {error \in [present : BOOLEAN, operation : STRING, cause : BOOLEAN] :
                error.cause => error.present}

(* A call takes some of the arguments only. *)
ASSUME PipelineAssumption ==
  /\ \A s \in Supplies :
       /\ s.handle \in Handles
       /\ s.input \in Summary /\ s.output \in Summary /\ s.chunk \in Summary
       /\ s.metadata \in Entries /\ s.late \in Entries
       /\ \A key \in DOMAIN s.own : IsKey(key) /\ s.own[key] \in Value
       /\ s.error \in Error
       /\ s.handle # "own" => s.own = NoAttributes
       /\ s.handle = "own" => s.metadata = {}
       /\ s.handle \in {"own", "compaction"} => s.late = {}
  /\ ObserverOptions \subseteq {o \in Options : o.max >= 0}  \* Config.Validate
  /\ ExporterOptions \subseteq Options

VARIABLES
  stage,        \* how far the observation has come
  supply,       \* fixed: the arguments of the calls
  options,      \* fixed: the options of the Observer and of the exporter
  observation   \* as the handle, and then an exporter, holds it

vars == <<stage, supply, options, observation>>

NoError == [present |-> FALSE, operation |-> "none", cause |-> FALSE]
Blank   == [attributes |-> NoAttributes, records |-> {}, error |-> NoError, events |-> <<>>]

InputPath(handle) ==
  CASE handle = "tool"       -> <<"tool", "input", "summary">>
    [] handle = "compaction" -> <<"compaction", "summary">>
    [] OTHER                 -> <<"genai", "request", "summary">>

OutputPath(handle) ==
  IF handle = "tool" THEN <<"tool", "output", "summary">>
  ELSE <<"genai", "response", "summary">>

ChunkPath == <<"stream", "chunk", "summary">>

Init ==
  /\ supply \in Supplies
  /\ options \in [observer : ObserverOptions, exporter : ExporterOptions]
  /\ stage = "supplied"
  /\ observation = Blank

-----------------------------------------------------------------------------
(* Building. *)

IsAbsent(summary) == summary = NoSummary

(* ...SummaryAttributes of the helpers. *)
Summarized(path, summary, order) ==
  IF IsAbsent(summary) THEN [attributes |-> NoAttributes, records |-> {}]
  ELSE SummaryAttributes(path, summary, order, options.observer)

(* addMetadataAttributes: no bound, no filter; an empty value adds nothing. *)
AddMetadataAttributes(entries) ==
  LET filled  == {e \in entries : e.runes # <<>>}
      entry(k) == CHOOSE e \in filled : e.name = k.name
  IN [k \in {Named(<<"metadata">>, e.name) : e \in filled} |-> Text(entry(k).runes)]

(* A later attribute replaces an earlier one with the same key. *)
Add(obs, attributes, records) ==
  [obs EXCEPT !.attributes = Over(attributes, @), !.records = @ \cup records]

Move(from, to) == stage = from /\ stage' = to

(* StartToolCall, StartModelCall, StartStream. *)
Start ==
  /\ supply.handle \in {"tool", "model", "stream"}
  /\ Move("supplied", "started")
  /\ \E order \in Orders(supply.input.fields) :
       LET input == Summarized(InputPath(supply.handle), supply.input, order)
       IN observation' = Add(observation, Over(AddMetadataAttributes(supply.metadata), input.attributes),
                             input.records)
  /\ UNCHANGED <<supply, options>>

(* Stream.Chunk; one chunk is enough, as the next one is treated alike. *)
Chunk ==
  /\ supply.handle = "stream"
  /\ stage = "started"
  /\ observation.events = <<>>
  /\ \E order \in Orders(supply.chunk.fields) :
       LET chunk == Summarized(ChunkPath, supply.chunk, order)
           event == [attributes |-> chunk.attributes, records |-> chunk.records, error |-> NoError]
       IN observation' = [observation EXCEPT !.events = <<event>>]
  /\ UNCHANGED <<stage, supply, options>>

(* End and Error of the handle. *)
Finish ==
  /\ Move("started", "built")
  /\ \E order \in Orders(supply.output.fields) :
       LET output == Summarized(OutputPath(supply.handle), supply.output, order)
       IN observation' = [Add(observation, Over(output.attributes, AddMetadataAttributes(supply.late)),
                              output.records) EXCEPT !.error = supply.error]
  /\ UNCHANGED <<supply, options>>

(* Observer.Compaction. *)
Compact ==
  /\ supply.handle = "compaction"
  /\ Move("supplied", "built")
  /\ \E order \in Orders(supply.input.fields) :
       LET summary == Summarized(InputPath("compaction"), supply.input, order)
       IN observation' = Add(observation, Over(AddMetadataAttributes(supply.metadata), summary.attributes),
                             summary.records)
  /\ UNCHANGED <<supply, options>>

(* The program makes an observation itself and calls Exporter.Export. *)
HandIn ==
  /\ supply.handle = "own"
  /\ Move("supplied", "built")
  /\ observation' = [observation EXCEPT !.attributes = supply.own, !.error = supply.error]
  /\ UNCHANGED <<supply, options>>

-----------------------------------------------------------------------------
(* redactPublicObservation.  As Error() of an error is never empty, there  *)
(* is always a message to look at.                                         *)

Export ==
  /\ options.exporter.max >= 0
  /\ Move("built", "exported")
  /\ observation' = ApplySpan(observation, options.exporter, "export")
  /\ UNCHANGED <<supply, options>>

(* ValidateOptions fails, the exporter keeps nothing. *)
Refuse ==
  /\ options.exporter.max < 0
  /\ Move("built", "refused")
  /\ observation' = Blank
  /\ UNCHANGED <<supply, options>>

(* An observation of a snapshot goes to another exporter of the same kind. *)
Forward ==
  /\ Move("exported", "forwarded")
  /\ observation' = ApplySpan(observation, options.exporter, "forward")
  /\ UNCHANGED <<supply, options>>

Next == Start \/ Chunk \/ Finish \/ Compact \/ HandIn \/ Export \/ Refuse \/ Forward

Spec == Init /\ [][Next]_vars

-----------------------------------------------------------------------------
(* What was supplied, item by item: where it belongs, its runes, and which *)
(* options it passes.  A padded field name is trimmed.                     *)

Bounded(key, runes, limits) == [key |-> key, runes |-> runes, limits |-> limits]
BothLimits == {MaxSummaryBytes(options.observer), MaxSummaryBytes(options.exporter)}
OwnLimit   == {MaxSummaryBytes(options.exporter)}

SummaryItems(path, summary) ==
  {Bounded(Plain(path), summary.runes, BothLimits) : r \in {summary.runes} \ {<<>>}}
  \cup {Bounded(Named(Append(path, "fields"), Trimmed(e.name)), e.runes, BothLimits) :
          e \in summary.fields}
  \cup {Bounded(Plain(Append(path, "name")), NameText(n).runes, {}) :
          n \in {summary.name} \ {NoName}}

MetadataItems ==
  LET given    == Over(AddMetadataAttributes(supply.late), AddMetadataAttributes(supply.metadata))
  IN {Bounded(k, given[k].runes, OwnLimit) : k \in DOMAIN given}

Summaries ==
  CASE supply.handle = "own"        -> {}
    [] supply.handle = "compaction" -> {<<InputPath("compaction"), supply.input>>}
    [] OTHER -> {<<InputPath(supply.handle), supply.input>>,
                 <<OutputPath(supply.handle), supply.output>>}

SpanItems ==
  (UNION {SummaryItems(s[1], s[2]) : s \in Summaries}) \cup MetadataItems
  \cup {Bounded(k, supply.own[k].runes, OwnLimit) : k \in DOMAIN supply.own}

EventItems == IF observation.events = <<>> THEN {} ELSE SummaryItems(ChunkPath, supply.chunk)

(* The observation and its event, each with what was supplied for it. *)
Parts == {[items |-> SpanItems, part |-> observation]}
         \cup {[items |-> EventItems, part |-> observation.events[i]] : i \in DOMAIN observation.events}

(* The reference definition of truncation: the longest sequence of whole   *)
(* runes that fits every limit.                                            *)
LongestPrefix(runes, limits) ==
  CHOOSE p \in Prefixes(runes) :
    /\ \A n \in limits : Bytes(p) <= n
    /\ \A q \in Prefixes(runes) : (\A n \in limits : Bytes(q) <= n) => Len(q) <= Len(p)

-----------------------------------------------------------------------------

Reasons == {"default_omitted", "summary_disabled", "summary_truncated",
            "field_limit_exceeded", "encrypted_reasoning_forbidden"}

PartOK(part) ==
  /\ \A k \in DOMAIN part.attributes :
       /\ part.attributes[k].text \in BOOLEAN
       /\ part.attributes[k].runes \in Runes
  /\ \A r \in part.records :
       /\ r.reason \in Reasons
       /\ r.pass \in {"build", "export", "forward"}
       /\ r.reason = "summary_truncated" => r.retained \in 0..(r.original - 1)

(* Types; a record of truncation tells of more bytes than were kept. *)
TypeOK ==
  /\ stage \in {"supplied", "started", "built", "exported", "refused", "forwarded"}
  /\ supply \in Supplies
  /\ options \in [observer : ObserverOptions, exporter : ExporterOptions]
  /\ \A p \in Parts : PartOK(p.part)

(* Whatever passes boundedString once or twice, with two different limits, *)
(* leaves as the longest run of whole runes of what was supplied that fits *)
(* the smaller one (redaction.go:294, 308; model_call.go:198).             *)
TextsAreLongestPrefixes ==
  stage = "exported" =>
    \A p \in Parts : \A k \in DOMAIN p.part.attributes :
      IsBounded(k, p.part.attributes[k]) =>
        \E item \in p.items :
          item.key = k /\ p.part.attributes[k].runes = LongestPrefix(item.runes, item.limits)

(* The records that may speak for an item: under its own key, or for the   *)
(* summary it belongs to.                                                  *)
AboutItem(item) ==
  LET summary == IF item.key.name # NoName \/ Last(item.key.path) = "name"
                 THEN Front(item.key.path) ELSE item.key.path
  IN {item.key, Plain(summary), Plain(Append(summary, "name")), Plain(Append(summary, "text"))}

(* Nothing that was supplied is lost or shortened without a record, though *)
(* two passes with different options may each take a part of it: an item   *)
(* is whole, or cut with records from its first length to its last one, or *)
(* gone with a record of the reason.  Fields whose names differ only in    *)
(* white space around them share a key, and one replaces the other         *)
(* (redaction.go:226-255, 100-175).                                        *)
EveryItemAccounted ==
  stage = "exported" =>
    \A p \in Parts : \A item \in p.items :
      LET about  == {r \in p.part.records : r.path \in AboutItem(item)}
          cuts   == {r \in about : r.reason = "summary_truncated"}
          left   == p.part.attributes[item.key].runes
          shared == \E other \in p.items \ {item} : other.key = item.key
      IN \/ shared
         \/ item.key \in DOMAIN p.part.attributes
            /\ \/ left = item.runes
               \/ /\ \E r \in cuts : r.original = Bytes(item.runes)
                  /\ \E r \in cuts : r.retained = Bytes(left)
         \/ item.key \notin DOMAIN p.part.attributes /\ about \ cuts # {}

(* Of the fields of a summary the helper keeps those that come first in    *)
(* canonical order among the ones that may be kept at all, as many as      *)
(* MaxMapEntries, in whatever order the map was read (redaction.go:226).   *)
FirstEntriesKept ==
  stage = "built" =>
    \A s \in Summaries :
      LET fields     == {e \in s[2].fields : NameOmission(e.name) = "kept"}
          ahead(e)   == {f \in fields : Before(Trimmed(f.name), Trimmed(e.name))}
          first      == {e \in fields : Cardinality(ahead(e)) < MaxMapEntries}
          path       == Append(s[1], "fields")
      IN SummaryRefused(s[1], s[2], options.observer) = {} =>
           {k \in DOMAIN observation.attributes : k.path = path}
             = {Named(path, Trimmed(e.name)) : e \in first}

(* No rule is undone by a later one and no path into the exporter avoids   *)
(* them: what an exporter keeps has no sensitive or overlong name, is no   *)
(* raw payload, is no text or field of a side that one of the two options  *)
(* disables, and belongs to no summary with a sensitive name               *)
(* (redaction.go:100-216, 406).                                            *)
Forbidden(key) ==
  LET path == key.path
      side == SummarySide(path)
      below == IF Len(path) > 1 THEN SummarySide(Front(path)) ELSE "none"
      payload == \E raw \in RawPayloads : IsPrefix(raw, Canonical(key))
  IN \/ key.name # NoName /\ (path = <<"metadata">> \/ below # "none")
        /\ (IsSensitiveName(key.name.canonical) \/ key.name.bytes > MaxNameBytes)
     \/ payload /\ side = "none" /\ below = "none" /\ ~IsPrefix(<<"tool", "input", "summary">>, path)
     \/ key.name = NoName /\ ~SummaryEnabled(side, options.exporter) /\ side # "none"
     \/ key.name # NoName /\ ~SummaryEnabled(below, options.exporter) /\ below # "none"

NothingForbidden ==
  stage = "exported" =>
    /\ \A p \in Parts : \A k \in DOMAIN p.part.attributes : ~Forbidden(k)
    /\ \A s \in Summaries : SummaryRefused(s[1], s[2], options.observer) # {} =>
         \A k \in DOMAIN observation.attributes : ~IsPrefix(s[1], k.path)
    /\ IsEncryptedReasoningName(observation.error.operation) => ~observation.error.cause

(* Redacting again with the same options changes no attribute, and adds no *)
(* record but that of an error message, which is written again since the   *)
(* class of the error takes the place of the message (types.go:71).        *)
SecondPassChangesNothing ==
  [][Forward =>
       \A i \in 0..Len(observation.events) :
         LET before == IF i = 0 THEN observation ELSE observation.events[i]
             after  == IF i = 0 THEN observation' ELSE observation'.events[i]
         IN /\ after.attributes = before.attributes
            /\ \A r \in after.records \ before.records : r.path = ErrorPath]_vars

(* docs/prompts/docs/redaction.md:168 has enabled summaries retained; of   *)
(* their name it says that an overlong or a sensitive one is omitted.  So  *)
(* an enabled summary that was not refused keeps its name.                 *)
EnabledSummaryKeepsName ==
  stage = "exported" =>
    \A s \in Summaries :
      /\ s[2].name # NoName
      /\ SummaryRefused(s[1], s[2], options.observer) = {}
      /\ SummaryEnabled(SummarySide(s[1]), options.exporter)
      => Plain(Append(s[1], "name")) \in DOMAIN observation.attributes
=============================================================================
