------------------------------ MODULE Redaction ------------------------------
(***************************************************************************)
(* The pure functions of internal/redaction/redaction.go.                  *)
(*                                                                         *)
(* A string is the sequence of the byte lengths of its runes.  A name is   *)
(* given by its canonical form (canonicalName), the spelling behind it,    *)
(* whether white space surrounds it, and its length without that white     *)
(* space.  The key of an attribute is its canonical path, cut at the       *)
(* separators, and the name that the caller supplied at its end, if any:   *)
(* tool.input.summary.fields.X has the name X.                             *)
(*                                                                         *)
(* Records are kept in a set, since their order is that of the keys; each  *)
(* carries the pass that wrote it, so that a second record about the same  *)
(* field shows.                                                            *)
(***************************************************************************)
EXTENDS Integers, FiniteSets, SequencesExt

CONSTANTS
  DefaultMaxSummaryBytes,  \* 1024 in the code
  MaxNameBytes,            \* 128
  MaxMapEntries,           \* 32
  CanonicalOrder,          \* the canonical names in use, in lexical order
  NoName                   \* the empty name

Name     == [canonical : Range(CanonicalOrder), spelling : Nat,
             padded : BOOLEAN, bytes : Nat]
Runes    == Seq(1..4)
Options  == [input : BOOLEAN, output : BOOLEAN, max : Int]

ASSUME RedactionAssumption ==
  /\ DefaultMaxSummaryBytes \in Nat \ {0}
  /\ MaxNameBytes \in Nat
  /\ MaxMapEntries \in Nat
  /\ CanonicalOrder \in Seq(Range(CanonicalOrder))
  /\ NoName \notin Name

NoAttributes == [k \in {} |-> k]

Text(runes) == [text |-> TRUE, runes |-> runes]
Other       == [text |-> FALSE, runes |-> <<>>]
NameText(name) == Text([i \in 1..name.bytes |-> 1])

Bytes(runes) ==
  LET upto[i \in 0..Len(runes)] ==
        IF i = 0 THEN 0 ELSE upto[i - 1] + runes[i]
  IN  upto[Len(runes)]

(* A map with one entry, and what f says, or g where f says nothing. *)
Only(key, value) == [k \in {key} |-> value]
Over(f, g) ==
  [k \in DOMAIN f \cup DOMAIN g |-> IF k \in DOMAIN f THEN f[k] ELSE g[k]]

Record(path, reason, original, retained, pass) ==
  [path |-> path, reason |-> reason, original |-> original,
   retained |-> retained, pass |-> pass]

Named(path, name) == [path |-> path, name |-> name]
Plain(path)       == Named(path, NoName)

IsKey(key) ==
  /\ key = Named(key.path, key.name)
  /\ key.path \in Seq(Range(key.path))
  /\ key.name \in Name \cup {NoName}
  /\ key.name # NoName =>
       \/ key.path = <<"metadata">>
       \/ Len(key.path) > 1 /\ Last(key.path) = "fields"

Value == [text : BOOLEAN, runes : Runes]

-----------------------------------------------------------------------------
(* Strings: boundedString and truncateUTF8.  LastStart is the last rune    *)
(* that begins no later than the limit.                                    *)

LastStart(runes, limit) ==
  LET start(i) == Bytes(SubSeq(runes, 1, i - 1))
  IN CHOOSE i \in DOMAIN runes :
       /\ start(i) <= limit
       /\ \A j \in DOMAIN runes : start(j) <= limit => j <= i

(* Slip: the limit is tested after the rune has been taken. *)
TruncatePastLimit(runes, limit) ==
  IF limit <= 0 THEN <<>>
  ELSE IF Bytes(runes) <= limit THEN runes
  ELSE SubSeq(runes, 1, LastStart(runes, limit))

(* Slip: a string that is as long as the limit is cut. *)
TruncateAtLimit(runes, limit) ==
  IF limit <= 0 THEN <<>>
  ELSE IF Bytes(runes) < limit THEN runes
  ELSE SubSeq(runes, 1, LastStart(runes, limit) - 1)

TruncateUTF8(runes, limit) ==
  IF limit <= 0 THEN <<>>
  ELSE IF Bytes(runes) <= limit THEN runes
  ELSE SubSeq(runes, 1, LastStart(runes, limit) - 1)

MaxSummaryBytes(opts) == IF opts.max = 0 THEN DefaultMaxSummaryBytes ELSE opts.max

(* Slip: the record takes the two lengths in the wrong order. *)
BoundedStringSwapped(path, runes, limit, pass) ==
  LET kept == TruncateUTF8(runes, limit)
  IN [runes   |-> kept,
      records |-> IF Bytes(kept) = Bytes(runes) THEN {}
                  ELSE {Record(path, "summary_truncated", Bytes(kept), Bytes(runes), pass)}]

(* The new runes, and a record if bytes were cut off. *)
BoundedString(path, runes, limit, pass) ==
  LET kept == TruncateUTF8(runes, limit)
  IN [runes   |-> kept,
      records |-> IF Bytes(kept) = Bytes(runes) THEN {}
                  ELSE {Record(path, "summary_truncated", Bytes(runes), Bytes(kept), pass)}]

-----------------------------------------------------------------------------
(* Names. *)

IsEncryptedReasoningName(canonical) ==
  canonical \in {"encrypted_reasoning", "reasoning_encrypted"}

IsSensitiveName(canonical) ==
  \/ IsEncryptedReasoningName(canonical)
  \/ canonical \in {"authorization", "api_key", "apikey", "x_api_key",
                    "access_token", "refresh_token", "bearer_token", "token",
                    "password", "secret", "client_secret", "cookie", "set_cookie"}

KeyOmissionReason(canonical) ==
  IF IsEncryptedReasoningName(canonical)
  THEN "encrypted_reasoning_forbidden" ELSE "default_omitted"

(* "kept", or why a value with this name is omitted from attributes. *)
NameOmission(name) ==
  IF IsSensitiveName(name.canonical) THEN KeyOmissionReason(name.canonical)
  ELSE IF name.bytes > MaxNameBytes THEN "field_limit_exceeded"
  ELSE "kept"

Rank(name)   == CHOOSE i \in DOMAIN CanonicalOrder : CanonicalOrder[i] = name.canonical
Before(a, b) == \/ Rank(a) < Rank(b)
                \/ Rank(a) = Rank(b) /\ a.spelling < b.spelling

Trimmed(name) == [name EXCEPT !.padded = FALSE]

-----------------------------------------------------------------------------
(* Which attributes are summaries, fields of a summary, metadata or raw    *)
(* payload.                                                                *)

SummarySide(path) ==
  CASE path \in {<<"genai", "request", "summary">>, <<"tool", "input", "summary">>,
                 <<"compaction", "summary">>} -> "input"
    [] path \in {<<"genai", "response", "summary">>, <<"stream", "chunk", "summary">>,
                 <<"tool", "output", "summary">>} -> "output"
    [] OTHER -> "none"

SummaryEnabled(side, opts) == \/ side = "input"  /\ opts.input
                              \/ side = "output" /\ opts.output

IsSummary(key) == key.name = NoName /\ SummarySide(key.path) # "none"

IsSummaryField(key) ==
  /\ key.name # NoName
  /\ Len(key.path) > 1
  /\ Last(key.path) = "fields"
  /\ SummarySide(Front(key.path)) # "none"

SideOf(key) == SummarySide(IF IsSummary(key) THEN key.path ELSE Front(key.path))

IsMetadata(key) == key.name # NoName /\ key.path = <<"metadata">>

RawPayloads ==
  {<<"prompt">>, <<"model", "input">>, <<"model", "output">>, <<"tool", "input">>,
   <<"tool", "output">>, <<"attachment">>, <<"attachments">>, <<"reasoning">>,
   <<"provider", "request">>, <<"provider", "response">>}

Canonical(key) ==
  IF key.name = NoName THEN key.path ELSE Append(key.path, key.name.canonical)

IsEncryptedKey(key) == Len(Canonical(key)) = 1 /\ IsEncryptedReasoningName(Canonical(key)[1])

ShouldOmitRawAttribute(key) ==
  \/ IsEncryptedKey(key)
  \/ /\ ~IsStrictPrefix(<<"tool", "input", "summary">>, Canonical(key))
     /\ \E raw \in RawPayloads : IsPrefix(raw, Canonical(key))

-----------------------------------------------------------------------------
(* ApplyAttributes.  What happens to an attribute depends on it alone:     *)
(* "kept", or the reason of its omission.                                  *)

FieldOmission(key, opts) ==
  IF SummaryEnabled(SideOf(key), opts) THEN NameOmission(key.name) ELSE "summary_disabled"

(* Slip: the names of metadata are not looked at. *)
OmissionTrustsMetadata(key, value, opts) ==
  IF IsSummary(key)
  THEN IF SummaryEnabled(SideOf(key), opts) THEN "kept" ELSE "summary_disabled"
  ELSE IF IsSummaryField(key) THEN FieldOmission(key, opts)
  ELSE IF ShouldOmitRawAttribute(key)
  THEN IF IsEncryptedKey(key) THEN "encrypted_reasoning_forbidden" ELSE "default_omitted"
  ELSE "kept"

(* A field that is no string is judged by the two rules after. *)
Omission(key, value, opts) ==
  IF IsSummary(key)
  THEN IF SummaryEnabled(SideOf(key), opts) THEN "kept" ELSE "summary_disabled"
  ELSE IF IsSummaryField(key) /\ (value.text \/ FieldOmission(key, opts) # "kept")
  THEN FieldOmission(key, opts)
  ELSE IF ShouldOmitRawAttribute(key)
  THEN IF IsEncryptedKey(key) THEN "encrypted_reasoning_forbidden" ELSE "default_omitted"
  ELSE IF IsMetadata(key) THEN NameOmission(key.name)
  ELSE "kept"

IsBounded(key, value) ==
  value.text /\ (IsSummary(key) \/ IsSummaryField(key) \/ IsMetadata(key))

(* Slip: an omitted attribute leaves no record. *)
ApplyAttributesSilently(attrs, opts, pass) ==
  LET kept       == {k \in DOMAIN attrs : Omission(k, attrs[k], opts) = "kept"}
      bounded(k) == BoundedString(k, attrs[k].runes, MaxSummaryBytes(opts), pass)
  IN [attributes |-> [k \in kept |-> IF IsBounded(k, attrs[k])
                                     THEN Text(bounded(k).runes) ELSE attrs[k]],
      records    |-> UNION {bounded(k).records : k \in {j \in kept : IsBounded(j, attrs[j])}}]

ApplyAttributes(attrs, opts, pass) ==
  LET omission   == [k \in DOMAIN attrs |-> Omission(k, attrs[k], opts)]
      kept       == {k \in DOMAIN attrs : omission[k] = "kept"}
      bounded(k) == BoundedString(k, attrs[k].runes, MaxSummaryBytes(opts), pass)
      bytes(k)   == IF omission[k] = "summary_disabled" THEN 0 ELSE Bytes(attrs[k].runes)
  IN [attributes |-> [k \in kept |-> IF IsBounded(k, attrs[k])
                                     THEN Text(bounded(k).runes) ELSE attrs[k]],
      records    |-> {Record(k, omission[k], bytes(k), 0, pass) : k \in DOMAIN attrs \ kept}
                     \cup UNION {bounded(k).records : k \in {j \in kept : IsBounded(j, attrs[j])}}]

-----------------------------------------------------------------------------
(* stringMapAttributes.  A map is a set of entries; sort.Slice puts them   *)
(* in an order in which entries with the same trimmed key may come either  *)
(* way round.                                                              *)

Orders(entries) ==
  {s \in SetToSeqs(entries) : \A i, j \in DOMAIN s :
     i < j => ~Before(Trimmed(s[j].name), Trimmed(s[i].name))}

MapOmission(name, retained) ==
  IF name.bytes > MaxNameBytes THEN "field_limit_exceeded"
  ELSE IF IsSensitiveName(name.canonical) THEN KeyOmissionReason(name.canonical)
  ELSE IF retained >= MaxMapEntries THEN "field_limit_exceeded"
  ELSE "kept"

(* Slip: every entry counts against the limit, omitted ones too. *)
AddEntryCountingAll(acc, entry, path, opts) ==
  LET key      == Named(path, Trimmed(entry.name))
      omission == MapOmission(entry.name, acc.retained)
      value    == BoundedString(key, entry.runes, MaxSummaryBytes(opts), "build")
  IN IF omission # "kept"
     THEN [acc EXCEPT !.records = @ \cup {Record(key, omission, 0, 0, "build")},
                      !.retained = @ + 1]
     ELSE [attributes |-> Over(Only(key, Text(value.runes)), acc.attributes),
           records    |-> acc.records \cup value.records,
           retained   |-> acc.retained + 1]

AddEntry(acc, entry, path, opts) ==
  LET key      == Named(path, Trimmed(entry.name))
      omission == MapOmission(entry.name, acc.retained)
      original == IF entry.name.bytes > MaxNameBytes
                  THEN entry.name.bytes ELSE Bytes(entry.runes)
      value    == BoundedString(key, entry.runes, MaxSummaryBytes(opts), "build")
  IN IF omission # "kept"
     THEN [acc EXCEPT !.records = @ \cup {Record(key, omission, original, 0, "build")}]
     ELSE [attributes |-> Over(Only(key, Text(value.runes)), acc.attributes),
           records    |-> acc.records \cup value.records,
           retained   |-> acc.retained + 1]

StringMapAttributes(path, order, opts) ==
  LET upto[i \in 0..Len(order)] ==
        IF i = 0
        THEN [attributes |-> NoAttributes, records |-> {}, retained |-> 0]
        ELSE AddEntry(upto[i - 1], order[i], path, opts)
  IN  upto[Len(order)]

-----------------------------------------------------------------------------
(* SummaryAttributes: a summary has a name, a text and a map of fields,    *)
(* which arrives in one of its orders.                                     *)

(* The record that stands for a whole summary, if it is refused. *)
SummaryRefused(path, summary, opts) ==
  LET name == summary.name
  IN IF ~SummaryEnabled(SummarySide(path), opts)
     THEN {Record(Plain(path), "summary_disabled", 0, 0, "build")}
     ELSE IF name = NoName THEN {}
     ELSE IF IsSensitiveName(name.canonical)
     THEN {Record(Plain(path), KeyOmissionReason(name.canonical), 0, 0, "build")}
     ELSE IF name.bytes > MaxNameBytes
     THEN {Record(Plain(Append(path, "name")), "field_limit_exceeded", name.bytes, 0, "build")}
     ELSE {}

SummaryAttributes(path, summary, order, opts) ==
  LET text   == BoundedString(Plain(Append(path, "text")), summary.runes,
                              MaxSummaryBytes(opts), "build")
      fields == StringMapAttributes(Append(path, "fields"), order, opts)
      named  == IF summary.name = NoName THEN NoAttributes
                ELSE Only(Plain(Append(path, "name")), NameText(summary.name))
      texted == IF summary.runes = <<>> THEN NoAttributes
                ELSE Only(Plain(path), Text(text.runes))
  IN IF SummaryRefused(path, summary, opts) # {}
     THEN [attributes |-> NoAttributes, records |-> SummaryRefused(path, summary, opts)]
     ELSE [attributes |-> Over(texted, Over(named, fields.attributes)),
           records    |-> text.records \cup fields.records]

-----------------------------------------------------------------------------
(* ApplyEvent and ApplySpan.  An error is its operation and whether it     *)
(* still has its cause.                                                    *)

ErrorPath == Plain(<<"error", "message">>)

RedactError(error, pass) ==
  IF error.present /\ IsEncryptedReasoningName(error.operation)
  THEN [error |-> [error EXCEPT !.cause = FALSE],
        records |-> {Record(ErrorPath, "encrypted_reasoning_forbidden", 0, 0, pass)}]
  ELSE [error |-> error, records |-> {}]

ApplyEvent(event, opts, pass) ==
  LET applied  == ApplyAttributes(event.attributes, opts, pass)
      redacted == RedactError(event.error, pass)
  IN [attributes |-> applied.attributes,
      records    |-> event.records \cup applied.records \cup redacted.records,
      error      |-> redacted.error]

ApplySpan(span, opts, pass) ==
  LET applied == ApplyEvent(span, opts, pass)
  IN [attributes |-> applied.attributes,
      records    |-> applied.records,
      error      |-> applied.error,
      events     |-> [i \in DOMAIN span.events |-> ApplyEvent(span.events[i], opts, pass)]]
=============================================================================
