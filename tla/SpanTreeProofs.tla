--------------------------- MODULE SpanTreeProofs ---------------------------
(***************************************************************************)
(* Proofs about SpanTree, for all correlations, clocks, latencies, errors  *)
(* and bounds.  The lemmas go from the inside to the outside: one          *)
(* attribute, the attributes of an error, events and what validation and   *)
(* the payload make of them, one-call events, the start, the growth and    *)
(* the end of a handle.  IInv, at the end, says that every handle is one   *)
(* that the helpers make (HandleFits) and that what a step exports is      *)
(* well formed; the theorems are its parts.                                *)
(***************************************************************************)
EXTENDS SpanTree, FiniteSetTheorems, TLAPS

-----------------------------------------------------------------------------
(* Attributes *)

LEMMA AtOver ==
  ASSUME NEW f, NEW g
  PROVE  \A key :
           /\ key \in DOMAIN Over(f, g) <=> key \in DOMAIN f \/ key \in DOMAIN g
           /\ key \in DOMAIN f => Over(f, g)[key] = f[key]
           /\ key \in DOMAIN g /\ key \notin DOMAIN f => Over(f, g)[key] = g[key]
BY DEF Over

LEMMA OverOwn ==
  ASSUME NEW f, NEW g
  PROVE  \A key \in DOMAIN f : key \in DOMAIN Over(f, g) /\ Over(f, g)[key] = f[key]
BY DEF Over

LEMMA AtOnly ==
  ASSUME NEW key, NEW value
  PROVE  DOMAIN Only(key, value) = {key} /\ Only(key, value)[key] = value
BY DEF Only

LEMMA NoneEmpty == DOMAIN NoAttributes = {}
BY DEF NoAttributes

LEMMA OverOK ==
  ASSUME NEW f, NEW g, AttributesOK(f), AttributesOK(g)
  PROVE  AttributesOK(Over(f, g))
<1> SUFFICES ASSUME NEW key \in DOMAIN Over(f, g)
             PROVE  AttributeOK(key, Over(f, g)[key])
  BY DEF AttributesOK
<1>1. CASE key \in DOMAIN f
  BY <1>1, AtOver DEF AttributesOK
<1>2. CASE key \notin DOMAIN f
  <2>1. key \in DOMAIN g /\ Over(f, g)[key] = g[key]
    BY <1>2, AtOver
  <2> QED BY <2>1 DEF AttributesOK
<1> QED BY <1>1, <1>2

LEMMA NoneOK == AttributesOK(NoAttributes)
BY NoneEmpty DEF AttributesOK

LEMMA PairsOK ==
  /\ \A v : Text(v)[1] = "string" /\ Text(v)[2] = v
  /\ \A n : Int64(n)[1] = "int64" /\ Int64(n)[2] = n
BY DEF Text, Int64

LEMMA TextOK ==
  ASSUME NEW key, NEW value, value # "" PROVE AttributesOK(Only(key, Text(value)))
<1>1. \A k \in DOMAIN Only(key, Text(value)) :
        k = key /\ Only(key, Text(value))[k] = Text(value)
  BY DEF Only
<1> QED BY <1>1, PairsOK DEF AttributesOK, AttributeOK

LEMMA Int64OK ==
  ASSUME NEW key, NEW n \in Nat PROVE AttributesOK(Only(key, Int64(n)))
<1>1. \A k \in DOMAIN Only(key, Int64(n)) :
        k = key /\ Only(key, Int64(n))[k] = Int64(n)
  BY DEF Only
<1>2. Int64(n)[1] = "int64" /\ Int64(n)[2] \in Nat /\ Int64(n)[2] \in Int
  BY DEF Int64
<1> QED BY <1>1, <1>2 DEF AttributesOK, AttributeOK

LEMMA GivenNumberOK ==
  ASSUME NEW key \in GivenNumbers, NEW n \in Int
  PROVE  AttributesOK(Only(key, Int64(n)))
<1>1. \A k \in DOMAIN Only(key, Int64(n)) :
        k = key /\ Only(key, Int64(n))[k] = Int64(n)
  BY DEF Only
<1>2. Int64(n)[1] = "int64" /\ Int64(n)[2] \in Int
  BY DEF Int64
<1> QED BY <1>1, <1>2 DEF AttributesOK, AttributeOK

LEMMA FlagOK ==
  ASSUME NEW key PROVE AttributesOK(Only(key, Flag(TRUE)))
<1>1. \A k \in DOMAIN Only(key, Flag(TRUE)) :
        k = key /\ Only(key, Flag(TRUE))[k] = Flag(TRUE)
  BY Zenon DEF Only
<1> QED BY <1>1, Zenon DEF AttributesOK, AttributeOK

LEMMA RetryableOK ==
  ASSUME NEW b \in BOOLEAN PROVE AttributesOK(Only("error.retryable", Flag(b)))
<1>1. \A k \in DOMAIN Only("error.retryable", Flag(b)) :
        k = "error.retryable" /\ Only("error.retryable", Flag(b))[k] = Flag(b)
  BY Zenon DEF Only
<1>2. CASE b = TRUE
  BY <1>1, <1>2, Zenon DEF AttributesOK, AttributeOK
<1>3. CASE b = FALSE
  BY <1>1, <1>3, Zenon DEF AttributesOK, AttributeOK
<1> QED BY <1>2, <1>3

LEMMA TextAttributeOK ==
  ASSUME NEW key, NEW value PROVE AttributesOK(TextAttribute(key, value))
BY TextOK, NoneOK DEF TextAttribute

LEMMA BaseOK == ASSUME NEW corr PROVE AttributesOK(BaseAttributes(corr))
BY DEF AttributesOK, AttributeOK, BaseAttributes, Text

(* What the helpers add is typed. *)
LEMMA ProviderOK ==
  ASSUME NEW corr, corr.provider # "", corr.model # ""
  PROVE  AttributesOK(ProviderAttributes(corr))
BY TextOK, OverOK DEF ProviderAttributes

LEMMA ToolOK ==
  ASSUME NEW callID, NEW kind, NEW status, kind # "", status # ""
  PROVE  AttributesOK(ToolAttributes(callID, kind, status))
<1>1. "tool_call" # ""
  OBVIOUS
<1> QED BY <1>1, TextOK, TextAttributeOK, OverOK DEF ToolAttributes

LEMMA FlagIfOK == ASSUME NEW condition, NEW key PROVE AttributesOK(FlagIf(condition, key))
BY FlagOK, NoneOK DEF FlagIf

LEMMA ErrorOK ==
  ASSUME NEW error, error.retryable \in BOOLEAN, NEW canceled
  PROVE  AttributesOK(ErrorAttributes(error, canceled))
<1>1. AttributesOK(Over(FlagIf(canceled, "error.canceled"),
                        FlagIf(error.dropped, "error.dropped")))
  BY FlagIfOK, OverOK
<1>2. AttributesOK(Only("error.retryable", Flag(error.retryable)))
  BY RetryableOK
<1> QED BY <1>1, <1>2, TextAttributeOK, OverOK DEF ErrorAttributes

LEMMA UsageOK ==
  ASSUME NEW usage \in Usages PROVE AttributesOK(UsageAttributes(usage))
BY ConstantsAssumption
   DEF AttributesOK, AttributeOK, GivenNumbers, UsageAttributes, Int64

-----------------------------------------------------------------------------
(* Correlation *)

LEMMA NoCorrelationOK == IsCorrelation(NoCorrelation)
BY ConstantsAssumption

LEMMA FieldsApart ==
  /\ \A f \in Propagated : f \in Fields /\ f \notin IDs
  /\ {"trace", "provider", "model"} \subseteq Fields \ IDs
  /\ {"id", "parent"} \subseteq Fields /\ "id" \in IDs /\ "parent" \in IDs
BY DEF Propagated, Fields, IDs

LEMMA MergeOK ==
  ASSUME NEW base, NEW explicit, IsCorrelation(base), IsCorrelation(explicit)
  PROVE  IsCorrelation(MergeCorrelation(base, explicit))
BY DEF IsCorrelation, MergeCorrelation

LEMMA ParentOK ==
  ASSUME NEW corr, IsCorrelation(corr), NEW parent \in Seq(STRING)
  PROVE  IsCorrelation([corr EXCEPT !.parent = parent])
BY FieldsApart DEF IsCorrelation

LEMMA NamingOK ==
  ASSUME NEW known, IsCorrelation(known), NEW toolCallID \in STRING
  PROVE  /\ CallID(known, toolCallID) \in STRING
         /\ IsCorrelation(NamingTool(known, toolCallID))
         /\ NamingTool(known, toolCallID)["correlation.tool_call_id"]
              = CallID(known, toolCallID)
<1>1. "correlation.tool_call_id" \in Fields \ IDs
  BY DEF Fields, Propagated, IDs
<1>2. known["correlation.tool_call_id"] \in STRING
  BY <1>1 DEF IsCorrelation
<1>3. CallID(known, toolCallID) \in STRING
  BY <1>2 DEF CallID, FirstNonEmpty
<1> QED BY <1>1, <1>3 DEF IsCorrelation, NamingTool

LEMMA AGUIOK ==
  ASSUME NEW c, IsCorrelation(contexts[c]), NEW given, IsCorrelation(given),
         NEW thread \in STRING, NEW run \in STRING
  PROVE  IsCorrelation(AGUICorrelation(c, given, thread, run))
<1> DEFINE corr == FromContext(c, given)
           Given(key, value) == Only(key, FirstNonEmpty(value, corr[key]))
           Runs == Over(Given("correlation.agui_run_id", run), corr)
<1>1. IsCorrelation(corr)
  BY MergeOK DEF FromContext
<1> HIDE DEF corr
<1>2. {"correlation.thread_id", "correlation.agui_run_id"} \subseteq Fields \ IDs
  BY DEF Fields, Propagated, IDs
<1>3. ASSUME NEW key \in Fields \ IDs, NEW value \in STRING, NEW other,
             IsCorrelation(other)
      PROVE  IsCorrelation(Over(Given(key, value), other))
  <2>1. FirstNonEmpty(value, corr[key]) \in STRING
    BY <1>1 DEF IsCorrelation, FirstNonEmpty
  <2> QED BY <1>3, <2>1 DEF IsCorrelation, Over, Only
<1>4. IsCorrelation(Runs)
  BY <1>1, <1>2, <1>3
<1>5. IsCorrelation(Over(Given("correlation.thread_id", thread), Runs))
  BY <1>2, <1>3, <1>4
<1> QED BY <1>5 DEF AGUICorrelation, corr

-----------------------------------------------------------------------------
(* Which keys attributes have, and the part of them under some keys *)

IsMap(f) == f = [key \in DOMAIN f |-> f[key]]

LEMMA OverIsMap == ASSUME NEW f, NEW g PROVE IsMap(Over(f, g))
BY DEF IsMap, Over

LEMMA OverKeys ==
  ASSUME NEW f, NEW g, NEW keys, DOMAIN f \subseteq keys, DOMAIN g \subseteq keys
  PROVE  DOMAIN Over(f, g) \subseteq keys
BY AtOver

LEMMA PartOver ==
  ASSUME NEW f, NEW g, NEW keys, DOMAIN f \cap keys = {}
  PROVE  Part(Over(f, g), keys) = Part(g, keys)
<1>1. \A key \in keys : key \notin DOMAIN f
  OBVIOUS
<1>2. \A key \in keys : /\ key \in DOMAIN Over(f, g) <=> key \in DOMAIN g
                        /\ key \in DOMAIN g => Over(f, g)[key] = g[key]
  BY <1>1, AtOver
<1>3. DOMAIN Over(f, g) \cap keys = DOMAIN g \cap keys
  BY <1>2
<1> QED BY <1>2, <1>3 DEF Part

LEMMA PartUnder ==
  ASSUME NEW f, NEW g, NEW keys, DOMAIN g \cap keys = {}
  PROVE  Part(Over(f, g), keys) = Part(f, keys)
<1>1. \A key \in keys : key \notin DOMAIN g
  OBVIOUS
<1>2. \A key \in keys : /\ key \in DOMAIN Over(f, g) <=> key \in DOMAIN f
                        /\ key \in DOMAIN f => Over(f, g)[key] = f[key]
  BY <1>1, AtOver
<1>3. DOMAIN Over(f, g) \cap keys = DOMAIN f \cap keys
  BY <1>2
<1> QED BY <1>2, <1>3 DEF Part

LEMMA PartAll ==
  ASSUME NEW f, IsMap(f), NEW keys, DOMAIN f \subseteq keys
  PROVE  Part(f, keys) = f
<1>1. DOMAIN f \cap keys = DOMAIN f
  OBVIOUS
<1> QED BY <1>1 DEF Part, IsMap

LEMMA PartNone ==
  ASSUME NEW f, NEW keys PROVE DOMAIN Part(f, keys) = DOMAIN f \cap keys
BY DEF Part

LEMMA TextKeys ==
  ASSUME NEW key, NEW value
  PROVE  /\ DOMAIN TextAttribute(key, value) \subseteq {key}
         /\ value # "" => /\ key \in DOMAIN TextAttribute(key, value)
                          /\ TextAttribute(key, value)[key] = Text(value)
BY AtOnly, NoneEmpty DEF TextAttribute

LEMMA BaseKeys ==
  ASSUME NEW corr
  PROVE  /\ DOMAIN BaseAttributes(corr) \subseteq Propagated
         /\ Part(BaseAttributes(corr), Propagated) = BaseAttributes(corr)
         /\ \A key : key \in DOMAIN BaseAttributes(corr) <=>
                       key \in Propagated /\ corr[key] # ""
         /\ \A key \in DOMAIN BaseAttributes(corr) :
              BaseAttributes(corr)[key] = Text(corr[key])
<1>1. DOMAIN BaseAttributes(corr) \subseteq Propagated
  BY DEF BaseAttributes
<1>2. IsMap(BaseAttributes(corr))
  BY DEF BaseAttributes, IsMap
<1> QED BY <1>1, <1>2, PartAll DEF BaseAttributes

LEMMA FlagIfKeys ==
  ASSUME NEW condition, NEW key
  PROVE  /\ DOMAIN FlagIf(condition, key) \subseteq {key}
         /\ key \in DOMAIN FlagIf(condition, key) <=> condition
         /\ condition => FlagIf(condition, key)[key] = Flag(TRUE)
<1>1. CASE condition
  BY <1>1, AtOnly DEF FlagIf
<1>2. CASE ~condition
  BY <1>2, NoneEmpty DEF FlagIf
<1> QED BY <1>1, <1>2

LEMMA ErrorKeysOnly ==
  ASSUME NEW error, NEW canceled
  PROVE  DOMAIN ErrorAttributes(error, canceled) \subseteq ErrorKeys
<1>2. DOMAIN Over(FlagIf(canceled, "error.canceled"),
                  FlagIf(error.dropped, "error.dropped")) \subseteq ErrorKeys
  <2>1. /\ DOMAIN FlagIf(canceled, "error.canceled") \subseteq ErrorKeys
        /\ DOMAIN FlagIf(error.dropped, "error.dropped") \subseteq ErrorKeys
    BY FlagIfKeys DEF ErrorKeys
  <2> QED BY <2>1, OverKeys
<1>3. DOMAIN Only("error.retryable", Flag(error.retryable)) \subseteq ErrorKeys
  <2>1. DOMAIN Only("error.retryable", Flag(error.retryable)) = {"error.retryable"}
    BY AtOnly, Zenon
  <2>2. "error.retryable" \in ErrorKeys
    BY DEF ErrorKeys
  <2> QED BY <2>1, <2>2, Zenon
<1>4. /\ DOMAIN TextAttribute("error.operation", error.operation) \subseteq ErrorKeys
      /\ DOMAIN TextAttribute("error.classification", error.classification)
           \subseteq ErrorKeys
  BY TextKeys DEF ErrorKeys
<1> QED BY <1>2, <1>3, <1>4, OverKeys DEF ErrorAttributes

(* "all" says what g says, and "value" under "key". *)
Adds(all, key, value, g) ==
  /\ \A k : k \in DOMAIN all <=> k = key \/ k \in DOMAIN g
  /\ all[key] = value
  /\ \A k \in DOMAIN g : k # key => all[k] = g[k]

LEMMA OverOnly ==
  ASSUME NEW key, NEW value, NEW g
  PROVE  Adds(Over(Only(key, value), g), key, value, g)
<1> DEFINE only == Only(key, value)
<1>1. DOMAIN only = {key} /\ only[key] = value
  BY AtOnly
<1> HIDE DEF only
<1>2. Adds(Over(only, g), key, value, g)
  BY <1>1, AtOver DEF Adds
<1> QED BY <1>2 DEF only

LEMMA OverText ==
  ASSUME NEW key, NEW value, value # "", NEW g
  PROVE  Adds(Over(TextAttribute(key, value), g), key, Text(value), g)
BY OverOnly DEF TextAttribute

(* What the attributes of an error say. *)
LEMMA ErrorSaid ==
  ASSUME NEW error, NEW canceled, error.operation # "", error.classification # ""
  PROVE  LET attrs == ErrorAttributes(error, canceled) IN
         /\ {"error.operation", "error.classification", "error.retryable"}
              \subseteq DOMAIN attrs
         /\ "error.canceled" \in DOMAIN attrs <=> canceled
         /\ "error.dropped" \in DOMAIN attrs <=> error.dropped
         /\ attrs["error.operation"] = Text(error.operation)
         /\ attrs["error.classification"] = Text(error.classification)
         /\ attrs["error.retryable"] = Flag(error.retryable)
         /\ canceled => attrs["error.canceled"] = Flag(TRUE)
         /\ error.dropped => attrs["error.dropped"] = Flag(TRUE)
<1> DEFINE flags == Over(FlagIf(canceled, "error.canceled"),
                         FlagIf(error.dropped, "error.dropped"))
           retryable == Over(Only("error.retryable", Flag(error.retryable)), flags)
           class == Over(TextAttribute("error.classification", error.classification),
                         retryable)
           all == Over(TextAttribute("error.operation", error.operation), class)
<1>1. /\ DOMAIN flags \subseteq {"error.canceled", "error.dropped"}
      /\ "error.canceled" \in DOMAIN flags <=> canceled
      /\ "error.dropped" \in DOMAIN flags <=> error.dropped
      /\ canceled => flags["error.canceled"] = Flag(TRUE)
      /\ error.dropped => flags["error.dropped"] = Flag(TRUE)
  <2> DEFINE one   == FlagIf(canceled, "error.canceled")
             other == FlagIf(error.dropped, "error.dropped")
  <2>1. /\ DOMAIN one \subseteq {"error.canceled"}
        /\ "error.canceled" \in DOMAIN one <=> canceled
        /\ canceled => one["error.canceled"] = Flag(TRUE)
    BY FlagIfKeys
  <2>2. /\ DOMAIN other \subseteq {"error.dropped"}
        /\ "error.dropped" \in DOMAIN other <=> error.dropped
        /\ error.dropped => other["error.dropped"] = Flag(TRUE)
    BY FlagIfKeys
  <2> HIDE DEF one, other
  <2>3. /\ DOMAIN Over(one, other) \subseteq {"error.canceled", "error.dropped"}
        /\ "error.canceled" \in DOMAIN Over(one, other) <=> canceled
        /\ "error.dropped" \in DOMAIN Over(one, other) <=> error.dropped
        /\ canceled => Over(one, other)["error.canceled"] = Flag(TRUE)
        /\ error.dropped => Over(one, other)["error.dropped"] = Flag(TRUE)
    BY <2>1, <2>2, AtOver
  <2> QED BY <2>3 DEF one, other
<1> HIDE DEF flags
<1>2. Adds(retryable, "error.retryable", Flag(error.retryable), flags)
  BY OverOnly
<1> HIDE DEF retryable
<1>3. Adds(class, "error.classification", Text(error.classification), retryable)
  BY OverText
<1> HIDE DEF class
<1>4. Adds(all, "error.operation", Text(error.operation), class)
  BY OverText
<1>5. all = ErrorAttributes(error, canceled)
  BY DEF all, class, retryable, flags, ErrorAttributes
<1> HIDE DEF all
<1> QED BY <1>1, <1>2, <1>3, <1>4, <1>5 DEF Adds

-----------------------------------------------------------------------------
(* Errors *)

LEMMA AtPart ==
  ASSUME NEW f, NEW keys
  PROVE  /\ \A key : key \in DOMAIN Part(f, keys) <=> key \in DOMAIN f /\ key \in keys
         /\ \A key \in DOMAIN f : key \in keys => Part(f, keys)[key] = f[key]
BY DEF Part

(* An error that a helper made: it names its operation and its class, and what
   is canceled is not retryable. *)
SoundError(error, canceled) ==
  /\ error.operation # "" /\ error.classification # ""
  /\ error.retryable \in BOOLEAN /\ error.dropped \in BOOLEAN
  /\ canceled => ~error.retryable

LEMMA SoundErrorOK ==
  ASSUME NEW error, NEW sound, SoundError(error, sound), NEW canceled
  PROVE  AttributesOK(ErrorAttributes(error, canceled))
<1>1. error.retryable \in BOOLEAN
  BY DEF SoundError
<1> QED BY <1>1, ErrorOK

LEMMA SoundIsError ==
  ASSUME NEW error, NEW canceled, SoundError(error, canceled)
  PROVE  error # NoError
<1>1. NoError.operation = ""
  BY DEF NoError
<1>2. error.operation # ""
  BY Zenon DEF SoundError
<1> QED BY <1>1, <1>2

(* The error of the model that o becomes, canceled if its attributes say so. *)
IsModelError(m, error, canceled) ==
  /\ m # NoError
  /\ m.operation = error.operation /\ m.classification = error.classification
  /\ m.retryable = error.retryable /\ m.dropped = error.dropped
  /\ canceled => m.canceled = {TRUE}
  /\ ~canceled => m.canceled = {}

LEMMA FlagValue == {Flag(TRUE)[2]} = {TRUE}
BY DEF Flag

LEMMA ModelError ==
  ASSUME NEW o, NEW canceled \in BOOLEAN, SoundError(o.error, canceled),
         \/ Part(o.attrs, ErrorKeys) = ErrorAttributes(o.error, canceled)
         \/ ~canceled /\ DOMAIN Part(o.attrs, ErrorKeys) = {}
  PROVE  IsModelError(ToModelError(o), o.error, canceled)
<1> DEFINE flags == IF "error.canceled" \in DOMAIN o.attrs
                    THEN {o.attrs["error.canceled"][2]} ELSE {}
<1>1. "error.canceled" \in ErrorKeys
  BY DEF ErrorKeys
<1>2. /\ "error.canceled" \in DOMAIN o.attrs <=> canceled
      /\ canceled => o.attrs["error.canceled"] = Flag(TRUE)
  <2>1. CASE Part(o.attrs, ErrorKeys) = ErrorAttributes(o.error, canceled)
    <3> DEFINE said == ErrorAttributes(o.error, canceled)
    <3>1. o.error.operation # "" /\ o.error.classification # ""
      BY Zenon DEF SoundError
    <3>2. /\ "error.canceled" \in DOMAIN said <=> canceled
          /\ canceled => said["error.canceled"] = Flag(TRUE)
      BY <3>1, ErrorSaid
    <3> HIDE DEF said
    <3>3. /\ "error.canceled" \in DOMAIN o.attrs
                <=> "error.canceled" \in DOMAIN Part(o.attrs, ErrorKeys)
          /\ "error.canceled" \in DOMAIN o.attrs
                => Part(o.attrs, ErrorKeys)["error.canceled"] = o.attrs["error.canceled"]
      BY <1>1, AtPart
    <3>4. Part(o.attrs, ErrorKeys) = said
      BY <2>1 DEF said
    <3> QED BY <3>2, <3>3, <3>4
  <2>2. CASE ~canceled /\ DOMAIN Part(o.attrs, ErrorKeys) = {}
    BY <1>1, <2>2, AtPart
  <2> QED BY <2>1, <2>2
<1>3. (canceled => flags = {TRUE}) /\ (~canceled => flags = {})
  BY <1>2, FlagValue
<1> HIDE DEF flags
<1>4. o.error # NoError
  BY SoundIsError
<1> DEFINE m == ToModelError(o)
<1>5. m = [operation |-> o.error.operation, classification |-> o.error.classification,
           retryable |-> o.error.retryable, dropped |-> o.error.dropped,
           canceled |-> flags]
  BY <1>4, Zenon DEF ToModelError, flags
<1> HIDE DEF m
<1>6. /\ m.operation = o.error.operation /\ m.classification = o.error.classification
      /\ m.retryable = o.error.retryable /\ m.dropped = o.error.dropped
      /\ m.canceled = flags
  BY <1>5
<1>7. m # NoError
  <2>1. NoError.operation = ""
    BY DEF NoError
  <2>2. o.error.operation # ""
    BY Zenon DEF SoundError
  <2> QED BY <1>6, <2>1, <2>2
<1>8. IsModelError(m, o.error, canceled)
  BY <1>3, <1>6, <1>7, Zenon DEF IsModelError
<1> QED BY <1>8 DEF m

LEMMA ErrorMetaSaid ==
  ASSUME NEW m, NEW error, NEW canceled \in BOOLEAN, IsModelError(m, error, canceled)
  PROVE  LET meta == ErrorMeta(m) IN
         /\ DOMAIN meta \subseteq ErrorKeys
         /\ meta["error.operation"] = Text(error.operation)
         /\ meta["error.classification"] = Text(error.classification)
         /\ meta["error.retryable"] = Flag(error.retryable)
         /\ meta["error.dropped"] = Flag(error.dropped)
         /\ "error.canceled" \in DOMAIN meta => canceled
         /\ "error.canceled" \in DOMAIN meta => meta["error.canceled"] = Flag(TRUE)
<1> DEFINE flag == IF m.canceled = {} THEN NoAttributes
                   ELSE Only("error.canceled", Flag(TRUE \in m.canceled))
           dropped == Over(Only("error.dropped", Flag(m.dropped)), flag)
           retryable == Over(Only("error.retryable", Flag(m.retryable)), dropped)
           class == Over(Only("error.classification", Text(m.classification)), retryable)
           all == Over(Only("error.operation", Text(m.operation)), class)
<1>1. /\ m # NoError
      /\ m.operation = error.operation /\ m.classification = error.classification
      /\ m.retryable = error.retryable /\ m.dropped = error.dropped
      /\ canceled => m.canceled = {TRUE}
      /\ ~canceled => m.canceled = {}
  BY Zenon DEF IsModelError
<1>2. /\ \A k \in DOMAIN flag : k = "error.canceled" /\ canceled
      /\ "error.canceled" \in DOMAIN flag => flag["error.canceled"] = Flag(TRUE)
  <2>1. CASE canceled
    <3>1. Flag(TRUE \in m.canceled) = Flag(TRUE)
      BY <1>1, <2>1, Zenon DEF Flag
    <3>2. m.canceled # {}
      BY <1>1, <2>1, Zenon
    <3>3. flag = Only("error.canceled", Flag(TRUE))
      BY <3>1, <3>2, Zenon
    <3> HIDE DEF flag
    <3> QED BY <2>1, <3>3, AtOnly
  <2>2. CASE ~canceled
    BY <1>1, <2>2, NoneEmpty
  <2> QED BY <2>1, <2>2
<1> HIDE DEF flag
<1>3. Adds(dropped, "error.dropped", Flag(m.dropped), flag)
  BY OverOnly
<1> HIDE DEF dropped
<1>4. Adds(retryable, "error.retryable", Flag(m.retryable), dropped)
  BY OverOnly
<1> HIDE DEF retryable
<1>5. Adds(class, "error.classification", Text(m.classification), retryable)
  BY OverOnly
<1> HIDE DEF class
<1>6. Adds(all, "error.operation", Text(m.operation), class)
  BY OverOnly
<1>7. all = ErrorMeta(m)
  BY <1>1, Zenon DEF all, class, retryable, dropped, flag, ErrorMeta
<1> HIDE DEF all
<1>8. DOMAIN all \subseteq ErrorKeys
  BY <1>2, <1>3, <1>4, <1>5, <1>6 DEF Adds, ErrorKeys
<1>9. /\ dropped["error.dropped"] = Flag(m.dropped)
      /\ "error.dropped" \in DOMAIN dropped
      /\ retryable["error.retryable"] = Flag(m.retryable)
      /\ "error.retryable" \in DOMAIN retryable
      /\ class["error.classification"] = Text(m.classification)
      /\ "error.classification" \in DOMAIN class
      /\ all["error.operation"] = Text(m.operation)
  BY <1>3, <1>4, <1>5, <1>6 DEF Adds
<1>10. /\ all["error.classification"] = Text(m.classification)
       /\ all["error.retryable"] = Flag(m.retryable)
       /\ all["error.dropped"] = Flag(m.dropped)
  BY <1>4, <1>5, <1>6, <1>9 DEF Adds
<1>11. "error.canceled" \in DOMAIN all =>
         /\ "error.canceled" \in DOMAIN flag
         /\ all["error.canceled"] = flag["error.canceled"]
  BY <1>3, <1>4, <1>5, <1>6 DEF Adds
<1> HIDE DEF flag
<1> QED BY <1>1, <1>2, <1>7, <1>8, <1>9, <1>10, <1>11, Zenon

(* Where the attributes of o and the metadata of its error have the same key
   they have the same value. *)
LEMMA ErrorMetaKeeps ==
  ASSUME NEW o, NEW canceled \in BOOLEAN, SoundError(o.error, canceled),
         \/ Part(o.attrs, ErrorKeys) = ErrorAttributes(o.error, canceled)
         \/ ~canceled /\ DOMAIN Part(o.attrs, ErrorKeys) = {}
  PROVE  \A key \in DOMAIN o.attrs :
           key \in DOMAIN ErrorMeta(ToModelError(o)) =>
             ErrorMeta(ToModelError(o))[key] = o.attrs[key]
<1> DEFINE meta == ErrorMeta(ToModelError(o))
           said == ErrorAttributes(o.error, canceled)
           part == Part(o.attrs, ErrorKeys)
<1>1. /\ DOMAIN meta \subseteq ErrorKeys
      /\ meta["error.operation"] = Text(o.error.operation)
      /\ meta["error.classification"] = Text(o.error.classification)
      /\ meta["error.retryable"] = Flag(o.error.retryable)
      /\ meta["error.dropped"] = Flag(o.error.dropped)
      /\ "error.canceled" \in DOMAIN meta => canceled
      /\ "error.canceled" \in DOMAIN meta => meta["error.canceled"] = Flag(TRUE)
  BY ModelError, ErrorMetaSaid
<1> HIDE DEF meta
<1>2. \A key \in DOMAIN o.attrs : key \in ErrorKeys =>
        key \in DOMAIN part /\ part[key] = o.attrs[key]
  BY AtPart
<1>3. CASE part = said
  <2>1. o.error.operation # "" /\ o.error.classification # ""
    BY Zenon DEF SoundError
  <2>2. /\ "error.canceled" \in DOMAIN said <=> canceled
        /\ "error.dropped" \in DOMAIN said <=> o.error.dropped
        /\ said["error.operation"] = Text(o.error.operation)
        /\ said["error.classification"] = Text(o.error.classification)
        /\ said["error.retryable"] = Flag(o.error.retryable)
        /\ canceled => said["error.canceled"] = Flag(TRUE)
        /\ o.error.dropped => said["error.dropped"] = Flag(TRUE)
    BY <2>1, ErrorSaid
  <2>3. DOMAIN said \subseteq ErrorKeys
    BY ErrorKeysOnly
  <2> HIDE DEF said, part
  <2>4. "error.dropped" \in DOMAIN said => meta["error.dropped"] = said["error.dropped"]
    <3>1. o.error.dropped \in BOOLEAN
      BY Zenon DEF SoundError
    <3>2. o.error.dropped => Flag(o.error.dropped) = Flag(TRUE)
      BY <3>1, Zenon
    <3> QED BY <1>1, <2>2, <3>2, Zenon
  <2>5. \A key \in DOMAIN said : key \in DOMAIN meta => meta[key] = said[key]
    BY <1>1, <2>2, <2>3, <2>4 DEF ErrorKeys
  <2>6. \A key \in DOMAIN o.attrs : key \in DOMAIN meta => meta[key] = o.attrs[key]
    BY <1>1, <1>2, <1>3, <2>5
  <2> QED BY <2>6 DEF meta
<1>4. CASE ~canceled /\ DOMAIN part = {}
  <2> HIDE DEF part
  <2>1. \A key \in DOMAIN o.attrs : key \in DOMAIN meta => meta[key] = o.attrs[key]
    BY <1>1, <1>2, <1>4
  <2> QED BY <2>1 DEF meta
<1> QED BY <1>3, <1>4

-----------------------------------------------------------------------------
(* What every observation says of its error *)

ErrorStated(o, canceled) ==
  \/ /\ o.error = NoError
     /\ DOMAIN Part(o.attrs, ErrorKeys) # {} =>
          /\ o.kind = "retry"
          /\ DOMAIN Part(o.attrs, ErrorKeys) = {"error.classification"}
  \/ /\ SoundError(o.error, canceled)
     /\ Part(o.attrs, ErrorKeys) = ErrorAttributes(o.error, canceled)
  \/ /\ SoundError(o.error, canceled)
     /\ o.kind \in {"session", "run"}
     /\ DOMAIN Part(o.attrs, ErrorKeys) = {}

LEMMA StatedAgrees ==
  ASSUME NEW o, ErrorStated(o, o.status = "canceled")
  PROVE  Agrees(o)
<1> DEFINE canceled == o.status = "canceled"
<1>1. ErrorStated(o, canceled)
  OBVIOUS
<1>2. Agrees(o) <=>
        IF o.error = NoError
        THEN DOMAIN Part(o.attrs, ErrorKeys) # {} =>
               /\ o.kind = "retry"
               /\ DOMAIN Part(o.attrs, ErrorKeys) = {"error.classification"}
        ELSE \/ o.kind \in {"session", "run"} /\ DOMAIN Part(o.attrs, ErrorKeys) = {}
             \/ Part(o.attrs, ErrorKeys) = ErrorAttributes(o.error, canceled)
  BY Zenon DEF Agrees
<1> HIDE DEF canceled
<1>3. SoundError(o.error, canceled) => o.error # NoError
  BY SoundIsError
<1> QED BY <1>1, <1>2, <1>3, Zenon DEF ErrorStated

LEMMA OnlyErrorKey ==
  ASSUME NEW key \in ErrorKeys, NEW value
  PROVE  DOMAIN Only(key, value) \subseteq ErrorKeys
BY DEF Only

LEMMA ErrorMetaKeys ==
  ASSUME NEW m PROVE DOMAIN ErrorMeta(m) \subseteq ErrorKeys
<1> DEFINE flag == IF m.canceled = {} THEN NoAttributes
                   ELSE Only("error.canceled", Flag(TRUE \in m.canceled))
<1>e. {"error.operation", "error.classification", "error.retryable",
       "error.canceled", "error.dropped"} \subseteq ErrorKeys
  BY DEF ErrorKeys
<1>1. DOMAIN flag \subseteq ErrorKeys
  <2>1. DOMAIN NoAttributes \subseteq ErrorKeys
    BY NoneEmpty
  <2>2. DOMAIN Only("error.canceled", Flag(TRUE \in m.canceled)) \subseteq ErrorKeys
    <3> DEFINE value == Flag(TRUE \in m.canceled)
    <3> HIDE DEF value
    <3>1. DOMAIN Only("error.canceled", value) \subseteq ErrorKeys
      BY <1>e, OnlyErrorKey
    <3> QED BY <3>1 DEF value
  <2> QED BY <2>1, <2>2, Zenon
<1> HIDE DEF flag
<1>2. /\ DOMAIN Only("error.operation", Text(m.operation)) \subseteq ErrorKeys
      /\ DOMAIN Only("error.classification", Text(m.classification)) \subseteq ErrorKeys
      /\ DOMAIN Only("error.retryable", Flag(m.retryable)) \subseteq ErrorKeys
      /\ DOMAIN Only("error.dropped", Flag(m.dropped)) \subseteq ErrorKeys
  BY <1>e, OnlyErrorKey
<1>3. m # NoError =>
        ErrorMeta(m) = Over(Only("error.operation", Text(m.operation)),
                       Over(Only("error.classification", Text(m.classification)),
                       Over(Only("error.retryable", Flag(m.retryable)),
                       Over(Only("error.dropped", Flag(m.dropped)), flag))))
  BY Zenon DEF ErrorMeta, flag
<1>4. m = NoError => DOMAIN ErrorMeta(m) = {}
  BY NoneEmpty DEF ErrorMeta
<1> QED BY <1>1, <1>2, <1>3, <1>4, OverKeys

LEMMA NoErrorMeta ==
  ASSUME NEW o, o.error = NoError
  PROVE  ToModelError(o) = NoError /\ DOMAIN ErrorMeta(ToModelError(o)) = {}
BY NoneEmpty DEF ToModelError, ErrorMeta

(* The attributes of o keep their values under the metadata of its error. *)
LEMMA MetaKeeps ==
  ASSUME NEW o, NEW canceled \in BOOLEAN, ErrorStated(o, canceled),
         NEW others, NEW key \in DOMAIN o.attrs, NEW attrs,
         key \in DOMAIN attrs, attrs[key] = o.attrs[key]
  PROVE  /\ key \in DOMAIN Over(ErrorMeta(ToModelError(o)), Over(attrs, others))
         /\ Over(ErrorMeta(ToModelError(o)), Over(attrs, others))[key] = o.attrs[key]
<1> DEFINE meta == ErrorMeta(ToModelError(o))
<1>1. key \in DOMAIN meta => meta[key] = o.attrs[key]
  <2>1. CASE o.error = NoError
    BY <2>1, NoErrorMeta
  <2>2. CASE /\ SoundError(o.error, canceled)
             /\ Part(o.attrs, ErrorKeys) = ErrorAttributes(o.error, canceled)
    BY <2>2, ErrorMetaKeeps
  <2>3. CASE /\ SoundError(o.error, canceled)
             /\ DOMAIN Part(o.attrs, ErrorKeys) = {}
    <3>1. DOMAIN meta \subseteq ErrorKeys
      BY ErrorMetaKeys
    <3>2. key \notin ErrorKeys
      BY <2>3, AtPart
    <3> QED BY <3>1, <3>2
  <2> QED BY <2>1, <2>2, <2>3 DEF ErrorStated
<1> HIDE DEF meta
<1>2. key \in DOMAIN Over(attrs, others) /\ Over(attrs, others)[key] = o.attrs[key]
  BY AtOver
<1>3. key \in DOMAIN Over(meta, Over(attrs, others))
      /\ Over(meta, Over(attrs, others))[key] = o.attrs[key]
  BY <1>1, <1>2, AtOver
<1> QED BY <1>3 DEF meta

-----------------------------------------------------------------------------
(* Events *)

LEMMA MetricKeys ==
  /\ DOMAIN MetricOf = {"genai.usage.input_tokens", "genai.usage.output_tokens",
                        "genai.usage.total_tokens"}
  /\ MetricOf["genai.usage.input_tokens"] = "input_tokens"
  /\ MetricOf["genai.usage.output_tokens"] = "output_tokens"
  /\ MetricOf["genai.usage.total_tokens"] = "total_tokens"
<1> DEFINE total  == Only("genai.usage.total_tokens", "total_tokens")
           output == Over(Only("genai.usage.output_tokens", "output_tokens"), total)
           all    == Over(Only("genai.usage.input_tokens", "input_tokens"), output)
<1>1. DOMAIN total = {"genai.usage.total_tokens"}
      /\ total["genai.usage.total_tokens"] = "total_tokens"
  BY AtOnly
<1> HIDE DEF total
<1>2. Adds(output, "genai.usage.output_tokens", "output_tokens", total)
  BY OverOnly
<1> HIDE DEF output
<1>3. Adds(all, "genai.usage.input_tokens", "input_tokens", output)
  BY OverOnly
<1>4. all = MetricOf
  BY DEF all, output, total, MetricOf
<1> HIDE DEF all
<1> QED BY <1>1, <1>2, <1>3, <1>4 DEF Adds

LEMMA KeysApart ==
  /\ \A key \in Propagated : key \notin ErrorKeys /\ key \notin DOMAIN MetricOf
  /\ \A key \in ErrorKeys : key \notin DOMAIN MetricOf
BY MetricKeys DEF Propagated, ErrorKeys

(* What a helper adds to the correlation of an event. *)
EventSound(name, status, at, attrs, error) ==
  /\ name \in EventNames /\ status \in Statuses /\ at \in Nat \ {0}
  /\ AttributesOK(attrs)
  /\ \A key \in DOMAIN attrs : key \notin Propagated /\ key \notin DOMAIN MetricOf
  /\ ErrorStated([kind |-> name, attrs |-> attrs, error |-> error],
                 status = "canceled")

(* What is known of the event that it makes of them. *)
EventFits(o, corr, attrs) ==
  /\ HasType(o) /\ Agrees(o) /\ ErrorStated(o, o.status = "canceled")
  /\ o.start # 0 /\ o.end = 0 /\ o.events = <<>>
  /\ o.kind \in EventNames
  /\ CorrelationOf(o) = BaseAttributes(corr)
  /\ \A key \in DOMAIN o.attrs : key \notin DOMAIN MetricOf
  /\ \A key \in DOMAIN attrs : key \in DOMAIN o.attrs /\ o.attrs[key] = attrs[key]
  /\ \A key \in DOMAIN o.attrs :
       EventMeta(ToEvent(o))[key] = o.attrs[key]

LEMMA EventMade ==
  ASSUME NEW corr, NEW name, NEW status, NEW at, NEW attrs, NEW error,
         EventSound(name, status, at, attrs, error)
  PROVE  EventFits(EventObservation(corr, name, status, at,
                                    Over(attrs, BaseAttributes(corr)), error),
                   corr, attrs)
<1> DEFINE canceled == status = "canceled"
           base == BaseAttributes(corr)
           all == Over(attrs, base)
           o == EventObservation(corr, name, status, at, all, error)
<1>1. /\ o.kind = name /\ o.status = status /\ o.start = at /\ o.end = 0
      /\ o.attrs = all /\ o.events = <<>> /\ o.error = error
  BY DEF EventObservation, Observation
<1>2. /\ name \in EventNames /\ status \in Statuses /\ at \in Nat /\ at # 0
      /\ AttributesOK(attrs)
      /\ \A key \in DOMAIN attrs : key \notin Propagated /\ key \notin DOMAIN MetricOf
  BY DEF EventSound
<1>3. ErrorStated([kind |-> name, attrs |-> attrs, error |-> error], canceled)
  BY Zenon DEF EventSound
<1>4. canceled \in BOOLEAN
  OBVIOUS
<1>5. (o.status = "canceled") = canceled
  BY <1>1, Zenon
<1> HIDE DEF canceled, o
<1>6. AttributesOK(all) /\ Part(all, Propagated) = base
  <2>1. AttributesOK(base) /\ Part(base, Propagated) = base
    BY BaseOK, BaseKeys
  <2>2. DOMAIN attrs \cap Propagated = {}
    BY <1>2
  <2> QED BY <1>2, <2>1, <2>2, OverOK, PartOver
<1>7. Part(all, ErrorKeys) = Part(attrs, ErrorKeys)
  <2>1. DOMAIN base \cap ErrorKeys = {}
    BY BaseKeys, KeysApart
  <2> QED BY <2>1, PartUnder
<1>8. ErrorStated(o, canceled)
  <2> DEFINE given == [kind |-> name, attrs |-> attrs, error |-> error]
  <2>1. given.kind = o.kind /\ given.error = o.error /\ given.attrs = attrs
    BY <1>1
  <2> HIDE DEF given, all
  <2>2. ErrorStated(given, canceled)
    BY <1>3 DEF given
  <2>3. Part(o.attrs, ErrorKeys) = Part(given.attrs, ErrorKeys)
    BY <1>1, <1>7, <2>1
  <2> QED BY <2>1, <2>2, <2>3, Zenon DEF ErrorStated
<1>9. \A key \in DOMAIN all : key \notin DOMAIN MetricOf
  <2>1. \A key \in DOMAIN all : key \in DOMAIN attrs \/ key \in DOMAIN base
    BY AtOver
  <2>2. \A key \in DOMAIN base : key \in Propagated
    BY BaseKeys
  <2> HIDE DEF all, base
  <2> QED BY <1>2, <2>1, <2>2, KeysApart
<1>10. HasType(o)
  <2> HIDE DEF all
  <2> QED BY <1>1, <1>2, <1>6 DEF HasType
<1>11. Agrees(o) /\ ErrorStated(o, o.status = "canceled")
  BY <1>5, <1>8, StatedAgrees, Zenon
<1>12. \A key \in DOMAIN o.attrs : EventMeta(ToEvent(o))[key] = o.attrs[key]
  <2> DEFINE others == Over(Only("obs.name", Text(name)),
                       Over(Only("obs.kind", Text(CategoryOf[name])),
                            Only("obs.status", Text(status))))
  <2>1. EventMeta(ToEvent(o)) = Over(ErrorMeta(ToModelError(o)), Over(o.attrs, others))
    BY <1>1 DEF EventMeta, ToEvent
  <2> HIDE DEF others
  <2>2. \A key \in DOMAIN o.attrs :
          Over(ErrorMeta(ToModelError(o)), Over(o.attrs, others))[key] = o.attrs[key]
    BY <1>4, <1>8, MetaKeeps
  <2> QED BY <2>1, <2>2
<1>13. \A key \in DOMAIN attrs : key \in DOMAIN all /\ all[key] = attrs[key]
  BY AtOver
<1>14. CorrelationOf(o) = base
  BY <1>1, <1>6 DEF CorrelationOf
<1>15. EventFits(o, corr, attrs)
  <2> HIDE DEF all
  <2>1. \A key \in DOMAIN attrs : key \in DOMAIN o.attrs /\ o.attrs[key] = attrs[key]
    BY <1>1, <1>13
  <2>2. \A key \in DOMAIN o.attrs : key \notin DOMAIN MetricOf
    BY <1>1, <1>9
  <2>3. o.start # 0 /\ o.end = 0 /\ o.events = <<>> /\ o.kind \in EventNames
    BY <1>1, <1>2
  <2> QED BY <1>10, <1>11, <1>12, <1>14, <2>1, <2>2, <2>3, Zenon DEF EventFits
<1> QED BY <1>15 DEF o

-----------------------------------------------------------------------------
(* Validation of events *)

LEMMA NoComplaint ==
  ASSUME NEW condition, ~condition, NEW message
  PROVE  Complaint(condition, message) = {}
BY DEF Complaint

LEMMA ModelErrorComplaints ==
  ASSUME NEW m, NEW error, NEW canceled \in BOOLEAN,
         SoundError(error, canceled), IsModelError(m, error, canceled)
  PROVE  /\ ErrorComplaints(m) = {}
         /\ \A status : (status = "canceled" => canceled) =>
              CanceledFlagComplaints(status, m) = {}
<1>1. /\ m.operation # "" /\ m.classification # ""
      /\ m.canceled = {TRUE} => ~m.retryable
      /\ canceled => m.canceled = {TRUE} /\ ~m.retryable
  <2>1. /\ m.operation = error.operation /\ m.classification = error.classification
        /\ m.retryable = error.retryable
        /\ canceled => m.canceled = {TRUE}
        /\ ~canceled => m.canceled = {}
    BY Zenon DEF IsModelError
  <2>2. /\ error.operation # "" /\ error.classification # ""
        /\ canceled => ~error.retryable
    BY Zenon DEF SoundError
  <2>3. {TRUE} # {}
    BY Zenon
  <2> QED BY <2>1, <2>2, <2>3, Zenon
<1>2. ErrorComplaints(m) = {}
  <2>1. /\ Complaint(m.operation = "", "error operation") = {}
        /\ Complaint(m.classification = "", "error classification") = {}
        /\ Complaint(m.canceled = {TRUE} /\ m.retryable, "retryable canceled error") = {}
    BY <1>1, NoComplaint, Zenon
  <2>2. {} \cup {} \cup {} = {}
    OBVIOUS
  <2> QED BY <2>1, <2>2, Zenon DEF ErrorComplaints
<1>3. ASSUME NEW status, status = "canceled" => canceled
      PROVE  CanceledFlagComplaints(status, m) = {}
  <2>1. /\ Complaint(status = "canceled" /\ m.canceled # {TRUE}, "error.canceled") = {}
        /\ Complaint(status = "canceled" /\ m.retryable, "error.retryable") = {}
    BY <1>1, <1>3, NoComplaint, Zenon
  <2>2. {} \cup {} = {}
    OBVIOUS
  <2> QED BY <2>1, <2>2, Zenon DEF CanceledFlagComplaints
<1> QED BY <1>2, <1>3

(* How a tool ended: the status of a settled tool, or of a call that ended. *)
ToolEnded(toolStatus, status, error) ==
  \/ toolStatus = "succeeded" /\ status = "ok"
  \/ toolStatus = "failed" /\ status = "error" /\ error # NoError
  \/ toolStatus = "canceled" /\ status = "canceled" /\ error # NoError

OnlyWrongOperation(complaints, error) ==
  /\ complaints \subseteq {"tool error operation"}
  /\ error = NoError \/ error.operation = "tool_call" => complaints = {}

LEMMA SettledNoComplaint ==
  ASSUME NEW m, NEW error, NEW status, NEW toolStatus, NEW canceled \in BOOLEAN,
         canceled <=> status = "canceled",
         ToolEnded(toolStatus, status, error),
         \/ error = NoError
         \/ SoundError(error, canceled) /\ IsModelError(m, error, canceled)
  PROVE  OnlyWrongOperation(SettledComplaints(toolStatus, m), error)
<1>1. CASE toolStatus = "succeeded"
  BY <1>1 DEF SettledComplaints, OnlyWrongOperation
<1>2. ASSUME NEW c \in BOOLEAN, c <=> canceled, error # NoError
      PROVE  OnlyWrongOperation(ToolErrorComplaints(m, c), error)
  <2>1. SoundError(error, canceled) /\ IsModelError(m, error, canceled)
    BY <1>2
  <2>2. m # NoError /\ m.operation = error.operation
    BY <2>1, Zenon DEF IsModelError
  <2> DEFINE as == IF c THEN "canceled" ELSE "ok"
             operation == Complaint(m.operation # "tool_call", "tool error operation")
  <2>3. as = "canceled" => canceled
    BY <1>2
  <2> HIDE DEF as
  <2>4. ErrorComplaints(m) = {} /\ CanceledFlagComplaints(as, m) = {}
    BY <2>1, <2>3, ModelErrorComplaints
  <2>5. /\ operation \subseteq {"tool error operation"}
        /\ error.operation = "tool_call" => operation = {}
    BY <2>2 DEF Complaint
  <2>6. ToolErrorComplaints(m, c)
          = operation \cup ErrorComplaints(m) \cup CanceledFlagComplaints(as, m)
    BY <2>2, Zenon DEF ToolErrorComplaints, as, operation
  <2> HIDE DEF operation
  <2> QED BY <1>2, <2>4, <2>5, <2>6 DEF OnlyWrongOperation
<1>3. CASE toolStatus = "failed"
  <2>1. ~canceled /\ error # NoError
    BY <1>3 DEF ToolEnded
  <2>2. SettledComplaints(toolStatus, m) = ToolErrorComplaints(m, FALSE)
    BY <1>3 DEF SettledComplaints
  <2> QED BY <1>2, <2>1, <2>2
<1>4. CASE toolStatus = "canceled"
  <2>1. canceled /\ error # NoError
    BY <1>4 DEF ToolEnded
  <2>2. SettledComplaints(toolStatus, m) = ToolErrorComplaints(m, TRUE)
    BY <1>4 DEF SettledComplaints
  <2> QED BY <1>2, <2>1, <2>2
<1> QED BY <1>1, <1>3, <1>4 DEF ToolEnded

(* What validation asks of the name, the status, the attributes and the error
   of an event, together. *)
EventSchema(name, status, attrs, error) ==
  /\ EventAttributesComplete([name |-> name, attrs |-> attrs])
  /\ name = "tool.registered" => ToolStatus(attrs) = "registered"
  /\ name = "tool.materialized" => ToolStatus(attrs) = "materialized"
  /\ name = "tool.settled" => ToolEnded(ToolStatus(attrs), status, error)
  /\ name \in ErrorEvents \cup {"cancellation"} => error # NoError
  /\ name = "cancellation" => status = "canceled"

(* Attributes that are added do not hurt. *)
LEMMA SchemaLifts ==
  ASSUME NEW name, NEW status, NEW attrs, NEW error, NEW more,
         EventSchema(name, status, attrs, error),
         \A key \in DOMAIN attrs : key \in DOMAIN more /\ more[key] = attrs[key]
  PROVE  EventSchema(name, status, more, error)
<1>1. \A type, keys : HasTyped(attrs, type, keys) => HasTyped(more, type, keys)
  BY DEF HasTyped
<1>2. \A keys : HasText(attrs, keys) => HasText(more, keys)
  BY <1>1 DEF HasText
<1>3. \A keys : HasInt64(attrs, keys) => HasInt64(more, keys)
  BY <1>1 DEF HasInt64
<1> DEFINE event == [name |-> name, attrs |-> attrs]
           other == [name |-> name, attrs |-> more]
<1>4. EventAttributesComplete(event) => EventAttributesComplete(other)
  <2>1. event.name = name /\ event.attrs = attrs /\ other.name = name /\ other.attrs = more
    OBVIOUS
  <2> HIDE DEF event, other
  <2>2. EventAttributesComplete(event) =>
          EventAttributesComplete(other)
    BY <1>2, <1>3, <2>1 DEF EventAttributesComplete
  <2> QED BY <2>2
<1>5. "tool.status" \in DOMAIN attrs => ToolStatus(more) = ToolStatus(attrs)
  BY DEF ToolStatus
<1>6. EventAttributesComplete(event)
      /\ name \in {"tool.registered", "tool.materialized", "tool.settled"}
        => "tool.status" \in DOMAIN attrs
  <2>1. event.name = name /\ event.attrs = attrs
    OBVIOUS
  <2> HIDE DEF event
  <2>2. "tool.status" \in ToolTexts \ {"tool.call_id"} /\ "tool.status" \in ToolTexts
    BY DEF ToolTexts
  <2>3. EventAttributesComplete(event) /\ name = "tool.registered"
          => HasText(attrs, ToolTexts \ {"tool.call_id"})
    BY <2>1 DEF EventAttributesComplete
  <2>4. EventAttributesComplete(event) /\ name \in {"tool.materialized", "tool.settled"}
          => HasText(attrs, ToolTexts)
    BY <2>1 DEF EventAttributesComplete
  <2>5. \A keys : "tool.status" \in keys /\ HasText(attrs, keys)
          => "tool.status" \in DOMAIN attrs
    BY DEF HasText, HasTyped
  <2> QED BY <2>2, <2>3, <2>4, <2>5
<1> HIDE DEF event, other
<1>7. EventAttributesComplete(event)
  BY DEF EventSchema, event
<1>8. EventAttributesComplete(other)
  BY <1>4, <1>7
<1> QED BY <1>5, <1>6, <1>7, <1>8 DEF EventSchema, other

LEMMA NoAttributeComplaint ==
  ASSUME NEW attrs, AttributesOK(attrs)
  PROVE  AttributeComplaints(attrs) = {}
<1>1. Flag(TRUE)[1] = "bool" /\ Flag(FALSE)[1] = "bool"
  BY DEF Flag
<1>2. ASSUME NEW key \in DOMAIN attrs
      PROVE  attrs[key][1] \in {"string", "int64", "bool"}
  <2> DEFINE value == attrs[key]
  <2>1. AttributeOK(key, value)
    BY DEF AttributesOK
  <2> HIDE DEF value
  <2>2. \/ value[1] = "string" \/ value[1] = "int64"
        \/ value = Flag(TRUE) \/ value = Flag(FALSE)
    BY <2>1, Zenon DEF AttributeOK
  <2> QED BY <1>1, <2>2, Zenon DEF value
<1>3. ~\E key \in DOMAIN attrs : attrs[key][1] \notin {"string", "int64", "bool"}
  BY <1>2
<1> QED BY <1>3, NoComplaint, Zenon DEF AttributeComplaints

LEMMA EventValid ==
  ASSUME NEW o, ErrorStated(o, o.status = "canceled"), o.kind \in EventNames,
         AttributesOK(o.attrs),
         o.status \in Statuses, o.start # 0, o.id # NoID, o.trace # "",
         EventSchema(o.kind, o.status, o.attrs, o.error)
  PROVE  /\ EventComplaints(ToEvent(o)) \subseteq
              IF o.kind = "tool.settled" THEN {"tool error operation"} ELSE {}
         /\ o.error = NoError \/ o.error.operation = "tool_call" =>
              EventComplaints(ToEvent(o)) = {}
<1> DEFINE canceled == o.status = "canceled"
           m == ToModelError(o)
           e == ToEvent(o)
           known == IF /\ o.kind = "tool.settled"
                       /\ o.error # NoError /\ o.error.operation # "tool_call"
                    THEN {"tool error operation"} ELSE {}
<1>1. ErrorStated(o, canceled) /\ canceled \in BOOLEAN
      /\ (canceled <=> o.status = "canceled")
  OBVIOUS
<1> HIDE DEF canceled
<1>2. \/ o.error = NoError /\ m = NoError
      \/ /\ SoundError(o.error, canceled) /\ IsModelError(m, o.error, canceled)
         /\ m # NoError /\ o.error # NoError
  <2>1. CASE o.error = NoError
    BY <2>1, NoErrorMeta
  <2>2. CASE SoundError(o.error, canceled)
    <3>1. IsModelError(m, o.error, canceled)
      <4>1. o.kind \notin {"session", "run"}
        BY DEF EventNames, StreamEvents, ToolEventNames, ErrorEvents, LifecycleEvents
      <4>2. Part(o.attrs, ErrorKeys) = ErrorAttributes(o.error, canceled)
        BY <1>1, <2>2, <4>1, SoundIsError, Zenon DEF ErrorStated
      <4> QED BY <1>1, <2>2, <4>2, ModelError
    <3>2. m # NoError
      BY <3>1, Zenon DEF IsModelError
    <3> QED BY <2>2, <3>1, <3>2, SoundIsError
  <2> QED BY <1>1, <2>1, <2>2, Zenon DEF ErrorStated
<1>3. /\ e.id = o.id /\ e.trace = o.trace /\ e.name = o.kind /\ e.status = o.status
      /\ e.at = o.start /\ e.attrs = o.attrs /\ e.error = m
  BY DEF ToEvent
<1> HIDE DEF m, e
<1>4. IdentityComplaints(e) = {} /\ AttributeComplaints(e.attrs) = {}
  <2>1. IdentityComplaints(e) = {}
    BY <1>3 DEF IdentityComplaints, Complaint
  <2>2. AttributeComplaints(e.attrs) = {}
    BY <1>3, NoAttributeComplaint, Zenon
  <2> QED BY <2>1, <2>2
<1>5. /\ Complaint(e.name \notin EventNames, "event name") = {}
      /\ Complaint(e.at = 0, "event timestamp") = {}
      /\ Complaint(e.status \notin Statuses \cup {""}, "event status") = {}
  BY <1>3 DEF Complaint
<1>6. (IF e.error = NoError THEN {} ELSE ErrorComplaints(e.error)) = {}
  BY <1>1, <1>2, <1>3, ModelErrorComplaints
<1>7. Complaint(~EventAttributesComplete(e), "event attributes") = {}
  <2> DEFINE event == [name |-> o.kind, attrs |-> o.attrs]
  <2>1. event.name = e.name /\ event.attrs = e.attrs
    BY <1>3
  <2> HIDE DEF event
  <2>2. EventAttributesComplete(event)
    BY DEF EventSchema, event
  <2>3. EventAttributesComplete(e)
    BY <2>1, <2>2 DEF EventAttributesComplete
  <2> QED BY <2>3 DEF Complaint
<1>8. ToolEventComplaints(e) \subseteq known
  <2>1. CASE o.kind = "tool.settled"
    <3>1. ToolEventComplaints(e) = SettledComplaints(ToolStatus(o.attrs), m)
      BY <1>3, <2>1 DEF ToolEventComplaints
    <3>2. ToolEnded(ToolStatus(o.attrs), o.status, o.error)
      BY <2>1 DEF EventSchema
    <3> DEFINE complaints == SettledComplaints(ToolStatus(o.attrs), m)
    <3>3. OnlyWrongOperation(complaints, o.error)
      <4>1. \/ o.error = NoError
            \/ SoundError(o.error, canceled) /\ IsModelError(m, o.error, canceled)
        BY <1>2
      <4> QED BY <1>1, <3>2, <4>1, SettledNoComplaint
    <3> HIDE DEF complaints
    <3>4. complaints \subseteq known
      BY <2>1, <3>3 DEF OnlyWrongOperation
    <3> QED BY <3>1, <3>4 DEF complaints
  <2>2. CASE o.kind # "tool.settled"
    BY <1>3, <2>2 DEF ToolEventComplaints, Complaint, EventSchema
  <2> QED BY <2>1, <2>2
<1>9. EventErrorComplaints(e) = {}
  <2>1. e.name \in ErrorEvents \cup {"cancellation"} => e.error # NoError
    BY <1>2, <1>3 DEF EventSchema
  <2>2. e.name = "cancellation" => CanceledFlagComplaints("canceled", e.error) = {}
    BY <1>1, <1>2, <1>3, <2>1, ModelErrorComplaints DEF EventSchema
  <2> QED BY <2>1, <2>2 DEF EventErrorComplaints
<1>10. EventComplaints(e) \subseteq known
  BY <1>4, <1>5, <1>6, <1>7, <1>8, <1>9 DEF EventComplaints
<1> QED BY <1>10 DEF e

-----------------------------------------------------------------------------
(* Events of streams *)

LEMMA EventIdentity ==
  ASSUME NEW corr, IsCorrelation(corr),
         NEW S, NEW suffix \in Seq(S), Len(suffix) > 0
  PROVE  LET event == EventCorrelation(corr, suffix) IN
         /\ event.parent = corr.id /\ event.trace = corr.trace
         /\ event.id # corr.id \/ corr.id = NoID
         /\ corr.id # NoID => event.id # NoID
         /\ BaseAttributes(event) = BaseAttributes(corr)
<1> DEFINE event == EventCorrelation(corr, suffix)
<1>1. {"id", "parent", "trace"} \subseteq Fields /\ DOMAIN corr = Fields
  BY FieldsApart DEF IsCorrelation
<1>2. /\ event.parent = corr.id /\ event.trace = corr.trace
      /\ event.id = IF corr.id = NoID THEN NoID ELSE corr.id \o suffix
      /\ \A f \in Propagated : event[f] = corr[f]
  BY <1>1, FieldsApart DEF EventCorrelation, IDs
<1> HIDE DEF event
<1>3. BaseAttributes(event) = BaseAttributes(corr)
  BY <1>2 DEF BaseAttributes
<1>4. corr.id # NoID => corr.id \o suffix # corr.id /\ corr.id \o suffix # NoID
  <2> DEFINE U == STRING \cup S
  <2>1. corr.id \in Seq(U) /\ suffix \in Seq(U)
    BY FieldsApart DEF IsCorrelation
  <2> HIDE DEF U
  <2>2. Len(corr.id \o suffix) = Len(corr.id) + Len(suffix)
        /\ Len(corr.id) \in Nat /\ Len(suffix) \in Nat
    BY <2>1
  <2>3. Len(NoID) = 0
    BY DEF NoID
  <2>4. Len(corr.id \o suffix) # Len(corr.id) /\ Len(corr.id \o suffix) # 0
    BY <2>2
  <2> QED BY <2>3, <2>4, Zenon
<1>5. /\ event.id # corr.id \/ corr.id = NoID
      /\ corr.id # NoID => event.id # NoID
  BY <1>2, <1>4
<1> QED BY <1>2, <1>3, <1>5 DEF event

(* An event that belongs to the stream with the correlation corr. *)
BelongsTo(e, corr) ==
  /\ HasType(e) /\ Agrees(e)
  /\ e.parent = corr.id /\ e.trace = corr.trace
  /\ e.id # corr.id \/ corr.id = NoID
  /\ CorrelationOf(e) = BaseAttributes(corr)
  /\ corr.id # NoID /\ corr.trace # "" => EventComplaints(ToEvent(e)) = {}
  /\ \A key \in DOMAIN e.attrs : /\ key \notin DOMAIN MetricOf
                                 /\ EventMeta(ToEvent(e))[key] = e.attrs[key]

LEMMA StreamEventMade ==
  ASSUME NEW corr, IsCorrelation(corr),
         NEW S, NEW suffix \in Seq(S), Len(suffix) > 0,
         NEW name, NEW status, NEW at, NEW attrs, NEW error,
         EventSound(name, status, at, attrs, error),
         EventSchema(name, status, attrs, error), name # "tool.settled"
  PROVE  BelongsTo(StreamEvent(corr, suffix, name, status, at, attrs, error), corr)
<1> DEFINE event == EventCorrelation(corr, suffix)
           o == EventObservation(event, name, status, at,
                                 Over(attrs, BaseAttributes(event)), error)
<1>1. EventFits(o, event, attrs)
  BY EventMade
<1>2. /\ event.parent = corr.id /\ event.trace = corr.trace
      /\ event.id # corr.id \/ corr.id = NoID
      /\ corr.id # NoID => event.id # NoID
      /\ BaseAttributes(event) = BaseAttributes(corr)
  BY EventIdentity
<1>3. /\ o.id = event.id /\ o.parent = event.parent /\ o.trace = event.trace
      /\ o.kind = name /\ o.status = status /\ o.error = error
  BY DEF EventObservation, Observation
<1> HIDE DEF event, o
<1>4. EventSchema(o.kind, o.status, o.attrs, o.error)
  BY <1>1, <1>3, SchemaLifts DEF EventFits
<1>5. corr.id # NoID /\ corr.trace # "" => EventComplaints(ToEvent(o)) = {}
  <2> SUFFICES ASSUME corr.id # NoID, corr.trace # ""
               PROVE  EventComplaints(ToEvent(o)) = {}
    OBVIOUS
  <2>1. o.id # NoID /\ o.trace # ""
    BY <1>2, <1>3
  <2>2. /\ ErrorStated(o, o.status = "canceled") /\ o.kind \in EventNames
        /\ o.status \in Statuses /\ o.start # 0 /\ AttributesOK(o.attrs)
    BY <1>1, Zenon DEF EventFits, HasType
  <2>3. EventComplaints(ToEvent(o)) \subseteq
              IF o.kind = "tool.settled" THEN {"tool error operation"} ELSE {}
    BY <1>4, <2>1, <2>2, EventValid
  <2> QED BY <1>3, <2>3
<1>6. /\ HasType(o) /\ Agrees(o) /\ CorrelationOf(o) = BaseAttributes(event)
      /\ \A key \in DOMAIN o.attrs : /\ key \notin DOMAIN MetricOf
                                     /\ EventMeta(ToEvent(o))[key] = o.attrs[key]
  BY <1>1, Zenon DEF EventFits
<1>7. BelongsTo(o, corr)
  BY <1>2, <1>3, <1>5, <1>6, Zenon DEF BelongsTo
<1> QED BY <1>7 DEF o, event, StreamEvent

LEMMA OnlyKeys ==
  ASSUME NEW key, NEW value
  PROVE  \A k : k \in DOMAIN Only(key, value) <=> k = key
BY DEF Only

LEMMA NamesApart ==
  /\ "stream.chunk" \in EventNames /\ "stream.first_token" \in EventNames
  /\ "cancellation" \in EventNames
  /\ "ok" \in Statuses /\ "error" \in Statuses /\ "canceled" \in Statuses
BY DEF EventNames, StreamEvents, LifecycleEvents, Statuses

LEMMA SuffixLength ==
  /\ \A index : <<"chunk", index>> \in Seq({"chunk", index}) /\ Len(<<"chunk", index>>) > 0
  /\ <<"first_token">> \in Seq({"first_token"}) /\ Len(<<"first_token">>) > 0
  /\ <<"cancellation">> \in Seq({"cancellation"}) /\ Len(<<"cancellation">>) > 0
OBVIOUS

(* An attribute that is no error's, under one key. *)
LEMMA PlainSound ==
  ASSUME NEW name \in EventNames, NEW at \in Nat \ {0},
         NEW key, key \notin Propagated, key \notin ErrorKeys, key \notin DOMAIN MetricOf,
         NEW n, AttributesOK(Only(key, Int64(n)))
  PROVE  EventSound(name, "ok", at, Only(key, Int64(n)), NoError)
<1> DEFINE attrs == Only(key, Int64(n))
           o == [kind |-> name, attrs |-> attrs, error |-> NoError]
<1>1. AttributesOK(attrs)
  OBVIOUS
<1>2. \A k : k \in DOMAIN attrs <=> k = key
  BY OnlyKeys
<1> HIDE DEF attrs
<1>3. o.error = NoError /\ DOMAIN Part(o.attrs, ErrorKeys) = {}
  <2>1. \A k : k \notin DOMAIN Part(attrs, ErrorKeys)
    BY <1>2, AtPart
  <2>2. o.error = NoError /\ o.attrs = attrs
    OBVIOUS
  <2> HIDE DEF o
  <2> QED BY <2>1, <2>2
<1>4. ErrorStated(o, "ok" = "canceled")
  BY <1>3, Zenon DEF ErrorStated
<1>5. \A k \in DOMAIN attrs : k \notin Propagated /\ k \notin DOMAIN MetricOf
  BY <1>2
<1>6. EventSound(name, "ok", at, attrs, NoError)
  BY <1>1, <1>4, <1>5, NamesApart, Zenon DEF EventSound
<1> QED BY <1>6 DEF attrs

LEMMA ChunkFits ==
  ASSUME NEW corr, IsCorrelation(corr), NEW index \in Int, NEW at \in Nat \ {0}
  PROVE  /\ BelongsTo(ChunkEvent(corr, index, at), corr)
         /\ ChunkEvent(corr, index, at).kind = "stream.chunk"
<1> DEFINE attrs == Only("stream.chunk.index", Int64(index))
<1>1. EventSound("stream.chunk", "ok", at, attrs, NoError)
  <2>1. "stream.chunk.index" \notin Propagated \cup ErrorKeys \cup DOMAIN MetricOf
    BY MetricKeys DEF Propagated, ErrorKeys
  <2>2. "stream.chunk.index" \in GivenNumbers
    BY DEF GivenNumbers
  <2>3. AttributesOK(attrs)
    BY <2>2, GivenNumberOK, Zenon
  <2> QED BY <2>1, <2>3, NamesApart, PlainSound
<1>2. EventSchema("stream.chunk", "ok", attrs, NoError)
  <2>1. "stream.chunk.index" \in DOMAIN attrs
        /\ attrs["stream.chunk.index"] = Int64(index)
    BY AtOnly
  <2>2. Int64(index)[1] = "int64"
    BY DEF Int64
  <2> DEFINE event == [name |-> "stream.chunk", attrs |-> attrs]
  <2>3. event.name = "stream.chunk" /\ event.attrs = attrs
    OBVIOUS
  <2> HIDE DEF event, attrs
  <2>4. EventAttributesComplete(event)
    BY <2>1, <2>2, <2>3 DEF EventAttributesComplete, HasInt64, HasTyped, ReasonKey
  <2> QED BY <2>4 DEF EventSchema, event, ErrorEvents
<1> HIDE DEF attrs
<1> DEFINE suffix == <<"chunk", index>>
           e == StreamEvent(corr, suffix, "stream.chunk", "ok", at, attrs, NoError)
<1>3. suffix \in Seq({"chunk", index}) /\ Len(suffix) > 0
  BY SuffixLength
<1> HIDE DEF suffix
<1>4. BelongsTo(e, corr)
  <2>1. "stream.chunk" # "tool.settled"
    OBVIOUS
  <2> QED BY <1>1, <1>2, <1>3, <2>1, StreamEventMade
<1>5. e.kind = "stream.chunk"
  BY DEF StreamEvent, EventObservation, Observation
<1>6. ChunkEvent(corr, index, at) = e
  BY DEF ChunkEvent, attrs, suffix
<1> HIDE DEF e
<1> QED BY <1>4, <1>5, <1>6

LEMMA FirstTokenFits ==
  ASSUME NEW corr, IsCorrelation(corr), NEW latency \in Nat, NEW at \in Nat \ {0}
  PROVE  LET e == FirstTokenEvent(corr, latency, at) IN
         /\ BelongsTo(e, corr)
         /\ e.kind = "stream.first_token"
         /\ e.attrs["genai.latency.first_token_ms"] = Int64(latency)
<1> DEFINE attrs == Only("genai.latency.first_token_ms", Int64(latency))
<1>1. EventSound("stream.first_token", "ok", at, attrs, NoError)
  <2>1. "genai.latency.first_token_ms" \notin Propagated \cup ErrorKeys \cup DOMAIN MetricOf
    BY MetricKeys DEF Propagated, ErrorKeys
  <2>2. AttributesOK(attrs)
    BY Int64OK, Zenon
  <2> QED BY <2>1, <2>2, NamesApart, PlainSound
<1>2. "genai.latency.first_token_ms" \in DOMAIN attrs
      /\ attrs["genai.latency.first_token_ms"] = Int64(latency)
  BY AtOnly
<1>3. EventSchema("stream.first_token", "ok", attrs, NoError)
  <2>1. Int64(latency)[1] = "int64"
    BY DEF Int64
  <2> DEFINE event == [name |-> "stream.first_token", attrs |-> attrs]
  <2>2. event.name = "stream.first_token" /\ event.attrs = attrs
    OBVIOUS
  <2> HIDE DEF event, attrs
  <2>3. EventAttributesComplete(event)
    BY <1>2, <2>1, <2>2 DEF EventAttributesComplete, HasInt64, HasTyped, ReasonKey
  <2> QED BY <2>3 DEF EventSchema, event, ErrorEvents
<1> HIDE DEF attrs
<1> DEFINE suffix == <<"first_token">>
           all == Over(attrs, BaseAttributes(EventCorrelation(corr, suffix)))
           e == StreamEvent(corr, suffix, "stream.first_token", "ok", at, attrs, NoError)
<1>4. suffix \in Seq({"first_token"}) /\ Len(suffix) > 0
  BY SuffixLength
<1> HIDE DEF suffix
<1>5. BelongsTo(e, corr)
  <2>1. "stream.first_token" # "tool.settled"
    OBVIOUS
  <2> QED BY <1>1, <1>3, <1>4, <2>1, StreamEventMade
<1>6. all["genai.latency.first_token_ms"] = Int64(latency)
  BY <1>2, AtOver
<1>7. e.kind = "stream.first_token" /\ e.attrs = all
  BY DEF StreamEvent, EventObservation, Observation
<1>8. FirstTokenEvent(corr, latency, at) = e
  BY DEF FirstTokenEvent, attrs, suffix
<1> HIDE DEF e, all
<1> QED BY <1>5, <1>6, <1>7, <1>8

LEMMA SoundWithError ==
  ASSUME NEW name \in EventNames, NEW status \in Statuses, NEW at \in Nat \ {0},
         NEW attrs, AttributesOK(attrs),
         \A key \in DOMAIN attrs : key \notin Propagated /\ key \notin DOMAIN MetricOf,
         NEW error, NEW canceled \in BOOLEAN, canceled <=> status = "canceled",
         SoundError(error, canceled),
         Part(attrs, ErrorKeys) = ErrorAttributes(error, canceled)
  PROVE  EventSound(name, status, at, attrs, error)
<1> DEFINE o == [kind |-> name, attrs |-> attrs, error |-> error]
<1>1. o.error = error /\ o.attrs = attrs
  OBVIOUS
<1> HIDE DEF o
<1>2. ErrorStated(o, canceled)
  BY <1>1, Zenon DEF ErrorStated
<1>3. CASE canceled
  <2>1. canceled = TRUE /\ (status = "canceled") = TRUE
    BY <1>3
  <2>2. ErrorStated(o, status = "canceled")
    BY <1>2, <2>1, Zenon
  <2> QED BY <2>2, Zenon DEF EventSound, o
<1>4. CASE ~canceled
  <2>1. canceled = FALSE /\ (status = "canceled") = FALSE
    BY <1>4
  <2>2. ErrorStated(o, status = "canceled")
    BY <1>2, <2>1, Zenon
  <2> QED BY <2>2, Zenon DEF EventSound, o
<1> QED BY <1>3, <1>4

(* The event of a cancellation: of a stream, or of Observer.Cancellation. *)
LEMMA CancellationSound ==
  ASSUME NEW error, SoundError(error, TRUE), NEW at \in Nat \ {0}
  PROVE  LET attrs == Over(Only("cancellation.reason", Text(error.classification)),
                           ErrorAttributes(error, TRUE)) IN
         /\ EventSound("cancellation", "canceled", at, attrs, error)
         /\ EventSchema("cancellation", "canceled", attrs, error)
<1> DEFINE reason == Only("cancellation.reason", Text(error.classification))
           said == ErrorAttributes(error, TRUE)
           attrs == Over(reason, said)
<1>1. /\ "cancellation.reason" \notin Propagated /\ "cancellation.reason" \notin ErrorKeys
      /\ "cancellation.reason" \notin DOMAIN MetricOf
  BY MetricKeys DEF Propagated, ErrorKeys
<1>2. error.classification # "" /\ error.retryable \in BOOLEAN
  BY Zenon DEF SoundError
<1>3. AttributesOK(reason) /\ AttributesOK(said)
  <2>0. error.retryable \in BOOLEAN
    BY <1>2
  <2>1. \A canceled : AttributesOK(ErrorAttributes(error, canceled))
    BY <2>0, ErrorOK
  <2>2. AttributesOK(reason)
    BY <1>2, TextOK
  <2> QED BY <2>1, <2>2, Zenon
<1>4. IsMap(said) /\ DOMAIN said \subseteq ErrorKeys
  BY ErrorKeysOnly, OverIsMap DEF ErrorAttributes
<1>5. /\ \A k : k \in DOMAIN reason <=> k = "cancellation.reason"
      /\ reason["cancellation.reason"] = Text(error.classification)
  BY AtOnly, OnlyKeys
<1> HIDE DEF reason, said
<1>6. AttributesOK(attrs)
  BY <1>3, OverOK
<1>7. Part(attrs, ErrorKeys) = said
  <2>1. DOMAIN reason \cap ErrorKeys = {}
    BY <1>1, <1>5
  <2> QED BY <1>4, <2>1, PartOver, PartAll
<1>8. \A key \in DOMAIN attrs : key \in DOMAIN reason \/ key \in DOMAIN said
  BY AtOver
<1>9. "cancellation.reason" \in DOMAIN attrs
      /\ attrs["cancellation.reason"] = Text(error.classification)
  BY <1>5, AtOver
<1> HIDE DEF attrs
<1>10. \A key \in DOMAIN attrs : key \notin Propagated /\ key \notin DOMAIN MetricOf
  BY <1>1, <1>4, <1>5, <1>8, KeysApart
<1>11. EventSound("cancellation", "canceled", at, attrs, error)
  BY <1>6, <1>7, <1>10, NamesApart, SoundWithError DEF said
<1>12. EventSchema("cancellation", "canceled", attrs, error)
  <2> DEFINE event == [name |-> "cancellation", attrs |-> attrs]
  <2>1. event.name = "cancellation" /\ event.attrs = attrs
    OBVIOUS
  <2> HIDE DEF event
  <2>2. Text(error.classification)[1] = "string"
    BY PairsOK
  <2>3. EventAttributesComplete(event)
    BY <1>9, <2>1, <2>2
       DEF EventAttributesComplete, HasText, HasTyped, ReasonKey
  <2>4. error # NoError
    BY SoundIsError
  <2> QED BY <2>3, <2>4 DEF EventSchema, event
<1> QED BY <1>11, <1>12 DEF attrs, said, reason

IsCancellation(last, end, error) ==
  last.kind = "cancellation" /\ last.error = error /\ last.start = end

LEMMA CancellationFits ==
  ASSUME NEW corr, IsCorrelation(corr), NEW error, SoundError(error, TRUE),
         NEW at \in Nat \ {0}
  PROVE  /\ BelongsTo(CancellationEvent(corr, at, error), corr)
         /\ IsCancellation(CancellationEvent(corr, at, error), at, error)
<1> DEFINE attrs == Over(Only("cancellation.reason", Text(error.classification)),
                         ErrorAttributes(error, TRUE))
           suffix == <<"cancellation">>
           e == StreamEvent(corr, suffix, "cancellation", "canceled", at, attrs, error)
<1>1. /\ EventSound("cancellation", "canceled", at, attrs, error)
      /\ EventSchema("cancellation", "canceled", attrs, error)
  BY CancellationSound
<1> HIDE DEF attrs
<1>2. suffix \in Seq({"cancellation"}) /\ Len(suffix) > 0
  BY SuffixLength
<1> HIDE DEF suffix
<1>3. BelongsTo(e, corr)
  <2>1. "cancellation" # "tool.settled"
    OBVIOUS
  <2> QED BY <1>1, <1>2, <2>1, StreamEventMade
<1>4. IsCancellation(e, at, error)
  BY DEF StreamEvent, EventObservation, Observation, IsCancellation
<1>5. CancellationEvent(corr, at, error) = e
  BY DEF CancellationEvent, attrs, suffix
<1> HIDE DEF e
<1> QED BY <1>3, <1>4, <1>5

-----------------------------------------------------------------------------
(* What a step may export *)

WellFormed(o) ==
  /\ HasType(o)
  /\ o.id # NoID /\ o.trace # "" => Complaints(o) \subseteq KnownComplaints(o)
  /\ o.kind = "stream" => TellsOneStory(o)
  /\ \A e \in {o} \cup EventsOf(o) : Agrees(e)
  /\ HasOneCallID(o)
  /\ IsSent(o)

LEMMA EventsAreNoSpans ==
  \A name \in EventNames : name \notin SpanKinds /\ name # "stream"
BY DEF EventNames, StreamEvents, ToolEventNames, ErrorEvents, LifecycleEvents, SpanKinds

LEMMA OneCallWellFormed ==
  ASSUME NEW o, NEW corr, NEW attrs, EventFits(o, corr, attrs),
         EventSchema(o.kind, o.status, attrs, o.error), HasOneCallID(o),
         o.kind = "tool.settled" => \/ o.error = NoError
                                    \/ o.error.operation = "tool_call"
                                    \/ \E e \in SettledErrors :
                                         e.operation = o.error.operation
  PROVE  WellFormed(o)
<1>1. /\ HasType(o) /\ Agrees(o) /\ ErrorStated(o, o.status = "canceled")
      /\ o.start # 0 /\ o.end = 0 /\ o.events = <<>> /\ o.kind \in EventNames
      /\ \A key \in DOMAIN attrs : key \in DOMAIN o.attrs /\ o.attrs[key] = attrs[key]
  BY Zenon DEF EventFits
<1>2. o.kind \notin SpanKinds /\ o.kind # "stream"
  BY <1>1, EventsAreNoSpans
<1>3. ASSUME o.id # NoID, o.trace # ""
      PROVE  Complaints(o) \subseteq KnownComplaints(o)
  <2>1. EventSchema(o.kind, o.status, o.attrs, o.error)
    BY <1>1, SchemaLifts
  <2>2. o.status \in Statuses /\ AttributesOK(o.attrs)
    BY <1>1 DEF HasType
  <2>3. /\ EventComplaints(ToEvent(o)) \subseteq
              IF o.kind = "tool.settled" THEN {"tool error operation"} ELSE {}
        /\ o.error = NoError \/ o.error.operation = "tool_call" =>
             EventComplaints(ToEvent(o)) = {}
    BY <1>1, <1>3, <2>1, <2>2, EventValid, Zenon
  <2>4. Complaints(o) = EventComplaints(ToEvent(o))
    BY <1>2 DEF Complaints
  <2>5. CASE /\ o.kind = "tool.settled"
             /\ o.error # NoError /\ o.error.operation # "tool_call"
    <3>1. "tool error operation" \in KnownComplaints(o)
      BY <2>5 DEF KnownComplaints
    <3> QED BY <2>3, <2>4, <2>5, <3>1
  <2>6. CASE ~(/\ o.kind = "tool.settled"
               /\ o.error # NoError /\ o.error.operation # "tool_call")
    BY <2>3, <2>4, <2>6
  <2> QED BY <2>5, <2>6
<1>4. \A e \in {o} \cup EventsOf(o) : Agrees(e)
  <2>1. EventsOf(o) = {}
    BY <1>1 DEF EventsOf
  <2> QED BY <1>1, <2>1
<1>5. IsSent(o)
  <2>1. ToSpan(o).end = 0
    BY <1>1 DEF ToSpan
  <2>2. MapSpan(ToSpan(o)) = <<>>
    BY <2>1 DEF MapSpan
  <2> QED BY <1>2, <2>2 DEF IsSent
<1> QED BY <1>1, <1>2, <1>3, <1>4, <1>5, Zenon DEF WellFormed

-----------------------------------------------------------------------------
(* Events of tools *)

LEMMA OverNone ==
  ASSUME NEW g
  PROVE  /\ \A k : k \in DOMAIN Over(NoAttributes, g) <=> k \in DOMAIN g
         /\ \A k \in DOMAIN g : Over(NoAttributes, g)[k] = g[k]
<1>1. \A k : k \notin DOMAIN NoAttributes
  BY NoneEmpty
<1> QED BY <1>1, AtOver

(* What lies under keys that f does not have. *)
LEMMA OverBeyond ==
  ASSUME NEW f, NEW g, NEW keys, \A key \in keys : key \notin DOMAIN f
  PROVE  \A key \in keys :
           /\ key \in DOMAIN Over(f, g) <=> key \in DOMAIN g
           /\ key \in DOMAIN g => Over(f, g)[key] = g[key]
BY AtOver

IsToolSaid(attrs, callID, status) ==
  /\ DOMAIN attrs \subseteq ToolTexts
  /\ ToolTexts \ {"tool.call_id"} \subseteq DOMAIN attrs
  /\ "tool.call_id" \in DOMAIN attrs <=> callID # ""
  /\ callID # "" => attrs["tool.call_id"] = Text(callID)
  /\ attrs["tool.status"] = Text(status)
  /\ \A key \in DOMAIN attrs : attrs[key][1] = "string"

LEMMA ToolSaid ==
  ASSUME NEW callID, NEW kind, NEW status, kind # "", status # ""
  PROVE  IsToolSaid(ToolAttributes(callID, kind, status), callID, status)
<1> DEFINE last == Only("tool.status", Text(status))
           kinds == Over(Only("tool.kind", Text(kind)), last)
           names == Over(Only("tool.name", Text("tool_call")), kinds)
           all == Over(TextAttribute("tool.call_id", callID), names)
<1>1. (\A k : k \in DOMAIN last <=> k = "tool.status") /\ last["tool.status"] = Text(status)
  BY AtOnly, OnlyKeys
<1> HIDE DEF last
<1>2. Adds(kinds, "tool.kind", Text(kind), last)
  BY OverOnly
<1> HIDE DEF kinds
<1>3. Adds(names, "tool.name", Text("tool_call"), kinds)
  BY OverOnly
<1> HIDE DEF names
<1>4. /\ \A k : k \in DOMAIN names <=> k \in {"tool.status", "tool.kind", "tool.name"}
      /\ names["tool.status"] = Text(status) /\ names["tool.kind"] = Text(kind)
      /\ names["tool.name"] = Text("tool_call")
  BY <1>1, <1>2, <1>3 DEF Adds
<1>5. /\ Text(status)[1] = "string" /\ Text(kind)[1] = "string"
      /\ Text("tool_call")[1] = "string" /\ Text(callID)[1] = "string"
  BY PairsOK
<1>6. ToolTexts = {"tool.status", "tool.kind", "tool.name", "tool.call_id"}
  BY DEF ToolTexts
<1>7. all = ToolAttributes(callID, kind, status)
  BY DEF all, names, kinds, last, ToolAttributes
<1>8. CASE callID # ""
  <2>1. Adds(all, "tool.call_id", Text(callID), names)
    BY <1>8, OverText
  <2> HIDE DEF all
  <2>2. /\ \A k : k \in DOMAIN all <=>
              k \in {"tool.status", "tool.kind", "tool.name", "tool.call_id"}
        /\ all["tool.call_id"] = Text(callID)
        /\ all["tool.status"] = Text(status) /\ all["tool.kind"] = Text(kind)
        /\ all["tool.name"] = Text("tool_call")
    BY <1>4, <2>1 DEF Adds
  <2>3. \A k \in DOMAIN all : all[k][1] = "string"
    BY <1>5, <2>2
  <2> QED BY <1>6, <1>7, <1>8, <2>2, <2>3 DEF IsToolSaid
<1>9. CASE callID = ""
  <2>1. all = Over(NoAttributes, names)
    BY <1>9 DEF TextAttribute
  <2>2. /\ \A k : k \in DOMAIN all <=> k \in DOMAIN names
        /\ \A k \in DOMAIN names : all[k] = names[k]
    BY <2>1, OverNone
  <2> HIDE DEF all
  <2>3. /\ \A k : k \in DOMAIN all <=> k \in {"tool.status", "tool.kind", "tool.name"}
        /\ all["tool.status"] = Text(status) /\ all["tool.kind"] = Text(kind)
        /\ all["tool.name"] = Text("tool_call")
    BY <1>4, <2>2
  <2>4. \A k \in DOMAIN all : all[k][1] = "string"
    BY <1>5, <2>3
  <2>5. "tool.call_id" \notin DOMAIN all
    <3>1. "tool.call_id" \notin {"tool.status", "tool.kind", "tool.name"}
      OBVIOUS
    <3> QED BY <2>3, <3>1, Zenon
  <2>6. DOMAIN all \subseteq ToolTexts /\ ToolTexts \ {"tool.call_id"} \subseteq DOMAIN all
    BY <1>6, <2>3
  <2> QED BY <1>7, <1>9, <2>3, <2>4, <2>5, <2>6 DEF IsToolSaid
<1> QED BY <1>8, <1>9

(* The attributes of an event of a tool: those of the tool, and more. *)
LEMMA ToolEventSound ==
  ASSUME NEW name \in EventNames, NEW status \in Statuses, NEW at \in Nat \ {0},
         NEW callID, NEW kind, NEW toolStatus, kind # "", toolStatus # "",
         NEW more, AttributesOK(more), DOMAIN more \subseteq ErrorKeys \cup {"tool.latency.ms"},
         NEW error,
         ErrorStated([kind |-> name, attrs |-> more, error |-> error],
                     status = "canceled")
  PROVE  EventSound(name, status, at,
                    Over(more, ToolAttributes(callID, kind, toolStatus)), error)
<1> DEFINE tool == ToolAttributes(callID, kind, toolStatus)
           attrs == Over(more, tool)
           canceled == status = "canceled"
<1>1. AttributesOK(tool) /\ DOMAIN tool \subseteq ToolTexts
  BY ToolOK, ToolSaid DEF IsToolSaid
<1> HIDE DEF tool
<1>2. AttributesOK(attrs)
  BY <1>1, OverOK
<1>3. /\ \A key \in ToolTexts \cup {"tool.latency.ms"} :
           key \notin Propagated /\ key \notin DOMAIN MetricOf /\ key \notin ErrorKeys
  BY MetricKeys DEF ToolTexts, Propagated, ErrorKeys
<1>4. \A key \in DOMAIN attrs : key \notin Propagated /\ key \notin DOMAIN MetricOf
  <2>1. \A key \in DOMAIN attrs :
          key \in ToolTexts \cup {"tool.latency.ms"} \/ key \in ErrorKeys
    BY <1>1, AtOver
  <2> HIDE DEF attrs
  <2> QED BY <1>3, <2>1, KeysApart
<1>5. Part(attrs, ErrorKeys) = Part(more, ErrorKeys)
  <2>1. DOMAIN tool \cap ErrorKeys = {}
    BY <1>1, <1>3
  <2> QED BY <2>1, PartUnder
<1>6. ErrorStated([kind |-> name, attrs |-> attrs, error |-> error], canceled)
  <2> DEFINE given == [kind |-> name, attrs |-> more, error |-> error]
             o == [kind |-> name, attrs |-> attrs, error |-> error]
  <2>1. ErrorStated(given, canceled)
    OBVIOUS
  <2>2. /\ given.kind = name /\ given.error = error /\ given.attrs = more
        /\ o.kind = name /\ o.error = error /\ o.attrs = attrs
    OBVIOUS
  <2> HIDE DEF given, o, attrs, canceled
  <2>3. ErrorStated(o, canceled)
    BY <1>5, <2>1, <2>2, Zenon DEF ErrorStated
  <2> QED BY <2>3 DEF o
<1> HIDE DEF attrs
<1>7. EventSound(name, status, at, attrs, error)
  BY <1>2, <1>4, <1>6, Zenon DEF EventSound
<1> QED BY <1>7 DEF attrs, tool

(* The observation that EmitEvent exports. *)
Emitted(corr, name, status, at, attrs, error) ==
  EventObservation(corr, name, status, at, Over(attrs, BaseAttributes(corr)), error)

(* What a helper of tools gives to ToolEvent. *)
ToolEventGiven(name, status, at, kind, toolStatus, more, error, callID) ==
  /\ name \in {"tool.registered", "tool.materialized", "tool.settled"}
  /\ status \in Statuses /\ at \in Nat \ {0} /\ kind # "" /\ toolStatus # ""
  /\ AttributesOK(more) /\ DOMAIN more \subseteq ErrorKeys \cup {"tool.latency.ms"}
  /\ ErrorStated([kind |-> name, attrs |-> more, error |-> error], status = "canceled")
  /\ name # "tool.registered" => callID # ""
  /\ name = "tool.registered" => toolStatus = "registered"
  /\ name = "tool.materialized" => toolStatus = "materialized"
  /\ name = "tool.settled" => /\ ToolEnded(toolStatus, status, error)
                              /\ \/ error = NoError
                                 \/ error.operation = "tool_call"
                                 \/ \E e \in SettledErrors :
                                      e.operation = error.operation

LEMMA ToolEventWellFormed ==
  ASSUME NEW known, IsCorrelation(known), NEW toolCallID \in STRING,
         NEW name, NEW status, NEW at, NEW kind, NEW toolStatus, NEW more, NEW error,
         ToolEventGiven(name, status, at, kind, toolStatus, more, error,
                        CallID(known, toolCallID))
  PROVE  WellFormed(Emitted(NamingTool(known, toolCallID), name, status, at,
                      Over(more, ToolAttributes(CallID(known, toolCallID), kind, toolStatus)),
                      error))
<1> DEFINE callID == CallID(known, toolCallID)
           corr == NamingTool(known, toolCallID)
           tool == ToolAttributes(callID, kind, toolStatus)
           attrs == Over(more, tool)
           base == BaseAttributes(corr)
           o == Emitted(corr, name, status, at, attrs, error)
<1>1. EventSound(name, status, at, attrs, error)
  <2>1. name \in EventNames
    BY DEF ToolEventGiven, EventNames, ToolEventNames
  <2>2. /\ status \in Statuses /\ at \in Nat \ {0} /\ kind # "" /\ toolStatus # ""
        /\ AttributesOK(more) /\ DOMAIN more \subseteq ErrorKeys \cup {"tool.latency.ms"}
        /\ ErrorStated([kind |-> name, attrs |-> more, error |-> error], status = "canceled")
    BY Zenon DEF ToolEventGiven
  <2> QED BY <2>1, <2>2, ToolEventSound
<1>2. kind # "" /\ toolStatus # "" /\ DOMAIN more \subseteq ErrorKeys \cup {"tool.latency.ms"}
  BY Zenon DEF ToolEventGiven
<1>3. IsToolSaid(tool, callID, toolStatus)
  BY <1>2, ToolSaid
<1>4. corr["correlation.tool_call_id"] = callID
  BY NamingOK
<1>5. /\ o.kind = name /\ o.status = status /\ o.error = error
      /\ o.attrs = Over(attrs, base)
  BY DEF Emitted, EventObservation, Observation
<1>6. EventFits(o, corr, attrs)
  BY <1>1, EventMade DEF Emitted
<1> HIDE DEF o, corr, callID, tool
<1>7. \A key \in ToolTexts : key \notin ErrorKeys \cup {"tool.latency.ms"} /\ key \notin Propagated
  BY DEF ToolTexts, ErrorKeys, Propagated
<1>8. \A key \in ToolTexts :
        /\ key \in DOMAIN attrs <=> key \in DOMAIN tool
        /\ key \in DOMAIN tool => attrs[key] = tool[key]
  <2>1. \A key \in ToolTexts : key \notin DOMAIN more
    BY <1>2, <1>7
  <2> QED BY <2>1, OverBeyond
<1> HIDE DEF attrs
<1>9. EventSchema(name, status, attrs, error)
  <2> DEFINE event == [name |-> name, attrs |-> attrs]
  <2>1. event.name = name /\ event.attrs = attrs
    OBVIOUS
  <2> HIDE DEF event
  <2>2. /\ HasText(attrs, ToolTexts \ {"tool.call_id"})
        /\ callID # "" => HasText(attrs, ToolTexts)
    BY <1>3, <1>8 DEF HasText, HasTyped, IsToolSaid
  <2>3. /\ name # "tool.registered" => callID # ""
        /\ name \in {"tool.registered", "tool.materialized", "tool.settled"}
    BY Zenon DEF callID, ToolEventGiven
  <2>4. EventAttributesComplete(event)
    BY <2>1, <2>2, <2>3 DEF EventAttributesComplete, ReasonKey
  <2>5. ToolStatus(attrs) = toolStatus
    <3>1. "tool.status" \in DOMAIN attrs /\ attrs["tool.status"] = Text(toolStatus)
      BY <1>3, <1>8 DEF ToolTexts, IsToolSaid
    <3>2. Text(toolStatus)[2] = toolStatus
      BY PairsOK
    <3> QED BY <3>1, <3>2 DEF ToolStatus
  <2>6. /\ name = "tool.registered" => toolStatus = "registered"
        /\ name = "tool.materialized" => toolStatus = "materialized"
        /\ name = "tool.settled" => ToolEnded(toolStatus, status, error)
    BY Zenon DEF ToolEventGiven
  <2> QED BY <2>3, <2>4, <2>5, <2>6 DEF EventSchema, event, ErrorEvents
<1>10. HasOneCallID(o)
  <2>1. /\ "tool.call_id" \in ToolTexts /\ "tool.call_id" \notin Propagated
        /\ "correlation.tool_call_id" \in Propagated
    BY DEF ToolTexts, Propagated
  <2>2. "correlation.tool_call_id" \notin DOMAIN attrs
    BY <1>1, <2>1 DEF EventSound
  <2>3. /\ "correlation.tool_call_id" \in DOMAIN base <=> callID # ""
        /\ callID # "" => base["correlation.tool_call_id"] = Text(callID)
        /\ "tool.call_id" \notin DOMAIN base
    BY <1>4, <2>1, BaseKeys
  <2> HIDE DEF base
  <2>4. "tool.call_id" \in DOMAIN o.attrs => callID # "" /\ o.attrs["tool.call_id"] = Text(callID)
    <3>1. "tool.call_id" \in DOMAIN o.attrs => "tool.call_id" \in DOMAIN attrs
      BY <1>5, <2>3, AtOver
    <3>2. "tool.call_id" \in DOMAIN attrs =>
            callID # "" /\ attrs["tool.call_id"] = Text(callID)
      BY <1>3, <1>8, <2>1 DEF IsToolSaid
    <3>3. "tool.call_id" \in DOMAIN attrs => o.attrs["tool.call_id"] = attrs["tool.call_id"]
      BY <1>5, AtOver
    <3> QED BY <3>1, <3>2, <3>3
  <2>5. callID # "" => /\ "correlation.tool_call_id" \in DOMAIN o.attrs
                       /\ o.attrs["correlation.tool_call_id"] = Text(callID)
    <3>1. "correlation.tool_call_id" \in DOMAIN base =>
            /\ "correlation.tool_call_id" \in DOMAIN Over(attrs, base)
            /\ Over(attrs, base)["correlation.tool_call_id"]
                 = base["correlation.tool_call_id"]
      BY <2>2, AtOver
    <3> QED BY <1>5, <2>3, <3>1
  <2> QED BY <2>4, <2>5 DEF HasOneCallID
<1>11. o.kind = "tool.settled" => \/ o.error = NoError
                                  \/ o.error.operation = "tool_call"
                                  \/ \E e \in SettledErrors :
                                       e.operation = o.error.operation
  BY <1>5, Zenon DEF ToolEventGiven
<1>12. WellFormed(o)
  <2>1. EventSchema(o.kind, o.status, attrs, o.error)
    BY <1>5, <1>9
  <2> QED BY <1>6, <1>10, <1>11, <2>1, OneCallWellFormed
<1> QED BY <1>12 DEF o, attrs, tool, corr, callID

LEMMA NoErrorStated ==
  ASSUME NEW o, o.error = NoError, \A key \in DOMAIN o.attrs : key \notin ErrorKeys,
         NEW canceled
  PROVE  ErrorStated(o, canceled)
<1>1. \A key : key \notin DOMAIN Part(o.attrs, ErrorKeys)
  BY AtPart
<1>2. DOMAIN Part(o.attrs, ErrorKeys) = {}
  BY <1>1
<1> QED BY <1>2, Zenon DEF ErrorStated

LEMMA OutcomesApart ==
  /\ "tool.registered" \in {"tool.registered", "tool.materialized", "tool.settled"}
  /\ "tool.materialized" \in {"tool.registered", "tool.materialized", "tool.settled"}
  /\ "tool.settled" \in {"tool.registered", "tool.materialized", "tool.settled"}
  /\ "tool.registered" # "tool.materialized" /\ "tool.registered" # "tool.settled"
  /\ "tool.materialized" # "tool.settled"
  /\ "unknown" # "" /\ "server" # "" /\ "client_proposed" # ""
  /\ "registered" # "" /\ "materialized" # ""
  /\ "succeeded" # "" /\ "failed" # "" /\ "canceled" # ""
OBVIOUS

LEMMA AnnouncedGiven ==
  ASSUME NEW name \in {"tool.registered", "tool.materialized"}, NEW at \in Nat \ {0},
         NEW kind, kind # "", NEW callID, name = "tool.materialized" => callID # ""
  PROVE  ToolEventGiven(name, "ok", at, kind,
                        IF name = "tool.registered" THEN "registered" ELSE "materialized",
                        NoAttributes, NoError, callID)
<1> DEFINE o == [kind |-> name, attrs |-> NoAttributes, error |-> NoError]
           toolStatus == IF name = "tool.registered" THEN "registered" ELSE "materialized"
<1>1. o.error = NoError /\ o.attrs = NoAttributes
  OBVIOUS
<1> HIDE DEF o
<1>2. \A canceled : ErrorStated(o, canceled)
  BY <1>1, NoneEmpty, NoErrorStated
<1>3. AttributesOK(NoAttributes) /\ DOMAIN NoAttributes \subseteq ErrorKeys \cup {"tool.latency.ms"}
  BY NoneOK, NoneEmpty
<1>4. /\ toolStatus # ""
      /\ name = "tool.registered" => toolStatus = "registered"
      /\ name = "tool.materialized" => toolStatus = "materialized"
  OBVIOUS
<1> HIDE DEF toolStatus
<1>5. /\ name \in {"tool.registered", "tool.materialized", "tool.settled"}
      /\ name # "tool.settled"
      /\ name # "tool.registered" => callID # ""
  OBVIOUS
<1>6. ToolEventGiven(name, "ok", at, kind, toolStatus, NoAttributes, NoError, callID)
  BY <1>2, <1>3, <1>4, <1>5, NamesApart, Zenon DEF ToolEventGiven, o
<1> QED BY <1>6 DEF toolStatus

LEMMA FirstNonEmptyFacts ==
  ASSUME NEW value, NEW other
  PROVE  /\ other # "" => FirstNonEmpty(value, other) # ""
         /\ value # "" => FirstNonEmpty(value, other) = value
         /\ value = "" => FirstNonEmpty(value, other) = other
BY DEF FirstNonEmpty

(* A settled tool that did not succeed, and what is known of its error. *)
Fails(outcome, canceled) ==
  outcome \in {"failed", "canceled"} /\ (canceled => outcome = "canceled")

IsSettled(settled, outcome, error, classification, retryable) ==
  settled = SettledError(outcome, error, classification, retryable)

SettledSoundly(settled, error, canceled) ==
  /\ SoundError(settled, canceled)
  /\ settled.operation = "tool_call" \/ settled.operation = error.operation

LEMMA SettledSound ==
  ASSUME NEW error \in SettledErrors, NEW classification, NEW retryable,
         NEW outcome, NEW canceled, Fails(outcome, canceled), NEW settled,
         IsSettled(settled, outcome, error, classification, retryable)
  PROVE  SettledSoundly(settled, error, canceled)
<1> DEFINE empty == error.operation = "" /\ error.classification = "" /\ ~error.cause
           class == FirstNonEmpty(error.classification, FirstNonEmpty(classification, outcome))
           again == outcome = "failed" /\ (error.retryable \/ retryable)
           lost == error.dropped /\ ~empty
           operation == FirstNonEmpty(error.operation, "tool_call")
<1>0. outcome # "" /\ (canceled => outcome = "canceled") /\ "tool_call" # ""
  BY DEF Fails
<1>1. again \in BOOLEAN /\ lost \in BOOLEAN /\ (canceled => ~again)
  BY <1>0
<1>2. /\ operation # "" /\ class # ""
      /\ operation = "tool_call" \/ operation = error.operation
  BY <1>0 DEF FirstNonEmpty
<1>3. settled = [operation |-> operation, classification |-> class,
                 retryable |-> again, dropped |-> lost]
  BY Zenon DEF SettledError, IsSettled
<1> HIDE DEF again, lost, class, operation
<1>4. /\ settled.operation = operation /\ settled.classification = class
      /\ settled.retryable = again /\ settled.dropped = lost
  BY <1>3
<1>5. SoundError(settled, canceled)
  BY <1>1, <1>2, <1>4, Zenon DEF SoundError
<1> QED BY <1>2, <1>4, <1>5, Zenon DEF SettledSoundly

LatencyOK(attrs) == AttributesOK(attrs) /\ DOMAIN attrs \subseteq {"tool.latency.ms"}

(* The error and the status of a settled tool. *)
SettlesTo(outcome, error, classification, retryable, settled, status) ==
  /\ outcome \in {"succeeded", "failed", "canceled"}
  /\ settled = IF outcome = "succeeded" THEN NoError
               ELSE SettledError(outcome, error, classification, retryable)
  /\ status = CASE outcome = "succeeded" -> "ok"
                [] outcome = "failed" -> "error" [] OTHER -> "canceled"

LEMMA SettledGiven ==
  ASSUME NEW at \in Nat \ {0}, NEW kind, kind # "", NEW callID, callID # "",
         NEW latencyAttributes, LatencyOK(latencyAttributes),
         NEW error \in SettledErrors, NEW classification, NEW retryable,
         NEW outcome, NEW settled, NEW status,
         SettlesTo(outcome, error, classification, retryable, settled, status)
  PROVE  ToolEventGiven("tool.settled", status, at, kind, outcome,
           Over(IF settled = NoError THEN NoAttributes
                ELSE ErrorAttributes(settled, outcome = "canceled"),
                latencyAttributes), settled, callID)
<1> DEFINE said == IF settled = NoError THEN NoAttributes
                   ELSE ErrorAttributes(settled, outcome = "canceled")
           more == Over(said, latencyAttributes)
           o == [kind |-> "tool.settled", attrs |-> more, error |-> settled]
<1> PICK canceled \in BOOLEAN : canceled = (status = "canceled")
  OBVIOUS
<1>1. AttributesOK(latencyAttributes) /\ DOMAIN latencyAttributes \subseteq {"tool.latency.ms"}
  BY DEF LatencyOK
<1>2. /\ status \in Statuses /\ outcome \in {"succeeded", "failed", "canceled"}
      /\ outcome # ""
      /\ outcome = "succeeded" => status = "ok"
      /\ outcome = "failed" => status = "error"
      /\ outcome = "canceled" <=> status = "canceled"
  BY NamesApart DEF SettlesTo
<1>3. \/ outcome = "succeeded" /\ settled = NoError /\ said = NoAttributes
      \/ /\ outcome # "succeeded" /\ SoundError(settled, canceled)
         /\ said = ErrorAttributes(settled, canceled) /\ settled # NoError
         /\ \/ settled.operation = "tool_call"
            \/ \E e \in SettledErrors : e.operation = settled.operation
  <2>1. CASE outcome = "succeeded"
    BY <2>1 DEF SettlesTo
  <2>2. CASE outcome \in {"failed", "canceled"}
    <3>1. IsSettled(settled, outcome, error, classification, retryable)
      BY <2>2 DEF SettlesTo, IsSettled
    <3>2. Fails(outcome, canceled)
      BY <1>2, <2>2 DEF Fails
    <3>8. SettledSoundly(settled, error, canceled)
      BY <3>1, <3>2, SettledSound, Zenon
    <3>9. SoundError(settled, canceled)
      BY <3>8, Zenon DEF SettledSoundly
    <3>10. settled.operation = "tool_call" \/ settled.operation = error.operation
      BY <3>8, Zenon DEF SettledSoundly
    <3>3. settled # NoError
      BY <3>9, SoundIsError
    <3>4. (outcome = "canceled") = canceled
      BY <1>2
    <3>5. said = ErrorAttributes(settled, outcome = "canceled")
      BY <3>3
    <3> HIDE DEF said
    <3>6. SoundError(settled, canceled) /\ said = ErrorAttributes(settled, canceled)
      BY <3>9, <3>4, <3>5, Zenon
    <3>7. \/ settled.operation = "tool_call"
          \/ \E e \in SettledErrors : e.operation = settled.operation
      BY <3>10
    <3> QED BY <2>2, <3>3, <3>6, <3>7
  <2> QED BY <2>1, <2>2 DEF SettlesTo
<1>4. canceled \in BOOLEAN
  OBVIOUS
<1>5. o.error = settled /\ o.attrs = more
  OBVIOUS
<1>6. DOMAIN said \subseteq ErrorKeys /\ AttributesOK(said)
  <2> HIDE DEF said
  <2>1. CASE said = NoAttributes
    BY <2>1, NoneEmpty, NoneOK
  <2>2. CASE SoundError(settled, canceled) /\ said = ErrorAttributes(settled, canceled)
    <3>2. AttributesOK(ErrorAttributes(settled, canceled))
      BY <2>2, SoundErrorOK
    <3>3. DOMAIN ErrorAttributes(settled, canceled) \subseteq ErrorKeys
      BY ErrorKeysOnly
    <3> QED BY <2>2, <3>2, <3>3
  <2> QED BY <1>3, <2>1, <2>2
<1> HIDE DEF said, o
<1>7. AttributesOK(more) /\ DOMAIN more \subseteq ErrorKeys \cup {"tool.latency.ms"}
  <2>1. DOMAIN said \subseteq ErrorKeys \cup {"tool.latency.ms"}
        /\ DOMAIN latencyAttributes \subseteq ErrorKeys \cup {"tool.latency.ms"}
    BY <1>1, <1>6
  <2> QED BY <1>1, <1>6, <2>1, OverOK, OverKeys
<1>8. Part(more, ErrorKeys) = Part(said, ErrorKeys)
  <2>1. "tool.latency.ms" \notin ErrorKeys
    BY DEF ErrorKeys
  <2>2. DOMAIN latencyAttributes \cap ErrorKeys = {}
    BY <1>1, <2>1
  <2> QED BY <2>2, PartUnder
<1> HIDE DEF more
<1>9. ErrorStated(o, canceled)
  <2>1. CASE settled = NoError /\ said = NoAttributes
    <3>1. DOMAIN Part(o.attrs, ErrorKeys) = {}
      BY <1>5, <1>8, <2>1, NoneEmpty, PartNone
    <3> QED BY <1>5, <2>1, <3>1, Zenon DEF ErrorStated
  <2>2. CASE SoundError(settled, canceled) /\ said = ErrorAttributes(settled, canceled)
    <3>1. IsMap(said)
      BY <2>2, OverIsMap DEF ErrorAttributes
    <3>2. Part(said, ErrorKeys) = said
      BY <1>6, <3>1, PartAll
    <3> QED BY <1>5, <1>8, <2>2, <3>2, Zenon DEF ErrorStated
  <2> QED BY <1>3, <2>1, <2>2, Zenon
<1>10. ToolEnded(outcome, status, settled)
  BY <1>2, <1>3 DEF ToolEnded
<1>11. \/ settled = NoError
       \/ settled.operation = "tool_call"
       \/ \E e \in SettledErrors : e.operation = settled.operation
  BY <1>3
<1>12. ToolEventGiven("tool.settled", status, at, kind, outcome, more, settled, callID)
  BY <1>2, <1>7, <1>9, <1>10, <1>11, OutcomesApart, Zenon DEF ToolEventGiven, o
<1> QED BY <1>12 DEF more, said

-----------------------------------------------------------------------------
(* One-call events *)

LEMMA MaxOfTwo ==
  ASSUME NEW a \in Int, NEW b \in Int
  PROVE  Max({a, b}) \in {a, b} /\ Max({a, b}) >= a /\ Max({a, b}) >= b
<1>1. \E x \in {a, b} : \A y \in {a, b} : x >= y
  <2>1. CASE a >= b
    BY <2>1
  <2>2. CASE ~(a >= b)
    BY <2>2
  <2> QED BY <2>1, <2>2
<1>2. Max({a, b}) \in {a, b} /\ \A y \in {a, b} : Max({a, b}) >= y
  BY <1>1 DEF Max
<1> QED BY <1>2

LEMMA MaxNat == \A n \in Int : Max({n, 0}) \in Nat
<1> SUFFICES ASSUME NEW n \in Int PROVE Max({n, 0}) \in Nat
  OBVIOUS
<1>1. 0 \in Int
  OBVIOUS
<1>2. Max({n, 0}) \in {n, 0} /\ Max({n, 0}) >= n /\ Max({n, 0}) >= 0
  BY <1>1, MaxOfTwo, Zenon
<1> DEFINE most == Max({n, 0})
<1> HIDE DEF most
<1>3. most \in {n, 0} /\ most >= 0
  BY <1>2 DEF most
<1>4. most \in Nat
  BY <1>3
<1> QED BY <1>4 DEF most

LEMMA GivenOK ==
  /\ \A given \in Correlations : IsCorrelation(given)
  /\ \A id \in ToolCallIDs : id \in STRING
  /\ \A agui \in AGUIIDs : agui[1] \in STRING /\ agui[2] \in STRING
  /\ \A at \in Times : at \in Nat \ {0}
  /\ \A index \in Indexes : index \in Int
  /\ \A latency \in Latencies : latency \in Int
BY ConstantsAssumption

(* What a step that makes a one-call event does. *)
Emits ==
  /\ \E o : exported' = <<o>> /\ WellFormed(o)
  /\ made' = made + 1 /\ UNCHANGED <<contexts, handles>>

LEMMA Emitting ==
  ASSUME NEW corr, NEW name, NEW status, NEW at, NEW attrs, NEW error,
         EmitEvent(corr, name, status, at, attrs, error),
         WellFormed(Emitted(corr, name, status, at, attrs, error))
  PROVE  Emits
BY DEF EmitEvent, Emitted, Emits

LEMMA ToolEmitting ==
  ASSUME NEW known, IsCorrelation(known), NEW toolCallID \in STRING,
         NEW name, NEW status, NEW at, NEW kind, NEW toolStatus, NEW more, NEW error,
         ToolEvent(known, toolCallID, name, status, at, kind, toolStatus, more, error),
         ToolEventGiven(name, status, at, kind, toolStatus, more, error,
                        CallID(known, toolCallID))
  PROVE  Emits
<1>1. WellFormed(Emitted(NamingTool(known, toolCallID), name, status, at,
                   Over(more, ToolAttributes(CallID(known, toolCallID), kind, toolStatus)),
                   error))
  BY ToolEventWellFormed, Zenon
<1> QED BY <1>1, Emitting, Zenon DEF ToolEvent

LEMMA MaterializedEmits ==
  ASSUME NEW known, IsCorrelation(known), NEW toolCallID \in STRING,
         NEW kind, kind # "", NEW at \in Nat \ {0},
         Materialized(known, toolCallID, kind, at)
  PROVE  Emits
<1>1. /\ CallID(known, toolCallID) # ""
      /\ ToolEvent(known, toolCallID, "tool.materialized", "ok", at,
                   kind, "materialized", NoAttributes, NoError)
  BY Zenon DEF Materialized
<1>2. ToolEventGiven("tool.materialized", "ok", at, kind,
                     IF "tool.materialized" = "tool.registered" THEN "registered"
                     ELSE "materialized", NoAttributes, NoError,
                     CallID(known, toolCallID))
  <2>1. "tool.materialized" \in {"tool.registered", "tool.materialized"}
    OBVIOUS
  <2> QED BY <1>1, <2>1, AnnouncedGiven, Zenon
<1>3. (IF "tool.materialized" = "tool.registered" THEN "registered"
       ELSE "materialized") = "materialized"
  OBVIOUS
<1> QED BY <1>1, <1>2, <1>3, ToolEmitting, Zenon

LEMMA RegisteredEmits ==
  ASSUME NEW known, IsCorrelation(known), NEW toolCallID \in STRING, NEW at \in Nat \ {0},
         ToolEvent(known, toolCallID, "tool.registered", "ok", at,
                   "unknown", "registered", NoAttributes, NoError)
  PROVE  Emits
<1>1. ToolEventGiven("tool.registered", "ok", at, "unknown",
                     IF "tool.registered" = "tool.registered" THEN "registered"
                     ELSE "materialized", NoAttributes, NoError,
                     CallID(known, toolCallID))
  <2>1. /\ "tool.registered" \in {"tool.registered", "tool.materialized"}
        /\ "unknown" # "" /\ "tool.registered" # "tool.materialized"
    OBVIOUS
  <2> QED BY <2>1, AnnouncedGiven, Zenon
<1> QED BY <1>1, ToolEmitting, Zenon

LEMMA SettledEmits ==
  ASSUME NEW known, IsCorrelation(known), NEW toolCallID \in STRING,
         NEW kind, kind # "", NEW at \in Nat \ {0},
         NEW latencyAttributes, LatencyOK(latencyAttributes),
         Settled(known, toolCallID, kind, at, latencyAttributes)
  PROVE  Emits
<1>1. PICK outcome \in {"succeeded", "failed", "canceled"}, error \in SettledErrors,
           classification \in Classes, retryable \in BOOLEAN :
        LET settled == IF outcome = "succeeded" THEN NoError
                       ELSE SettledError(outcome, error, classification, retryable)
            status  == CASE outcome = "succeeded" -> "ok"
                         [] outcome = "failed" -> "error" [] OTHER -> "canceled"
        IN  /\ CallID(known, toolCallID) # ""
            /\ ToolEvent(known, toolCallID, "tool.settled", status, at, kind, outcome,
                 Over(IF settled = NoError THEN NoAttributes
                      ELSE ErrorAttributes(settled, outcome = "canceled"),
                      latencyAttributes), settled)
  BY Zenon DEF Settled
<1> DEFINE settled == IF outcome = "succeeded" THEN NoError
                      ELSE SettledError(outcome, error, classification, retryable)
           status == CASE outcome = "succeeded" -> "ok"
                       [] outcome = "failed" -> "error" [] OTHER -> "canceled"
<1>2. CallID(known, toolCallID) # ""
  BY <1>1, Zenon
<1>3. ToolEvent(known, toolCallID, "tool.settled", status, at, kind, outcome,
        Over(IF settled = NoError THEN NoAttributes
             ELSE ErrorAttributes(settled, outcome = "canceled"),
             latencyAttributes), settled)
  BY <1>1, Zenon
<1>4. SettlesTo(outcome, error, classification, retryable, settled, status)
  BY Zenon DEF SettlesTo
<1> HIDE DEF settled, status
<1>5. ToolEventGiven("tool.settled", status, at, kind, outcome,
        Over(IF settled = NoError THEN NoAttributes
             ELSE ErrorAttributes(settled, outcome = "canceled"),
             latencyAttributes), settled, CallID(known, toolCallID))
  BY <1>2, <1>4, SettledGiven, Zenon
<1> QED BY <1>3, <1>5, ToolEmitting, Zenon

LEMMA ContextFits ==
  ASSUME NEW c, IsCorrelation(contexts[c]), NEW given \in Correlations
  PROVE  IsCorrelation(FromContext(c, given))
BY GivenOK, MergeOK DEF FromContext

LEMMA LatenciesOK ==
  /\ \A latency \in Int :
       LatencyOK(Only("tool.latency.ms", Int64(Max({latency, 0}))))
  /\ LatencyOK(NoAttributes)
<1>1. ASSUME NEW latency \in Int
      PROVE  LatencyOK(Only("tool.latency.ms", Int64(Max({latency, 0}))))
  <2>1. Max({latency, 0}) \in Nat
    BY MaxNat
  <2> QED BY <2>1, Int64OK, AtOnly DEF LatencyOK
<1>2. LatencyOK(NoAttributes)
  BY NoneOK, NoneEmpty DEF LatencyOK
<1> QED BY <1>1, <1>2

LEMMA ToolEventsEmit ==
  ASSUME NEW c, IsCorrelation(contexts[c]), NEW given \in Correlations,
         NEW at \in Times, ToolEvents(c, given, at)
  PROVE  Emits
<1>1. PICK id \in ToolCallIDs :
        \/ ToolRegistered(c, given, id, at)
        \/ ToolMaterialized(c, given, id, at)
        \/ \E known \in BOOLEAN, latency \in Latencies :
             ToolSettled(c, given, id, at, known, latency)
        \/ \E agui \in AGUIIDs :
             \/ AGUIToolMaterialized(c, given, agui[1], agui[2], id, at)
             \/ AGUIToolSettled(c, given, agui[1], agui[2], id, at)
  BY Zenon DEF ToolEvents
<1>2. id \in STRING /\ at \in Nat \ {0} /\ IsCorrelation(given)
  BY GivenOK
<1>3. IsCorrelation(FromContext(c, given))
  BY ContextFits
<1>4. "unknown" # "" /\ "server" # "" /\ "client_proposed" # ""
  OBVIOUS
<1>5. \A agui \in AGUIIDs : IsCorrelation(AGUICorrelation(c, given, agui[1], agui[2]))
  BY <1>2, GivenOK, AGUIOK
<1>6. CASE ToolRegistered(c, given, id, at)
  BY <1>2, <1>3, <1>6, RegisteredEmits, Zenon DEF ToolRegistered
<1>7. CASE ToolMaterialized(c, given, id, at)
  BY <1>2, <1>3, <1>4, <1>7, MaterializedEmits, Zenon DEF ToolMaterialized
<1>8. ASSUME NEW known \in BOOLEAN, NEW latency \in Latencies,
             ToolSettled(c, given, id, at, known, latency)
      PROVE  Emits
  <2> DEFINE attrs == IF known THEN Only("tool.latency.ms", Int64(Max({latency, 0})))
                      ELSE NoAttributes
  <2>1. Settled(FromContext(c, given), id, "server", at, attrs)
    BY <1>8, Zenon DEF ToolSettled
  <2>2. LatencyOK(attrs)
    BY LatenciesOK, GivenOK
  <2> HIDE DEF attrs
  <2> QED BY <1>2, <1>3, <1>4, <2>1, <2>2, SettledEmits, Zenon
<1>9. ASSUME NEW agui \in AGUIIDs,
             AGUIToolMaterialized(c, given, agui[1], agui[2], id, at)
      PROVE  Emits
  BY <1>2, <1>4, <1>5, <1>9, MaterializedEmits, Zenon DEF AGUIToolMaterialized
<1>10. ASSUME NEW agui \in AGUIIDs,
              AGUIToolSettled(c, given, agui[1], agui[2], id, at)
       PROVE  Emits
  <2>1. Settled(AGUICorrelation(c, given, agui[1], agui[2]), id, "client_proposed", at,
                NoAttributes)
    BY <1>10, Zenon DEF AGUIToolSettled
  <2> QED BY <1>2, <1>4, <1>5, <2>1, LatenciesOK, SettledEmits, Zenon
<1> QED BY <1>1, <1>6, <1>7, <1>8, <1>9, <1>10, Zenon

LEMMA EventEmits ==
  ASSUME NEW corr, NEW name, NEW status, NEW at, NEW attrs, NEW error,
         EmitEvent(corr, name, status, at, attrs, error),
         EventSound(name, status, at, attrs, error),
         EventSchema(name, status, attrs, error),
         "tool.call_id" \notin DOMAIN attrs, name # "tool.settled"
  PROVE  Emits
<1> DEFINE o == Emitted(corr, name, status, at, attrs, error)
<1>1. EventFits(o, corr, attrs)
  BY EventMade, Zenon DEF Emitted
<1>2. /\ o.kind = name /\ o.status = status /\ o.error = error
      /\ o.attrs = Over(attrs, BaseAttributes(corr))
  BY DEF Emitted, EventObservation, Observation
<1>3. HasOneCallID(o)
  <2>1. "tool.call_id" \notin Propagated
    BY DEF Propagated
  <2>2. "tool.call_id" \notin DOMAIN BaseAttributes(corr)
    BY <2>1, BaseKeys, Zenon
  <2>3. "tool.call_id" \notin DOMAIN o.attrs
    BY <1>2, <2>2, AtOver, Zenon
  <2> QED BY <2>3, Zenon DEF HasOneCallID
<1> HIDE DEF o
<1>4. WellFormed(o)
  BY <1>1, <1>2, <1>3, OneCallWellFormed, Zenon
<1> QED BY <1>4, Emitting, Zenon DEF o

LEMMA PlainAttributes ==
  ASSUME NEW name \in EventNames, NEW at \in Nat \ {0},
         NEW attrs, AttributesOK(attrs),
         \A key \in DOMAIN attrs : /\ key \notin Propagated /\ key \notin ErrorKeys
                                   /\ key \notin DOMAIN MetricOf
  PROVE  EventSound(name, "ok", at, attrs, NoError)
<1> DEFINE o == [kind |-> name, attrs |-> attrs, error |-> NoError]
<1>1. o.error = NoError /\ o.attrs = attrs
  OBVIOUS
<1> HIDE DEF o
<1>2. ErrorStated(o, "ok" = "canceled")
  BY <1>1, NoErrorStated, Zenon
<1> QED BY <1>2, NamesApart, Zenon DEF EventSound, o

LEMMA LifecycleEmits ==
  ASSUME NEW c, NEW given, NEW name \in {"compaction", "interrupt", "resume"},
         NEW at \in Nat \ {0}, LifecycleEvent(c, given, name, at)
  PROVE  Emits
<1> DEFINE more == CASE name = "interrupt" -> Only("interrupt.status", Text("interrupted"))
                     [] name = "resume" -> Only("resume.status", Text("resumed"))
                     [] OTHER -> NoAttributes
           attrs == Over(Only(ReasonKey[name], Text(name)), more)
<1>1. EmitEvent(FromContext(c, given), name, "ok", at, attrs, NoError)
  BY Zenon DEF LifecycleEvent
<1>2. AttributesOK(more) /\ DOMAIN more \subseteq {"interrupt.status", "resume.status"}
  <2>1. CASE name = "interrupt"
    <3>1. more = Only("interrupt.status", Text("interrupted"))
      BY <2>1
    <3>2. "interrupted" # ""
      OBVIOUS
    <3> HIDE DEF more
    <3>3. AttributesOK(more)
      BY <3>1, <3>2, TextOK, Zenon
    <3>4. DOMAIN more = {"interrupt.status"}
      BY <3>1, AtOnly, Zenon
    <3> QED BY <3>3, <3>4
  <2>2. CASE name = "resume"
    <3>1. more = Only("resume.status", Text("resumed"))
      BY <2>2
    <3>2. "resumed" # ""
      OBVIOUS
    <3> HIDE DEF more
    <3>3. AttributesOK(more)
      BY <3>1, <3>2, TextOK, Zenon
    <3>4. DOMAIN more = {"resume.status"}
      BY <3>1, AtOnly, Zenon
    <3> QED BY <3>3, <3>4
  <2>3. CASE name = "compaction"
    BY <2>3, NoneOK, NoneEmpty
  <2> QED BY <2>1, <2>2, <2>3
<1>3. name # "" /\ name \in EventNames /\ name # "tool.settled"
  BY DEF EventNames, LifecycleEvents
<1>4. ReasonKey[name] \in {"compaction.reason", "interrupt.reason", "resume.reason"}
  BY DEF ReasonKey
<1> HIDE DEF more
<1>5. Adds(attrs, ReasonKey[name], Text(name), more)
  BY OverOnly, Zenon
<1>6. AttributesOK(attrs)
  BY <1>2, <1>3, TextOK, OverOK
<1> HIDE DEF attrs
<1>7. \A key \in DOMAIN attrs :
        key \in {"compaction.reason", "interrupt.reason", "resume.reason",
                 "interrupt.status", "resume.status"}
  BY <1>2, <1>4, <1>5 DEF Adds
<1>8. \A key \in {"compaction.reason", "interrupt.reason", "resume.reason",
                  "interrupt.status", "resume.status"} :
        /\ key \notin Propagated /\ key \notin ErrorKeys
        /\ key \notin DOMAIN MetricOf /\ key # "tool.call_id"
  BY MetricKeys DEF Propagated, ErrorKeys
<1>9. EventSound(name, "ok", at, attrs, NoError)
  BY <1>3, <1>6, <1>7, <1>8, PlainAttributes, Zenon
<1>10. EventSchema(name, "ok", attrs, NoError)
  <2>1. ReasonKey[name] \in DOMAIN attrs /\ attrs[ReasonKey[name]] = Text(name)
    BY <1>5 DEF Adds
  <2>2. HasText(attrs, {ReasonKey[name]})
    BY <2>1, PairsOK DEF HasText, HasTyped
  <2>3. EventAttributesComplete([name |-> name, attrs |-> attrs])
    BY <2>2 DEF EventAttributesComplete
  <2> QED BY <2>3 DEF EventSchema, ErrorEvents
<1> QED BY <1>1, <1>3, <1>7, <1>8, <1>9, <1>10, EventEmits, Zenon

LEMMA RetryEmits ==
  ASSUME NEW c, NEW given, NEW attempt \in Int, NEW classification,
         NEW at \in Nat \ {0}, Retry(c, given, attempt, classification, at)
  PROVE  Emits
<1> DEFINE class == TextAttribute("error.classification", classification)
           reason == FirstNonEmpty(classification, "retry")
           some == Over(Only("retry.reason", Text(reason)), class)
           attrs == Over(Only("retry.attempt", Int64(attempt)), some)
<1>1. EmitEvent(FromContext(c, given), "retry", "ok", at, attrs, NoError)
  BY Zenon DEF Retry
<1>2. AttributesOK(class) /\ DOMAIN class \subseteq {"error.classification"}
  BY TextAttributeOK, TextKeys
<1>3. reason # ""
  BY DEF FirstNonEmpty
<1>4. "retry" \in EventNames /\ "retry" # "tool.settled"
  BY DEF EventNames, LifecycleEvents
<1> HIDE DEF class, reason
<1>5. Adds(some, "retry.reason", Text(reason), class)
  BY OverOnly, Zenon
<1>6. AttributesOK(some)
  BY <1>2, <1>3, TextOK, OverOK, Zenon
<1> HIDE DEF some
<1>7. Adds(attrs, "retry.attempt", Int64(attempt), some)
  BY OverOnly, Zenon
<1>8. AttributesOK(attrs)
  <2>1. AttributesOK(Only("retry.attempt", Int64(attempt)))
    <3>1. "retry.attempt" \in GivenNumbers
      BY DEF GivenNumbers
    <3> QED BY <3>1, GivenNumberOK, Zenon
  <2> QED BY <1>6, <2>1, OverOK, Zenon
<1> HIDE DEF attrs
<1>9. \A key \in DOMAIN attrs :
        key \in {"retry.attempt", "retry.reason", "error.classification"}
  BY <1>2, <1>5, <1>7 DEF Adds
<1>10. /\ \A key \in {"retry.attempt", "retry.reason", "error.classification"} :
            /\ key \notin Propagated /\ key \notin DOMAIN MetricOf /\ key # "tool.call_id"
       /\ "retry.attempt" \notin ErrorKeys /\ "retry.reason" \notin ErrorKeys
  BY MetricKeys DEF Propagated, ErrorKeys
<1>11. ErrorStated([kind |-> "retry", attrs |-> attrs, error |-> NoError],
                   "ok" = "canceled")
  <2> DEFINE o == [kind |-> "retry", attrs |-> attrs, error |-> NoError]
  <2>1. o.error = NoError /\ o.attrs = attrs /\ o.kind = "retry"
    OBVIOUS
  <2>2. \A key \in DOMAIN Part(attrs, ErrorKeys) : key = "error.classification"
    BY <1>9, <1>10, AtPart
  <2>3. DOMAIN Part(attrs, ErrorKeys) # {} =>
          DOMAIN Part(attrs, ErrorKeys) = {"error.classification"}
    BY <2>2
  <2> HIDE DEF o
  <2>4. ErrorStated(o, "ok" = "canceled")
    BY <2>1, <2>3, Zenon DEF ErrorStated
  <2> QED BY <2>4 DEF o
<1>12. EventSound("retry", "ok", at, attrs, NoError)
  BY <1>4, <1>8, <1>9, <1>10, <1>11, NamesApart, Zenon DEF EventSound
<1>13. EventSchema("retry", "ok", attrs, NoError)
  <2>1. /\ "retry.attempt" \in DOMAIN attrs /\ attrs["retry.attempt"] = Int64(attempt)
        /\ "retry.reason" \in DOMAIN attrs /\ attrs["retry.reason"] = Text(reason)
    BY <1>5, <1>7 DEF Adds
  <2>2. HasInt64(attrs, {"retry.attempt"}) /\ HasText(attrs, {"retry.reason"})
    BY <2>1, PairsOK DEF HasText, HasInt64, HasTyped
  <2>3. "retry" \notin DOMAIN ReasonKey
    BY DEF ReasonKey
  <2>4. EventAttributesComplete([name |-> "retry", attrs |-> attrs])
    BY <2>2, <2>3 DEF EventAttributesComplete
  <2> QED BY <2>4 DEF EventSchema, ErrorEvents
<1> QED BY <1>1, <1>4, <1>9, <1>10, <1>12, <1>13, EventEmits, Zenon

LEMMA CancellationEmits ==
  ASSUME NEW c, NEW given, NEW operation, NEW classification,
         NEW at \in Nat \ {0}, Cancellation(c, given, operation, classification, at)
  PROVE  Emits
<1> DEFINE class == FirstNonEmpty(classification, "canceled")
           error == TerminalError(FirstNonEmpty(operation, "lifecycle"), class, FALSE)
           attrs == Over(Only("cancellation.reason", Text(error.classification)),
                         ErrorAttributes(error, TRUE))
<1>1. error.classification = class
  BY DEF TerminalError
<1>2. EmitEvent(FromContext(c, given), "cancellation", "canceled", at, attrs, error)
  BY <1>1, Zenon DEF Cancellation
<1>3. SoundError(error, TRUE)
  BY DEF SoundError, TerminalError, FirstNonEmpty
<1> HIDE DEF error
<1>4. EventSound("cancellation", "canceled", at, attrs, error)
      /\ EventSchema("cancellation", "canceled", attrs, error)
  BY <1>3, CancellationSound, Zenon
<1>5. "tool.call_id" \notin DOMAIN attrs /\ "cancellation" # "tool.settled"
  <2>1. "tool.call_id" \notin ErrorKeys /\ "tool.call_id" # "cancellation.reason"
    BY DEF ErrorKeys
  <2>2. "tool.call_id" \notin DOMAIN ErrorAttributes(error, TRUE)
    BY <2>1, ErrorKeysOnly
  <2>3. "tool.call_id" \notin DOMAIN attrs
    BY <2>1, <2>2, OverOnly DEF Adds
  <2>4. "cancellation" # "tool.settled"
    OBVIOUS
  <2> QED BY <2>3, <2>4
<1> HIDE DEF attrs
<1> QED BY <1>2, <1>4, <1>5, EventEmits, Zenon

LEMMA NormalizedSound ==
  ASSUME NEW operation, NEW classification, operation # "", classification # "",
         NEW cause \in Causes, NEW retryable \in BOOLEAN, NEW dropped \in BOOLEAN
  PROVE  SoundError(Normalized(operation, classification, cause, retryable, dropped),
                    FALSE)
<1>1. CASE cause.observation
  <2>1. cause.retryable \in BOOLEAN /\ cause.dropped \in BOOLEAN
    BY <1>1, ConstantsAssumption
  <2> QED BY <1>1, <2>1 DEF SoundError, Normalized, FirstNonEmpty
<1>2. CASE ~cause.observation
  BY <1>2 DEF SoundError, Normalized
<1> QED BY <1>1, <1>2

LEMMA ReportEmits ==
  ASSUME NEW c, NEW given, NEW operation, NEW classification, NEW cause \in Causes,
         NEW retryable \in BOOLEAN, NEW dropped \in BOOLEAN, NEW at \in Nat \ {0},
         ReportError(c, given, operation, classification, cause, retryable, dropped, at)
  PROVE  Emits
<1> DEFINE error == Normalized(FirstNonEmpty(operation, "lifecycle"),
                               FirstNonEmpty(classification, "error"),
                               cause, retryable, dropped)
           attrs == ErrorAttributes(error, FALSE)
<1>1. EmitEvent(FromContext(c, given), "error", "error", at, attrs, error)
  BY Zenon DEF ReportError
<1>2. SoundError(error, FALSE)
  <2>1. FirstNonEmpty(operation, "lifecycle") # "" /\ FirstNonEmpty(classification, "error") # ""
    BY DEF FirstNonEmpty
  <2> QED BY <2>1, NormalizedSound, Zenon
<1> HIDE DEF error
<1>3. AttributesOK(attrs) /\ DOMAIN attrs \subseteq ErrorKeys
  BY <1>2, SoundErrorOK, ErrorKeysOnly
<1>4. /\ "error" \in EventNames /\ "error" # "tool.settled" /\ "error" # "canceled"
      /\ "tool.call_id" \notin ErrorKeys /\ FALSE \in BOOLEAN
  BY DEF EventNames, ErrorEvents, ErrorKeys
<1>5. Part(attrs, ErrorKeys) = ErrorAttributes(error, FALSE)
  <2>1. IsMap(attrs)
    BY OverIsMap DEF ErrorAttributes
  <2> QED BY <1>3, <2>1, PartAll
<1>6. \A key \in DOMAIN attrs : key \notin Propagated /\ key \notin DOMAIN MetricOf
  BY <1>3, KeysApart
<1>7. FALSE <=> "error" = "canceled"
  BY <1>4
<1>8. EventSound("error", "error", at, attrs, error)
  BY <1>2, <1>3, <1>4, <1>5, <1>6, <1>7, SoundWithError, NamesApart, Zenon
<1>9. EventSchema("error", "error", attrs, error)
  <2>1. error # NoError
    BY <1>2, SoundIsError, Zenon
  <2>2. EventAttributesComplete([name |-> "error", attrs |-> attrs])
    BY DEF EventAttributesComplete, ReasonKey
  <2> QED BY <2>1, <2>2 DEF EventSchema
<1>10. "tool.call_id" \notin DOMAIN attrs
  BY <1>3, <1>4
<1> HIDE DEF attrs
<1> QED BY <1>1, <1>4, <1>8, <1>9, <1>10, EventEmits, Zenon

LEMMA OtherEventsEmit ==
  ASSUME NEW c, NEW given, NEW at \in Times, OtherEvents(c, given, at)
  PROVE  Emits
<1>1. at \in Nat \ {0}
  BY GivenOK
<1>2. ASSUME NEW name \in {"compaction", "interrupt", "resume"},
             LifecycleEvent(c, given, name, at)
      PROVE  Emits
  BY <1>1, <1>2, LifecycleEmits, Zenon
<1>3. ASSUME NEW attempt \in Indexes, NEW class \in Classes,
             Retry(c, given, attempt, class, at)
      PROVE  Emits
  BY <1>1, <1>3, GivenOK, RetryEmits, Zenon
<1>4. ASSUME NEW operation \in Operations, NEW class \in Classes,
             Cancellation(c, given, operation, class, at)
      PROVE  Emits
  BY <1>1, <1>4, CancellationEmits, Zenon
<1>5. ASSUME NEW operation \in Operations, NEW class \in Classes, NEW cause \in Causes,
             NEW retryable \in BOOLEAN, NEW dropped \in BOOLEAN,
             ReportError(c, given, operation, class, cause, retryable, dropped, at)
      PROVE  Emits
  BY <1>1, <1>5, ReportEmits, Zenon
<1> QED BY <1>2, <1>3, <1>4, <1>5, Zenon DEF OtherEvents

-----------------------------------------------------------------------------
(* What a handle starts with *)

Generations == {"model_call", "stream"}

HandleKinds == {"session", "run", "tool_call"} \cup Generations

KeysOf(kind) ==
  IF kind \in Generations THEN {"genai.provider", "genai.model"}
  ELSE IF kind = "tool_call" THEN ToolTexts ELSE {}

StartFits(kind, corr, attrs) ==
  /\ kind \in HandleKinds /\ AttributesOK(attrs)
  /\ Part(attrs, Propagated) = BaseAttributes(corr)
  /\ \A key \in DOMAIN attrs : key \in Propagated \/ key \in KeysOf(kind)
  /\ HasText(attrs, KeysOf(kind))
  /\ kind = "tool_call" =>
       /\ corr["correlation.tool_call_id"] # ""
       /\ attrs["tool.call_id"] = Text(corr["correlation.tool_call_id"])

LEMMA StartsWith ==
  ASSUME NEW kind \in HandleKinds, NEW corr, NEW own, AttributesOK(own),
         DOMAIN own \subseteq KeysOf(kind), HasText(own, KeysOf(kind)),
         kind = "tool_call" =>
           /\ corr["correlation.tool_call_id"] # ""
           /\ own["tool.call_id"] = Text(corr["correlation.tool_call_id"])
  PROVE  StartFits(kind, corr, Over(own, BaseAttributes(corr)))
<1> DEFINE attrs == Over(own, BaseAttributes(corr))
<1>1. AttributesOK(attrs)
  BY BaseOK, OverOK
<1>2. KeysOf(kind) \cap Propagated = {}
  BY DEF KeysOf, ToolTexts, Propagated
<1>3. Part(attrs, Propagated) = BaseAttributes(corr)
  <2>1. DOMAIN own \cap Propagated = {}
    BY <1>2
  <2>2. Part(attrs, Propagated) = Part(BaseAttributes(corr), Propagated)
    BY <2>1, PartOver, Zenon
  <2> QED BY <2>2, BaseKeys, Zenon
<1>4. \A key \in DOMAIN attrs : key \in Propagated \/ key \in KeysOf(kind)
  BY AtOver, BaseKeys
<1>5. \A key \in KeysOf(kind) : /\ key \in DOMAIN own /\ own[key][1] = "string"
                                /\ key \in DOMAIN attrs /\ attrs[key] = own[key]
  <2>1. \A key \in KeysOf(kind) : key \in DOMAIN own /\ own[key][1] = "string"
    BY DEF HasText, HasTyped
  <2>2. \A key \in DOMAIN own : key \in DOMAIN attrs /\ attrs[key] = own[key]
    BY OverOwn, Zenon
  <2> HIDE DEF attrs
  <2> QED BY <2>1, <2>2
<1>6. HasText(attrs, KeysOf(kind))
  BY <1>5 DEF HasText, HasTyped
<1>7. kind = "tool_call" => "tool.call_id" \in KeysOf(kind)
  BY DEF KeysOf, ToolTexts, Generations
<1> HIDE DEF attrs
<1>8. StartFits(kind, corr, attrs)
  BY <1>1, <1>3, <1>4, <1>5, <1>6, <1>7, Zenon DEF StartFits
<1> QED BY <1>8 DEF attrs

LEMMA ScopeStarts ==
  ASSUME NEW kind \in {"session", "run"}, NEW corr
  PROVE  StartFits(kind, corr, BaseAttributes(corr))
<1>1. KeysOf(kind) = {} /\ kind \in HandleKinds /\ kind # "tool_call"
  BY DEF KeysOf, HandleKinds, Generations
<1>2. \A key \in DOMAIN BaseAttributes(corr) : key \in Propagated
  BY BaseKeys
<1>3. HasText(BaseAttributes(corr), {})
  BY DEF HasText, HasTyped
<1> QED BY <1>1, <1>2, <1>3, BaseOK, BaseKeys, Zenon DEF StartFits

LEMMA ProviderSaid ==
  ASSUME NEW corr
  PROVE  LET own == ProviderAttributes(corr) IN
         /\ DOMAIN own = {"genai.provider", "genai.model"}
         /\ HasText(own, {"genai.provider", "genai.model"})
<1> DEFINE own == ProviderAttributes(corr)
           model == Only("genai.model", Text(corr.model))
<1>1. Adds(own, "genai.provider", Text(corr.provider), model)
  BY OverOnly, Zenon DEF ProviderAttributes
<1>2. DOMAIN model = {"genai.model"} /\ model["genai.model"] = Text(corr.model)
  BY AtOnly, Zenon
<1> HIDE DEF own, model
<1>3. DOMAIN own = {"genai.provider", "genai.model"}
  BY <1>1, <1>2 DEF Adds
<1>4. own["genai.provider"] = Text(corr.provider) /\ own["genai.model"] = Text(corr.model)
  BY <1>1, <1>2 DEF Adds
<1> QED BY <1>3, <1>4, PairsOK DEF HasText, HasTyped, own

LEMMA GenerationStarts ==
  ASSUME NEW kind \in Generations, NEW corr, corr.provider # "", corr.model # ""
  PROVE  StartFits(kind, corr, Over(ProviderAttributes(corr), BaseAttributes(corr)))
<1>1. /\ KeysOf(kind) = {"genai.provider", "genai.model"}
      /\ kind \in HandleKinds /\ kind # "tool_call"
  BY DEF KeysOf, HandleKinds, Generations
<1>2. DOMAIN ProviderAttributes(corr) \subseteq KeysOf(kind)
      /\ HasText(ProviderAttributes(corr), KeysOf(kind))
  BY <1>1, ProviderSaid
<1> QED BY <1>1, <1>2, ProviderOK, StartsWith, Zenon

LEMMA ToolStarts ==
  ASSUME NEW callID, callID # "", NEW corr, corr["correlation.tool_call_id"] = callID
  PROVE  StartFits("tool_call", corr,
                   Over(ToolAttributes(callID, "server", "started"), BaseAttributes(corr)))
<1> DEFINE own == ToolAttributes(callID, "server", "started")
<1>1. "server" # "" /\ "started" # ""
  OBVIOUS
<1>2. AttributesOK(own) /\ IsToolSaid(own, callID, "started")
  BY <1>1, ToolOK, ToolSaid, Zenon
<1>3. KeysOf("tool_call") = ToolTexts /\ "tool_call" \in HandleKinds
  BY DEF KeysOf, HandleKinds, Generations
<1> HIDE DEF own
<1>4. DOMAIN own \subseteq ToolTexts /\ own["tool.call_id"] = Text(callID)
  BY <1>2 DEF IsToolSaid
<1>5. HasText(own, ToolTexts)
  BY <1>2 DEF IsToolSaid, HasText, HasTyped
<1>6. StartFits("tool_call", corr, Over(own, BaseAttributes(corr)))
  BY <1>2, <1>3, <1>4, <1>5, StartsWith
<1> QED BY <1>6 DEF own

-----------------------------------------------------------------------------
(* Sequences *)

Listed(s) == s \in Seq({s[i] : i \in DOMAIN s})

LEMMA Appended ==
  ASSUME NEW s, Listed(s), NEW x
  PROVE  /\ Listed(Append(s, x))
         /\ Len(s) \in Nat /\ Len(Append(s, x)) = Len(s) + 1
         /\ DOMAIN s = 1..Len(s) /\ DOMAIN Append(s, x) = 1..(Len(s) + 1)
         /\ \A i \in DOMAIN s : Append(s, x)[i] = s[i]
         /\ Append(s, x)[Len(s) + 1] = x
<1> DEFINE S == {s[i] : i \in DOMAIN s}
           T == S \cup {x}
<1>1. s \in Seq(T) /\ x \in T
  BY DEF Listed
<1>2. /\ Append(s, x) \in Seq(T) /\ Len(s) \in Nat
      /\ DOMAIN s = 1..Len(s) /\ DOMAIN Append(s, x) = 1..(Len(s) + 1)
      /\ Len(Append(s, x)) = Len(s) + 1
      /\ \A i \in 1..Len(s) : Append(s, x)[i] = s[i]
      /\ Append(s, x)[Len(s) + 1] = x
  <2> HIDE DEF T
  <2> QED BY <1>1
<1> DEFINE t == Append(s, x)
<1>3. \A i \in 1..Len(t) : t[i] \in {t[i_1] : i_1 \in DOMAIN t}
  BY <1>2
<1>4. t \in Seq({t[i] : i \in DOMAIN t})
  <2> HIDE DEF T
  <2>1. t \in Seq(T)
    BY <1>2
  <2> DEFINE R == {t[i] : i \in DOMAIN t}
  <2>2. \A i \in 1..Len(t) : t[i] \in R
    BY <1>3
  <2> HIDE DEF R, t
  <2>3. t \in Seq(R)
    BY <2>1, <2>2
  <2> QED BY <2>3 DEF R
<1> QED BY <1>2, <1>4 DEF Listed

LEMMA EmptyListed == Listed(<<>>) /\ DOMAIN <<>> = {} /\ Len(<<>>) = 0
BY DEF Listed

-----------------------------------------------------------------------------
(* What the end of a handle adds *)

EndsWith(kind, status, error, canceled) ==
  /\ canceled \in BOOLEAN /\ (canceled <=> status = "canceled")
  /\ \/ status = "ok" /\ error = NoError
     \/ /\ status \in {"error", "canceled"} /\ SoundError(error, canceled)
        /\ error.operation = kind

ErrorSays(error, canceled) ==
  IF error = NoError THEN NoAttributes ELSE ErrorAttributes(error, canceled)

LEMMA ErrorSaysOK ==
  ASSUME NEW kind, NEW status, NEW error, NEW canceled,
         EndsWith(kind, status, error, canceled)
  PROVE  /\ AttributesOK(ErrorSays(error, canceled))
         /\ DOMAIN ErrorSays(error, canceled) \subseteq ErrorKeys
<1>1. CASE error = NoError
  <2>1. ErrorSays(error, canceled) = NoAttributes
    BY <1>1 DEF ErrorSays
  <2> QED BY <2>1, NoneOK, NoneEmpty
<1>2. CASE SoundError(error, canceled)
  <2>1. ErrorSays(error, canceled) = ErrorAttributes(error, canceled)
    BY <1>2, SoundIsError DEF ErrorSays
  <2> QED BY <1>2, <2>1, SoundErrorOK, ErrorKeysOnly
<1> QED BY <1>1, <1>2 DEF EndsWith

LEMMA SaidStated ==
  ASSUME NEW kind, NEW status, NEW o, NEW canceled, EndsWith(kind, status, o.error, canceled),
         Part(o.attrs, ErrorKeys) = Part(ErrorSays(o.error, canceled), ErrorKeys)
  PROVE  ErrorStated(o, canceled)
<1>1. CASE o.error = NoError
  <2>1. ErrorSays(o.error, canceled) = NoAttributes
    BY <1>1 DEF ErrorSays
  <2>2. DOMAIN Part(o.attrs, ErrorKeys) = {}
    BY <2>1, NoneEmpty, PartNone
  <2> QED BY <1>1, <2>2, Zenon DEF ErrorStated
<1>2. CASE SoundError(o.error, canceled)
  <2>1. ErrorSays(o.error, canceled) = ErrorAttributes(o.error, canceled)
    BY <1>2, SoundIsError DEF ErrorSays
  <2>2. IsMap(ErrorAttributes(o.error, canceled))
    BY OverIsMap, Zenon DEF ErrorAttributes
  <2>3. Part(ErrorAttributes(o.error, canceled), ErrorKeys) = ErrorAttributes(o.error, canceled)
    BY <2>2, ErrorKeysOnly, PartAll, Zenon
  <2> QED BY <1>2, <2>1, <2>3, Zenon DEF ErrorStated
<1> QED BY <1>1, <1>2, Zenon DEF EndsWith

(* The attributes of an error over others that have nothing to do with it. *)
AddsError(all, error, canceled, rest) ==
  /\ AttributesOK(all)
  /\ Part(all, ErrorKeys) = Part(ErrorSays(error, canceled), ErrorKeys)
  /\ \A key \in DOMAIN all : key \in ErrorKeys \/ key \in DOMAIN rest
  /\ \A key : key \notin ErrorKeys =>
       /\ key \in DOMAIN all <=> key \in DOMAIN rest
       /\ key \in DOMAIN rest => all[key] = rest[key]

LEMMA ErrorOver ==
  ASSUME NEW kind, NEW status, NEW error, NEW canceled, EndsWith(kind, status, error, canceled),
         NEW rest, AttributesOK(rest), \A key \in DOMAIN rest : key \notin ErrorKeys
  PROVE  AddsError(Over(ErrorSays(error, canceled), rest), error, canceled, rest)
<1> DEFINE said == ErrorSays(error, canceled)
           all == Over(said, rest)
<1>1. AttributesOK(said) /\ DOMAIN said \subseteq ErrorKeys
  BY ErrorSaysOK, Zenon
<1> HIDE DEF said
<1>2. AttributesOK(all)
  BY <1>1, OverOK, Zenon
<1>3. Part(all, ErrorKeys) = Part(said, ErrorKeys)
  <2>1. DOMAIN rest \cap ErrorKeys = {}
    OBVIOUS
  <2> QED BY <2>1, PartUnder, Zenon
<1>4. \A key : /\ key \in DOMAIN all <=> key \in DOMAIN said \/ key \in DOMAIN rest
               /\ key \in DOMAIN rest /\ key \notin DOMAIN said => all[key] = rest[key]
  BY AtOver
<1> HIDE DEF all
<1>5. \A key \in DOMAIN all : key \in ErrorKeys \/ key \in DOMAIN rest
  BY <1>1, <1>4
<1>6. \A key : key \notin ErrorKeys => /\ key \in DOMAIN all <=> key \in DOMAIN rest
                                       /\ key \in DOMAIN rest => all[key] = rest[key]
  BY <1>1, <1>4
<1> QED BY <1>2, <1>3, <1>5, <1>6, Zenon DEF all, said, AddsError


LEMMA OnlyCount ==
  ASSUME NEW key, NEW n \in Nat
  PROVE  /\ AttributesOK(Only(key, Int64(n)))
         /\ \A k \in DOMAIN Only(key, Int64(n)) : /\ k = key
                                                 /\ Only(key, Int64(n))[k] = Int64(n)
                                                 /\ Only(key, Int64(n))[k][1] = "int64"
<1>1. AttributesOK(Only(key, Int64(n)))
  BY Int64OK, Zenon
<1>2. \A k \in DOMAIN Only(key, Int64(n)) : k = key /\ Only(key, Int64(n))[k] = Int64(n)
  BY DEF Only
<1>3. Int64(n)[1] = "int64"
  BY PairsOK
<1> QED BY <1>1, <1>2, <1>3, Zenon

(* The latency of the first token, which a handle knows or not. *)
KnownToken(handle) ==
  \/ handle.firstToken = {}
  \/ \E latency \in Nat : handle.firstToken = {latency}

TokenSaid(handle) ==
  IF handle.firstToken = {} THEN NoAttributes
  ELSE Only("genai.latency.first_token_ms",
            Int64(CHOOSE known \in handle.firstToken : TRUE))

LEMMA TokenSaidOK ==
  ASSUME NEW handle, KnownToken(handle)
  PROVE  /\ AttributesOK(TokenSaid(handle))
         /\ \A key \in DOMAIN TokenSaid(handle) : /\ key = "genai.latency.first_token_ms"
                                                  /\ TokenSaid(handle)[key][1] = "int64"
         /\ handle.firstToken = {} => "genai.latency.first_token_ms" \notin DOMAIN TokenSaid(handle)
         /\ \A latency : handle.firstToken = {latency} =>
              /\ "genai.latency.first_token_ms" \in DOMAIN TokenSaid(handle)
              /\ TokenSaid(handle)["genai.latency.first_token_ms"] = Int64(latency)
<1>1. CASE handle.firstToken = {}
  <2>1. TokenSaid(handle) = NoAttributes
    BY <1>1 DEF TokenSaid
  <2> QED BY <1>1, <2>1, NoneOK, NoneEmpty
<1>2. ASSUME NEW latency \in Nat, handle.firstToken = {latency}
      PROVE  /\ AttributesOK(TokenSaid(handle))
             /\ TokenSaid(handle) = Only("genai.latency.first_token_ms", Int64(latency))
  <2>1. (CHOOSE known \in handle.firstToken : TRUE) = latency
    BY <1>2
  <2>2. TokenSaid(handle) = Only("genai.latency.first_token_ms", Int64(latency))
    BY <1>2, <2>1 DEF TokenSaid
  <2> QED BY <2>2, Int64OK
<1>3. CASE \E latency \in Nat : handle.firstToken = {latency}
  <2>1. PICK latency \in Nat : handle.firstToken = {latency}
    BY <1>3
  <2>2. /\ AttributesOK(TokenSaid(handle))
        /\ TokenSaid(handle) = Only("genai.latency.first_token_ms", Int64(latency))
    BY <1>2, <2>1
  <2>3. \A key \in DOMAIN TokenSaid(handle) : /\ key = "genai.latency.first_token_ms"
                                              /\ TokenSaid(handle)[key] = Int64(latency)
    BY <2>2, OnlyCount
  <2>4. "genai.latency.first_token_ms" \in DOMAIN TokenSaid(handle)
    BY <2>2, AtOnly
  <2> QED BY <2>1, <2>2, <2>3, <2>4, PairsOK
<1> QED BY <1>1, <1>3 DEF KnownToken

(* Counts of tokens and latencies. *)
EndCounts == UsageCounts \cup {"genai.latency.first_token_ms", "genai.latency.total_ms"}

LEMMA CountsApart ==
  /\ \A key \in EndCounts : /\ key \notin ErrorKeys /\ key \notin Propagated
                            /\ key \notin {"genai.provider", "genai.model"}
  /\ "genai.latency.first_token_ms" \notin UsageCounts
  /\ "genai.latency.first_token_ms" # "genai.latency.total_ms"
  /\ \A key \in {"tool.latency.ms", "tool.status"} :
       key \notin ErrorKeys /\ key \notin Propagated /\ key # "tool.call_id"
  /\ \A key \in {"genai.provider", "genai.model", "tool.call_id"} :
       key \notin ErrorKeys /\ key \notin Propagated
BY DEF EndCounts, UsageCounts, ErrorKeys, Propagated

LEMMA UsageSaid ==
  ASSUME NEW usage \in Usages
  PROVE  \A key \in DOMAIN UsageAttributes(usage) :
           key \in UsageCounts /\ UsageAttributes(usage)[key][1] = "int64"
BY ConstantsAssumption, PairsOK DEF UsageAttributes

(* What is known of what ends a model call or a stream. *)
GenerationEnds(final, handle, error, canceled) ==
  /\ AttributesOK(final)
  /\ Part(final, ErrorKeys) = Part(ErrorSays(error, canceled), ErrorKeys)
  /\ \A key \in DOMAIN final : key \in ErrorKeys \/ key \in EndCounts
  /\ \A key \in DOMAIN final : key \in EndCounts => final[key][1] = "int64"
  /\ handle.firstToken = {} => "genai.latency.first_token_ms" \notin DOMAIN final
  /\ \A latency : handle.firstToken = {latency} =>
       /\ "genai.latency.first_token_ms" \in DOMAIN final
       /\ final["genai.latency.first_token_ms"] = Int64(latency)

LEMMA GenerationFinal ==
  ASSUME NEW handle, handle.kind \in Generations, KnownToken(handle),
         NEW status, NEW latency \in Nat, NEW usage \in Usages,
         NEW error, NEW canceled, EndsWith(handle.kind, status, error, canceled)
  PROVE  GenerationEnds(TerminalAttributes(handle, status, latency, usage, error),
                        handle, error, canceled)
<1> DEFINE total == Only("genai.latency.total_ms", Int64(latency))
           timed == Over(TokenSaid(handle), total)
           rest == Over(UsageAttributes(usage), timed)
           final == Over(ErrorSays(error, canceled), rest)
<1>1. TerminalAttributes(handle, status, latency, usage, error) = final
  <2>1. canceled <=> status = "canceled"
    BY DEF EndsWith
  <2>2. handle.kind \notin {"session", "run"} /\ handle.kind \in {"model_call", "stream"}
    BY DEF Generations
  <2>3. ErrorAttributes(error, status = "canceled") = ErrorAttributes(error, canceled)
    <3>1. canceled = (status = "canceled")
      BY <2>1 DEF EndsWith
    <3> QED BY <3>1
  <2>4. (IF error = NoError THEN NoAttributes ELSE ErrorAttributes(error, status = "canceled"))
          = ErrorSays(error, canceled)
    BY <2>3 DEF ErrorSays
  <2> QED BY <2>2, <2>4 DEF TerminalAttributes, TokenSaid
<1>2. AttributesOK(total) /\ \A key \in DOMAIN total : key = "genai.latency.total_ms"
                                                       /\ total[key][1] = "int64"
  BY OnlyCount, Zenon
<1> HIDE DEF total
<1>3. AttributesOK(timed)
  BY <1>2, TokenSaidOK, OverOK, Zenon
<1>4. \A key : /\ key \in DOMAIN timed <=> key \in DOMAIN TokenSaid(handle) \/ key \in DOMAIN total
               /\ key \in DOMAIN TokenSaid(handle) => timed[key] = TokenSaid(handle)[key]
               /\ key \in DOMAIN total /\ key \notin DOMAIN TokenSaid(handle)
                    => timed[key] = total[key]
  BY AtOver
<1> HIDE DEF timed
<1>5. \A key \in DOMAIN timed : /\ key \in {"genai.latency.first_token_ms", "genai.latency.total_ms"}
                                /\ timed[key][1] = "int64"
  BY <1>2, <1>4, TokenSaidOK
<1>6. AttributesOK(rest)
  BY <1>3, UsageOK, OverOK, Zenon
<1>7. \A key : /\ key \in DOMAIN rest <=> key \in DOMAIN UsageAttributes(usage) \/ key \in DOMAIN timed
               /\ key \in DOMAIN UsageAttributes(usage) => rest[key] = UsageAttributes(usage)[key]
               /\ key \in DOMAIN timed /\ key \notin DOMAIN UsageAttributes(usage)
                    => rest[key] = timed[key]
  BY AtOver
<1> HIDE DEF rest
<1>8. \A key \in DOMAIN rest : key \in EndCounts /\ rest[key][1] = "int64"
  BY <1>5, <1>7, UsageSaid DEF EndCounts
<1>9. /\ handle.firstToken = {} => "genai.latency.first_token_ms" \notin DOMAIN rest
      /\ \A known : handle.firstToken = {known} =>
           /\ "genai.latency.first_token_ms" \in DOMAIN rest
           /\ rest["genai.latency.first_token_ms"] = Int64(known)
  <2>1. /\ "genai.latency.first_token_ms" \notin DOMAIN UsageAttributes(usage)
        /\ "genai.latency.first_token_ms" \notin DOMAIN total
    BY <1>2, UsageSaid, CountsApart
  <2> QED BY <1>4, <1>7, <2>1, TokenSaidOK
<1>10. \A key \in DOMAIN rest : key \notin ErrorKeys
  BY <1>8, CountsApart
<1>11. AddsError(final, error, canceled, rest)
  BY <1>6, <1>10, ErrorOver, Zenon
<1>12. \A key \in DOMAIN final : key \in EndCounts => final[key][1] = "int64"
  BY <1>8, <1>11, CountsApart DEF AddsError
<1>13. \A key \in DOMAIN final : key \in ErrorKeys \/ key \in EndCounts
  BY <1>8, <1>11 DEF AddsError
<1>14. "genai.latency.first_token_ms" \notin ErrorKeys
  BY CountsApart DEF EndCounts
<1>15. /\ handle.firstToken = {} => "genai.latency.first_token_ms" \notin DOMAIN final
       /\ \A known : handle.firstToken = {known} =>
            /\ "genai.latency.first_token_ms" \in DOMAIN final
            /\ final["genai.latency.first_token_ms"] = Int64(known)
  BY <1>9, <1>11, <1>14 DEF AddsError
<1> QED BY <1>1, <1>11, <1>12, <1>13, <1>15, Zenon DEF GenerationEnds, AddsError

(* What is known of what ends a tool call. *)
ToolEnds(final, status, error, canceled) ==
  /\ AttributesOK(final)
  /\ Part(final, ErrorKeys) = Part(ErrorSays(error, canceled), ErrorKeys)
  /\ \A key \in DOMAIN final : key \in ErrorKeys \/ key \in {"tool.latency.ms", "tool.status"}
  /\ "tool.latency.ms" \in DOMAIN final /\ final["tool.latency.ms"][1] = "int64"
  /\ "tool.status" \in DOMAIN final /\ final["tool.status"] = Text(ToolOutcome(status))

LEMMA StatusAgrees ==
  ASSUME NEW kind, NEW status, NEW error, NEW canceled, EndsWith(kind, status, error, canceled)
  PROVE  (IF error = NoError THEN NoAttributes ELSE ErrorAttributes(error, status = "canceled"))
           = ErrorSays(error, canceled)
<1>1. canceled = (status = "canceled")
  BY DEF EndsWith
<1>2. ErrorAttributes(error, status = "canceled") = ErrorAttributes(error, canceled)
  BY <1>1
<1> QED BY <1>2 DEF ErrorSays

LEMMA ToolFinal ==
  ASSUME NEW handle, handle.kind = "tool_call",
         NEW status, NEW latency \in Nat, NEW usage,
         NEW error, NEW canceled, EndsWith(handle.kind, status, error, canceled)
  PROVE  ToolEnds(TerminalAttributes(handle, status, latency, usage, error),
                  status, error, canceled)
<1> DEFINE outcome == Only("tool.status", Text(ToolOutcome(status)))
           rest == Over(Only("tool.latency.ms", Int64(latency)), outcome)
           final == Over(ErrorSays(error, canceled), rest)
<1>1. TerminalAttributes(handle, status, latency, usage, error) = final
  <2>1. handle.kind \notin {"session", "run"} /\ handle.kind \notin {"model_call", "stream"}
    OBVIOUS
  <2> QED BY <2>1, StatusAgrees DEF TerminalAttributes
<1>2. ToolOutcome(status) # ""
  BY DEF ToolOutcome
<1>3. AttributesOK(outcome) /\ DOMAIN outcome = {"tool.status"}
      /\ outcome["tool.status"] = Text(ToolOutcome(status))
  BY <1>2, TextOK, AtOnly, Zenon
<1> HIDE DEF outcome
<1>4. Adds(rest, "tool.latency.ms", Int64(latency), outcome)
  BY OverOnly, Zenon
<1>5. AttributesOK(rest)
  BY <1>3, OnlyCount, OverOK, Zenon
<1> HIDE DEF rest
<1>6. /\ \A key \in DOMAIN rest : key \in {"tool.latency.ms", "tool.status"}
      /\ "tool.latency.ms" \in DOMAIN rest /\ rest["tool.latency.ms"] = Int64(latency)
      /\ "tool.status" \in DOMAIN rest /\ rest["tool.status"] = Text(ToolOutcome(status))
  BY <1>3, <1>4 DEF Adds
<1>7. \A key \in DOMAIN rest : key \notin ErrorKeys
  BY <1>6, CountsApart
<1>8. AddsError(final, error, canceled, rest)
  BY <1>5, <1>7, ErrorOver, Zenon
<1> HIDE DEF final
<1>9. \A key \in DOMAIN final : key \in ErrorKeys \/ key \in {"tool.latency.ms", "tool.status"}
  BY <1>6, <1>8 DEF AddsError
<1>10. /\ "tool.latency.ms" \in DOMAIN final /\ final["tool.latency.ms"][1] = "int64"
       /\ "tool.status" \in DOMAIN final /\ final["tool.status"] = Text(ToolOutcome(status))
  BY <1>6, <1>7, <1>8, PairsOK DEF AddsError
<1> QED BY <1>1, <1>8, <1>9, <1>10, Zenon DEF ToolEnds, AddsError

-----------------------------------------------------------------------------
(* The attributes of a finished handle: what ends it over what it began with *)

Covers(attrs, final, before) ==
  /\ \A key \in DOMAIN final : key \in DOMAIN attrs /\ attrs[key] = final[key]
  /\ \A key : key \notin DOMAIN final =>
       /\ key \in DOMAIN attrs <=> key \in DOMAIN before
       /\ key \in DOMAIN before => attrs[key] = before[key]

LEMMA OverCovers ==
  ASSUME NEW f, NEW g PROVE Covers(Over(f, g), f, g)
BY DEF Over, Covers

LEMMA KindKeys ==
  /\ \A kind \in HandleKinds : \A key \in KeysOf(kind) :
       key \notin ErrorKeys /\ key \notin Propagated /\ key \notin EndCounts
  /\ \A kind \in Generations : kind \in HandleKinds /\ kind # "tool_call"
                               /\ KeysOf(kind) = {"genai.provider", "genai.model"}
  /\ KeysOf("tool_call") = ToolTexts
  /\ KeysOf("session") = {} /\ KeysOf("run") = {}
  /\ "tool.latency.ms" \notin ToolTexts
BY DEF HandleKinds, Generations, KeysOf, ToolTexts, ErrorKeys, Propagated, EndCounts,
       UsageCounts

LEMMA CorrelationStays ==
  ASSUME NEW kind, NEW corr, NEW before, StartFits(kind, corr, before),
         NEW final, \A key \in DOMAIN final : key \notin Propagated
  PROVE  Part(Over(final, before), Propagated) = BaseAttributes(corr)
<1>1. DOMAIN final \cap Propagated = {}
  OBVIOUS
<1>2. Part(Over(final, before), Propagated) = Part(before, Propagated)
  BY <1>1, PartOver, Zenon
<1> QED BY <1>2, Zenon DEF StartFits

LEMMA ErrorsStay ==
  ASSUME NEW kind, NEW corr, NEW before, StartFits(kind, corr, before), NEW final
  PROVE  Part(Over(final, before), ErrorKeys) = Part(final, ErrorKeys)
<1>1. \A key \in DOMAIN before : key \notin ErrorKeys
  BY KindKeys, KeysApart DEF StartFits
<1>2. DOMAIN before \cap ErrorKeys = {}
  BY <1>1
<1> QED BY <1>2, PartUnder, Zenon

(* What is known of the attributes of a finished handle. *)
EndFits(o, corr, canceled) ==
  /\ AttributesOK(o.attrs)
  /\ CorrelationOf(o) = BaseAttributes(corr)
  /\ ErrorStated(o, canceled)
  /\ HasOneCallID(o)
  /\ SpanAttributesComplete(ToSpan(o))
  /\ ToolSpanComplaints(ToSpan(o)) = {}

LEMMA ScopeFits ==
  ASSUME NEW o, NEW corr, NEW status, NEW canceled, o.kind \in {"session", "run"},
         StartFits(o.kind, corr, o.attrs), EndsWith(o.kind, status, o.error, canceled)
  PROVE  EndFits(o, corr, canceled)
<1>1. \A key \in DOMAIN o.attrs : key \in Propagated
  BY KindKeys DEF StartFits
<1>2. AttributesOK(o.attrs) /\ CorrelationOf(o) = BaseAttributes(corr)
  BY DEF StartFits, CorrelationOf
<1>3. DOMAIN Part(o.attrs, ErrorKeys) = {}
  BY <1>1, KeysApart, AtPart
<1>4. ErrorStated(o, canceled)
  BY <1>3, Zenon DEF ErrorStated, EndsWith
<1>5. HasOneCallID(o)
  BY <1>1 DEF HasOneCallID, Propagated
<1>6. SpanAttributesComplete(ToSpan(o))
  BY DEF SpanAttributesComplete, ToSpan
<1>7. ToolSpanComplaints(ToSpan(o)) = {}
  BY DEF ToolSpanComplaints, ToSpan
<1> QED BY <1>2, <1>4, <1>5, <1>6, <1>7, Zenon DEF EndFits

LEMMA SpanParts ==
  ASSUME NEW o
  PROVE  LET span == ToSpan(o) IN
         /\ span.id = o.id /\ span.parent = o.parent /\ span.trace = o.trace
         /\ span.kind = o.kind /\ span.status = o.status /\ span.start = o.start
         /\ span.end = o.end /\ span.attrs = o.attrs /\ span.error = ToModelError(o)
         /\ span.events = [i \in DOMAIN o.events |-> ToEvent(o.events[i])]
BY DEF ToSpan

LEMMA GenerationFits ==
  ASSUME NEW handle, handle.kind \in Generations,
         StartFits(handle.kind, handle.corr, handle.attrs),
         NEW status, NEW canceled, NEW o, EndsWith(handle.kind, status, o.error, canceled),
         NEW final, GenerationEnds(final, handle, o.error, canceled),
         o.kind = handle.kind, o.attrs = Over(final, handle.attrs)
  PROVE  EndFits(o, handle.corr, canceled)
<1>1. Covers(o.attrs, final, handle.attrs)
  BY OverCovers
<1>2. \A key \in DOMAIN final :
        key \notin Propagated /\ key \notin {"genai.provider", "genai.model"}
  BY CountsApart, KeysApart DEF GenerationEnds, ErrorKeys
<1>3. AttributesOK(o.attrs)
  <2>1. AttributesOK(final) /\ AttributesOK(handle.attrs)
    BY Zenon DEF GenerationEnds, StartFits
  <2> QED BY <2>1, OverOK, Zenon
<1>4. CorrelationOf(o) = BaseAttributes(handle.corr)
  BY <1>2, CorrelationStays DEF CorrelationOf
<1>5. Part(o.attrs, ErrorKeys) = Part(ErrorSays(o.error, canceled), ErrorKeys)
  <2>1. Part(Over(final, handle.attrs), ErrorKeys) = Part(final, ErrorKeys)
    BY ErrorsStay
  <2>2. Part(final, ErrorKeys) = Part(ErrorSays(o.error, canceled), ErrorKeys)
    BY Zenon DEF GenerationEnds
  <2> QED BY <2>1, <2>2, Zenon
<1>6. ErrorStated(o, canceled)
  BY <1>5, SaidStated, Zenon
<1>7. KeysOf(o.kind) = {"genai.provider", "genai.model"} /\ o.kind # "tool_call"
  BY KindKeys
<1>8. HasOneCallID(o)
  <2>1. /\ "tool.call_id" \notin ErrorKeys /\ "tool.call_id" \notin EndCounts
        /\ "tool.call_id" \notin Propagated /\ "tool.call_id" \notin {"genai.provider", "genai.model"}
    BY DEF ErrorKeys, EndCounts, UsageCounts, Propagated
  <2>2. "tool.call_id" \notin DOMAIN final
    BY <2>1 DEF GenerationEnds
  <2>3. "tool.call_id" \notin DOMAIN handle.attrs
    BY <1>7, <2>1 DEF StartFits
  <2>4. "tool.call_id" \notin DOMAIN o.attrs
    BY <1>1, <2>2, <2>3, Zenon DEF Covers
  <2> QED BY <2>4, Zenon DEF HasOneCallID
<1>9. HasText(o.attrs, {"genai.provider", "genai.model"})
  <2>1. \A key \in {"genai.provider", "genai.model"} :
          key \in DOMAIN handle.attrs /\ handle.attrs[key][1] = "string"
    BY <1>7 DEF StartFits, HasText, HasTyped
  <2> QED BY <1>1, <1>2, <2>1 DEF Covers, HasText, HasTyped
<1>10. OptionalInt64(o.attrs, ModelCounters)
  <2>1. \A key \in ModelCounters : /\ key \notin ErrorKeys /\ key \notin Propagated
                                   /\ key \notin {"genai.provider", "genai.model"}
    BY DEF ModelCounters, ErrorKeys, Propagated
  <2>2. \A key \in ModelCounters : key \notin DOMAIN handle.attrs
    BY <1>7, <2>1 DEF StartFits
  <2>3. \A key \in DOMAIN o.attrs : key \in ModelCounters =>
          key \in DOMAIN final /\ o.attrs[key] = final[key]
    BY <1>1, <2>2 DEF Covers
  <2>4. \A key \in DOMAIN final : key \in ModelCounters => final[key][1] = "int64"
    BY <2>1 DEF GenerationEnds
  <2> QED BY <2>3, <2>4 DEF OptionalInt64, HasInt64, HasTyped
<1>11. SpanAttributesComplete(ToSpan(o))
  BY <1>7, <1>9, <1>10, SpanParts DEF SpanAttributesComplete
<1>12. ToolSpanComplaints(ToSpan(o)) = {}
  BY <1>7, SpanParts DEF ToolSpanComplaints
<1> QED BY <1>3, <1>4, <1>6, <1>8, <1>11, <1>12, Zenon DEF EndFits

LEMMA CallIDStays ==
  ASSUME NEW o, NEW corr, CorrelationOf(o) = BaseAttributes(corr),
         corr["correlation.tool_call_id"] # "",
         o.attrs["tool.call_id"] = Text(corr["correlation.tool_call_id"])
  PROVE  HasOneCallID(o)
<1>1. "correlation.tool_call_id" \in Propagated
  BY DEF Propagated
<1>2. /\ "correlation.tool_call_id" \in DOMAIN BaseAttributes(corr)
      /\ BaseAttributes(corr)["correlation.tool_call_id"]
           = Text(corr["correlation.tool_call_id"])
  BY <1>1, BaseKeys, Zenon
<1>3. /\ "correlation.tool_call_id" \in DOMAIN o.attrs
      /\ o.attrs["correlation.tool_call_id"] = BaseAttributes(corr)["correlation.tool_call_id"]
  <2> DEFINE key == "correlation.tool_call_id"
             part == Part(o.attrs, Propagated)
  <2>1. part = BaseAttributes(corr)
    BY DEF CorrelationOf
  <2>2. key \in DOMAIN part
    BY <1>2, <2>1
  <2> HIDE DEF key
  <2>3. key \in DOMAIN o.attrs /\ key \in Propagated
    BY <2>2, AtPart, Zenon
  <2>4. part[key] = o.attrs[key]
    BY <2>3, AtPart, Zenon
  <2> HIDE DEF part
  <2> QED BY <2>1, <2>3, <2>4 DEF key
<1> QED BY <1>2, <1>3 DEF HasOneCallID

LEMMA ToolFits ==
  ASSUME NEW handle, handle.kind = "tool_call",
         StartFits(handle.kind, handle.corr, handle.attrs),
         NEW status, NEW canceled, NEW o, EndsWith(handle.kind, status, o.error, canceled),
         NEW final, ToolEnds(final, status, o.error, canceled),
         o.kind = handle.kind, o.attrs = Over(final, handle.attrs), o.end # 0
  PROVE  EndFits(o, handle.corr, canceled)
<1>1. Covers(o.attrs, final, handle.attrs)
  BY OverCovers
<1>2. \A key \in DOMAIN final : key \notin Propagated /\ key # "tool.call_id"
  <2>1. "tool.call_id" \notin ErrorKeys
    BY CountsApart
  <2> QED BY <2>1, CountsApart, KeysApart DEF ToolEnds
<1>3. AttributesOK(o.attrs)
  BY OverOK DEF ToolEnds, StartFits
<1>4. CorrelationOf(o) = BaseAttributes(handle.corr)
  BY <1>2, CorrelationStays DEF CorrelationOf
<1>5. Part(o.attrs, ErrorKeys) = Part(ErrorSays(o.error, canceled), ErrorKeys)
  <2>1. Part(Over(final, handle.attrs), ErrorKeys) = Part(final, ErrorKeys)
    BY ErrorsStay
  <2>2. Part(final, ErrorKeys) = Part(ErrorSays(o.error, canceled), ErrorKeys)
    BY Zenon DEF ToolEnds
  <2> QED BY <2>1, <2>2, Zenon
<1>6. ErrorStated(o, canceled)
  BY <1>5, SaidStated, Zenon
<1>7. \A key \in ToolTexts : key \in DOMAIN handle.attrs /\ handle.attrs[key][1] = "string"
  BY KindKeys DEF StartFits, HasText, HasTyped
<1>8. /\ "tool.status" \in DOMAIN o.attrs /\ o.attrs["tool.status"] = Text(ToolOutcome(status))
      /\ "tool.latency.ms" \in DOMAIN o.attrs /\ o.attrs["tool.latency.ms"][1] = "int64"
  BY <1>1 DEF Covers, ToolEnds
<1>9. o.attrs["tool.call_id"] = Text(handle.corr["correlation.tool_call_id"])
      /\ handle.corr["correlation.tool_call_id"] # ""
  <2>1. "tool.call_id" \in DOMAIN handle.attrs
    BY <1>7 DEF ToolTexts
  <2> QED BY <1>1, <1>2, <2>1 DEF Covers, StartFits
<1>10. HasOneCallID(o)
  BY <1>4, <1>9, CallIDStays, Zenon
<1>11. HasText(o.attrs, ToolTexts) /\ HasInt64(o.attrs, {"tool.latency.ms"})
  <2>1. \A key \in ToolTexts : key \in DOMAIN o.attrs /\ o.attrs[key][1] = "string"
    <3> TAKE key \in ToolTexts
    <3>1. CASE key = "tool.status"
      BY <1>8, <3>1, PairsOK
    <3>2. CASE key # "tool.status"
      <4>1. key \notin ErrorKeys /\ key # "tool.latency.ms"
        BY DEF ToolTexts, ErrorKeys
      <4>2. key \notin DOMAIN final
        BY <3>2, <4>1 DEF ToolEnds
      <4> QED BY <1>1, <1>7, <4>2 DEF Covers
    <3> QED BY <3>1, <3>2
  <2> QED BY <1>8, <2>1 DEF HasText, HasInt64, HasTyped
<1>12. SpanAttributesComplete(ToSpan(o))
  <2>1. o.kind \notin {"model_call", "stream"}
    OBVIOUS
  <2> QED BY <1>11, <2>1, SpanParts DEF SpanAttributesComplete
<1>13. ToolSpanComplaints(ToSpan(o)) = {}
  <2> DEFINE m == ToModelError(o)
             outcome == ToolOutcome(status)
  <2>1. ToolStatus(o.attrs) = outcome
    BY <1>8, PairsOK DEF ToolStatus
  <2>2. ToolEnded(outcome, status, o.error)
    <3>1. o.error # NoError \/ status = "ok"
      BY SoundIsError DEF EndsWith
    <3> QED BY <3>1 DEF ToolEnded, ToolOutcome, EndsWith
  <2>3. canceled \in BOOLEAN /\ (canceled <=> status = "canceled")
    BY Zenon DEF EndsWith
  <2>4. \/ o.error = NoError
        \/ SoundError(o.error, canceled) /\ IsModelError(m, o.error, canceled)
    <3>1. CASE o.error = NoError
      BY <3>1
    <3>2. CASE SoundError(o.error, canceled)
      <4>1. o.error # NoError
        BY <3>2, SoundIsError, Zenon
      <4>2. Part(o.attrs, ErrorKeys) = ErrorAttributes(o.error, canceled)
        BY <1>6, <4>1, Zenon DEF ErrorStated
      <4> QED BY <2>3, <3>2, <4>2, ModelError, Zenon
    <3> QED BY <3>1, <3>2, Zenon DEF EndsWith
  <2>5. o.error = NoError \/ o.error.operation = "tool_call"
    BY DEF EndsWith
  <2> HIDE DEF m, outcome
  <2>6. OnlyWrongOperation(SettledComplaints(outcome, m), o.error)
    BY <2>2, <2>3, <2>4, SettledNoComplaint, Zenon
  <2>7. SettledComplaints(outcome, m) = {}
    BY <2>5, <2>6, Zenon DEF OnlyWrongOperation
  <2>8. ToolSpanComplaints(ToSpan(o)) = SettledComplaints(ToolStatus(o.attrs), ToModelError(o))
    BY SpanParts DEF ToolSpanComplaints
  <2> QED BY <2>1, <2>7, <2>8 DEF m
<1> QED BY <1>3, <1>4, <1>6, <1>10, <1>12, <1>13, Zenon DEF EndFits

-----------------------------------------------------------------------------
(* The events of a handle *)

EventsFit(events, corr) ==
  Listed(events) /\ \A i \in DOMAIN events : BelongsTo(events[i], corr)

LEMMA AppendFits ==
  ASSUME NEW events, NEW corr, EventsFit(events, corr), NEW e, BelongsTo(e, corr)
  PROVE  EventsFit(Append(events, e), corr)
<1>1. Listed(Append(events, e)) /\ Len(events) \in Nat
      /\ DOMAIN events = 1..Len(events) /\ DOMAIN Append(events, e) = 1..(Len(events) + 1)
      /\ (\A i \in DOMAIN events : Append(events, e)[i] = events[i])
      /\ Append(events, e)[Len(events) + 1] = e
  BY Appended DEF EventsFit
<1> DEFINE all == Append(events, e)
<1> HIDE DEF all
<1>2. \A i \in DOMAIN all : BelongsTo(all[i], corr)
  <2> TAKE i \in DOMAIN all
  <2>1. CASE i \in DOMAIN events
    BY <1>1, <2>1 DEF EventsFit, all
  <2>2. CASE i = Len(events) + 1
    BY <1>1, <2>2 DEF all
  <2> QED BY <1>1, <2>1, <2>2 DEF all
<1> QED BY <1>1, <1>2, Zenon DEF EventsFit, all

(* What is known of the events of a handle that is open. *)
TokensFit(handle) ==
  /\ KnownToken(handle)
  /\ \A i \in DOMAIN handle.events :
       handle.events[i].kind \in {"stream.chunk", "stream.first_token"}
  /\ \A i \in Named(handle, "stream.first_token") : \A latency :
       handle.firstToken = {latency} =>
         handle.events[i].attrs["genai.latency.first_token_ms"] = Int64(latency)
  /\ handle.firstToken = {} <=> Named(handle, "stream.first_token") = {}
  /\ \A i, j \in Named(handle, "stream.first_token") : i = j

(* The events of a handle that ends. *)
EndsEvents(events, handle, status, end, error) ==
  LET last == CancellationEvent(handle.corr, end, error)
  IN  IF handle.kind = "stream" /\ status = "canceled"
      THEN events = Append(handle.events, last) /\ IsCancellation(last, end, error)
      ELSE events = handle.events

LEMMA LastEvents ==
  ASSUME NEW handle, IsCorrelation(handle.corr), EventsFit(handle.events, handle.corr),
         NEW status, NEW end \in Nat \ {0}, NEW error, NEW canceled,
         EndsWith(handle.kind, status, error, canceled)
  PROVE  /\ EventsFit(FinalEvents(handle, status, end, error), handle.corr)
         /\ EndsEvents(FinalEvents(handle, status, end, error), handle, status, end, error)
<1> DEFINE last == CancellationEvent(handle.corr, end, error)
<1>1. CASE handle.kind = "stream" /\ status = "canceled"
  <2>1. SoundError(error, TRUE)
    <3>1. canceled = TRUE
      BY <1>1 DEF EndsWith
    <3>2. "canceled" # "ok"
      OBVIOUS
    <3>3. SoundError(error, canceled)
      BY <1>1, <3>2, Zenon DEF EndsWith
    <3> QED BY <3>1, <3>3
  <2>2. BelongsTo(last, handle.corr) /\ IsCancellation(last, end, error)
    BY <2>1, CancellationFits, Zenon
  <2>3. FinalEvents(handle, status, end, error) = Append(handle.events, last)
    BY <1>1 DEF FinalEvents
  <2>4. EventsFit(Append(handle.events, last), handle.corr)
    BY <2>2, AppendFits, Zenon
  <2> QED BY <1>1, <2>2, <2>3, <2>4, Zenon DEF EndsEvents
<1>2. CASE ~(handle.kind = "stream" /\ status = "canceled")
  BY <1>2, Zenon DEF FinalEvents, EndsEvents
<1> QED BY <1>1, <1>2, Zenon

LEMMA OneAtMost ==
  ASSUME NEW S, \A x, y \in S : x = y
  PROVE  Cardinality(S) <= 1
<1>1. CASE S = {}
  BY <1>1, FS_EmptySet
<1>2. CASE S # {}
  <2>1. PICK x : S = {x}
    BY <1>2
  <2> QED BY <2>1, FS_Singleton
<1> QED BY <1>1, <1>2

(* Which events of a finished stream are first tokens and cancellations. *)
SameTokens(o, handle) ==
  /\ Named(o, "stream.first_token") = Named(handle, "stream.first_token")
  /\ \A i \in Named(o, "stream.first_token") : o.events[i] = handle.events[i]

OnlyLastCancels(o) ==
  /\ Named(o, "cancellation") = IF o.status = "canceled" THEN {Len(o.events)} ELSE {}
  /\ \A i \in Named(o, "cancellation") :
       o.events[i].error = o.error /\ o.events[i].start = o.end

LEMMA NamedEvents ==
  ASSUME NEW handle, handle.kind = "stream", Listed(handle.events), TokensFit(handle),
         NEW o, EndsEvents(o.events, handle, o.status, o.end, o.error)
  PROVE  SameTokens(o, handle) /\ OnlyLastCancels(o)
<1> DEFINE last == CancellationEvent(handle.corr, o.end, o.error)
<1>1. \A i \in DOMAIN handle.events : /\ handle.events[i].kind # "cancellation"
                                      /\ handle.events[i].kind
                                           \in {"stream.chunk", "stream.first_token"}
  BY DEF TokensFit
<1>2. CASE o.status = "canceled"
  <2>1. o.events = Append(handle.events, last) /\ IsCancellation(last, o.end, o.error)
    BY <1>2 DEF EndsEvents
  <2> HIDE DEF last
  <2>2. /\ Len(handle.events) \in Nat /\ Len(o.events) = Len(handle.events) + 1
        /\ DOMAIN handle.events = 1..Len(handle.events)
        /\ DOMAIN o.events = 1..(Len(handle.events) + 1)
        /\ \A i \in DOMAIN handle.events : o.events[i] = handle.events[i]
        /\ o.events[Len(handle.events) + 1] = last
    BY <2>1, Appended
  <2>3. last.kind = "cancellation" /\ last.kind # "stream.first_token"
    BY <2>1 DEF IsCancellation
  <2>4. SameTokens(o, handle)
    BY <2>2, <2>3 DEF Named, SameTokens
  <2>5. Named(o, "cancellation") = {Len(o.events)}
    BY <1>1, <2>2, <2>3 DEF Named
  <2> QED BY <1>2, <2>1, <2>2, <2>4, <2>5 DEF OnlyLastCancels, IsCancellation
<1>3. CASE o.status # "canceled"
  <2>1. o.events = handle.events
    BY <1>3 DEF EndsEvents
  <2>2. Named(o, "cancellation") = {}
    BY <1>1, <2>1 DEF Named
  <2> QED BY <1>3, <2>1, <2>2 DEF Named, SameTokens, OnlyLastCancels
<1> QED BY <1>2, <1>3

(* The latency of the first token is told twice, or not at all. *)
TellsToken(o) ==
  {o.attrs[key] : key \in DOMAIN o.attrs \cap {"genai.latency.first_token_ms"}}
    = {o.events[i].attrs["genai.latency.first_token_ms"] :
         i \in Named(o, "stream.first_token")}

LEMMA TokenTold ==
  ASSUME NEW handle, TokensFit(handle), NEW o, SameTokens(o, handle),
         NEW final, NEW canceled, GenerationEnds(final, handle, o.error, canceled),
         Covers(o.attrs, final, handle.attrs),
         "genai.latency.first_token_ms" \notin DOMAIN handle.attrs
  PROVE  TellsToken(o)
<1> DEFINE token == "genai.latency.first_token_ms"
           tokens == Named(handle, "stream.first_token")
<1>1. Named(o, "stream.first_token") = tokens /\ \A i \in tokens : o.events[i] = handle.events[i]
  BY DEF SameTokens
<1>2. CASE handle.firstToken = {}
  <2>1. token \notin DOMAIN o.attrs
    BY <1>2 DEF Covers, GenerationEnds
  <2>2. tokens = {}
    BY <1>2 DEF TokensFit
  <2> QED BY <1>1, <2>1, <2>2 DEF TellsToken
<1>3. ASSUME NEW latency, handle.firstToken = {latency}
      PROVE  TellsToken(o)
  <2>1. token \in DOMAIN o.attrs /\ o.attrs[token] = Int64(latency)
    BY <1>3 DEF Covers, GenerationEnds
  <2>2. tokens # {}
    BY <1>3 DEF TokensFit
  <2>3. \A i \in tokens : handle.events[i].attrs[token] = Int64(latency)
    BY <1>3 DEF TokensFit
  <2> HIDE DEF tokens, token
  <2>4. \A i \in tokens : o.events[i].attrs[token] = Int64(latency)
    BY <1>1, <2>3
  <2>5. {o.attrs[key] : key \in DOMAIN o.attrs \cap {token}} = {Int64(latency)}
    BY <2>1
  <2>6. {o.events[i].attrs[token] : i \in tokens} = {Int64(latency)}
    BY <2>2, <2>4
  <2> QED BY <1>1, <2>5, <2>6 DEF TellsToken, token
<1> QED BY <1>2, <1>3, Zenon DEF TokensFit, KnownToken

LEMMA StreamStory ==
  ASSUME NEW handle, handle.kind = "stream", Listed(handle.events), TokensFit(handle),
         NEW o, EventsFit(o.events, handle.corr),
         EndsEvents(o.events, handle, o.status, o.end, o.error),
         o.id = handle.corr.id, o.trace = handle.corr.trace,
         CorrelationOf(o) = BaseAttributes(handle.corr),
         NEW final, NEW canceled, GenerationEnds(final, handle, o.error, canceled),
         o.attrs = Over(final, handle.attrs),
         "genai.latency.first_token_ms" \notin DOMAIN handle.attrs
  PROVE  TellsOneStory(o)
<1>1. \A e \in EventsOf(o) : BelongsTo(e, handle.corr)
  BY DEF EventsFit, EventsOf
<1>2. \A e \in EventsOf(o) :
        /\ e.parent = o.id /\ e.trace = o.trace
        /\ e.id # o.id \/ o.id = NoID
        /\ CorrelationOf(e) = CorrelationOf(o)
  BY <1>1, Zenon DEF BelongsTo
<1>3. SameTokens(o, handle) /\ OnlyLastCancels(o)
  BY NamedEvents, Zenon
<1>4. Cardinality(Named(o, "stream.first_token")) <= 1
  <2>1. \A i, j \in Named(o, "stream.first_token") : i = j
    BY <1>3, Zenon DEF TokensFit, SameTokens
  <2> QED BY <2>1, OneAtMost, Zenon
<1>5. Covers(o.attrs, final, handle.attrs)
  BY OverCovers
<1>6. TellsToken(o)
  BY <1>3, <1>5, TokenTold, Zenon
<1> QED BY <1>2, <1>3, <1>4, <1>6, Zenon DEF TellsOneStory, OnlyLastCancels, TellsToken

-----------------------------------------------------------------------------
(* Validation of a finished handle *)

SpanErrorComplaints(status, m) ==
  IF m = NoError THEN Complaint(status \in {"error", "canceled"}, "span error")
  ELSE ErrorComplaints(m) \cup CanceledFlagComplaints(status, m)

(* Nobody marks a session or a run that was canceled. *)
Unmarked(o) == IF o.kind \in {"session", "run"} THEN {"error.canceled"} ELSE {}

LEMMA UnmarkedComplaints ==
  ASSUME NEW m, NEW error, NEW canceled \in BOOLEAN, SoundError(error, canceled),
         IsModelError(m, error, FALSE), NEW status, status = "canceled" => canceled
  PROVE  ErrorComplaints(m) = {} /\ CanceledFlagComplaints(status, m) \subseteq {"error.canceled"}
<1>1. SoundError(error, FALSE)
  BY DEF SoundError
<1>2. ErrorComplaints(m) = {}
  BY <1>1, ModelErrorComplaints, Zenon
<1>3. m.retryable = error.retryable /\ (status = "canceled" => ~error.retryable)
  BY DEF IsModelError, SoundError
<1>4. Complaint(status = "canceled" /\ m.retryable, "error.retryable") = {}
  BY <1>3, NoComplaint, Zenon
<1>5. Complaint(status = "canceled" /\ m.canceled # {TRUE}, "error.canceled")
        \subseteq {"error.canceled"}
  BY DEF Complaint
<1> QED BY <1>2, <1>4, <1>5 DEF CanceledFlagComplaints

LEMMA SpanErrorFits ==
  ASSUME NEW o, NEW canceled, EndsWith(o.kind, o.status, o.error, canceled),
         ErrorStated(o, canceled)
  PROVE  SpanErrorComplaints(o.status, ToModelError(o)) \subseteq Unmarked(o)
<1> DEFINE m == ToModelError(o)
<1>1. canceled \in BOOLEAN /\ (canceled <=> o.status = "canceled")
  BY Zenon DEF EndsWith
<1>2. CASE o.error = NoError
  <2>1. o.status = "ok"
    BY <1>2, SoundIsError, Zenon DEF EndsWith
  <2>2. m = NoError
    BY <1>2, NoErrorMeta, Zenon
  <2>3. o.status \notin {"error", "canceled"}
    BY <2>1
  <2> HIDE DEF m
  <2>4. SpanErrorComplaints(o.status, m) = {}
    BY <2>2, <2>3, NoComplaint, Zenon DEF SpanErrorComplaints
  <2> QED BY <2>4 DEF m
<1>3. CASE o.error # NoError
  <2>1. SoundError(o.error, canceled)
    BY <1>3, Zenon DEF EndsWith
  <2>2. CASE Part(o.attrs, ErrorKeys) = ErrorAttributes(o.error, canceled)
    <3>1. IsModelError(m, o.error, canceled)
      BY <1>1, <2>1, <2>2, ModelError, Zenon
    <3> HIDE DEF m
    <3>2. ErrorComplaints(m) = {} /\ CanceledFlagComplaints(o.status, m) = {}
      BY <1>1, <2>1, <3>1, ModelErrorComplaints, Zenon
    <3>3. m # NoError
      BY <3>1, Zenon DEF IsModelError
    <3>4. SpanErrorComplaints(o.status, m) = {} \cup {}
      BY <3>2, <3>3, Zenon DEF SpanErrorComplaints
    <3> QED BY <3>4 DEF m
  <2>3. CASE o.kind \in {"session", "run"} /\ DOMAIN Part(o.attrs, ErrorKeys) = {}
    <3>1. SoundError(o.error, FALSE)
      BY <2>1 DEF SoundError
    <3>2. IsModelError(m, o.error, FALSE)
      BY <2>3, <3>1, ModelError, Zenon
    <3> HIDE DEF m
    <3>3. /\ ErrorComplaints(m) = {}
          /\ CanceledFlagComplaints(o.status, m) \subseteq {"error.canceled"}
      BY <1>1, <2>1, <3>2, UnmarkedComplaints, Zenon
    <3>4. m # NoError
      BY <3>2, Zenon DEF IsModelError
    <3>5. SpanErrorComplaints(o.status, m) \subseteq {"error.canceled"}
      BY <3>3, <3>4 DEF SpanErrorComplaints
    <3> QED BY <2>3, <3>5 DEF m, Unmarked
  <2> QED BY <1>3, <2>2, <2>3, Zenon DEF ErrorStated
<1> QED BY <1>2, <1>3

LEMMA NotBefore == \A a \in Nat \ {0}, b \in Nat : b >= a => ~(b < a)
OBVIOUS

LEMMA EventsComplain ==
  ASSUME NEW o, NEW corr, EventsFit(o.events, corr), corr.id # NoID, corr.trace # ""
  PROVE  \A i \in DOMAIN ToSpan(o).events : EventComplaints(ToSpan(o).events[i]) = {}
<1>1. \A i \in DOMAIN o.events : EventComplaints(ToEvent(o.events[i])) = {}
  BY Zenon DEF EventsFit, BelongsTo
<1>2. ToSpan(o).events = [i \in DOMAIN o.events |-> ToEvent(o.events[i])]
  BY SpanParts
<1> QED BY <1>1, <1>2

LEMMA SpanValid ==
  ASSUME NEW o, NEW corr, NEW canceled, EndFits(o, corr, canceled),
         EndsWith(o.kind, o.status, o.error, canceled), o.kind \in HandleKinds,
         o.id # NoID, o.trace # "", o.id = corr.id, o.trace = corr.trace,
         o.start \in Nat \ {0}, o.end \in Nat, o.end >= o.start,
         EventsFit(o.events, corr)
  PROVE  SpanComplaints(ToSpan(o)) \subseteq KnownComplaints(o)
<1> DEFINE span == ToSpan(o)
<1>1. IdentityComplaints(span) = {} /\ AttributeComplaints(span.attrs) = {}
  <2>1. span.id # NoID /\ span.trace # "" /\ span.attrs = o.attrs
    BY SpanParts
  <2>2. AttributesOK(o.attrs)
    BY Zenon DEF EndFits
  <2> HIDE DEF span
  <2>3. Complaint(span.id = NoID, "observation id") = {} /\ Complaint(span.trace = "", "trace id") = {}
    BY <2>1, NoComplaint, Zenon
  <2>4. IdentityComplaints(span) = {}
    BY <2>3 DEF IdentityComplaints
  <2>5. AttributeComplaints(span.attrs) = {}
    BY <2>1, <2>2, NoAttributeComplaint, Zenon
  <2> QED BY <2>4, <2>5
<1>2. Complaint(span.kind \notin SpanKinds, "span kind") = {}
  <2>1. span.kind \in SpanKinds
    BY SpanParts DEF SpanKinds, HandleKinds, Generations
  <2> QED BY <2>1, NoComplaint, Zenon
<1>3. Complaint(span.status \notin Statuses, "span status") = {}
  <2>1. span.status \in Statuses
    BY SpanParts DEF Statuses, EndsWith
  <2> QED BY <2>1, NoComplaint, Zenon
<1>4. Complaint(span.start = 0, "start time") = {}
  <2>1. span.start # 0
    BY SpanParts
  <2> QED BY <2>1, NoComplaint, Zenon
<1>5. Complaint(span.end # 0 /\ span.end < span.start, "end before start") = {}
  <2>1. ~(span.end # 0 /\ span.end < span.start)
    <3>1. span.end = o.end /\ span.start = o.start
      BY SpanParts
    <3>2. ~(o.end < o.start)
      BY NotBefore, Zenon
    <3> HIDE DEF span
    <3> QED BY <3>1, <3>2, Zenon
  <2> QED BY <2>1, NoComplaint, Zenon
<1>6. SpanErrorComplaints(span.status, span.error) \subseteq Unmarked(o)
  <2>1. span.status = o.status /\ span.error = ToModelError(o)
    BY SpanParts
  <2>2. ErrorStated(o, canceled)
    BY Zenon DEF EndFits
  <2> QED BY <2>1, <2>2, SpanErrorFits
<1>7. Complaint(~SpanAttributesComplete(span), "span attributes") = {}
      /\ ToolSpanComplaints(span) = {}
  <2>1. SpanAttributesComplete(span) /\ ToolSpanComplaints(span) = {}
    BY Zenon DEF EndFits
  <2> QED BY <2>1, NoComplaint, Zenon
<1>8. UNION {EventComplaints(span.events[i]) : i \in DOMAIN span.events} = {}
  <2>1. \A i \in DOMAIN span.events : EventComplaints(span.events[i]) = {}
    BY EventsComplain, Zenon
  <2> QED BY <2>1
<1>9. SpanComplaints(span) =
        IdentityComplaints(span) \cup
        AttributeComplaints(span.attrs) \cup
        Complaint(span.kind \notin SpanKinds, "span kind") \cup
        Complaint(span.status \notin Statuses, "span status") \cup
        Complaint(span.start = 0, "start time") \cup
        Complaint(span.end # 0 /\ span.end < span.start, "end before start") \cup
        SpanErrorComplaints(span.status, span.error) \cup
        Complaint(~SpanAttributesComplete(span), "span attributes") \cup
        ToolSpanComplaints(span) \cup
        UNION {EventComplaints(span.events[i]) : i \in DOMAIN span.events}
  BY Zenon DEF SpanComplaints, SpanErrorComplaints
<1>10. SpanComplaints(span) \subseteq Unmarked(o)
  <2> HIDE DEF span
  <2> QED BY <1>1, <1>2, <1>3, <1>4, <1>5, <1>6, <1>7, <1>8, <1>9
<1>11. Unmarked(o) \subseteq KnownComplaints(o)
  BY DEF Unmarked, KnownComplaints
<1> QED BY <1>10, <1>11

-----------------------------------------------------------------------------
(* What Datadog is sent of a finished handle *)

LEMMA MetricsSaid ==
  ASSUME NEW span, NEW key \in DOMAIN span.attrs, key \in DOMAIN MetricOf
  PROVE  Metrics(span)[MetricOf[key]] = span.attrs[key]
<1> DEFINE known == DOMAIN span.attrs \cap DOMAIN MetricOf
<1>1. key \in known
  OBVIOUS
<1>2. \A a, b \in DOMAIN MetricOf : MetricOf[a] = MetricOf[b] => a = b
  BY MetricKeys
<1>3. (CHOOSE k \in known : MetricOf[k] = MetricOf[key]) = key
  BY <1>1, <1>2
<1>4. Metrics(span) = [metric \in {MetricOf[k] : k \in known} |->
                         span.attrs[CHOOSE k \in known : MetricOf[k] = metric]]
  BY Zenon DEF Metrics
<1>5. MetricOf[key] \in {MetricOf[k] : k \in known}
  BY <1>1
<1> HIDE DEF known
<1> QED BY <1>3, <1>4, <1>5

LEMMA SpanSays ==
  ASSUME NEW o, NEW canceled \in BOOLEAN, ErrorStated(o, canceled), NEW sent,
         sent.metrics = Metrics(ToSpan(o)), sent.meta = Meta(ToSpan(o))
  PROVE  Says(sent, sent.meta, o.attrs)
<1> DEFINE span == ToSpan(o)
           plain == [key \in DOMAIN span.attrs \ DOMAIN MetricOf |-> span.attrs[key]]
           others == Over(Only("kind", Text(datadogKind(span.kind))),
                     Over(Only("obs.kind", Text(span.kind)),
                          Only("status", Text(span.status))))
<1>1. span.attrs = o.attrs /\ span.error = ToModelError(o)
  BY SpanParts
<1>2. Meta(span) = Over(ErrorMeta(ToModelError(o)), Over(plain, others))
  BY <1>1, Zenon DEF Meta
<1>3. ASSUME NEW key \in DOMAIN o.attrs, key \in DOMAIN MetricOf
      PROVE  sent.metrics[MetricOf[key]] = o.attrs[key]
  BY <1>1, <1>3, MetricsSaid
<1>4. ASSUME NEW key \in DOMAIN o.attrs, key \notin DOMAIN MetricOf
      PROVE  sent.meta[key] = o.attrs[key]
  <2>1. key \in DOMAIN plain /\ plain[key] = o.attrs[key]
    BY <1>1, <1>4
  <2> HIDE DEF plain, others
  <2>2. Over(ErrorMeta(ToModelError(o)), Over(plain, others))[key] = o.attrs[key]
    BY <2>1, MetaKeeps, Zenon
  <2>3. sent.meta = Over(ErrorMeta(ToModelError(o)), Over(plain, others))
    BY <1>2
  <2> QED BY <2>2, <2>3
<1> QED BY <1>3, <1>4, Zenon DEF Says

LEMMA EventKeepsID == ASSUME NEW e PROVE ToEvent(e).id = e.id
BY DEF ToEvent

LEMMA EventsSay ==
  ASSUME NEW o, NEW corr, EventsFit(o.events, corr), NEW sent,
         sent.events = MapEvents(ToSpan(o).events)
  PROVE  /\ Len(sent.events) = Len(o.events)
         /\ \A i \in DOMAIN o.events :
              /\ sent.events[i].id = o.events[i].id
              /\ Says(sent, sent.events[i].meta, o.events[i].attrs)
<1> DEFINE events == ToSpan(o).events
<1>1. events = [i \in DOMAIN o.events |-> ToEvent(o.events[i])]
  BY SpanParts
<1>2. DOMAIN events = DOMAIN o.events /\ \A i \in DOMAIN o.events : events[i] = ToEvent(o.events[i])
  BY <1>1
<1>3. DOMAIN o.events = 1..Len(o.events) /\ Len(o.events) \in Nat
  BY DEF EventsFit, Listed
<1>4. sent.events = MapEvents(events)
  OBVIOUS
<1> HIDE DEF events
<1>5. /\ DOMAIN sent.events = DOMAIN o.events
      /\ \A i \in DOMAIN o.events :
           sent.events[i].id = events[i].id /\ sent.events[i].meta = EventMeta(events[i])
  BY <1>2, <1>4 DEF MapEvents
<1>6. Len(sent.events) = Len(o.events)
  <2>1. DOMAIN sent.events = 1..Len(o.events)
    BY <1>3, <1>5
  <2> QED BY <1>3, <2>1
<1>7. ASSUME NEW i \in DOMAIN o.events
      PROVE  /\ sent.events[i].id = o.events[i].id
             /\ Says(sent, sent.events[i].meta, o.events[i].attrs)
  <2>1. events[i].id = o.events[i].id
    <3>1. events[i] = ToEvent(o.events[i])
      BY <1>2, Zenon
    <3> QED BY <3>1, EventKeepsID
  <2>2. sent.events[i].meta = EventMeta(ToEvent(o.events[i]))
    BY <1>2, <1>5
  <2>3. \A key \in DOMAIN o.events[i].attrs :
          /\ key \notin DOMAIN MetricOf
          /\ EventMeta(ToEvent(o.events[i]))[key] = o.events[i].attrs[key]
    BY Zenon DEF EventsFit, BelongsTo
  <2>4. Says(sent, sent.events[i].meta, o.events[i].attrs)
    BY <2>2, <2>3, Zenon DEF Says
  <2> QED BY <1>5, <2>1, <2>4
<1> QED BY <1>6, <1>7

LEMMA SpanIsSent ==
  ASSUME NEW o, NEW corr, NEW canceled \in BOOLEAN, ErrorStated(o, canceled),
         EventsFit(o.events, corr), o.kind \in HandleKinds,
         o.start \in Nat, o.end \in Nat \ {0}
  PROVE  IsSent(o)
<1> DEFINE span == ToSpan(o)
           sent == [id |-> span.id, parent |-> span.parent, trace |-> span.trace,
                    start |-> span.start, duration |-> span.end - span.start,
                    meta |-> Meta(span), metrics |-> Metrics(span),
                    events |-> MapEvents(span.events)]
<1>1. MapSpan(span) = <<sent>>
  <2>1. span.end # 0
    BY SpanParts
  <2> QED BY <2>1, Zenon DEF MapSpan
<1>2. sent.metrics = Metrics(span) /\ sent.meta = Meta(span)
      /\ sent.events = MapEvents(span.events)
  OBVIOUS
<1>3. /\ sent.id = o.id /\ sent.parent = o.parent /\ sent.trace = o.trace
      /\ sent.start = o.start /\ sent.duration = o.end - o.start
  BY SpanParts
<1> HIDE DEF sent
<1>4. Says(sent, sent.meta, o.attrs)
  BY <1>2, SpanSays, Zenon
<1>5. /\ Len(sent.events) = Len(o.events)
      /\ \A i \in DOMAIN o.events :
           /\ sent.events[i].id = o.events[i].id
           /\ Says(sent, sent.events[i].meta, o.events[i].attrs)
  BY <1>2, EventsSay
<1>6. sent.start + sent.duration = o.end
  BY <1>3
<1>7. <<sent.id, sent.parent, sent.trace>> = <<o.id, o.parent, o.trace>>
  BY <1>3
<1>8. Keeps(sent, o)
  BY <1>4, <1>5, <1>6, <1>7, Zenon DEF Keeps
<1>9. o.kind \in SpanKinds
  BY DEF HandleKinds, Generations, SpanKinds
<1>10. <<sent>> # <<>> /\ <<sent>>[1] = sent
  OBVIOUS
<1> QED BY <1>1, <1>8, <1>9, <1>10, Zenon DEF IsSent

-----------------------------------------------------------------------------
(* A handle, and the end of one *)

HandleFields ==
  {"kind", "corr", "start", "attrs", "events", "firstToken", "ended", "session", "given"}

HandleFits(handle) ==
  /\ DOMAIN handle = HandleFields
  /\ IsCorrelation(handle.corr)
  /\ handle.start \in Nat \ {0} /\ handle.ended \in BOOLEAN
  /\ StartFits(handle.kind, handle.corr, handle.attrs)
  /\ EventsFit(handle.events, handle.corr)
  /\ ~handle.ended => TokensFit(handle)

IsEndOf(o, handle, usage) ==
  /\ o.id = handle.corr.id /\ o.trace = handle.corr.trace
  /\ o.kind = handle.kind /\ o.start = handle.start
  /\ o.attrs = Over(TerminalAttributes(handle, o.status, o.end - handle.start, usage,
                                       o.error), handle.attrs)
  /\ o.events = FinalEvents(handle, o.status, o.end, o.error)

LEMMA EndAttributes ==
  ASSUME NEW handle, HandleFits(handle), TokensFit(handle), NEW usage \in Usages,
         NEW o, IsEndOf(o, handle, usage), o.end \in Nat, o.end >= handle.start,
         NEW canceled, EndsWith(handle.kind, o.status, o.error, canceled)
  PROVE  EndFits(o, handle.corr, canceled)
<1> DEFINE final == TerminalAttributes(handle, o.status, o.end - handle.start, usage, o.error)
<1>1. o.end - handle.start \in Nat /\ o.end # 0
  BY DEF HandleFits
<1>2. /\ o.kind = handle.kind /\ o.attrs = Over(final, handle.attrs)
      /\ StartFits(handle.kind, handle.corr, handle.attrs) /\ KnownToken(handle)
  BY Zenon DEF HandleFits, IsEndOf, TokensFit
<1>3. CASE handle.kind \in {"session", "run"}
  <2>1. final = NoAttributes
    BY <1>3 DEF TerminalAttributes
  <2>2. \A key : key \in DOMAIN o.attrs <=> key \in DOMAIN handle.attrs
    BY <1>2, <2>1, OverNone
  <2>3. \A key \in DOMAIN handle.attrs : o.attrs[key] = handle.attrs[key]
    BY <1>2, <2>1, OverNone
  <2>4. StartFits(o.kind, handle.corr, o.attrs)
    <3>1. Part(o.attrs, Propagated) = BaseAttributes(handle.corr)
      <4>1. \A key \in DOMAIN final : key \notin Propagated
        BY <2>1, NoneEmpty
      <4> HIDE DEF final
      <4> QED BY <1>2, <4>1, CorrelationStays
    <3>2. AttributesOK(o.attrs)
      BY <1>2, <2>1, NoneOK, OverOK DEF StartFits
    <3>3. HasText(o.attrs, KeysOf(o.kind))
      BY <1>2, <2>2, <2>3 DEF StartFits, HasText, HasTyped
    <3>4. \A key \in DOMAIN o.attrs : key \in Propagated \/ key \in KeysOf(o.kind)
      BY <1>2, <2>2, Zenon DEF StartFits
    <3>5. o.kind \in HandleKinds /\ o.kind # "tool_call"
      BY <1>2, <1>3 DEF HandleKinds
    <3> QED BY <3>1, <3>2, <3>3, <3>4, <3>5, Zenon DEF StartFits
  <2>5. EndsWith(o.kind, o.status, o.error, canceled) /\ o.kind \in {"session", "run"}
    BY <1>2, <1>3, Zenon
  <2> HIDE DEF final
  <2> QED BY <2>4, <2>5, ScopeFits
<1>4. CASE handle.kind \in Generations
  <2>1. GenerationEnds(final, handle, o.error, canceled)
    BY <1>1, <1>2, <1>4, GenerationFinal
  <2> HIDE DEF final
  <2> QED BY <1>2, <1>4, <2>1, GenerationFits, Zenon
<1>5. CASE handle.kind = "tool_call"
  <2>1. ToolEnds(final, o.status, o.error, canceled)
    BY <1>1, <1>2, <1>5, ToolFinal
  <2> HIDE DEF final
  <2> QED BY <1>1, <1>2, <1>5, <2>1, ToolFits, Zenon
<1> QED BY <1>2, <1>3, <1>4, <1>5 DEF StartFits, HandleKinds

LEMMA EndStory ==
  ASSUME NEW handle, HandleFits(handle), TokensFit(handle), handle.kind = "stream",
         NEW usage \in Usages, NEW o, IsEndOf(o, handle, usage),
         o.end \in Nat, o.end >= handle.start,
         NEW canceled, EndsWith(handle.kind, o.status, o.error, canceled),
         CorrelationOf(o) = BaseAttributes(handle.corr)
  PROVE  TellsOneStory(o)
<1> DEFINE final == TerminalAttributes(handle, o.status, o.end - handle.start, usage, o.error)
<1>1. o.end - handle.start \in Nat /\ o.end \in Nat \ {0}
  BY DEF HandleFits
<1>2. /\ IsCorrelation(handle.corr) /\ EventsFit(handle.events, handle.corr)
      /\ Listed(handle.events) /\ KnownToken(handle)
  BY Zenon DEF HandleFits, EventsFit, TokensFit
<1>3. /\ o.events = FinalEvents(handle, o.status, o.end, o.error)
      /\ o.id = handle.corr.id /\ o.trace = handle.corr.trace
      /\ o.attrs = Over(final, handle.attrs)
  BY Zenon DEF IsEndOf
<1>4. /\ EventsFit(o.events, handle.corr)
      /\ EndsEvents(o.events, handle, o.status, o.end, o.error)
  BY <1>1, <1>2, <1>3, LastEvents, Zenon
<1>5. handle.kind \in Generations
  BY DEF Generations
<1>6. GenerationEnds(final, handle, o.error, canceled)
  BY <1>1, <1>2, <1>5, GenerationFinal
<1>7. "genai.latency.first_token_ms" \notin DOMAIN handle.attrs
  <2>1. \A key \in DOMAIN handle.attrs : key \in Propagated \/ key \in {"genai.provider", "genai.model"}
    BY <1>5, KindKeys DEF HandleFits, StartFits
  <2> QED BY <2>1 DEF Propagated
<1> HIDE DEF final
<1> QED BY <1>2, <1>3, <1>4, <1>6, <1>7, StreamStory, Zenon

LEMMA EndWellFormed ==
  ASSUME NEW handle, HandleFits(handle), TokensFit(handle), NEW usage \in Usages,
         NEW o, IsEndOf(o, handle, usage), o.end \in Nat, o.end >= handle.start,
         NEW canceled, EndsWith(handle.kind, o.status, o.error, canceled)
  PROVE  WellFormed(o)
<1>1. EndFits(o, handle.corr, canceled)
  BY EndAttributes, Zenon
<1>2. /\ IsCorrelation(handle.corr) /\ EventsFit(handle.events, handle.corr)
      /\ handle.start \in Nat \ {0} /\ handle.kind \in HandleKinds
  BY Zenon DEF HandleFits, StartFits
<1>3. o.end \in Nat \ {0} /\ o.start \in Nat \ {0} /\ o.start = handle.start
  BY <1>2 DEF IsEndOf
<1>4. /\ o.id = handle.corr.id /\ o.trace = handle.corr.trace /\ o.kind = handle.kind
      /\ o.events = FinalEvents(handle, o.status, o.end, o.error)
  BY Zenon DEF IsEndOf
<1>5. EventsFit(o.events, handle.corr)
  BY <1>2, <1>3, <1>4, LastEvents, Zenon
<1>6. o.kind \in SpanKinds /\ o.kind \in HandleKinds /\ o.status \in Statuses
      /\ canceled \in BOOLEAN
  BY <1>2, <1>4 DEF HandleKinds, Generations, SpanKinds, EndsWith, Statuses
<1>7. HasType(o)
  <2>1. o.start \in Nat /\ o.end \in Nat /\ o.kind \in SpanKinds \cup EventNames
    BY <1>3, <1>6
  <2> QED BY <1>1, <1>6, <2>1, Zenon DEF HasType, EndFits
<1>8. o.id # NoID /\ o.trace # "" => Complaints(o) \subseteq KnownComplaints(o)
  <2> SUFFICES ASSUME o.id # NoID, o.trace # ""
               PROVE  Complaints(o) \subseteq KnownComplaints(o)
    OBVIOUS
  <2>1. EndsWith(o.kind, o.status, o.error, canceled)
    BY <1>4, Zenon
  <2>2. o.end \in Nat /\ o.end >= o.start
    BY <1>3
  <2>3. SpanComplaints(ToSpan(o)) \subseteq KnownComplaints(o)
    BY <1>1, <1>3, <1>4, <1>5, <1>6, <2>1, <2>2, SpanValid, Zenon
  <2> QED BY <1>6, <2>3, Zenon DEF Complaints
<1>9. o.kind = "stream" => TellsOneStory(o)
  <2>1. CorrelationOf(o) = BaseAttributes(handle.corr)
    BY <1>1, Zenon DEF EndFits
  <2> QED BY <1>4, <2>1, EndStory, Zenon
<1>10. \A e \in {o} \cup EventsOf(o) : Agrees(e)
  <2>1. Agrees(o)
    <3>1. canceled = (o.status = "canceled")
      BY DEF EndsWith
    <3>2. ErrorStated(o, canceled)
      BY <1>1, Zenon DEF EndFits
    <3>3. ErrorStated(o, o.status = "canceled")
      BY <3>1, <3>2, Zenon
    <3> QED BY <3>3, StatedAgrees, Zenon
  <2>2. \A e \in EventsOf(o) : Agrees(e)
    BY <1>5 DEF EventsFit, BelongsTo, EventsOf
  <2> QED BY <2>1, <2>2
<1>11. HasOneCallID(o)
  BY <1>1, Zenon DEF EndFits
<1>12. IsSent(o)
  <2>1. ErrorStated(o, canceled) /\ o.start \in Nat
    BY <1>1, <1>3, Zenon DEF EndFits
  <2> QED BY <1>3, <1>5, <1>6, <2>1, SpanIsSent, Zenon
<1> QED BY <1>7, <1>8, <1>9, <1>10, <1>11, <1>12, Zenon DEF WellFormed

-----------------------------------------------------------------------------
(* Steps that start a handle *)

JoinsOne(handle) ==
  handle.session # 0 => /\ handle.session \in DOMAIN handles
                        /\ JoinsSession(handle, handles[handle.session])

Begins ==
  /\ \E handle : handles' = Append(handles, handle) /\ HandleFits(handle) /\ JoinsOne(handle)
  /\ exported' = <<>> /\ UNCHANGED contexts

LEMMA StartBegins ==
  ASSUME NEW kind, NEW corr, IsCorrelation(corr), NEW start \in Nat \ {0},
         NEW attrs, StartFits(kind, corr, attrs), NEW session, NEW given,
         session # 0 =>
           /\ session \in DOMAIN handles
           /\ JoinsSession([corr |-> corr, given |-> given], handles[session]),
         Start(kind, corr, start, attrs, session, given)
  PROVE  Begins
<1> DEFINE handle == [kind |-> kind, corr |-> corr, start |-> start, attrs |-> attrs,
                      events |-> <<>>, firstToken |-> {}, ended |-> FALSE,
                      session |-> session, given |-> given]
<1>1. handles' = Append(handles, handle) /\ exported' = <<>> /\ UNCHANGED contexts
  BY Zenon DEF Start
<1>2. /\ DOMAIN handle = HandleFields
      /\ handle.kind = kind /\ handle.corr = corr /\ handle.start = start
      /\ handle.attrs = attrs /\ handle.events = <<>> /\ handle.firstToken = {}
      /\ handle.ended = FALSE /\ handle.session = session /\ handle.given = given
  BY DEF HandleFields
<1> HIDE DEF handle
<1>3. EventsFit(handle.events, handle.corr)
  BY <1>2, EmptyListed DEF EventsFit
<1>4. TokensFit(handle)
  BY <1>2, EmptyListed DEF TokensFit, KnownToken, Named
<1>5. HandleFits(handle)
  <2>1. IsCorrelation(handle.corr) /\ StartFits(handle.kind, handle.corr, handle.attrs)
    BY <1>2, Zenon
  <2>2. handle.start \in Nat \ {0} /\ handle.ended \in BOOLEAN
    BY <1>2
  <2> QED BY <1>2, <1>3, <1>4, <2>1, <2>2, Zenon DEF HandleFits
<1>6. JoinsOne(handle)
  <2>1. ASSUME NEW run, run.corr = corr, run.given = given, NEW other,
               JoinsSession([corr |-> corr, given |-> given], other)
        PROVE  JoinsSession(run, other)
    BY <2>1 DEF JoinsSession
  <2> QED BY <1>2, <2>1 DEF JoinsOne
<1> QED BY <1>1, <1>5, <1>6, Zenon DEF Begins

LEMMA FromContextBegins ==
  ASSUME NEW kind, NEW corr, IsCorrelation(corr), NEW start \in Nat \ {0},
         NEW attrs, StartFits(kind, corr, attrs), StartFromContext(kind, corr, start, attrs)
  PROVE  Begins /\ made' = made + 1
<1>1. Start(kind, corr, start, attrs, 0, NoCorrelation) /\ made' = made + 1
  BY Zenon DEF StartFromContext
<1>2. 0 # 0 => /\ 0 \in DOMAIN handles
               /\ JoinsSession([corr |-> corr, given |-> NoCorrelation], handles[0])
  OBVIOUS
<1> QED BY <1>1, <1>2, StartBegins, Zenon

LEMMA StartsBegin ==
  ASSUME NEW c, IsCorrelation(contexts[c]), NEW given \in Correlations,
         NEW at \in Times, Starts(c, given, at)
  PROVE  Begins /\ made' = made + 1
<1> DEFINE known == FromContext(c, given)
<1>1. at \in Nat \ {0} /\ IsCorrelation(known)
  BY GivenOK, ContextFits
<1>2. ASSUME NEW kind \in {"session", "run"}, StartScope(kind, c, given, at)
      PROVE  Begins /\ made' = made + 1
  <2>1. StartFits(kind, known, BaseAttributes(known))
    BY ScopeStarts
  <2>2. StartFromContext(kind, known, at, BaseAttributes(known))
    BY <1>2, Zenon DEF StartScope
  <2> QED BY <1>1, <2>1, <2>2, FromContextBegins, Zenon
<1>3. ASSUME NEW kind \in {"model_call", "stream"}, StartGeneration(kind, c, given, at)
      PROVE  Begins /\ made' = made + 1
  <2> DEFINE attrs == Over(ProviderAttributes(known), BaseAttributes(known))
  <2>1. /\ known.provider # "" /\ known.model # ""
        /\ StartFromContext(kind, known, at, attrs)
    BY <1>3, Zenon DEF StartGeneration
  <2>2. kind \in Generations
    BY DEF Generations
  <2>3. StartFits(kind, known, attrs)
    BY <2>1, <2>2, GenerationStarts, Zenon
  <2> QED BY <1>1, <2>1, <2>3, FromContextBegins, Zenon
<1>4. ASSUME NEW id \in ToolCallIDs, StartToolCall(c, given, id, at)
      PROVE  Begins /\ made' = made + 1
  <2> DEFINE callID == CallID(known, id)
             corr == NamingTool(known, id)
             attrs == Over(ToolAttributes(callID, "server", "started"), BaseAttributes(corr))
  <2>1. callID # "" /\ StartFromContext("tool_call", corr, at, attrs)
    BY <1>4, Zenon DEF StartToolCall
  <2>2. IsCorrelation(corr) /\ corr["correlation.tool_call_id"] = callID
    <3>1. id \in STRING
      BY GivenOK, Zenon
    <3> QED BY <1>1, <3>1, NamingOK, Zenon
  <2>3. StartFits("tool_call", corr, attrs)
    BY <2>1, <2>2, ToolStarts, Zenon
  <2> QED BY <1>1, <2>1, <2>2, <2>3, FromContextBegins, Zenon
<1> QED BY <1>2, <1>3, <1>4, Zenon DEF Starts

LEMMA RunBegins ==
  ASSUME NEW h \in DOMAIN handles, Listed(handles), HandleFits(handles[h]),
         NEW given \in Correlations, NEW at \in Times, SessionStartRun(h, given, at)
  PROVE  Begins /\ UNCHANGED made
<1> DEFINE corr == FromSession(h, given)
           session == handles[h]
           base == [session.corr EXCEPT !.parent = session.corr.id]
<1>1. Start("run", corr, at, BaseAttributes(corr), h, given) /\ UNCHANGED made
  BY Zenon DEF SessionStartRun
<1>2. at \in Nat \ {0} /\ IsCorrelation(given) /\ IsCorrelation(session.corr)
  BY GivenOK DEF HandleFits
<1>3. IsCorrelation(base)
  <2>1. session.corr.id \in Seq(STRING)
    BY <1>2, FieldsApart DEF IsCorrelation
  <2> QED BY <1>2, <2>1, ParentOK
<1>4. corr = MergeCorrelation(base, given)
  BY DEF FromSession
<1>5. IsCorrelation(corr)
  BY <1>2, <1>3, <1>4, MergeOK
<1>6. StartFits("run", corr, BaseAttributes(corr))
  BY ScopeStarts
<1>7. /\ base.parent = session.corr.id
      /\ \A f \in Fields \ IDs : base[f] = session.corr[f]
  BY <1>2, FieldsApart DEF IsCorrelation
<1>8. \A f \in Fields : corr[f] = IF given[f] # NoCorrelation[f] THEN given[f] ELSE base[f]
  BY <1>4 DEF MergeCorrelation
<1>9. /\ NoCorrelation.parent = NoID
      /\ \A f \in Fields \ IDs : NoCorrelation[f] = ""
  BY FieldsApart DEF NoCorrelation
<1> HIDE DEF corr, session, base
<1>10. JoinsSession([corr |-> corr, given |-> given], session)
  <2>1. corr.parent = IF given.parent = NoID THEN session.corr.id ELSE given.parent
    BY <1>7, <1>8, <1>9, FieldsApart
  <2>2. \A f \in Fields \ IDs : corr[f] = FirstNonEmpty(given[f], session.corr[f])
    BY <1>7, <1>8, <1>9 DEF FirstNonEmpty
  <2> QED BY <2>1, <2>2 DEF JoinsSession
<1> QED BY <1>1, <1>2, <1>5, <1>6, <1>10, StartBegins, Zenon DEF session

-----------------------------------------------------------------------------
(* Steps that change a handle *)

(* What never changes of a handle, and its new parts. *)
SameBirth(new, old) ==
  /\ new.kind = old.kind /\ new.corr = old.corr /\ new.start = old.start
  /\ new.attrs = old.attrs /\ new.session = old.session /\ new.given = old.given

Changes(h) ==
  /\ \E new : /\ handles' = [handles EXCEPT ![h] = new]
              /\ HandleFits(new) /\ SameBirth(new, handles[h])
  /\ exported' = <<>> \/ \E o : exported' = <<o>> /\ WellFormed(o)
  /\ UNCHANGED <<contexts, made>>

LEMMA Extended ==
  ASSUME NEW handle, HandleFits(handle), ~handle.ended, NEW event,
         BelongsTo(event, handle.corr),
         event.kind \in {"stream.chunk", "stream.first_token"},
         NEW token, NEW new,
         new = [handle EXCEPT !.events = Append(@, event), !.firstToken = token],
         \/ event.kind = "stream.chunk" /\ token = handle.firstToken
         \/ /\ event.kind = "stream.first_token" /\ handle.firstToken = {}
            /\ \E latency \in Nat :
                 /\ token = {latency}
                 /\ event.attrs["genai.latency.first_token_ms"] = Int64(latency)
  PROVE  HandleFits(new) /\ SameBirth(new, handle)
<1>1. /\ DOMAIN new = DOMAIN handle /\ new.events = Append(handle.events, event)
      /\ new.firstToken = token /\ new.ended = handle.ended
      /\ SameBirth(new, handle)
  BY DEF HandleFits, HandleFields, SameBirth
<1>2. EventsFit(handle.events, handle.corr) /\ TokensFit(handle) /\ Listed(handle.events)
  BY Zenon DEF HandleFits, EventsFit
<1>3. EventsFit(new.events, new.corr)
  BY <1>1, <1>2, AppendFits DEF SameBirth
<1>4. /\ Len(handle.events) \in Nat
      /\ DOMAIN handle.events = 1..Len(handle.events)
      /\ DOMAIN new.events = 1..(Len(handle.events) + 1)
      /\ \A i \in DOMAIN handle.events : new.events[i] = handle.events[i]
      /\ new.events[Len(handle.events) + 1] = event
  BY <1>1, <1>2, Appended
<1> DEFINE name == "stream.first_token"
           key == "genai.latency.first_token_ms"
<1>5. \A i \in DOMAIN new.events : new.events[i].kind \in {"stream.chunk", "stream.first_token"}
  BY <1>2, <1>4 DEF TokensFit
<1>6. TokensFit(new)
  <2>1. CASE event.kind = "stream.chunk" /\ token = handle.firstToken
    <3>1. Named(new, name) = Named(handle, name)
      BY <1>4, <2>1 DEF Named
    <3>2. \A i \in Named(handle, name) : new.events[i] = handle.events[i]
      BY <1>4 DEF Named
    <3>3. KnownToken(new)
      BY <1>1, <1>2, <2>1 DEF KnownToken, TokensFit
    <3>4. new.firstToken = handle.firstToken
      BY <1>1, <2>1
    <3> HIDE DEF name, key
    <3>5. \A i \in Named(new, name) : \A known :
            new.firstToken = {known} => new.events[i].attrs[key] = Int64(known)
      <4>1. \A i \in Named(handle, name) : \A known :
              handle.firstToken = {known} =>
                handle.events[i].attrs[key] = Int64(known)
        BY <1>2, Zenon DEF TokensFit, name, key
      <4>2. \A i \in Named(handle, name) : handle.events[i] = new.events[i]
        BY <1>4, Zenon DEF Named
      <4> QED BY <3>1, <3>4, <4>1, <4>2, Zenon
    <3>6. new.firstToken = {} <=> Named(new, name) = {}
      BY <1>2, <3>1, <3>4, Zenon DEF TokensFit, name
    <3>7. \A i, j \in Named(new, name) : i = j
      BY <1>2, <3>1, Zenon DEF TokensFit, name
    <3> QED BY <1>5, <3>3, <3>5, <3>6, <3>7, Zenon DEF TokensFit, name, key
  <2>2. ASSUME event.kind = "stream.first_token", handle.firstToken = {},
               NEW latency \in Nat, token = {latency}, event.attrs[key] = Int64(latency)
        PROVE  TokensFit(new)
    <3>1. Named(handle, name) = {}
      BY <1>2, <2>2 DEF TokensFit
    <3>2. Named(new, name) = {Len(handle.events) + 1}
      BY <1>4, <2>2, <3>1 DEF Named
    <3>3. KnownToken(new)
      BY <1>1, <2>2 DEF KnownToken
    <3>4. new.firstToken = {latency}
      BY <1>1, <2>2
    <3>5. \A known : new.firstToken = {known} => known = latency
      BY <3>4
    <3>6. \A i \in Named(new, name) : new.events[i] = event
      BY <1>4, <3>2
    <3> HIDE DEF name, key
    <3>7. \A i \in Named(new, name) : \A known :
            new.firstToken = {known} => new.events[i].attrs[key] = Int64(known)
      BY <2>2, <3>5, <3>6
    <3>8. new.firstToken = {} <=> Named(new, name) = {}
      BY <3>2, <3>4
    <3>9. \A i, j \in Named(new, name) : i = j
      BY <3>2
    <3> QED BY <1>5, <3>3, <3>7, <3>8, <3>9, Zenon DEF TokensFit, name, key
  <2> QED BY <2>1, <2>2
<1>7. HandleFits(new)
  <2>1. /\ DOMAIN new = HandleFields /\ IsCorrelation(new.corr)
        /\ StartFits(new.kind, new.corr, new.attrs)
    BY <1>1, Zenon DEF HandleFits, SameBirth
  <2>2. new.start \in Nat \ {0} /\ new.ended \in BOOLEAN
    BY <1>1 DEF HandleFits, SameBirth
  <2> QED BY <1>3, <1>6, <2>1, <2>2, Zenon DEF HandleFits
<1> QED BY <1>1, <1>7

LEMMA AddEventChanges ==
  ASSUME NEW h \in DOMAIN handles, Listed(handles), HandleFits(handles[h]),
         NEW event, NEW token, AddEvent(h, event, token), ~handles[h].ended,
         BelongsTo(event, handles[h].corr),
         event.kind \in {"stream.chunk", "stream.first_token"},
         \/ event.kind = "stream.chunk" /\ token = handles[h].firstToken
         \/ /\ event.kind = "stream.first_token" /\ handles[h].firstToken = {}
            /\ \E latency \in Nat :
                 /\ token = {latency}
                 /\ event.attrs["genai.latency.first_token_ms"] = Int64(latency)
  PROVE  Changes(h)
<1> DEFINE new == [handles[h] EXCEPT !.events = Append(@, event), !.firstToken = token]
<1>1. HandleFits(new) /\ SameBirth(new, handles[h])
  BY Extended
<1>2. handles' = [handles EXCEPT ![h] = new]
  <2>1. handles' = [handles EXCEPT ![h].events = Append(@, event), ![h].firstToken = token]
    BY DEF AddEvent
  <2> QED BY <2>1
<1>3. exported' = <<>> /\ UNCHANGED <<contexts, made>>
  BY DEF AddEvent
<1> HIDE DEF new
<1> QED BY <1>1, <1>2, <1>3, Zenon DEF Changes

LEMMA ChunkChanges ==
  ASSUME NEW h \in DOMAIN handles, Listed(handles), HandleFits(handles[h]),
         NEW index \in Indexes, NEW at \in Times, Chunk(h, index, at)
  PROVE  Changes(h)
<1> DEFINE event == ChunkEvent(handles[h].corr, index, at)
<1>1. /\ ~handles[h].ended /\ AddEvent(h, event, handles[h].firstToken)
      /\ IsCorrelation(handles[h].corr)
  BY Zenon DEF Chunk, Open, HandleFits
<1>2. index \in Int /\ at \in Nat \ {0}
  BY GivenOK
<1>3. BelongsTo(event, handles[h].corr) /\ event.kind = "stream.chunk"
  BY <1>1, <1>2, ChunkFits, Zenon
<1> HIDE DEF event
<1>4. event.kind \in {"stream.chunk", "stream.first_token"}
  BY <1>3
<1> QED BY <1>1, <1>3, <1>4, AddEventChanges, Zenon

LEMMA LatencyNatural ==
  ASSUME NEW h, handles[h].start \in Nat, NEW at \in Nat, NEW given \in Int
  PROVE  FirstTokenLatency(h, at, given) \in Nat
<1>1. Max({given, 0}) \in Nat
  BY MaxNat
<1>2. Max({at - handles[h].start, 0}) \in Nat
  <2>1. at - handles[h].start \in Int
    OBVIOUS
  <2> QED BY <2>1, MaxNat, Zenon
<1> QED BY <1>1, <1>2 DEF FirstTokenLatency

LEMMA FirstTokenChanges ==
  ASSUME NEW h \in DOMAIN handles, Listed(handles), HandleFits(handles[h]),
         NEW given \in Latencies, NEW at \in Times, FirstToken(h, at, given)
  PROVE  Changes(h)
<1> DEFINE latency == FirstTokenLatency(h, at, given)
           event == FirstTokenEvent(handles[h].corr, latency, at)
<1>1. /\ ~handles[h].ended /\ AddEvent(h, event, {latency})
      /\ IsCorrelation(handles[h].corr) /\ handles[h].firstToken = {}
  BY Zenon DEF FirstToken, Open, HandleFits
<1>2. at \in Nat \ {0} /\ latency \in Nat
  <2>1. at \in Nat \ {0} /\ given \in Int /\ handles[h].start \in Nat /\ at \in Nat
    BY GivenOK DEF HandleFits
  <2> QED BY <2>1, LatencyNatural, Zenon
<1> HIDE DEF latency
<1>3. /\ BelongsTo(event, handles[h].corr) /\ event.kind = "stream.first_token"
      /\ event.attrs["genai.latency.first_token_ms"] = Int64(latency)
  BY <1>1, <1>2, FirstTokenFits
<1> HIDE DEF event
<1>4. event.kind \in {"stream.chunk", "stream.first_token"}
  BY <1>3
<1> QED BY <1>1, <1>2, <1>3, <1>4, AddEventChanges, Zenon

LEMMA FinishChanges ==
  ASSUME NEW h \in DOMAIN handles, Listed(handles), HandleFits(handles[h]),
         NEW status, NEW at \in Times, NEW usage \in Usages, NEW error,
         Finish(h, status, at, usage, error),
         NEW canceled, EndsWith(handles[h].kind, status, error, canceled)
  PROVE  Changes(h)
<1> DEFINE handle == handles[h]
           end == Max({at, handle.start})
           o == Finished(handle, status, end, usage, error)
           events == FinalEvents(handle, status, end, error)
           new == [handle EXCEPT !.ended = TRUE, !.events = events]
<1>1. /\ ~handle.ended
      /\ handles' = [handles EXCEPT ![h].ended = TRUE, ![h].events = events]
      /\ exported' = <<o>> /\ UNCHANGED <<contexts, made>>
  BY Zenon DEF Finish
<1>2. handles' = [handles EXCEPT ![h] = new]
  BY <1>1
<1>3. end \in Nat \ {0} /\ end >= handle.start
  <2>1. at \in Nat \ {0} /\ handle.start \in Nat \ {0}
    BY GivenOK DEF HandleFits
  <2>2. end \in {at, handle.start} /\ end >= handle.start
    <3>1. at \in Int /\ handle.start \in Int
      BY <2>1
    <3> QED BY <3>1, MaxOfTwo, Zenon
  <2> HIDE DEF end
  <2> QED BY <2>1, <2>2
<1>4. /\ IsCorrelation(handle.corr) /\ EventsFit(handle.events, handle.corr)
      /\ TokensFit(handle)
  BY <1>1, Zenon DEF HandleFits
<1> HIDE DEF end
<1>5. EventsFit(events, handle.corr)
  BY <1>3, <1>4, LastEvents, Zenon
<1>6. IsEndOf(o, handle, usage) /\ o.end = end /\ o.status = status /\ o.error = error
  BY DEF Finished, Observation, IsEndOf
<1>7. WellFormed(o)
  <2>1. /\ o.end \in Nat /\ o.end >= handle.start
        /\ EndsWith(handle.kind, o.status, o.error, canceled)
    BY <1>3, <1>6
  <2> HIDE DEF o, handle
  <2>2. HandleFits(handle)
    BY DEF handle
  <2> QED BY <1>4, <1>6, <2>1, <2>2, EndWellFormed, Zenon
<1> HIDE DEF o, events
<1>8. /\ DOMAIN new = DOMAIN handle /\ new.events = events /\ new.ended = TRUE
      /\ SameBirth(new, handle)
  BY DEF HandleFits, HandleFields, SameBirth
<1> HIDE DEF new
<1>9. HandleFits(new)
  <2>1. /\ DOMAIN new = HandleFields /\ IsCorrelation(new.corr)
        /\ StartFits(new.kind, new.corr, new.attrs)
    BY <1>8, Zenon DEF HandleFits, SameBirth
  <2>2. new.start \in Nat \ {0} /\ new.ended \in BOOLEAN
    BY <1>8 DEF HandleFits, SameBirth
  <2>3. EventsFit(new.events, new.corr)
    BY <1>5, <1>8, Zenon DEF SameBirth
  <2> QED BY <1>8, <2>1, <2>2, <2>3, Zenon DEF HandleFits
<1> QED BY <1>1, <1>2, <1>7, <1>8, <1>9, Zenon DEF Changes

LEMMA EndChanges ==
  ASSUME NEW h \in DOMAIN handles, Listed(handles), HandleFits(handles[h]),
         NEW at \in Times, NEW usage \in Usages, End(h, at, usage)
  PROVE  Changes(h)
<1>1. EndsWith(handles[h].kind, "ok", NoError, FALSE)
  BY DEF EndsWith
<1>2. Finish(h, "ok", at, usage, NoError)
  BY Zenon DEF End
<1> QED BY <1>1, <1>2, FinishChanges, Zenon

LEMMA ErrorEnds ==
  ASSUME NEW kind, kind # "", NEW classification, NEW status \in {"error", "canceled"},
         NEW canceled \in BOOLEAN, canceled <=> status = "canceled",
         NEW retryable \in BOOLEAN, canceled => ~retryable
  PROVE  EndsWith(kind, status,
           TerminalError(kind, FirstNonEmpty(classification, status), retryable), canceled)
<1> DEFINE error == TerminalError(kind, FirstNonEmpty(classification, status), retryable)
<1>1. /\ error.operation = kind /\ error.retryable = retryable /\ error.dropped = FALSE
      /\ error.classification # ""
  BY DEF TerminalError, FirstNonEmpty
<1> HIDE DEF error
<1>2. SoundError(error, canceled)
  BY <1>1 DEF SoundError
<1> QED BY <1>1, <1>2 DEF EndsWith, error

LEMMA ErrorChanges ==
  ASSUME NEW h \in DOMAIN handles, Listed(handles), HandleFits(handles[h]),
         NEW at \in Times, NEW usage \in Usages, NEW classification,
         NEW canceled \in BOOLEAN, NEW retryable \in BOOLEAN,
         Error(h, at, usage, classification, canceled, retryable)
  PROVE  Changes(h)
<1> DEFINE kind == handles[h].kind
           status == IF canceled THEN "canceled" ELSE "error"
           again == retryable /\ ~canceled /\ kind # "session"
           error == TerminalError(kind, FirstNonEmpty(classification, status), again)
<1>1. Finish(h, status, at, usage, error)
  BY Zenon DEF Error
<1>2. /\ status \in {"error", "canceled"} /\ again \in BOOLEAN
      /\ canceled <=> status = "canceled"
      /\ canceled => ~again
  OBVIOUS
<1>3. kind # ""
  BY DEF HandleFits, StartFits, HandleKinds, Generations
<1> HIDE DEF status, again
<1>4. EndsWith(kind, status, error, canceled)
  BY <1>2, <1>3, ErrorEnds
<1> HIDE DEF error
<1> QED BY <1>1, <1>4, FinishChanges, Zenon

-----------------------------------------------------------------------------
(* The invariant *)

Joins(h) ==
  handles[h].session # 0 =>
    /\ handles[h].session \in DOMAIN handles
    /\ JoinsSession(handles[h], handles[handles[h].session])

ContextsFit ==
  Listed(contexts) /\ \A c \in DOMAIN contexts : IsCorrelation(contexts[c])

HandlesFit ==
  Listed(handles) /\ \A h \in DOMAIN handles : HandleFits(handles[h]) /\ Joins(h)

(* Contexts and handles are what the helpers make of them, at every moment and
   not only when they are exported; what is exported is well formed. *)
IInv ==
  /\ ContextsFit /\ HandlesFit
  /\ made \in 0..MaxMade
  /\ \A o \in Exported : WellFormed(o)

LEMMA ExportedOne ==
  /\ exported = <<>> => Exported = {}
  /\ \A o : exported = <<o>> => Exported = {o}
<1>1. exported = <<>> => Exported = {}
  BY DEF Exported
<1>2. ASSUME NEW o, exported = <<o>> PROVE Exported = {o}
  <2>1. DOMAIN exported = {1} /\ exported[1] = o
    BY <1>2
  <2> QED BY <2>1 DEF Exported
<1> QED BY <1>1, <1>2

LEMMA ExportedNext ==
  ASSUME exported' = <<>> \/ \E o : exported' = <<o>> /\ WellFormed(o)
  PROVE  \A o \in Exported' : WellFormed(o)
<1>1. CASE exported' = <<>>
  BY <1>1 DEF Exported
<1>2. ASSUME NEW o, exported' = <<o>>, WellFormed(o)
      PROVE  \A p \in Exported' : WellFormed(p)
  <2>1. DOMAIN exported' = {1} /\ exported'[1] = o
    BY <1>2
  <2>2. Exported' = {o}
    BY <2>1 DEF Exported
  <2> QED BY <1>2, <2>2, Zenon
<1> QED BY <1>1, <1>2, Zenon

LEMMA SameHandles ==
  ASSUME HandlesFit, handles' = handles PROVE HandlesFit'
BY DEF HandlesFit, Joins

LEMMA SameContexts ==
  ASSUME ContextsFit, contexts' = contexts PROVE ContextsFit'
BY DEF ContextsFit

LEMMA JoinsStays ==
  ASSUME NEW new, NEW old, SameBirth(new, old), NEW a, NEW b, SameBirth(a, b),
         JoinsSession(old, b)
  PROVE  JoinsSession(new, a)
BY DEF SameBirth, JoinsSession

LEMMA BeginsFits ==
  ASSUME HandlesFit, Begins PROVE HandlesFit'
<1>1. PICK handle : /\ handles' = Append(handles, handle) /\ HandleFits(handle)
                    /\ JoinsOne(handle)
  BY Zenon DEF Begins
<1>2. /\ Listed(handles') /\ Len(handles) \in Nat
      /\ DOMAIN handles = 1..Len(handles) /\ DOMAIN handles' = 1..(Len(handles) + 1)
      /\ \A i \in DOMAIN handles : handles'[i] = handles[i]
      /\ handles'[Len(handles) + 1] = handle
  BY <1>1, Appended DEF HandlesFit
<1>3. ASSUME NEW h \in DOMAIN handles' PROVE HandleFits(handles'[h]) /\ Joins(h)'
  <2>1. CASE h \in DOMAIN handles
    <3>1. HandleFits(handles[h]) /\ Joins(h) /\ handles'[h] = handles[h]
      BY <1>2, <2>1, Zenon DEF HandlesFit
    <3>2. \A i \in DOMAIN handles : i \in DOMAIN handles' /\ handles'[i] = handles[i]
      BY <1>2
    <3> QED BY <3>1, <3>2, Zenon DEF Joins
  <2>2. CASE h = Len(handles) + 1
    <3>1. handles'[h] = handle
      BY <1>2, <2>2
    <3>2. \A i \in DOMAIN handles : i \in DOMAIN handles' /\ handles'[i] = handles[i]
      BY <1>2
    <3> QED BY <1>1, <3>1, <3>2, Zenon DEF Joins, JoinsOne
  <2> QED BY <1>2, <2>1, <2>2
<1> QED BY <1>2, <1>3 DEF HandlesFit

LEMMA Narrow ==
  ASSUME NEW S, NEW R, NEW t \in Seq(S), \A i \in 1..Len(t) : t[i] \in R
  PROVE  t \in Seq(R)
OBVIOUS

LEMMA Updated ==
  ASSUME NEW s, Listed(s), NEW h \in DOMAIN s, NEW x, NEW t, t = [s EXCEPT ![h] = x]
  PROVE  /\ Listed(t) /\ DOMAIN t = DOMAIN s /\ t[h] = x
         /\ \A i \in DOMAIN s : i # h => t[i] = s[i]
<1> DEFINE S == {s[i] : i \in DOMAIN s} \cup {x}
           R == {t[i] : i \in DOMAIN t}
<1>1. s \in Seq(S) /\ x \in S
  BY DEF Listed
<1>2. DOMAIN t = DOMAIN s /\ t[h] = x /\ \A i \in DOMAIN s : i # h => t[i] = s[i]
  OBVIOUS
<1>3. t \in Seq(S)
  <2> HIDE DEF S
  <2> QED BY <1>1
<1>4. \A i \in 1..Len(t) : t[i] \in R
  BY <1>3
<1>5. t \in Seq(R)
  <2> HIDE DEF R, S
  <2> QED BY <1>3, <1>4, Narrow, Zenon
<1> QED BY <1>2, <1>5 DEF Listed

LEMMA ChangesFits ==
  ASSUME HandlesFit, NEW h \in DOMAIN handles, Changes(h) PROVE HandlesFit'
<1>1. PICK new : /\ handles' = [handles EXCEPT ![h] = new]
                 /\ HandleFits(new) /\ SameBirth(new, handles[h])
  BY Zenon DEF Changes
<1>2. /\ Listed(handles') /\ DOMAIN handles' = DOMAIN handles /\ handles'[h] = new
      /\ \A i \in DOMAIN handles : i # h => handles'[i] = handles[i]
  BY <1>1, Updated DEF HandlesFit
<1>3. \A i \in DOMAIN handles : SameBirth(handles'[i], handles[i])
  <2> TAKE i \in DOMAIN handles
  <2>1. CASE i = h
    BY <1>1, <1>2, <2>1
  <2>2. CASE i # h
    BY <1>2, <2>2 DEF SameBirth
  <2> QED BY <2>1, <2>2
<1>4. \A i \in DOMAIN handles : HandleFits(handles'[i])
  BY <1>1, <1>2, Zenon DEF HandlesFit
<1>5. ASSUME NEW i \in DOMAIN handles PROVE Joins(i)'
  <2>1. Joins(i) /\ handles'[i].session = handles[i].session
    BY <1>3 DEF HandlesFit, SameBirth
  <2>2. CASE handles[i].session = 0
    BY <2>1, <2>2 DEF Joins
  <2>3. CASE handles[i].session # 0
    <3>1. /\ handles[i].session \in DOMAIN handles
          /\ JoinsSession(handles[i], handles[handles[i].session])
      BY <2>1, <2>3 DEF Joins
    <3>2. JoinsSession(handles'[i], handles'[handles[i].session])
      <4>1. /\ SameBirth(handles'[i], handles[i])
            /\ SameBirth(handles'[handles[i].session], handles[handles[i].session])
        BY <1>3, <3>1
      <4>2. JoinsSession(handles[i], handles[handles[i].session])
        BY <3>1
      <4> QED BY <4>1, <4>2, JoinsStays
    <3> QED BY <1>2, <2>1, <3>1, <3>2 DEF Joins
  <2> QED BY <2>2, <2>3
<1> QED BY <1>2, <1>4, <1>5, Zenon DEF HandlesFit

LEMMA ContextFitsNext ==
  ASSUME ContextsFit, NEW c \in DOMAIN contexts, NEW given \in Correlations,
         ContextWithCorrelation(c, given)
  PROVE  ContextsFit'
<1> DEFINE known == FromContext(c, given)
<1>1. IsCorrelation(known)
  BY ContextFits DEF ContextsFit
<1>2. contexts' = Append(contexts, known)
  BY DEF ContextWithCorrelation
<1> HIDE DEF known
<1>3. /\ Listed(contexts') /\ Len(contexts) \in Nat
      /\ DOMAIN contexts = 1..Len(contexts) /\ DOMAIN contexts' = 1..(Len(contexts) + 1)
      /\ \A i \in DOMAIN contexts : contexts'[i] = contexts[i]
      /\ contexts'[Len(contexts) + 1] = known
  BY <1>2, Appended DEF ContextsFit
<1>4. ASSUME NEW i \in DOMAIN contexts' PROVE IsCorrelation(contexts'[i])
  <2>1. CASE i \in DOMAIN contexts
    BY <1>3, <2>1 DEF ContextsFit
  <2>2. CASE i = Len(contexts) + 1
    BY <1>1, <1>3, <2>2
  <2> QED BY <1>3, <2>1, <2>2
<1> QED BY <1>3, <1>4 DEF ContextsFit

LEMMA EmitsKeeps ==
  ASSUME IInv, made < MaxMade, Emits PROVE IInv'
<1>1. ContextsFit' /\ HandlesFit'
  BY SameContexts, SameHandles DEF IInv, Emits
<1>2. made' \in 0..MaxMade
  BY ConstantsAssumption DEF IInv, Emits
<1>3. \A o \in Exported' : WellFormed(o)
  BY ExportedNext, Zenon DEF Emits
<1> QED BY <1>1, <1>2, <1>3, Zenon DEF IInv

LEMMA BeginsKeeps ==
  ASSUME IInv, Begins, made' \in 0..MaxMade PROVE IInv'
<1>1. ContextsFit' /\ HandlesFit'
  BY SameContexts, BeginsFits, Zenon DEF IInv, Begins
<1>2. \A o \in Exported' : WellFormed(o)
  BY ExportedNext, Zenon DEF Begins
<1> QED BY <1>1, <1>2, Zenon DEF IInv

LEMMA ChangesKeeps ==
  ASSUME IInv, NEW h \in DOMAIN handles, Changes(h) PROVE IInv'
<1>1. ContextsFit' /\ HandlesFit'
  BY SameContexts, ChangesFits, Zenon DEF IInv, Changes
<1>2. made' \in 0..MaxMade
  BY DEF IInv, Changes
<1>3. \A o \in Exported' : WellFormed(o)
  BY ExportedNext, Zenon DEF Changes
<1> QED BY <1>1, <1>2, <1>3, Zenon DEF IInv

LEMMA InvariantInit == Init => IInv
<1> SUFFICES ASSUME Init PROVE IInv
  OBVIOUS
<1>1. ContextsFit
  <2>1. contexts = <<NoCorrelation>>
    BY DEF Init
  <2>2. Listed(contexts) /\ DOMAIN contexts = {1} /\ contexts[1] = NoCorrelation
    BY <2>1 DEF Listed
  <2> QED BY <2>2, NoCorrelationOK DEF ContextsFit
<1>2. HandlesFit
  BY EmptyListed DEF HandlesFit, Init
<1>3. made \in 0..MaxMade /\ Exported = {}
  BY ConstantsAssumption, ExportedOne DEF Init
<1> QED BY <1>1, <1>2, <1>3 DEF IInv

LEMMA ContinuesKeeps ==
  ASSUME IInv, NEW h \in DOMAIN handles, NEW at \in Times, Continues(h, at)
  PROVE  IInv'
<1>1. Listed(handles) /\ HandleFits(handles[h])
  BY Zenon DEF IInv, HandlesFit
<1>2. ASSUME NEW given \in Correlations, SessionStartRun(h, given, at)
      PROVE  IInv'
  <2>1. Begins /\ UNCHANGED made
    BY <1>1, <1>2, RunBegins, Zenon
  <2>2. made' \in 0..MaxMade
    BY <2>1 DEF IInv
  <2> QED BY <2>1, <2>2, BeginsKeeps, Zenon
<1>3. ASSUME NEW index \in Indexes, Chunk(h, index, at) PROVE IInv'
  BY <1>1, <1>3, ChunkChanges, ChangesKeeps, Zenon
<1>4. ASSUME NEW latency \in Latencies, FirstToken(h, at, latency) PROVE IInv'
  BY <1>1, <1>4, FirstTokenChanges, ChangesKeeps, Zenon
<1>5. ASSUME NEW usage \in Usages, End(h, at, usage) PROVE IInv'
  BY <1>1, <1>5, EndChanges, ChangesKeeps, Zenon
<1>6. ASSUME NEW usage \in Usages, NEW class \in Classes,
             NEW canceled \in BOOLEAN, NEW retryable \in BOOLEAN,
             Error(h, at, usage, class, canceled, retryable)
      PROVE  IInv'
  BY <1>1, <1>6, ErrorChanges, ChangesKeeps, Zenon
<1> QED BY <1>2, <1>3, <1>4, <1>5, <1>6, Zenon DEF Continues

LEMMA InvariantNext == IInv /\ [Next]_vars => IInv'
<1> SUFFICES ASSUME IInv, [Next]_vars PROVE IInv'
  OBVIOUS
<1>1. ASSUME NEW c \in DOMAIN contexts, NEW given \in Correlations,
             ContextWithCorrelation(c, given)
      PROVE  IInv'
  <2>1. exported' = <<>> /\ handles' = handles /\ made' = made
    BY <1>1 DEF ContextWithCorrelation
  <2>2. ContextsFit' /\ HandlesFit'
    BY <1>1, <2>1, ContextFitsNext, SameHandles, Zenon DEF IInv
  <2>3. \A o \in Exported' : WellFormed(o)
    BY <2>1, ExportedNext, Zenon
  <2> QED BY <2>1, <2>2, <2>3 DEF IInv
<1>2. ASSUME made < MaxMade, NEW c \in DOMAIN contexts, NEW given \in Correlations,
             NEW at \in Times, Starts(c, given, at)
      PROVE  IInv'
  <2>1. IsCorrelation(contexts[c])
    BY Zenon DEF IInv, ContextsFit
  <2>2. Begins /\ made' = made + 1
    BY <1>2, <2>1, StartsBegin, Zenon
  <2>3. made' \in 0..MaxMade
    BY <1>2, <2>2, ConstantsAssumption DEF IInv
  <2> QED BY <2>2, <2>3, BeginsKeeps, Zenon
<1>3. ASSUME made < MaxMade, NEW c \in DOMAIN contexts, NEW given \in Correlations,
             NEW at \in Times, ToolEvents(c, given, at) \/ OtherEvents(c, given, at)
      PROVE  IInv'
  <2>1. IsCorrelation(contexts[c])
    BY Zenon DEF IInv, ContextsFit
  <2>2. Emits
    BY <1>3, <2>1, ToolEventsEmit, OtherEventsEmit, Zenon
  <2> QED BY <1>3, <2>2, EmitsKeeps, Zenon
<1>4. ASSUME NEW h \in DOMAIN handles, NEW at \in Times, Continues(h, at)
      PROVE  IInv'
  BY <1>4, ContinuesKeeps, Zenon
<1>5. ASSUME UNCHANGED vars PROVE IInv'
  <2>1. /\ contexts' = contexts /\ handles' = handles /\ made' = made
        /\ exported' = exported
    BY <1>5 DEF vars
  <2>2. ContextsFit' /\ HandlesFit'
    BY <2>1, SameContexts, SameHandles, Zenon DEF IInv
  <2>3. Exported' = Exported
    BY <2>1 DEF Exported
  <2> QED BY <2>1, <2>2, <2>3 DEF IInv
<1> QED BY <1>1, <1>2, <1>3, <1>4, <1>5, Zenon DEF Next

LEMMA Invariant == Spec => []IInv
BY InvariantInit, InvariantNext, PTL DEF Spec

-----------------------------------------------------------------------------
(* Theorems *)

LEMMA TypeFollows == IInv => TypeOK
<1> SUFFICES ASSUME IInv PROVE TypeOK
  OBVIOUS
<1>1. \A c \in DOMAIN contexts : IsCorrelation(contexts[c])
  BY Zenon DEF IInv, ContextsFit
<1>2. ASSUME NEW h \in DOMAIN handles
      PROVE  /\ IsCorrelation(handles[h].corr) /\ handles[h].ended \in BOOLEAN
             /\ \A e \in EventsOf(handles[h]) : HasType(e)
  <2>1. HandleFits(handles[h])
    BY Zenon DEF IInv, HandlesFit
  <2>2. EventsFit(handles[h].events, handles[h].corr)
    BY <2>1, Zenon DEF HandleFits
  <2>3. \A e \in EventsOf(handles[h]) : HasType(e)
    BY <2>2 DEF EventsFit, EventsOf, BelongsTo
  <2> QED BY <2>1, <2>3, Zenon DEF HandleFits
<1>3. made \in 0..MaxMade /\ \A o \in Exported : HasType(o)
  BY Zenon DEF IInv, WellFormed
<1> QED BY <1>1, <1>2, <1>3, Zenon DEF TypeOK

(* Whatever calls a program makes of the helpers and in whatever order, contexts
   and handles keep their types; no attribute that is added is empty or negative. *)
THEOREM TypeCorrect == Spec => []TypeOK
BY Invariant, TypeFollows, PTL

(* An observation that was given an id and a trace satisfies validation, which no
   helper calls, but for the complaints that KnownComplaints names: every handle
   and every one-call event, for all correlations, errors, times and orders. *)
THEOREM SchemaHolds == Spec => []SatisfiesSchema
<1>1. IInv => SatisfiesSchema
  BY Zenon DEF IInv, WellFormed, SatisfiesSchema
<1> QED BY <1>1, Invariant, PTL

(* What a stream says when it ends and what its events said agree: parents,
   latency of the one first token, and the cancellation as the last event. *)
THEOREM StreamsTellOneStory == Spec => []StreamTellsOneStory
<1>1. IInv => StreamTellsOneStory
  BY Zenon DEF IInv, WellFormed, StreamTellsOneStory
<1> QED BY <1>1, Invariant, PTL

(* The error of an observation and its error attributes, built by different
   code, never contradict each other, in events as well as in handles. *)
THEOREM ErrorsAgree == Spec => []ErrorFieldsAgree
<1>1. IInv => ErrorFieldsAgree
  BY Zenon DEF IInv, WellFormed, ErrorFieldsAgree
<1> QED BY <1>1, Invariant, PTL

(* Runs join the session that started them, and a tool has one call id. *)
THEOREM IdentitiesHold == Spec => []IdentitiesAgree
<1>1. IInv => IdentitiesAgree
  BY Zenon DEF IInv, HandlesFit, Joins, WellFormed, IdentitiesAgree
<1> QED BY <1>1, Invariant, PTL

(* The payload for Datadog keeps identity, attributes and events of every handle
   that ended, and nothing is sent of one-call events. *)
THEOREM PayloadKeepsAll == Spec => []PayloadKeepsObservation
<1>1. IInv => PayloadKeepsObservation
  BY Zenon DEF IInv, WellFormed, PayloadKeepsObservation
<1> QED BY <1>1, Invariant, PTL
=============================================================================
