--------------------------- MODULE PipelineProofs ---------------------------
(***************************************************************************)
(* Proofs about ObservationPipeline.                                       *)
(***************************************************************************)
EXTENDS ObservationPipeline, RedactionProofs

-----------------------------------------------------------------------------
(* The orders of a map. *)

LEMMA OrderFacts ==
  ASSUME NEW fields \in Entries, NEW order \in Orders(fields)
  PROVE  /\ Len(order) \in Nat /\ DOMAIN order = 1..Len(order)
         /\ \A j \in 1..Len(order) : order[j] \in fields /\ Entry(order[j])
         /\ \A e \in fields : \E j \in 1..Len(order) : order[j] = e
         /\ \A i, j \in 1..Len(order) : i # j => order[i] # order[j]
         /\ \A i, j \in 1..Len(order) :
              i < j => ~Before(Trimmed(order[j].name), Trimmed(order[i].name))
<1> DEFINE n == Cardinality(fields)
<1>1. IsFiniteSet(fields) /\ \A e \in fields : Entry(e)
  BY DEF Entries, Entry
<1>2. n \in Nat
  BY <1>1, FS_CardinalityType
<1>3. /\ order \in [1..n -> fields]
      /\ \A i, j \in 1..n : i # j => order[i] # order[j]
      /\ \A i, j \in DOMAIN order :
           i < j => ~Before(Trimmed(order[j].name), Trimmed(order[i].name))
  BY DEF Orders, SetToSeqs
<1>4. IsFiniteSet(1..n) /\ Cardinality(1..n) = n
  <2> HIDE DEF n
  <2>1. /\ IsFiniteSet(1..n)
        /\ Cardinality(1..n) = IF 1 > n THEN 0 ELSE n - 1 + 1
    BY <1>2, FS_Interval
  <2> QED BY <1>2, <2>1
<1>5. order \in Injection(1..n, fields)
  BY <1>3 DEF Injection, IsInjective
<1>6. order \in Surjection(1..n, fields)
  BY <1>1, <1>4, <1>5, FS_Injection
<1>7. \A e \in fields : \E j \in 1..n : order[j] = e
  BY <1>6 DEF Surjection
<1> HIDE DEF n
<1>8. Len(order) = n
  BY <1>2, <1>3
<1> QED BY <1>1, <1>2, <1>3, <1>7, <1>8

-----------------------------------------------------------------------------
(* Paths and keys of summaries and of metadata. *)

Words == {"tool", "input", "output", "genai", "request", "response", "stream",
          "chunk", "compaction", "summary", "name", "text", "fields"}

SummaryPaths ==
  {<<"tool", "input", "summary">>, <<"tool", "output", "summary">>,
   <<"genai", "request", "summary">>, <<"genai", "response", "summary">>,
   <<"stream", "chunk", "summary">>, <<"compaction", "summary">>}

LEMMA SummaryPathFacts ==
  ASSUME NEW path \in SummaryPaths
  PROVE  /\ path \in Seq(Words) /\ Len(path) \in 2..3
         /\ path[Len(path)] = "summary"
         /\ \A q \in SummaryPaths : q[1] = path[1] /\ q[2] = path[2] => q = path
<1> DEFINE Begins(q, one, two) == q[1] = one /\ q[2] = two
<1>1. ASSUME NEW q \in SummaryPaths
      PROVE  \/ q = <<"tool", "input", "summary">> /\ Begins(q, "tool", "input")
             \/ q = <<"tool", "output", "summary">> /\ Begins(q, "tool", "output")
             \/ q = <<"genai", "request", "summary">> /\ Begins(q, "genai", "request")
             \/ q = <<"genai", "response", "summary">> /\ Begins(q, "genai", "response")
             \/ q = <<"stream", "chunk", "summary">> /\ Begins(q, "stream", "chunk")
             \/ q = <<"compaction", "summary">> /\ Begins(q, "compaction", "summary")
  BY DEF SummaryPaths
<1>2. ASSUME NEW q \in SummaryPaths, q[1] = path[1], q[2] = path[2] PROVE q = path
  <2> DEFINE one == path[1]
             two == path[2]
  <2>1. Begins(q, one, two) /\ Begins(path, one, two)
    BY <1>2
  <2> HIDE DEF one, two
  <2> QED BY <1>1, <2>1
<1>3. path \in Seq(Words) /\ Len(path) \in 2..3 /\ path[Len(path)] = "summary"
  <2>1. CASE path = <<"compaction", "summary">>
    BY <2>1 DEF Words
  <2>2. CASE path # <<"compaction", "summary">>
    <3>1. PICK a \in Words, b \in Words : path = <<a, b, "summary">>
      BY <2>2 DEF SummaryPaths, Words
    <3>2. "summary" \in Words
      BY DEF Words
    <3> QED BY <3>1, <3>2
  <2> QED BY <2>1, <2>2
<1> QED BY <1>2, <1>3

LEMMA AppendFacts ==
  ASSUME NEW path \in SummaryPaths, NEW word \in Words
  PROVE  /\ Append(path, word) \in Seq(Words)
         /\ Len(Append(path, word)) = Len(path) + 1
         /\ Len(path) \in 2..3
         /\ Last(Append(path, word)) = word
         /\ Front(Append(path, word)) = path
         /\ Append(path, word)[1] = path[1] /\ Append(path, word)[2] = path[2]
<1> DEFINE longer == Append(path, word)
           n == Len(path)
<1>1. path \in Seq(Words) /\ n \in 2..3
  BY SummaryPathFacts
<1>2. /\ longer \in Seq(Words) /\ Len(longer) = n + 1
      /\ \A i \in 1..n : longer[i] = path[i]
      /\ longer[n + 1] = word
  BY <1>1, AppendProperties
<1> HIDE DEF longer, n
<1>3. Last(longer) = word
  BY <1>2 DEF Last
<1>4. Front(longer) = path
  <2>1. Front(longer) = SubSeq(longer, 1, n)
    BY <1>1, <1>2 DEF Front
  <2>2. SubSeq(longer, 1, n) = path
    BY <1>1, SMTT(30) DEF longer, n
  <2> QED BY <2>1, <2>2
<1>5. longer[1] = path[1] /\ longer[2] = path[2]
  BY <1>1, <1>2
<1> QED BY <1>1, <1>2, <1>3, <1>4, <1>5 DEF longer, n

Under(path, key) ==
  Len(key.path) >= 2 /\ key.path[1] = path[1] /\ key.path[2] = path[2]

FieldsPath(path) == Append(path, "fields")

LEMMA SummaryKeyFacts ==
  ASSUME NEW path \in SummaryPaths
  PROVE  /\ IsKey(Plain(path)) /\ Under(path, Plain(path))
         /\ IsKey(Plain(Append(path, "name"))) /\ Under(path, Plain(Append(path, "name")))
         /\ \A name \in Name : /\ IsKey(Named(FieldsPath(path), name))
                               /\ Under(path, Named(FieldsPath(path), name))
<1>1. path \in Seq(Words) /\ Len(path) \in 2..3
  BY SummaryPathFacts
<1>2. ASSUME NEW word \in Words
      PROVE  /\ Append(path, word) \in Seq(Range(Append(path, word)))
             /\ Len(Append(path, word)) > 1
             /\ Last(Append(path, word)) = word
             /\ Append(path, word)[1] = path[1] /\ Append(path, word)[2] = path[2]
  <2>1. /\ Append(path, word) \in Seq(Words)
        /\ Len(Append(path, word)) = Len(path) + 1
        /\ Last(Append(path, word)) = word
        /\ Append(path, word)[1] = path[1] /\ Append(path, word)[2] = path[2]
    BY AppendFacts
  <2>2. Append(path, word) \in Seq(Range(Append(path, word)))
    BY <2>1, SeqOfRange
  <2>3. Len(Append(path, word)) > 1
    BY <1>1, <2>1
  <2> QED BY <2>1, <2>2, <2>3
<1>3. path \in Seq(Range(path))
  BY <1>1, SeqOfRange
<1>4. IsKey(Plain(path)) /\ Under(path, Plain(path))
  <2>1. Len(path) >= 2
    <3>1. \A n \in 2..3 : n >= 2
      OBVIOUS
    <3> QED BY <1>1, <3>1
  <2>2. /\ Plain(path).path = path /\ Plain(path).name = NoName
        /\ Plain(path) = Named(path, NoName)
    BY DEF Plain, Named
  <2> QED BY <1>3, <2>1, <2>2 DEF IsKey, Under
<1>5. IsKey(Plain(Append(path, "name"))) /\ Under(path, Plain(Append(path, "name")))
  <2>1. "name" \in Words
    BY DEF Words
  <2> QED BY <1>2, <2>1 DEF IsKey, Plain, Named, Under
<1>6. ASSUME NEW name \in Name
      PROVE  /\ IsKey(Named(FieldsPath(path), name))
             /\ Under(path, Named(FieldsPath(path), name))
  <2>1. "fields" \in Words
    BY DEF Words
  <2> QED BY <1>2, <2>1 DEF IsKey, Named, Under, FieldsPath
<1> QED BY <1>4, <1>5, <1>6

-----------------------------------------------------------------------------
(* What attributes and records have to do with the items they came from:   *)
(* every attribute is an item, as it was supplied or cut for the Observer, *)
(* and every item is there, or a record tells why it is not.               *)

ObserverLimit == MaxSummaryBytes(options.observer)

ItemKept(item, value, records) ==
  /\ item.runes \in Runes
  /\ \/ value = item.runes /\ item.limits = OwnLimit
     \/ /\ value = item.runes /\ item.limits = {}
        /\ item.key.name = NoName /\ Last(item.key.path) = "name"
     \/ /\ item.limits = BothLimits
        /\ value = TruncateUTF8(item.runes, ObserverLimit)
        /\ \/ value = item.runes
           \/ \E r \in records : /\ r.path \in AboutItem(item)
                                 /\ Shortened(r, r.path, item.runes, value)

ItemGone(item, records) ==
  \E r \in records : r.path \in AboutItem(item) /\ Gone(r, r.path)

Supplied(attributes, records, items) ==
  /\ \A k \in DOMAIN attributes : IsKey(k) /\ attributes[k] \in Value
  /\ \A k \in DOMAIN attributes :
       \E item \in items : item.key = k /\ ItemKept(item, attributes[k].runes, records)
  /\ \A item \in items : item.key \in DOMAIN attributes \/ ItemGone(item, records)
  /\ \A r \in records : GoodRecord(r)

Source(attributes, records, items) ==
  [attributes |-> attributes, records |-> records, items |-> items]

LEMMA SuppliedTogether ==
  ASSUME NEW attributes, NEW records, NEW items, NEW sources,
         \A s \in sources : Supplied(s.attributes, s.records, s.items),
         \A s \in sources : \A k \in DOMAIN s.attributes :
           k \in DOMAIN attributes /\ attributes[k] = s.attributes[k],
         \A k \in DOMAIN attributes : \E s \in sources : k \in DOMAIN s.attributes,
         \A s \in sources : s.records \subseteq records /\ s.items \subseteq items,
         \A r \in records : \E s \in sources : r \in s.records,
         \A item \in items : \E s \in sources : item \in s.items
  PROVE  Supplied(attributes, records, items)
<1>1. ASSUME NEW k \in DOMAIN attributes
      PROVE  /\ IsKey(k) /\ attributes[k] \in Value
             /\ \E item \in items : item.key = k /\ ItemKept(item, attributes[k].runes, records)
  <2>1. PICK s \in sources : k \in DOMAIN s.attributes
    OBVIOUS
  <2>2. attributes[k] = s.attributes[k]
    BY <2>1
  <2>3. IsKey(k) /\ attributes[k] \in Value
    BY <2>1, <2>2 DEF Supplied
  <2>4. PICK item \in s.items :
          item.key = k /\ ItemKept(item, s.attributes[k].runes, s.records)
    BY <2>1 DEF Supplied
  <2>5. ItemKept(item, attributes[k].runes, records)
    BY <2>2, <2>4 DEF ItemKept
  <2> QED BY <2>3, <2>4, <2>5
<1>2. ASSUME NEW item \in items
      PROVE  item.key \in DOMAIN attributes \/ ItemGone(item, records)
  <2>1. PICK s \in sources : item \in s.items
    OBVIOUS
  <2>2. item.key \in DOMAIN s.attributes \/ ItemGone(item, s.records)
    BY <2>1 DEF Supplied
  <2> QED BY <2>1, <2>2 DEF ItemGone
<1>3. \A r \in records : GoodRecord(r)
  BY DEF Supplied
<1> QED BY <1>1, <1>2, <1>3 DEF Supplied

LEMMA AboutSummaryItem ==
  ASSUME NEW path \in SummaryPaths, NEW item,
         item.key \in {Plain(path), Plain(Append(path, "name"))}
           \cup {Named(FieldsPath(path), name) : name \in Name}
  PROVE  {item.key, Plain(path), Plain(Append(path, "name")), Plain(Append(path, "text"))}
           \subseteq AboutItem(item)
<1> DEFINE base == IF item.key.name # NoName \/ Last(item.key.path) = "name"
                   THEN Front(item.key.path) ELSE item.key.path
<1>1. /\ "name" \in Words /\ "fields" \in Words
      /\ path[Len(path)] = "summary"
  BY SummaryPathFacts DEF Words
<1>2. base = path
  <2>1. CASE item.key = Plain(path)
    BY <1>1, <2>1 DEF Plain, Named, Last
  <2>2. CASE item.key = Plain(Append(path, "name"))
    <3>1. item.key.path = Append(path, "name")
      BY <2>2 DEF Plain, Named
    <3> QED BY <1>1, <3>1, AppendFacts
  <2>3. CASE \E name \in Name : item.key = Named(FieldsPath(path), name)
    <3>1. item.key.path = Append(path, "fields") /\ item.key.name # NoName
      BY <2>3, RedactionAssumption DEF Named, FieldsPath
    <3> QED BY <1>1, <3>1, AppendFacts
  <2> QED BY <2>1, <2>2, <2>3
<1> HIDE DEF base
<1>3. AboutItem(item) =
        {item.key, Plain(base), Plain(Append(base, "name")), Plain(Append(base, "text"))}
  BY DEF AboutItem, base
<1> QED BY <1>2, <1>3

-----------------------------------------------------------------------------
(* SummaryAttributes: fields, text and name. *)

Bounding == options.observer \in Options /\ options.observer.max >= 0

FieldItems(path, fields) ==
  {Bounded(FieldKey(FieldsPath(path), e), e.runes, BothLimits) : e \in fields}

LEMMA TextValue ==
  ASSUME NEW runes \in Runes
  PROVE  Text(runes) \in Value /\ Text(runes).runes = runes
BY DEF Text, Value

LEMMA FieldsSupplied ==
  ASSUME NEW path \in SummaryPaths, NEW fields \in Entries,
         NEW order \in Orders(fields), Bounding
  PROVE  LET map == StringMapAttributes(FieldsPath(path), order, options.observer)
         IN  Supplied(map.attributes, map.records, FieldItems(path, fields))
<1> DEFINE map == StringMapAttributes(FieldsPath(path), order, options.observer)
           n == Len(order)
           key(e) == FieldKey(FieldsPath(path), e)
           item(e) == Bounded(key(e), e.runes, BothLimits)
<1>1. /\ n \in Nat
      /\ \A j \in 1..n : order[j] \in fields /\ Entry(order[j])
      /\ \A e \in fields : \E j \in 1..n : order[j] = e
  BY OrderFacts
<1>2. MapOfEntries(map, FieldsPath(path), order, n, ObserverLimit)
  BY <1>1, StringMapFacts DEF Bounding, ObserverLimit
<1>3. ObserverLimit \in Nat \ {0}
  BY LimitType DEF Bounding, ObserverLimit
<1> HIDE DEF map, n
<1>4. ASSUME NEW e \in fields
      PROVE  /\ item(e).key = key(e) /\ item(e).runes = e.runes
             /\ item(e).limits = BothLimits /\ key(e) \in AboutItem(item(e))
             /\ item(e) \in FieldItems(path, fields)
             /\ Entry(e) /\ IsKey(key(e))
  <2>1. Entry(e)
    BY <1>1
  <2>2. Trimmed(e.name) \in Name
    BY <2>1 DEF Entry, Trimmed, Name
  <2>3. IsKey(key(e))
    BY <2>2, SummaryKeyFacts DEF FieldKey
  <2>4. /\ item(e).key = key(e) /\ item(e).runes = e.runes
        /\ item(e).limits = BothLimits
    BY DEF Bounded
  <2>5. key(e) \in AboutItem(item(e))
    <3> HIDE DEF key, item
    <3> QED BY <2>4 DEF AboutItem
  <2> QED BY <2>1, <2>3, <2>4, <2>5 DEF FieldItems
<1>5. ASSUME NEW k \in DOMAIN map.attributes
      PROVE  /\ IsKey(k) /\ map.attributes[k] \in Value
             /\ \E i \in FieldItems(path, fields) :
                  i.key = k /\ ItemKept(i, map.attributes[k].runes, map.records)
  <2>1. PICK j \in 1..n : FieldKept(map, FieldsPath(path), k, order[j], ObserverLimit)
    BY <1>2 DEF MapOfEntries
  <2> DEFINE e == order[j]
             cut == TruncateUTF8(e.runes, ObserverLimit)
  <2>2. /\ k = key(e) /\ map.attributes[k] = Text(cut)
        /\ cut = e.runes \/ \E r \in map.records : Shortened(r, k, e.runes, cut)
    BY <2>1 DEF FieldKept
  <2>3. e \in fields /\ Entry(e)
    BY <1>1
  <2>4. e.runes \in Runes /\ cut \in Runes
    <3>1. e.runes \in Runes
      BY <2>3 DEF Entry
    <3> HIDE DEF e
    <3> QED BY <1>3, <3>1, TruncateType
  <2> HIDE DEF e, cut
  <2>5. map.attributes[k].runes = cut /\ map.attributes[k] \in Value
    BY <2>2, <2>4, TextValue
  <2>6. /\ item(e).key = k /\ item(e).runes = e.runes
        /\ item(e).limits = BothLimits /\ k \in AboutItem(item(e))
        /\ item(e) \in FieldItems(path, fields) /\ IsKey(k)
    BY <1>4, <2>2, <2>3
  <2> HIDE DEF item, key
  <2>7. ItemKept(item(e), cut, map.records)
    <3>1. cut = e.runes \/
          \E r \in map.records : /\ r.path \in AboutItem(item(e))
                                 /\ Shortened(r, r.path, e.runes, cut)
      BY <2>2, <2>6 DEF Shortened
    <3>2. cut = TruncateUTF8(e.runes, ObserverLimit)
      BY DEF cut
    <3> QED BY <2>4, <2>6, <3>1, <3>2 DEF ItemKept
  <2> QED BY <2>5, <2>6, <2>7
<1>6. ASSUME NEW i \in FieldItems(path, fields)
      PROVE  i.key \in DOMAIN map.attributes \/ ItemGone(i, map.records)
  <2>1. PICK e \in fields : i = item(e)
    BY DEF FieldItems
  <2>2. PICK j \in 1..n : order[j] = e
    BY <1>1
  <2>3. key(e) \in DOMAIN map.attributes \/ \E r \in map.records : Gone(r, key(e))
    BY <1>2, <2>2 DEF MapOfEntries
  <2>4. i.key = key(e) /\ key(e) \in AboutItem(i)
    BY <1>4, <2>1
  <2> HIDE DEF key, item
  <2> QED BY <2>3, <2>4 DEF ItemGone, Gone
<1>7. \A r \in map.records : GoodRecord(r)
  BY <1>2 DEF MapOfEntries
<1>8. Supplied(map.attributes, map.records, FieldItems(path, fields))
  BY <1>5, <1>6, <1>7 DEF Supplied
<1> QED BY <1>8 DEF map

TextItems(path, summary) ==
  {Bounded(Plain(path), summary.runes, BothLimits) : r \in {summary.runes} \ {<<>>}}
NameItems(path, summary) ==
  {Bounded(Plain(Append(path, "name")), NameText(n).runes, {}) :
     n \in {summary.name} \ {NoName}}

SummaryText(path, summary) ==
  BoundedString(Plain(Append(path, "text")), summary.runes, ObserverLimit, "build")
Texted(path, summary) ==
  IF summary.runes = <<>> THEN NoAttributes
  ELSE Only(Plain(path), Text(SummaryText(path, summary).runes))
NamedAttribute(path, summary) ==
  IF summary.name = NoName THEN NoAttributes
  ELSE Only(Plain(Append(path, "name")), NameText(summary.name))

LEMMA NoAttributesFacts == DOMAIN NoAttributes = {}
BY DEF NoAttributes

LEMMA OnlyFacts ==
  ASSUME NEW key, NEW value
  PROVE  DOMAIN Only(key, value) = {key} /\ Only(key, value)[key] = value
BY DEF Only

LEMMA TextSupplied ==
  ASSUME NEW path \in SummaryPaths, NEW summary \in Summary, Bounding
  PROVE  Supplied(Texted(path, summary), SummaryText(path, summary).records,
                  TextItems(path, summary))
<1> DEFINE pass == "build"
           about == Plain(Append(path, "text"))
           runes == summary.runes
           cut == TruncateUTF8(runes, ObserverLimit)
           records == SummaryText(path, summary).records
           item == Bounded(Plain(path), runes, BothLimits)
<1>1. runes \in Runes /\ ObserverLimit \in Nat \ {0} /\ pass \in Passes
  BY LimitType DEF Bounding, ObserverLimit, Summary, Passes
<1>2. /\ \A r \in records : GoodRecord(r)
      /\ SummaryText(path, summary).runes = cut
      /\ cut = runes \/ \E r \in records : Shortened(r, about, runes, cut)
  <2> DEFINE bounded == BoundedString(about, runes, ObserverLimit, pass)
  <2>1. bounded.runes = cut
    BY DEF BoundedString
  <2> HIDE DEF about, pass, runes
  <2>2. IsBounding(bounded, about, runes, ObserverLimit)
    BY <1>1, BoundedStringFacts
  <2>4. /\ \A r \in bounded.records : GoodRecord(r)
        /\ bounded.runes = runes \/
           \E r \in bounded.records : Shortened(r, about, runes, bounded.runes)
    BY <2>2 DEF IsBounding
  <2>3. bounded = SummaryText(path, summary)
    BY DEF SummaryText, about, pass, runes
  <2> HIDE DEF bounded, cut
  <2> QED BY <2>1, <2>3, <2>4
<1>3. cut \in Runes
  <2> HIDE DEF runes
  <2> QED BY <1>1, TruncateType
<1>4. /\ item.key = Plain(path) /\ item.runes = runes /\ item.limits = BothLimits
      /\ about \in AboutItem(item) /\ IsKey(Plain(path))
  <2>1. item.key = Plain(path) /\ item.runes = runes /\ item.limits = BothLimits
    BY DEF Bounded
  <2> HIDE DEF item
  <2> QED BY <2>1, AboutSummaryItem, SummaryKeyFacts
<1>5. TextItems(path, summary) = IF runes = <<>> THEN {} ELSE {item}
  BY DEF TextItems
<1> HIDE DEF item, records, cut, about
<1>6. CASE runes = <<>>
  <2>1. DOMAIN Texted(path, summary) = {}
    BY <1>6, NoAttributesFacts DEF Texted
  <2>2. TextItems(path, summary) = {}
    BY <1>5, <1>6
  <2> HIDE DEF runes
  <2> QED BY <1>2, <2>1, <2>2 DEF Supplied, records
<1>7. CASE runes # <<>>
  <2>1. Texted(path, summary) = Only(Plain(path), Text(cut))
    BY <1>2, <1>7 DEF Texted
  <2>2. TextItems(path, summary) = {item}
    BY <1>5, <1>7
  <2> HIDE DEF runes
  <2>3. /\ DOMAIN Texted(path, summary) = {Plain(path)}
        /\ Texted(path, summary)[Plain(path)] = Text(cut)
    BY <2>1, OnlyFacts
  <2>4. Text(cut) \in Value /\ Text(cut).runes = cut
    BY <1>3, TextValue
  <2>5. ItemKept(item, cut, records)
    <3>1. cut = TruncateUTF8(runes, ObserverLimit)
      BY DEF cut
    <3> QED BY <1>1, <1>2, <1>4, <3>1 DEF ItemKept, Shortened
  <2> QED BY <1>2, <1>4, <2>2, <2>3, <2>4, <2>5 DEF Supplied, records
<1> QED BY <1>6, <1>7

LEMMA NameSupplied ==
  ASSUME NEW path \in SummaryPaths, NEW summary \in Summary
  PROVE  Supplied(NamedAttribute(path, summary), {}, NameItems(path, summary))
<1> DEFINE key == Plain(Append(path, "name"))
           runes == NameText(summary.name).runes
           item == Bounded(key, runes, {})
<1>1. CASE summary.name = NoName
  <2>1. DOMAIN NamedAttribute(path, summary) = {} /\ NameItems(path, summary) = {}
    BY <1>1, NoAttributesFacts DEF NamedAttribute, NameItems
  <2> QED BY <2>1 DEF Supplied
<1>2. CASE summary.name # NoName
  <2>1. NameItems(path, summary) = {item}
    BY <1>2 DEF NameItems
  <2>2. /\ DOMAIN NamedAttribute(path, summary) = {key}
        /\ NamedAttribute(path, summary)[key] = NameText(summary.name)
    BY <1>2, OnlyFacts DEF NamedAttribute
  <2>3. /\ item.key = key /\ item.runes = runes /\ item.limits = {}
    BY DEF Bounded
  <2>4. runes \in Runes /\ NameText(summary.name) \in Value
    <3>1. summary.name \in Name /\ summary.name.bytes \in Nat
      BY <1>2 DEF Summary, Name
    <3>2. [i \in 1..summary.name.bytes |-> 1] \in Runes
      <4> DEFINE n == summary.name.bytes
      <4>1. n \in Nat
        BY <3>1
      <4> HIDE DEF n
      <4>2. [i \in 1..n |-> 1] \in Seq(1..4)
        BY <4>1, IsASeq
      <4> QED BY <4>2 DEF n, Runes
    <3> QED BY <3>2, TextValue DEF NameText
  <2>5. IsKey(key) /\ key.name = NoName /\ Last(key.path) = "name"
    <3>1. key.name = NoName /\ key.path = Append(path, "name")
      BY DEF Plain, Named
    <3>2. "name" \in Words
      BY DEF Words
    <3> HIDE DEF key
    <3>3. Last(key.path) = "name"
      BY <3>1, <3>2, AppendFacts
    <3>4. IsKey(key)
      BY SummaryKeyFacts DEF key
    <3> QED BY <3>1, <3>3, <3>4
  <2> HIDE DEF key, runes, item
  <2>6. ItemKept(item, runes, {})
    BY <2>3, <2>4, <2>5 DEF ItemKept
  <2>7. NameText(summary.name).runes = runes
    BY DEF runes
  <2> QED BY <2>1, <2>2, <2>3, <2>4, <2>5, <2>6, <2>7 DEF Supplied
<1> QED BY <1>1, <1>2

LEMMA SummaryItemsParts ==
  ASSUME NEW path, NEW summary
  PROVE  SummaryItems(path, summary)
           = TextItems(path, summary) \cup FieldItems(path, summary.fields)
             \cup NameItems(path, summary)
BY DEF SummaryItems, TextItems, FieldItems, NameItems, FieldKey, FieldsPath

LEMMA SummaryItemFacts ==
  ASSUME NEW path \in SummaryPaths, NEW summary \in Summary,
         NEW item \in SummaryItems(path, summary)
  PROVE  /\ Under(path, item.key) /\ IsKey(item.key)
         /\ {item.key, Plain(path), Plain(Append(path, "name")), Plain(Append(path, "text"))}
              \subseteq AboutItem(item)
<1>1. item.key \in {Plain(path), Plain(Append(path, "name"))}
        \cup {Named(FieldsPath(path), name) : name \in Name}
  <2>1. CASE item \in TextItems(path, summary)
    BY <2>1 DEF TextItems, Bounded
  <2>2. CASE item \in FieldItems(path, summary.fields)
    <3>1. PICK e \in summary.fields :
            item = Bounded(FieldKey(FieldsPath(path), e), e.runes, BothLimits)
      BY <2>2 DEF FieldItems
    <3>2. e.name \in Name
      BY DEF Summary, Entries
    <3>3. Trimmed(e.name) \in Name
      BY <3>2 DEF Trimmed, Name
    <3>4. item.key = Named(FieldsPath(path), Trimmed(e.name))
      BY <3>1 DEF Bounded, FieldKey
    <3> QED BY <3>3, <3>4
  <2>3. CASE item \in NameItems(path, summary)
    BY <2>3 DEF NameItems, Bounded
  <2> QED BY <2>1, <2>2, <2>3, SummaryItemsParts
<1> QED BY <1>1, AboutSummaryItem, SummaryKeyFacts

(* The three parts of a summary have keys of their own. *)
Merges(all, a, b, c) ==
  /\ DOMAIN all = DOMAIN a \cup DOMAIN b \cup DOMAIN c
  /\ \A k \in DOMAIN a : all[k] = a[k]
  /\ \A k \in DOMAIN b : all[k] = b[k]
  /\ \A k \in DOMAIN c : all[k] = c[k]

LEMMA SummaryMerged ==
  ASSUME NEW path \in SummaryPaths, NEW texted, NEW named, NEW fields,
         DOMAIN texted \subseteq {Plain(path)},
         DOMAIN named \subseteq {Plain(Append(path, "name"))},
         \A k \in DOMAIN fields : k.name # NoName
  PROVE  Merges(Over(texted, Over(named, fields)), texted, named, fields)
<1>1. Plain(path) # Plain(Append(path, "name"))
  <2>1. Len(Append(path, "name")) = Len(path) + 1 /\ Len(path) \in 2..3
    BY AppendFacts DEF Words
  <2>2. Append(path, "name") # path
    BY <2>1
  <2> QED BY <2>2 DEF Plain, Named
<1>2. Plain(path).name = NoName /\ Plain(Append(path, "name")).name = NoName
  BY DEF Plain, Named
<1> DEFINE a == Plain(path)
           b == Plain(Append(path, "name"))
<1>3. /\ a # b /\ a.name = NoName /\ b.name = NoName
      /\ DOMAIN texted \subseteq {a} /\ DOMAIN named \subseteq {b}
  BY <1>1, <1>2
<1> HIDE DEF a, b
<1> QED BY <1>3 DEF Over, Merges

LEMMA SummarySupplied ==
  ASSUME NEW path \in SummaryPaths, NEW summary \in Summary,
         NEW order \in Orders(summary.fields), Bounding
  PROVE  LET s == SummaryAttributes(path, summary, order, options.observer)
         IN  /\ Supplied(s.attributes, s.records, SummaryItems(path, summary))
             /\ SummaryRefused(path, summary, options.observer) # {} =>
                  s.attributes = NoAttributes
<1> DEFINE s == SummaryAttributes(path, summary, order, options.observer)
           refused == SummaryRefused(path, summary, options.observer)
           map == StringMapAttributes(FieldsPath(path), order, options.observer)
           texted == Texted(path, summary)
           named == NamedAttribute(path, summary)
           text == SummaryText(path, summary)
           items == SummaryItems(path, summary)
<1>1. s = IF refused # {}
          THEN [attributes |-> NoAttributes, records |-> refused]
          ELSE [attributes |-> Over(texted, Over(named, map.attributes)),
                records    |-> text.records \cup map.records]
  BY DEF SummaryAttributes, Texted, NamedAttribute, SummaryText, ObserverLimit, FieldsPath
<1>2. ASSUME NEW r \in refused
      PROVE  /\ r.path \in {Plain(path), Plain(Append(path, "name"))}
             /\ Gone(r, r.path) /\ GoodRecord(r)
  <2> DEFINE passed == "build"
             side == Plain(path)
             key == Plain(Append(path, "name"))
             name == summary.name
  <2>1. \/ r = Record(side, "summary_disabled", 0, 0, passed)
        \/ r = Record(side, KeyOmissionReason(name.canonical), 0, 0, passed)
        \/ r = Record(key, "field_limit_exceeded", name.bytes, 0, passed)
    BY DEF SummaryRefused
  <2>2. /\ "summary_disabled" \in Omissions /\ "field_limit_exceeded" \in Omissions
        /\ KeyOmissionReason(name.canonical) \in Omissions /\ passed \in Passes
    BY DEF Omissions, KeyOmissionReason, Passes
  <2> HIDE DEF passed, side, key, name
  <2>3. \/ Gone(r, side) /\ GoodRecord(r)
        \/ Gone(r, key) /\ GoodRecord(r)
    BY <2>1, <2>2, OmissionRecord
  <2>4. \/ Gone(r, r.path) /\ GoodRecord(r) /\ r.path = side
        \/ Gone(r, r.path) /\ GoodRecord(r) /\ r.path = key
    BY <2>3 DEF Gone
  <2> QED BY <2>4 DEF side, key
<1> HIDE DEF s, map, texted, named, text, items, refused
<1>3. CASE refused # {}
  <2>1. s.attributes = NoAttributes /\ s.records = refused
    BY <1>1, <1>3
  <2>2. PICK r \in refused : TRUE
    BY <1>3
  <2>3. \A item \in items : ItemGone(item, refused)
    BY <1>2, <2>2, SummaryItemFacts DEF ItemGone, items
  <2>4. Supplied(s.attributes, s.records, items)
    BY <1>2, <2>1, <2>3, NoAttributesFacts DEF Supplied
  <2> QED BY <2>1, <2>4 DEF s, items
<1>4. CASE refused = {}
  <2> DEFINE sources == {Source(texted, text.records, TextItems(path, summary)),
                         Source(named, {}, NameItems(path, summary)),
                         Source(map.attributes, map.records,
                                FieldItems(path, summary.fields))}
  <2>1. s.attributes = Over(texted, Over(named, map.attributes))
        /\ s.records = text.records \cup map.records
    BY <1>1, <1>4
  <2>2. /\ Supplied(texted, text.records, TextItems(path, summary))
        /\ Supplied(named, {}, NameItems(path, summary))
        /\ Supplied(map.attributes, map.records, FieldItems(path, summary.fields))
    <3>1. summary.fields \in Entries
      BY DEF Summary
    <3> QED BY <3>1, TextSupplied, NameSupplied, FieldsSupplied
            DEF texted, text, named, map
  <2>3. /\ DOMAIN texted \subseteq {Plain(path)}
        /\ DOMAIN named \subseteq {Plain(Append(path, "name"))}
    BY NoAttributesFacts, OnlyFacts DEF texted, Texted, named, NamedAttribute
  <2>4. \A k \in DOMAIN map.attributes : k.name # NoName
    <3> SUFFICES ASSUME NEW k \in DOMAIN map.attributes PROVE k.name # NoName
      OBVIOUS
    <3>1. PICK item \in FieldItems(path, summary.fields) : item.key = k
      BY <2>2 DEF Supplied
    <3>2. PICK e \in summary.fields : item.key = FieldKey(FieldsPath(path), e)
      BY <3>1 DEF FieldItems, Bounded
    <3>3. e.name \in Name
      BY DEF Summary, Entries
    <3>4. Trimmed(e.name) \in Name
      BY <3>3 DEF Trimmed, Name
    <3>5. k.name = Trimmed(e.name)
      BY <3>1, <3>2 DEF FieldKey, Named
    <3> QED BY <3>4, <3>5, RedactionAssumption
  <2>5. /\ DOMAIN s.attributes = DOMAIN texted \cup DOMAIN named \cup DOMAIN map.attributes
        /\ \A k \in DOMAIN texted : s.attributes[k] = texted[k]
        /\ \A k \in DOMAIN named : s.attributes[k] = named[k]
        /\ \A k \in DOMAIN map.attributes : s.attributes[k] = map.attributes[k]
    <3>1. Merges(s.attributes, texted, named, map.attributes)
      BY <2>1, <2>3, <2>4, SummaryMerged
    <3> QED BY <3>1 DEF Merges
  <2>6. items = TextItems(path, summary) \cup FieldItems(path, summary.fields)
                \cup NameItems(path, summary)
    BY SummaryItemsParts DEF items
  <2>7. Supplied(s.attributes, s.records, items)
    <3>1. \A x \in sources :
            \/ /\ x.attributes = texted /\ x.records = text.records
               /\ x.items = TextItems(path, summary)
            \/ /\ x.attributes = named /\ x.records = {}
               /\ x.items = NameItems(path, summary)
            \/ /\ x.attributes = map.attributes /\ x.records = map.records
               /\ x.items = FieldItems(path, summary.fields)
      BY DEF Source
    <3>2. /\ \E x \in sources : /\ x.attributes = texted /\ x.records = text.records
                                /\ x.items = TextItems(path, summary)
          /\ \E x \in sources : /\ x.attributes = named /\ x.records = {}
                                /\ x.items = NameItems(path, summary)
          /\ \E x \in sources : /\ x.attributes = map.attributes /\ x.records = map.records
                                /\ x.items = FieldItems(path, summary.fields)
      BY DEF Source
    <3> HIDE DEF sources
    <3>3. \A x \in sources : Supplied(x.attributes, x.records, x.items)
      BY <2>2, <3>1
    <3>4. /\ \A x \in sources : \A k \in DOMAIN x.attributes :
               k \in DOMAIN s.attributes /\ s.attributes[k] = x.attributes[k]
          /\ \A k \in DOMAIN s.attributes : \E x \in sources : k \in DOMAIN x.attributes
      BY <2>5, <3>1, <3>2
    <3>5. /\ \A x \in sources : x.records \subseteq s.records /\ x.items \subseteq items
          /\ \A r \in s.records : \E x \in sources : r \in x.records
          /\ \A i \in items : \E x \in sources : i \in x.items
      BY <2>1, <2>6, <3>1, <3>2
    <3> QED BY <3>3, <3>4, <3>5, SuppliedTogether
  <2> QED BY <1>4, <2>7 DEF s, items, refused
<1> QED BY <1>3, <1>4

SummaryResult(result, path, summary) ==
  /\ Supplied(result.attributes, result.records, SummaryItems(path, summary))
  /\ \A k \in DOMAIN result.attributes : Under(path, k)
  /\ SummaryRefused(path, summary, options.observer) # {} => DOMAIN result.attributes = {}

LEMMA SummarizedFacts ==
  ASSUME NEW path \in SummaryPaths, NEW summary \in Summary,
         NEW order \in Orders(summary.fields), Bounding
  PROVE  SummaryResult(Summarized(path, summary, order), path, summary)
<1> DEFINE result == Summarized(path, summary, order)
<1>1. /\ Supplied(result.attributes, result.records, SummaryItems(path, summary))
      /\ SummaryRefused(path, summary, options.observer) # {} =>
           DOMAIN result.attributes = {}
  <2>1. CASE IsAbsent(summary)
    <3>1. result.attributes = NoAttributes /\ result.records = {}
      BY <2>1 DEF Summarized
    <3>2. SummaryItems(path, summary) = {}
      BY <2>1 DEF SummaryItems, IsAbsent, NoSummary
    <3> HIDE DEF result
    <3> QED BY <3>1, <3>2, NoAttributesFacts DEF Supplied
  <2>2. CASE ~IsAbsent(summary)
    <3>1. result = SummaryAttributes(path, summary, order, options.observer)
      BY <2>2 DEF Summarized
    <3> HIDE DEF result
    <3> QED BY <3>1, SummarySupplied, NoAttributesFacts
  <2> QED BY <2>1, <2>2
<1> HIDE DEF result
<1>2. \A k \in DOMAIN result.attributes : Under(path, k)
  BY <1>1, SummaryItemFacts DEF Supplied
<1>3. SummaryResult(result, path, summary)
  BY <1>1, <1>2 DEF SummaryResult
<1> QED BY <1>3 DEF result

-----------------------------------------------------------------------------
(* Metadata, and what a program hands in itself. *)

AsItems(attributes) ==
  {Bounded(k, attributes[k].runes, OwnLimit) : k \in DOMAIN attributes}

LEMMA AsSupplied ==
  ASSUME NEW attributes, \A k \in DOMAIN attributes : IsKey(k) /\ attributes[k] \in Value
  PROVE  Supplied(attributes, {}, AsItems(attributes))
<1>1. ASSUME NEW k \in DOMAIN attributes
      PROVE  \E item \in AsItems(attributes) :
               item.key = k /\ ItemKept(item, attributes[k].runes, {})
  <2> DEFINE item == Bounded(k, attributes[k].runes, OwnLimit)
  <2>1. /\ item.key = k /\ item.runes = attributes[k].runes
        /\ item.limits = OwnLimit /\ item \in AsItems(attributes)
    BY DEF AsItems, Bounded
  <2>2. attributes[k].runes \in Runes
    BY DEF Value
  <2> HIDE DEF item
  <2> QED BY <2>1, <2>2 DEF ItemKept
<1>2. \A item \in AsItems(attributes) : item.key \in DOMAIN attributes
  BY DEF AsItems, Bounded
<1> QED BY <1>1, <1>2 DEF Supplied

LEMMA MetadataFacts ==
  ASSUME NEW entries \in Entries
  PROVE  \A k \in DOMAIN AddMetadataAttributes(entries) :
           /\ IsKey(k) /\ AddMetadataAttributes(entries)[k] \in Value
           /\ \A path : ~Under(path, k)
<1> DEFINE filled == {e \in entries : e.runes # <<>>}
           entry(k) == CHOOSE e \in filled : e.name = k.name
<1> SUFFICES ASSUME NEW k \in DOMAIN AddMetadataAttributes(entries)
             PROVE  /\ IsKey(k) /\ AddMetadataAttributes(entries)[k] \in Value
                    /\ \A path : ~Under(path, k)
  OBVIOUS
<1>1. /\ k \in {Named(<<"metadata">>, e.name) : e \in filled}
      /\ AddMetadataAttributes(entries)[k] = Text(entry(k).runes)
  BY DEF AddMetadataAttributes
<1>2. PICK e \in filled : k = Named(<<"metadata">>, e.name)
  BY <1>1
<1>3. /\ k.path = <<"metadata">> /\ k.name = e.name
      /\ k = Named(k.path, k.name)
  BY <1>2 DEF Named
<1>4. entry(k) \in filled
  BY <1>3
<1>5. e.name \in Name /\ entry(k).runes \in Runes
  <2> HIDE DEF entry
  <2> QED BY <1>4 DEF Entries
<1>6. <<"metadata">> \in Seq(Range(<<"metadata">>)) /\ Len(<<"metadata">>) = 1
  BY DEF Range
<1>7. IsKey(k)
  BY <1>3, <1>5, <1>6 DEF IsKey
<1>8. AddMetadataAttributes(entries)[k] \in Value
  <2> HIDE DEF entry
  <2> QED BY <1>1, <1>5, TextValue
<1>9. ASSUME NEW path PROVE ~Under(path, k)
  BY <1>3, <1>6 DEF Under
<1> QED BY <1>7, <1>8, <1>9

Given == Over(AddMetadataAttributes(supply.late), AddMetadataAttributes(supply.metadata))

LEMMA GivenSupplied ==
  ASSUME supply \in Supplies
  PROVE  /\ Supplied(Given, {}, MetadataItems)
         /\ \A k \in DOMAIN Given : \A path : ~Under(path, k)
<1> DEFINE late == AddMetadataAttributes(supply.late)
           early == AddMetadataAttributes(supply.metadata)
<1>1. supply.late \in Entries /\ supply.metadata \in Entries
  BY PipelineAssumption
<1>2. /\ \A k \in DOMAIN late : /\ IsKey(k) /\ late[k] \in Value
                                /\ \A path : ~Under(path, k)
      /\ \A k \in DOMAIN early : /\ IsKey(k) /\ early[k] \in Value
                                 /\ \A path : ~Under(path, k)
  BY <1>1, MetadataFacts
<1> HIDE DEF late, early
<1>3. Given = Over(late, early)
  BY DEF Given, late, early
<1>4. \A k \in DOMAIN Given : /\ IsKey(k) /\ Given[k] \in Value
                              /\ \A path : ~Under(path, k)
  BY <1>2, <1>3 DEF Over
<1>5. MetadataItems = AsItems(Given)
  BY DEF MetadataItems, AsItems, Given
<1> QED BY <1>4, <1>5, AsSupplied

-----------------------------------------------------------------------------
(* The observation at each stage, as what the helpers produce from the     *)
(* supply and some orders of its maps.                                     *)

Calls == {"tool", "model", "stream"}

Inputs(order)  == Summarized(InputPath(supply.handle), supply.input, order)
Outputs(order) == Summarized(OutputPath(supply.handle), supply.output, order)
Chunks(order)  == Summarized(ChunkPath, supply.chunk, order)

ChunkEvent(order) ==
  [attributes |-> Chunks(order).attributes, records |-> Chunks(order).records,
   error |-> NoError]

(* Its event is that of the chunk. *)
Events(obs) ==
  \/ obs.events = <<>>
  \/ \E order \in Orders(supply.chunk.fields) : obs.events = <<ChunkEvent(order)>>

Whole(obs) ==
  obs = [attributes |-> obs.attributes, records |-> obs.records,
         error |-> obs.error, events |-> obs.events]

StartedBy(obs, order) ==
  /\ obs.attributes = Over(AddMetadataAttributes(supply.metadata), Inputs(order).attributes)
  /\ obs.records = Inputs(order).records

BuiltBy(obs, first, second) ==
  /\ obs.attributes = Over(Over(Outputs(second).attributes, AddMetadataAttributes(supply.late)),
                           Over(AddMetadataAttributes(supply.metadata), Inputs(first).attributes))
  /\ obs.records = Inputs(first).records \cup Outputs(second).records

IsStarted(obs) ==
  /\ supply.handle \in Calls
  /\ \E order \in Orders(supply.input.fields) : StartedBy(obs, order)
  /\ obs.error = NoError

IsFinished(obs) ==
  /\ supply.handle \in Calls
  /\ \E first \in Orders(supply.input.fields), second \in Orders(supply.output.fields) :
       BuiltBy(obs, first, second)
  /\ obs.error = supply.error

IsCompaction(obs) ==
  /\ supply.handle = "compaction"
  /\ \E order \in Orders(supply.input.fields) : StartedBy(obs, order)
  /\ obs.error = NoError

IsOwn(obs) ==
  /\ supply.handle = "own"
  /\ obs.attributes = supply.own
  /\ obs.records = {}
  /\ obs.error = supply.error

IsBuilt(obs) ==
  Whole(obs) /\ Events(obs) /\ (IsFinished(obs) \/ IsCompaction(obs) \/ IsOwn(obs))

Configured ==
  /\ supply \in Supplies
  /\ options \in [observer : ObserverOptions, exporter : ExporterOptions]

Exported(obs)  == ApplySpan(obs, options.exporter, "export")
Forwarded(obs) == ApplySpan(Exported(obs), options.exporter, "forward")

StageInvariant ==
  \/ stage = "supplied" /\ observation = Blank
  \/ stage = "started" /\ Whole(observation) /\ Events(observation) /\ IsStarted(observation)
  \/ stage = "built" /\ IsBuilt(observation)
  \/ stage = "refused" /\ observation = Blank
  \/ /\ stage = "exported" /\ options.exporter.max >= 0
     /\ \E obs : IsBuilt(obs) /\ observation = Exported(obs)
  \/ /\ stage = "forwarded" /\ options.exporter.max >= 0
     /\ \E obs : IsBuilt(obs) /\ observation = Forwarded(obs)

IInv == Configured /\ StageInvariant

Added(next, obs, attributes, records) ==
  /\ Whole(next)
  /\ next.attributes = Over(attributes, obs.attributes)
  /\ next.records = obs.records \cup records
  /\ next.error = obs.error /\ next.events = obs.events

LEMMA AddFacts ==
  ASSUME NEW obs, Whole(obs), NEW attributes, NEW records
  PROVE  Added(Add(obs, attributes, records), obs, attributes, records)
<1> DEFINE next == Add(obs, attributes, records)
           a == obs.attributes
           r == obs.records
           e == obs.error
           v == obs.events
           merged == Over(attributes, a)
<1>1. obs = [attributes |-> a, records |-> r, error |-> e, events |-> v]
  BY DEF Whole
<1>2. next = [obs EXCEPT !.attributes = merged, !.records = r \cup records]
  BY DEF Add
<1> HIDE DEF a, r, e, v, merged, next
<1>3. next = [attributes |-> merged, records |-> r \cup records, error |-> e, events |-> v]
  BY <1>1, <1>2
<1>4. Added(next, obs, attributes, records)
  BY <1>3 DEF Added, Whole, merged, a, r, e, v
<1> QED BY <1>4 DEF next

(* Some fields of an observation set anew. *)
Same(next, attributes, records, error, events) ==
  /\ Whole(next)
  /\ next.attributes = attributes /\ next.records = records
  /\ next.error = error /\ next.events = events

LEMMA SetFacts ==
  ASSUME NEW obs, Whole(obs), NEW x, NEW y
  PROVE  /\ Same([obs EXCEPT !.error = x],
                 obs.attributes, obs.records, x, obs.events)
         /\ Same([obs EXCEPT !.events = x],
                 obs.attributes, obs.records, obs.error, x)
         /\ Same([obs EXCEPT !.attributes = y, !.error = x],
                 y, obs.records, x, obs.events)
<1> DEFINE a == obs.attributes
           r == obs.records
           e == obs.error
           v == obs.events
<1>1. obs = [attributes |-> a, records |-> r, error |-> e, events |-> v]
  BY DEF Whole
<1> HIDE DEF a, r, e, v
<1>2. /\ [obs EXCEPT !.error = x]
           = [attributes |-> a, records |-> r, error |-> x, events |-> v]
      /\ [obs EXCEPT !.events = x]
           = [attributes |-> a, records |-> r, error |-> e, events |-> x]
      /\ [obs EXCEPT !.attributes = y, !.error = x]
           = [attributes |-> y, records |-> r, error |-> x, events |-> v]
  <2>1. [obs EXCEPT !.error = x]
          = [attributes |-> a, records |-> r, error |-> x, events |-> v]
    BY <1>1
  <2>2. [obs EXCEPT !.events = x]
          = [attributes |-> a, records |-> r, error |-> e, events |-> x]
    BY <1>1
  <2>3. [obs EXCEPT !.attributes = y, !.error = x]
          = [attributes |-> y, records |-> r, error |-> x, events |-> v]
    <3>1. [obs EXCEPT !.attributes = y]
            = [attributes |-> y, records |-> r, error |-> e, events |-> v]
      BY <1>1
    <3> DEFINE mid == [obs EXCEPT !.attributes = y]
    <3> HIDE DEF mid
    <3>2. mid = [attributes |-> y, records |-> r, error |-> e, events |-> v]
      BY <3>1 DEF mid
    <3>3. [mid EXCEPT !.error = x]
            = [attributes |-> y, records |-> r, error |-> x, events |-> v]
      BY <3>2
    <3>4. [[obs EXCEPT !.attributes = y] EXCEPT !.error = x]
            = [attributes |-> y, records |-> r, error |-> x, events |-> v]
      BY <3>3 DEF mid
    <3>5. [obs EXCEPT !.attributes = y, !.error = x]
            = [[obs EXCEPT !.attributes = y] EXCEPT !.error = x]
      OBVIOUS
    <3> QED BY <3>4, <3>5
  <2> QED BY <2>1, <2>2, <2>3
<1>3. \A aa, rr, ee, vv :
        Same([attributes |-> aa, records |-> rr, error |-> ee, events |-> vv], aa, rr, ee, vv)
  BY DEF Same, Whole
<1>4. /\ Same([obs EXCEPT !.error = x], a, r, x, v)
      /\ Same([obs EXCEPT !.events = x], a, r, e, x)
      /\ Same([obs EXCEPT !.attributes = y, !.error = x], y, r, x, v)
  BY <1>2, <1>3
<1> QED BY <1>4 DEF a, r, e, v

LEMMA BlankFacts ==
  /\ Whole(Blank) /\ Blank.attributes = NoAttributes /\ Blank.records = {}
  /\ Blank.error = NoError /\ Blank.events = <<>>
BY DEF Blank, Whole

LEMMA OverNothing ==
  ASSUME NEW f
  PROVE  Over(f, NoAttributes) = [k \in DOMAIN f |-> f[k]]
BY NoAttributesFacts DEF Over

LEMMA OverIsFunction ==
  ASSUME NEW f, NEW g
  PROVE  Over(f, g) = [k \in DOMAIN Over(f, g) |-> Over(f, g)[k]]
BY DEF Over

LEMMA InitInvariant == Init => IInv
BY DEF Init, IInv, Configured, StageInvariant

LEMMA NextInvariant == IInv /\ [Next]_vars => IInv'
<1> SUFFICES ASSUME IInv, [Next]_vars PROVE IInv'
  OBVIOUS
<1>1. Configured /\ StageInvariant
  BY DEF IInv
<1>2. supply' = supply /\ options' = options
  BY DEF Next, vars, Start, Chunk, Finish, Compact, HandIn, Export, Refuse, Forward
<1>3. Configured'
  BY <1>1, <1>2 DEF Configured
<1>0. \A b : /\ IsBuilt(b) => IsBuilt(b)'
             /\ Exported(b)' = Exported(b) /\ Forwarded(b)' = Forwarded(b)
  <2> SUFFICES ASSUME NEW CONSTANT b
               PROVE  /\ IsBuilt(b) => IsBuilt(b)'
                      /\ Exported(b)' = Exported(b) /\ Forwarded(b)' = Forwarded(b)
    OBVIOUS
  <2>1. Whole(b)' <=> Whole(b)
    BY DEF Whole
  <2>2. Events(b)' <=> Events(b)
    BY <1>2 DEF Events, ChunkEvent, Chunks, Summarized
  <2>3. IsFinished(b)' <=> IsFinished(b)
    BY <1>2 DEF IsFinished, BuiltBy, Inputs, Outputs, Summarized, AddMetadataAttributes
  <2>4. IsCompaction(b)' <=> IsCompaction(b)
    BY <1>2 DEF IsCompaction, StartedBy, Inputs, Summarized, AddMetadataAttributes
  <2>5. IsOwn(b)' <=> IsOwn(b)
    BY <1>2 DEF IsOwn
  <2>6. Exported(b)' = Exported(b)
    BY <1>2 DEF Exported
  <2>7. Forwarded(b)' = Forwarded(b)
    BY <1>2, <2>6 DEF Forwarded
  <2> QED BY <2>1, <2>2, <2>3, <2>4, <2>5, <2>6, <2>7 DEF IsBuilt
<1> USE <1>2 DEF Move
<1>4. CASE Start
  <2>1. stage = "supplied" /\ stage' = "started" /\ supply.handle \in Calls
    BY <1>4 DEF Start, Calls
  <2>2. PICK order \in Orders(supply.input.fields) :
          observation' = Add(observation, Over(AddMetadataAttributes(supply.metadata),
                                               Inputs(order).attributes),
                             Inputs(order).records)
    BY <1>4 DEF Start, Inputs
  <2>3. observation = Blank
    BY <1>1, <2>1 DEF StageInvariant
  <2> DEFINE given == Over(AddMetadataAttributes(supply.metadata), Inputs(order).attributes)
             records == Inputs(order).records
  <2>4. given = [k \in DOMAIN given |-> given[k]]
    BY OverIsFunction
  <2> HIDE DEF given, records
  <2>5. /\ Whole(observation') /\ observation'.attributes = Over(given, NoAttributes)
        /\ observation'.records = {} \cup records
        /\ observation'.error = NoError /\ observation'.events = <<>>
    <3>1. observation' = Add(Blank, given, records)
      BY <2>2, <2>3 DEF given, records
    <3>2. Added(observation', Blank, given, records)
      BY <3>1, BlankFacts, AddFacts
    <3> QED BY <3>2, BlankFacts DEF Added
  <2>6. observation'.attributes = given /\ observation'.records = records
    BY <2>4, <2>5, OverNothing
  <2>7. StartedBy(observation, order)'
    BY <2>6 DEF StartedBy, given, records, Inputs, Summarized, AddMetadataAttributes
  <2> QED BY <1>3, <2>1, <2>5, <2>7 DEF IInv, StageInvariant, IsStarted, Events, Whole
<1>5. CASE Chunk
  <2>1. stage = "started" /\ stage' = stage
    BY <1>5 DEF Chunk
  <2>2. PICK order \in Orders(supply.chunk.fields) :
          observation' = [observation EXCEPT !.events = <<ChunkEvent(order)>>]
    BY <1>5 DEF Chunk, ChunkEvent, Chunks
  <2>3. Whole(observation) /\ IsStarted(observation)
    BY <1>1, <2>1 DEF StageInvariant
  <2>4. Same(observation', observation.attributes, observation.records,
             observation.error, <<ChunkEvent(order)>>)
    BY <2>2, <2>3, SetFacts
  <2>5. Events(observation)'
    BY <2>4 DEF Same, Events, ChunkEvent, Chunks, Summarized
  <2>6. IsStarted(observation)'
    <3>1. supply.handle \in Calls /\ observation.error = NoError
      BY <2>3 DEF IsStarted
    <3>2. PICK o \in Orders(supply.input.fields) : StartedBy(observation, o)
      BY <2>3 DEF IsStarted
    <3>3. StartedBy(observation, o)'
      BY <2>4, <3>2 DEF Same, StartedBy, Inputs, Summarized, AddMetadataAttributes
    <3> QED BY <2>4, <3>1, <3>3 DEF IsStarted, Same
  <2>7. Whole(observation)'
    BY <2>4 DEF Same, Whole
  <2> QED BY <1>3, <2>1, <2>5, <2>6, <2>7 DEF IInv, StageInvariant
<1>6. CASE Finish
  <2> DEFINE late == AddMetadataAttributes(supply.late)
             more(o) == Over(Outputs(o).attributes, late)
  <2>1. stage = "started" /\ stage' = "built"
    BY <1>6 DEF Finish
  <2>2. PICK second \in Orders(supply.output.fields) :
          observation' = [Add(observation, more(second), Outputs(second).records)
                            EXCEPT !.error = supply.error]
    BY <1>6 DEF Finish, Outputs
  <2>3. Whole(observation) /\ Events(observation) /\ IsStarted(observation)
    BY <1>1, <2>1 DEF StageInvariant
  <2> DEFINE between == Add(observation, more(second), Outputs(second).records)
  <2>4. Added(between, observation, more(second), Outputs(second).records)
    BY <2>3, AddFacts
  <2> HIDE DEF between
  <2>5. Same(observation', between.attributes, between.records, supply.error, between.events)
    <3>1. Whole(between) /\ observation' = [between EXCEPT !.error = supply.error]
      BY <2>2, <2>4 DEF Added, between
    <3> QED BY <3>1, SetFacts
  <2>6. /\ Whole(observation')
        /\ observation'.attributes = Over(more(second), observation.attributes)
        /\ observation'.records = observation.records \cup Outputs(second).records
        /\ observation'.error = supply.error
        /\ observation'.events = observation.events
    BY <2>4, <2>5 DEF Added, Same
  <2>7. IsFinished(observation)'
    <3>1. supply.handle \in Calls
      BY <2>3 DEF IsStarted
    <3>2. PICK first \in Orders(supply.input.fields) : StartedBy(observation, first)
      BY <2>3 DEF IsStarted
    <3>3. BuiltBy(observation, first, second)'
      BY <2>6, <3>2 DEF StartedBy, BuiltBy, Inputs, Outputs, Summarized, AddMetadataAttributes
    <3> QED BY <2>6, <3>1, <3>3 DEF IsFinished
  <2>8. Events(observation)'
    BY <2>3, <2>6 DEF Events, ChunkEvent, Chunks, Summarized
  <2>9. IsBuilt(observation)'
    BY <2>6, <2>7, <2>8 DEF IsBuilt, Whole
  <2> QED BY <1>3, <2>1, <2>9 DEF IInv, StageInvariant
<1>7. CASE Compact
  <2>1. stage = "supplied" /\ stage' = "built" /\ supply.handle = "compaction"
    BY <1>7 DEF Compact
  <2>2. PICK order \in Orders(supply.input.fields) :
          observation' = Add(observation, Over(AddMetadataAttributes(supply.metadata),
                                               Inputs(order).attributes),
                             Inputs(order).records)
    BY <1>7, <2>1 DEF Compact, Inputs
  <2>3. observation = Blank
    BY <1>1, <2>1 DEF StageInvariant
  <2> DEFINE given == Over(AddMetadataAttributes(supply.metadata), Inputs(order).attributes)
             records == Inputs(order).records
  <2>4. given = [k \in DOMAIN given |-> given[k]]
    BY OverIsFunction
  <2> HIDE DEF given, records
  <2>5. /\ Whole(observation') /\ observation'.attributes = Over(given, NoAttributes)
        /\ observation'.records = {} \cup records
        /\ observation'.error = NoError /\ observation'.events = <<>>
    <3>1. observation' = Add(Blank, given, records)
      BY <2>2, <2>3 DEF given, records
    <3>2. Added(observation', Blank, given, records)
      BY <3>1, BlankFacts, AddFacts
    <3> QED BY <3>2, BlankFacts DEF Added
  <2>6. observation'.attributes = given /\ observation'.records = records
    BY <2>4, <2>5, OverNothing
  <2>7. StartedBy(observation, order)'
    BY <2>6 DEF StartedBy, given, records, Inputs, Summarized, AddMetadataAttributes
  <2>8. IsBuilt(observation)'
    BY <2>1, <2>5, <2>7 DEF IsBuilt, IsCompaction, Events, Whole
  <2> QED BY <1>3, <2>1, <2>8 DEF IInv, StageInvariant
<1>8. CASE HandIn
  <2>1. /\ stage = "supplied" /\ stage' = "built" /\ supply.handle = "own"
        /\ observation' = [observation EXCEPT !.attributes = supply.own, !.error = supply.error]
    BY <1>8 DEF HandIn
  <2>2. observation = Blank
    BY <1>1, <2>1 DEF StageInvariant
  <2>3. Same(observation', supply.own, {}, supply.error, <<>>)
    BY <2>1, <2>2, BlankFacts, SetFacts
  <2>4. IsBuilt(observation)'
    BY <2>1, <2>3 DEF IsBuilt, IsOwn, Events, Whole, Same
  <2> QED BY <1>3, <2>1, <2>4 DEF IInv, StageInvariant
<1>9. CASE Export
  <2>1. /\ stage = "built" /\ stage' = "exported" /\ options.exporter.max >= 0
        /\ observation' = Exported(observation)
    BY <1>9 DEF Export, Exported
  <2>2. IsBuilt(observation)
    BY <1>1, <2>1 DEF StageInvariant
  <2> DEFINE obs == observation
  <2> HIDE DEF obs
  <2>3. IsBuilt(obs) /\ observation' = Exported(obs)
    BY <2>1, <2>2 DEF obs
  <2>4. \E b : IsBuilt(b)' /\ observation' = Exported(b)'
    BY <1>0, <2>3
  <2> QED BY <1>3, <2>1, <2>4 DEF IInv, StageInvariant
<1>10. CASE Refuse
  BY <1>3, <1>10 DEF IInv, StageInvariant, Refuse
<1>11. CASE Forward
  <2>1. /\ stage = "exported" /\ stage' = "forwarded"
        /\ observation' = ApplySpan(observation, options.exporter, "forward")
    BY <1>11 DEF Forward
  <2>2. options.exporter.max >= 0
    BY <1>1, <2>1 DEF StageInvariant
  <2>3. PICK b : IsBuilt(b) /\ observation = Exported(b)
    BY <1>1, <2>1 DEF StageInvariant
  <2>4. observation' = Forwarded(b)
    BY <2>1, <2>3 DEF Forwarded
  <2>5. \E c : IsBuilt(c)' /\ observation' = Forwarded(c)'
    BY <1>0, <2>3, <2>4
  <2> QED BY <1>3, <2>1, <2>2, <2>5 DEF IInv, StageInvariant
<1>12. CASE UNCHANGED vars
  <2>1. stage' = stage /\ observation' = observation
    BY <1>12 DEF vars
  <2>2. /\ Whole(observation)' <=> Whole(observation)
        /\ Events(observation)' <=> Events(observation)
        /\ IsStarted(observation)' <=> IsStarted(observation)
        /\ IsBuilt(observation)' <=> IsBuilt(observation)
    <3>1. Whole(observation)' <=> Whole(observation)
      BY <2>1 DEF Whole
    <3>2. Events(observation)' <=> Events(observation)
      BY <2>1 DEF Events, ChunkEvent, Chunks, Summarized
    <3>3. IsStarted(observation)' <=> IsStarted(observation)
      BY <2>1 DEF IsStarted, StartedBy, Inputs, Summarized, AddMetadataAttributes
    <3>4. IsFinished(observation)' <=> IsFinished(observation)
      BY <2>1 DEF IsFinished, BuiltBy, Inputs, Outputs, Summarized, AddMetadataAttributes
    <3>5. IsCompaction(observation)' <=> IsCompaction(observation)
      BY <2>1 DEF IsCompaction, StartedBy, Inputs, Summarized, AddMetadataAttributes
    <3>6. IsOwn(observation)' <=> IsOwn(observation)
      BY <2>1 DEF IsOwn
    <3> QED BY <3>1, <3>2, <3>3, <3>4, <3>5, <3>6 DEF IsBuilt
  <2>3. Blank' = Blank
    BY DEF Blank, NoError, NoAttributes
  <2>4. ASSUME NEW CONSTANT b, IsBuilt(b), observation = Exported(b)
        PROVE  \E c : IsBuilt(c)' /\ observation' = Exported(c)'
    BY <1>0, <2>1, <2>4
  <2>5. ASSUME NEW CONSTANT b, IsBuilt(b), observation = Forwarded(b)
        PROVE  \E c : IsBuilt(c)' /\ observation' = Forwarded(c)'
    BY <1>0, <2>1, <2>5
  <2> QED BY <1>1, <1>3, <2>1, <2>2, <2>3, <2>4, <2>5 DEF IInv, StageInvariant
<1> QED
  BY <1>4, <1>5, <1>6, <1>7, <1>8, <1>9, <1>10, <1>11, <1>12 DEF Next

LEMMA Invariant == Spec => []IInv
BY InitInvariant, NextInvariant, PTL DEF Spec

-----------------------------------------------------------------------------
(* What was built, and its event, come from the supply. *)

LEMMA ConfiguredFacts ==
  ASSUME Configured
  PROVE  /\ Bounding /\ options.exporter \in Options /\ supply \in Supplies
         /\ supply.handle \in Handles
         /\ supply.input \in Summary /\ supply.output \in Summary
         /\ supply.chunk \in Summary /\ supply.metadata \in Entries
         /\ \A k \in DOMAIN supply.own : IsKey(k) /\ supply.own[k] \in Value
         /\ supply.error \in Error
         /\ supply.handle # "own" => supply.own = NoAttributes
         /\ supply.handle = "own" => supply.metadata = {} /\ supply.late = {}
         /\ supply.handle = "compaction" => supply.late = {}
BY PipelineAssumption DEF Configured, Bounding

LEMMA PathsOfHandles ==
  /\ supply.handle \in Calls => /\ InputPath(supply.handle) \in SummaryPaths
                                /\ OutputPath(supply.handle) \in SummaryPaths
                                /\ InputPath(supply.handle) # OutputPath(supply.handle)
  /\ supply.handle = "compaction" => /\ InputPath(supply.handle) \in SummaryPaths
                                     /\ InputPath(supply.handle) = InputPath("compaction")
  /\ ChunkPath \in SummaryPaths
<1>1. ASSUME supply.handle \in Calls
      PROVE  /\ InputPath(supply.handle) \in SummaryPaths
             /\ OutputPath(supply.handle) \in SummaryPaths
             /\ InputPath(supply.handle) # OutputPath(supply.handle)
  <2>1. CASE supply.handle = "tool"
    <3>1. /\ InputPath(supply.handle) = <<"tool", "input", "summary">>
          /\ OutputPath(supply.handle) = <<"tool", "output", "summary">>
      BY <2>1 DEF InputPath, OutputPath
    <3> QED BY <3>1 DEF SummaryPaths
  <2>2. CASE supply.handle \in {"model", "stream"}
    <3>1. /\ InputPath(supply.handle) = <<"genai", "request", "summary">>
          /\ OutputPath(supply.handle) = <<"genai", "response", "summary">>
      BY <2>2 DEF InputPath, OutputPath
    <3> QED BY <3>1 DEF SummaryPaths
  <2> QED BY <1>1, <2>1, <2>2 DEF Calls
<1>2. ASSUME supply.handle = "compaction"
      PROVE  /\ InputPath(supply.handle) \in SummaryPaths
             /\ InputPath(supply.handle) = InputPath("compaction")
  BY <1>2 DEF InputPath, SummaryPaths
<1>3. ChunkPath \in SummaryPaths
  BY DEF ChunkPath, SummaryPaths
<1> QED BY <1>1, <1>2, <1>3

LEMMA ResultsOfSummaries ==
  ASSUME Configured
  PROVE  /\ supply.handle \in Calls \cup {"compaction"} =>
              \A o \in Orders(supply.input.fields) :
                SummaryResult(Inputs(o), InputPath(supply.handle), supply.input)
         /\ supply.handle \in Calls =>
              \A o \in Orders(supply.output.fields) :
                SummaryResult(Outputs(o), OutputPath(supply.handle), supply.output)
         /\ \A o \in Orders(supply.chunk.fields) :
              SummaryResult(Chunks(o), ChunkPath, supply.chunk)
<1>1. supply.handle \in Calls \cup {"compaction"} =>
        \A o \in Orders(supply.input.fields) :
          SummaryResult(Inputs(o), InputPath(supply.handle), supply.input)
  BY ConfiguredFacts, PathsOfHandles, SummarizedFacts DEF Inputs
<1>2. supply.handle \in Calls =>
        \A o \in Orders(supply.output.fields) :
          SummaryResult(Outputs(o), OutputPath(supply.handle), supply.output)
  BY ConfiguredFacts, PathsOfHandles, SummarizedFacts DEF Outputs
<1>3. \A o \in Orders(supply.chunk.fields) :
        SummaryResult(Chunks(o), ChunkPath, supply.chunk)
  BY ConfiguredFacts, PathsOfHandles, SummarizedFacts DEF Chunks
<1> QED BY <1>1, <1>2, <1>3

InputItems  == SummaryItems(InputPath(supply.handle), supply.input)
OutputItems == SummaryItems(OutputPath(supply.handle), supply.output)
ChunkItems  == SummaryItems(ChunkPath, supply.chunk)

LEMMA SpanItemsOfHandles ==
  ASSUME Configured
  PROVE  /\ supply.handle \in Calls =>
              SpanItems = InputItems \cup OutputItems \cup MetadataItems
         /\ supply.handle = "compaction" => SpanItems = InputItems \cup MetadataItems
         /\ supply.handle = "own" => SpanItems = AsItems(supply.own)
<1> DEFINE own         == {Bounded(k, supply.own[k].runes, OwnLimit) : k \in DOMAIN supply.own}
           ofSummaries == UNION {SummaryItems(s[1], s[2]) : s \in Summaries}
<1>1. SpanItems = ofSummaries \cup MetadataItems \cup own
  BY DEF SpanItems
<1>2. supply.handle # "own" => own = {}
  BY ConfiguredFacts, NoAttributesFacts
<1>3. ASSUME supply.handle \in Calls PROVE ofSummaries = InputItems \cup OutputItems
  <2>1. supply.handle # "own" /\ supply.handle # "compaction"
    BY <1>3 DEF Calls
  <2>2. Summaries = {<<InputPath(supply.handle), supply.input>>,
                     <<OutputPath(supply.handle), supply.output>>}
    BY <2>1 DEF Summaries
  <2> QED BY <2>2 DEF InputItems, OutputItems
<1>4. ASSUME supply.handle = "compaction" PROVE ofSummaries = InputItems
  <2>1. Summaries = {<<InputPath(supply.handle), supply.input>>}
    BY <1>4, PathsOfHandles DEF Summaries
  <2> QED BY <2>1 DEF InputItems
<1>5. ASSUME supply.handle = "own" PROVE ofSummaries = {} /\ MetadataItems = {}
  <2>1. Summaries = {}
    BY <1>5 DEF Summaries
  <2>2. supply.late = {} /\ supply.metadata = {}
    BY <1>5, ConfiguredFacts
  <2>3. DOMAIN AddMetadataAttributes({}) = {}
    BY DEF AddMetadataAttributes
  <2>4. DOMAIN Over(AddMetadataAttributes(supply.late),
                    AddMetadataAttributes(supply.metadata)) = {}
    BY <2>2, <2>3 DEF Over
  <2> QED BY <2>1, <2>4 DEF MetadataItems
<1>6. own = AsItems(supply.own)
  BY DEF AsItems
<1> HIDE DEF own, ofSummaries
<1>7. supply.handle \in Calls \cup {"compaction"} => own = {}
  BY <1>2 DEF Calls
<1> QED BY <1>1, <1>3, <1>4, <1>5, <1>6, <1>7

LEMMA UnderOne ==
  ASSUME NEW path \in SummaryPaths, NEW other \in SummaryPaths, path # other, NEW key,
         Under(path, key)
  PROVE  ~Under(other, key)
<1> SUFFICES ASSUME Under(other, key) PROVE FALSE
  OBVIOUS
<1>1. other[1] = path[1] /\ other[2] = path[2]
  BY DEF Under
<1> QED BY <1>1, SummaryPathFacts

(* Whatever one of the sources says, all say. *)
Agrees(attributes, part) ==
  \A k \in DOMAIN part : k \in DOMAIN attributes /\ attributes[k] = part[k]

LEMMA ThreeTogether ==
  ASSUME NEW attributes, NEW records, NEW items,
         NEW a1, NEW r1, NEW i1, Supplied(a1, r1, i1), Agrees(attributes, a1),
         NEW a2, NEW r2, NEW i2, Supplied(a2, r2, i2), Agrees(attributes, a2),
         NEW a3, NEW r3, NEW i3, Supplied(a3, r3, i3), Agrees(attributes, a3),
         DOMAIN attributes \subseteq DOMAIN a1 \cup DOMAIN a2 \cup DOMAIN a3,
         records = r1 \cup r2 \cup r3, items = i1 \cup i2 \cup i3
  PROVE  Supplied(attributes, records, items)
<1> DEFINE s1 == Source(a1, r1, i1)
           s2 == Source(a2, r2, i2)
           s3 == Source(a3, r3, i3)
           sources == {s1, s2, s3}
<1>1. /\ s1.attributes = a1 /\ s1.records = r1 /\ s1.items = i1
      /\ s2.attributes = a2 /\ s2.records = r2 /\ s2.items = i2
      /\ s3.attributes = a3 /\ s3.records = r3 /\ s3.items = i3
  BY DEF Source
<1>2. s1 \in sources /\ s2 \in sources /\ s3 \in sources
      /\ \A s \in sources : s = s1 \/ s = s2 \/ s = s3
  OBVIOUS
<1> HIDE DEF s1, s2, s3, sources
<1>3. \A s \in sources : Supplied(s.attributes, s.records, s.items)
  BY <1>1, <1>2
<1>4. \A s \in sources : \A k \in DOMAIN s.attributes :
        k \in DOMAIN attributes /\ attributes[k] = s.attributes[k]
  BY <1>1, <1>2 DEF Agrees
<1>5. \A k \in DOMAIN attributes : \E s \in sources : k \in DOMAIN s.attributes
  BY <1>1, <1>2
<1>6. \A s \in sources : s.records \subseteq records /\ s.items \subseteq items
  BY <1>1, <1>2
<1>7. \A r \in records : \E s \in sources : r \in s.records
  BY <1>1, <1>2
<1>8. \A item \in items : \E s \in sources : item \in s.items
  BY <1>1, <1>2
<1> QED BY <1>3, <1>4, <1>5, <1>6, <1>7, <1>8, SuppliedTogether

LEMMA FinishedSupplied ==
  ASSUME Configured, NEW obs, IsFinished(obs)
  PROVE  Supplied(obs.attributes, obs.records, SpanItems)
<1>1. supply.handle \in Calls
  BY DEF IsFinished
<1>2. PICK first \in Orders(supply.input.fields), second \in Orders(supply.output.fields) :
        BuiltBy(obs, first, second)
  BY DEF IsFinished
<1> DEFINE in    == Inputs(first)
           out   == Outputs(second)
           late  == AddMetadataAttributes(supply.late)
           early == AddMetadataAttributes(supply.metadata)
<1>3. /\ obs.attributes = Over(Over(out.attributes, late), Over(early, in.attributes))
      /\ obs.records = in.records \cup out.records
  BY <1>2 DEF BuiltBy
<1>4. Given = Over(late, early)
  BY DEF Given
<1>5. /\ SummaryResult(in, InputPath(supply.handle), supply.input)
      /\ SummaryResult(out, OutputPath(supply.handle), supply.output)
  BY <1>1, ResultsOfSummaries
<1> HIDE DEF in, out, late, early
<1>6. supply \in Supplies
  BY DEF Configured
<1>7. /\ Supplied(in.attributes, in.records, InputItems)
      /\ \A k \in DOMAIN in.attributes : Under(InputPath(supply.handle), k)
      /\ Supplied(out.attributes, out.records, OutputItems)
      /\ \A k \in DOMAIN out.attributes : Under(OutputPath(supply.handle), k)
  BY <1>5 DEF SummaryResult, InputItems, OutputItems
<1>8. /\ Supplied(Given, {}, MetadataItems)
      /\ \A k \in DOMAIN Given : \A path : ~Under(path, k)
  BY <1>6, GivenSupplied
<1>9. \A k \in DOMAIN in.attributes : k \notin DOMAIN out.attributes
  BY <1>1, <1>7, PathsOfHandles, UnderOne
<1> DEFINE all == obs.attributes
<1>10. /\ DOMAIN all = DOMAIN out.attributes \cup DOMAIN late \cup DOMAIN early
                         \cup DOMAIN in.attributes
       /\ DOMAIN Given = DOMAIN late \cup DOMAIN early
       /\ \A k \in DOMAIN all :
            all[k] = IF k \in DOMAIN out.attributes THEN out.attributes[k]
                     ELSE IF k \in DOMAIN late THEN late[k]
                     ELSE IF k \in DOMAIN early THEN early[k] ELSE in.attributes[k]
       /\ \A k \in DOMAIN Given : Given[k] = IF k \in DOMAIN late THEN late[k] ELSE early[k]
  BY <1>3, <1>4 DEF Over
<1> HIDE DEF all
<1>11. Agrees(all, out.attributes)
  BY <1>10 DEF Agrees
<1>12. Agrees(all, Given)
  BY <1>7, <1>8, <1>10 DEF Agrees
<1>13. Agrees(all, in.attributes)
  BY <1>7, <1>8, <1>9, <1>10 DEF Agrees
<1>14. DOMAIN all \subseteq DOMAIN out.attributes \cup DOMAIN Given \cup DOMAIN in.attributes
  BY <1>10
<1>15. obs.records = out.records \cup {} \cup in.records
  BY <1>3
<1>16. SpanItems = OutputItems \cup MetadataItems \cup InputItems
  BY <1>1, SpanItemsOfHandles
<1>17. Supplied(all, obs.records, SpanItems)
  BY <1>7, <1>8, <1>11, <1>12, <1>13, <1>14, <1>15, <1>16, ThreeTogether
<1> QED BY <1>17 DEF all

LEMMA NothingSupplied == Supplied(NoAttributes, {}, {})
BY NoAttributesFacts DEF Supplied

LEMMA CompactionSupplied ==
  ASSUME Configured, NEW obs, IsCompaction(obs)
  PROVE  Supplied(obs.attributes, obs.records, SpanItems)
<1>1. supply.handle = "compaction"
  BY DEF IsCompaction
<1>2. PICK order \in Orders(supply.input.fields) : StartedBy(obs, order)
  BY DEF IsCompaction
<1> DEFINE in    == Inputs(order)
           early == AddMetadataAttributes(supply.metadata)
           late  == AddMetadataAttributes(supply.late)
<1>3. obs.attributes = Over(early, in.attributes) /\ obs.records = in.records
  BY <1>2 DEF StartedBy
<1>4. DOMAIN late = {}
  <2>1. supply.late = {}
    BY <1>1, ConfiguredFacts
  <2> QED BY <2>1 DEF AddMetadataAttributes
<1>5. Given = Over(late, early)
  BY DEF Given
<1>6. SummaryResult(in, InputPath(supply.handle), supply.input)
  BY <1>1, ResultsOfSummaries
<1> HIDE DEF in, late, early
<1>7. supply \in Supplies
  BY DEF Configured
<1>8. /\ Supplied(in.attributes, in.records, InputItems)
      /\ \A k \in DOMAIN in.attributes : Under(InputPath(supply.handle), k)
  BY <1>6 DEF SummaryResult, InputItems
<1>9. /\ Supplied(Given, {}, MetadataItems)
      /\ \A k \in DOMAIN Given : \A path : ~Under(path, k)
  BY <1>7, GivenSupplied
<1> DEFINE all == obs.attributes
<1>10. /\ DOMAIN all = DOMAIN Given \cup DOMAIN in.attributes
       /\ \A k \in DOMAIN all :
            all[k] = IF k \in DOMAIN Given THEN Given[k] ELSE in.attributes[k]
  BY <1>3, <1>4, <1>5 DEF Over
<1> HIDE DEF all
<1>11. Agrees(all, Given)
  BY <1>10 DEF Agrees
<1>12. Agrees(all, in.attributes)
  BY <1>8, <1>9, <1>10 DEF Agrees
<1>13. Agrees(all, NoAttributes)
  BY NoAttributesFacts DEF Agrees
<1>14. DOMAIN all \subseteq DOMAIN NoAttributes \cup DOMAIN Given \cup DOMAIN in.attributes
  BY <1>10
<1>15. obs.records = {} \cup {} \cup in.records
  BY <1>3
<1>16. SpanItems = {} \cup MetadataItems \cup InputItems
  BY <1>1, SpanItemsOfHandles
<1>17. Supplied(all, obs.records, SpanItems)
  BY <1>8, <1>9, <1>11, <1>12, <1>13, <1>14, <1>15, <1>16, NothingSupplied, ThreeTogether
<1> QED BY <1>17 DEF all

LEMMA BuiltSupplied ==
  ASSUME Configured, NEW obs, IsBuilt(obs)
  PROVE  Supplied(obs.attributes, obs.records, SpanItems)
<1>1. CASE IsOwn(obs)
  <2>1. /\ supply.handle = "own" /\ obs.attributes = supply.own /\ obs.records = {}
    BY <1>1 DEF IsOwn
  <2>2. Supplied(supply.own, {}, AsItems(supply.own))
    BY ConfiguredFacts, AsSupplied
  <2> QED BY <2>1, <2>2, SpanItemsOfHandles
<1> QED BY <1>1, FinishedSupplied, CompactionSupplied DEF IsBuilt

LEMMA EventSupplied ==
  ASSUME Configured, NEW order \in Orders(supply.chunk.fields)
  PROVE  Supplied(ChunkEvent(order).attributes, ChunkEvent(order).records, ChunkItems)
<1>1. /\ ChunkEvent(order).attributes = Chunks(order).attributes
      /\ ChunkEvent(order).records = Chunks(order).records
  BY DEF ChunkEvent
<1>2. SummaryResult(Chunks(order), ChunkPath, supply.chunk)
  BY ResultsOfSummaries
<1> QED BY <1>1, <1>2 DEF SummaryResult, ChunkItems

-----------------------------------------------------------------------------
(* Types. *)

WellFormed(part) ==
  Attributes(part.attributes) /\ \A r \in part.records : GoodRecord(r)
SpanWellFormed(span) ==
  WellFormed(span) /\ \A i \in DOMAIN span.events : WellFormed(span.events[i])

LEMMA SuppliedWellFormed ==
  ASSUME NEW part, NEW items, Supplied(part.attributes, part.records, items)
  PROVE  WellFormed(part)
BY DEF Supplied, WellFormed, Attributes

LEMMA ErrorFacts ==
  ASSUME NEW error, NEW pass \in Passes
  PROVE  \A r \in RedactError(error, pass).records : GoodRecord(r) /\ r.path = ErrorPath
<1> DEFINE reason == "encrypted_reasoning_forbidden"
           record == Record(ErrorPath, reason, 0, 0, pass)
<1>1. reason \in Omissions
  BY DEF Omissions
<1> HIDE DEF reason
<1>2. GoodRecord(record) /\ Gone(record, ErrorPath)
  BY <1>1, OmissionRecord
<1> USE DEF reason
<1> HIDE DEF record
<1>3. RedactError(error, pass).records \subseteq {record}
  BY DEF RedactError, record
<1> QED BY <1>2, <1>3 DEF Gone

LEMMA EventFacts ==
  ASSUME NEW event, NEW opts, NEW pass
  PROVE  LET applied  == ApplyAttributes(event.attributes, opts, pass)
             redacted == RedactError(event.error, pass)
         IN  /\ ApplyEvent(event, opts, pass).attributes = applied.attributes
             /\ ApplyEvent(event, opts, pass).records
                  = event.records \cup applied.records \cup redacted.records
             /\ ApplyEvent(event, opts, pass).error = redacted.error
BY DEF ApplyEvent

LEMMA SpanFacts ==
  ASSUME NEW span, NEW opts, NEW pass
  PROVE  LET redacted == ApplySpan(span, opts, pass)
             applied  == ApplyEvent(span, opts, pass)
         IN  /\ redacted.attributes = applied.attributes
             /\ redacted.records = applied.records
             /\ redacted.error = applied.error
             /\ DOMAIN redacted.events = DOMAIN span.events
             /\ \A i \in DOMAIN span.events :
                  redacted.events[i] = ApplyEvent(span.events[i], opts, pass)
<1> DEFINE applied == ApplyEvent(span, opts, pass)
           events == [i \in DOMAIN span.events |-> ApplyEvent(span.events[i], opts, pass)]
<1>1. ApplySpan(span, opts, pass)
        = [attributes |-> applied.attributes, records |-> applied.records,
           error |-> applied.error, events |-> events]
  BY DEF ApplySpan
<1>2. /\ DOMAIN events = DOMAIN span.events
      /\ \A i \in DOMAIN span.events : events[i] = ApplyEvent(span.events[i], opts, pass)
  OBVIOUS
<1> HIDE DEF applied, events
<1>3. /\ ApplySpan(span, opts, pass).attributes = applied.attributes
      /\ ApplySpan(span, opts, pass).records = applied.records
      /\ ApplySpan(span, opts, pass).error = applied.error
      /\ ApplySpan(span, opts, pass).events = events
  BY <1>1
<1> QED BY <1>2, <1>3 DEF applied

LEMMA EventWellFormed ==
  ASSUME NEW event, WellFormed(event), NEW opts \in Options, opts.max >= 0,
         NEW pass \in Passes
  PROVE  WellFormed(ApplyEvent(event, opts, pass))
<1> DEFINE applied == ApplyAttributes(event.attributes, opts, pass)
           redacted == RedactError(event.error, pass)
<1>1. Applied(event.attributes, applied, opts)
  BY ApplyFacts DEF WellFormed
<1>2. \A r \in redacted.records : GoodRecord(r)
  BY ErrorFacts
<1>3. /\ ApplyEvent(event, opts, pass).attributes = applied.attributes
      /\ ApplyEvent(event, opts, pass).records
           = event.records \cup applied.records \cup redacted.records
  BY EventFacts
<1> HIDE DEF applied, redacted
<1> QED BY <1>1, <1>2, <1>3 DEF WellFormed, Attributes, Applied

LEMMA SpanKeepsWellFormed ==
  ASSUME NEW span, SpanWellFormed(span), NEW opts \in Options, opts.max >= 0,
         NEW pass \in Passes
  PROVE  SpanWellFormed(ApplySpan(span, opts, pass))
<1> DEFINE redacted == ApplySpan(span, opts, pass)
           applied == ApplyEvent(span, opts, pass)
<1>1. /\ redacted.attributes = applied.attributes /\ redacted.records = applied.records
      /\ DOMAIN redacted.events = DOMAIN span.events
      /\ \A i \in DOMAIN span.events :
           redacted.events[i] = ApplyEvent(span.events[i], opts, pass)
  BY SpanFacts
<1>2. WellFormed(applied)
  BY EventWellFormed DEF SpanWellFormed
<1>3. \A i \in DOMAIN span.events : WellFormed(ApplyEvent(span.events[i], opts, pass))
  BY EventWellFormed DEF SpanWellFormed
<1> HIDE DEF redacted, applied
<1>4. SpanWellFormed(redacted)
  BY <1>1, <1>2, <1>3 DEF SpanWellFormed, WellFormed
<1> QED BY <1>4 DEF redacted

LEMMA EventsWellFormed ==
  ASSUME Configured, NEW obs, Events(obs)
  PROVE  \A i \in DOMAIN obs.events : WellFormed(obs.events[i])
<1>1. CASE obs.events = <<>>
  BY <1>1
<1>2. ASSUME NEW order \in Orders(supply.chunk.fields), obs.events = <<ChunkEvent(order)>>
      PROVE  \A i \in DOMAIN obs.events : WellFormed(obs.events[i])
  <2>1. WellFormed(ChunkEvent(order))
    BY EventSupplied, SuppliedWellFormed
  <2> QED BY <1>2, <2>1
<1> QED BY <1>1, <1>2 DEF Events

LEMMA BuiltWellFormed ==
  ASSUME Configured, NEW obs, IsBuilt(obs)
  PROVE  SpanWellFormed(obs)
BY BuiltSupplied, SuppliedWellFormed, EventsWellFormed DEF SpanWellFormed, IsBuilt

LEMMA StartedWellFormed ==
  ASSUME Configured, NEW obs, IsStarted(obs), Events(obs)
  PROVE  SpanWellFormed(obs)
<1>1. PICK order \in Orders(supply.input.fields) : StartedBy(obs, order)
  BY DEF IsStarted
<1> DEFINE in    == Inputs(order)
           early == AddMetadataAttributes(supply.metadata)
<1>2. obs.attributes = Over(early, in.attributes) /\ obs.records = in.records
  BY <1>1 DEF StartedBy
<1>3. SummaryResult(in, InputPath(supply.handle), supply.input)
  BY ResultsOfSummaries DEF IsStarted
<1>4. \A k \in DOMAIN early : early[k] \in Value
  BY ConfiguredFacts, MetadataFacts
<1> HIDE DEF in, early
<1>5. /\ \A k \in DOMAIN in.attributes : in.attributes[k] \in Value
      /\ \A r \in in.records : GoodRecord(r)
  BY <1>3 DEF SummaryResult, Supplied
<1>6. \A k \in DOMAIN obs.attributes : obs.attributes[k] \in Value
  BY <1>2, <1>4, <1>5 DEF Over
<1>7. WellFormed(obs)
  BY <1>2, <1>5, <1>6 DEF WellFormed, Attributes
<1> QED BY <1>7, EventsWellFormed DEF SpanWellFormed

LEMMA ExporterOptionsFacts ==
  ASSUME Configured
  PROVE  /\ options.exporter \in Options
         /\ "build" \in Passes /\ "export" \in Passes /\ "forward" \in Passes
BY ConfiguredFacts DEF Passes

LEMMA BlankWellFormed == SpanWellFormed(Blank)
BY NoAttributesFacts DEF Blank, SpanWellFormed, WellFormed, Attributes

LEMMA ObservationWellFormed == IInv => SpanWellFormed(observation)
<1> SUFFICES ASSUME Configured, StageInvariant PROVE SpanWellFormed(observation)
  BY DEF IInv
<1> DEFINE export == "export"
           forward == "forward"
<1>1. options.exporter \in Options /\ export \in Passes /\ forward \in Passes
  BY ExporterOptionsFacts
<1>2. /\ \A obs : Exported(obs) = ApplySpan(obs, options.exporter, export)
      /\ \A obs : Forwarded(obs) = ApplySpan(Exported(obs), options.exporter, forward)
  BY DEF Exported, Forwarded
<1> HIDE DEF export, forward
<1>3. CASE options.exporter.max >= 0 /\ \E obs : IsBuilt(obs) /\ observation = Exported(obs)
  BY <1>1, <1>2, <1>3, BuiltWellFormed, SpanKeepsWellFormed
<1>4. CASE options.exporter.max >= 0 /\ \E obs : IsBuilt(obs) /\ observation = Forwarded(obs)
  <2>1. PICK obs : IsBuilt(obs) /\ observation = Forwarded(obs)
    BY <1>4
  <2>2. SpanWellFormed(Exported(obs))
    BY <1>1, <1>2, <1>4, <2>1, BuiltWellFormed, SpanKeepsWellFormed
  <2> QED BY <1>1, <1>2, <1>4, <2>1, <2>2, SpanKeepsWellFormed
<1> QED BY <1>3, <1>4, BlankWellFormed, StartedWellFormed, BuiltWellFormed DEF StageInvariant

LEMMA PartTypes ==
  ASSUME NEW part, WellFormed(part)
  PROVE  PartOK(part)
<1>1. ASSUME NEW r \in part.records
      PROVE  /\ r.reason \in Reasons
             /\ r.pass \in {"build", "export", "forward"}
             /\ r.reason = "summary_truncated" => r.retained \in 0..(r.original - 1)
  BY DEF WellFormed, GoodRecord, Omissions, Reasons, Passes
<1>2. ASSUME NEW k \in DOMAIN part.attributes
      PROVE  part.attributes[k].text \in BOOLEAN /\ part.attributes[k].runes \in Runes
  BY DEF WellFormed, Attributes, Value
<1> QED BY <1>1, <1>2 DEF PartOK

(* Whatever is supplied and however both sides are configured: at every    *)
(* stage each attribute is a string of whole runes, and a record of        *)
(* truncation tells of more bytes than were kept (redaction.go:294, 487).  *)
THEOREM TypeCorrect == Spec => []TypeOK
<1>1. IInv => TypeOK
  <2> SUFFICES ASSUME IInv PROVE TypeOK
    OBVIOUS
  <2>1. SpanWellFormed(observation)
    BY ObservationWellFormed
  <2>2. \A p \in Parts : PartOK(p.part)
    BY <2>1, PartTypes DEF Parts, SpanWellFormed
  <2>3. stage \in {"supplied", "started", "built", "exported", "refused", "forwarded"}
    BY DEF IInv, StageInvariant
  <2> QED BY <2>2, <2>3 DEF IInv, Configured, TypeOK
<1> QED BY <1>1, Invariant, PTL

-----------------------------------------------------------------------------
(* A second exporter. *)

LEMMA EventAgain ==
  ASSUME NEW event, WellFormed(event), NEW opts \in Options, opts.max >= 0,
         NEW first \in Passes, NEW second \in Passes
  PROVE  LET once  == ApplyEvent(event, opts, first)
             again == ApplyEvent(once, opts, second)
         IN  /\ again.attributes = once.attributes
             /\ \A r \in again.records \ once.records : r.path = ErrorPath
<1> DEFINE once == ApplyEvent(event, opts, first)
           again == ApplyEvent(once, opts, second)
           message == RedactError(once.error, second).records
<1>1. once.attributes = ApplyAttributes(event.attributes, opts, first).attributes
  BY EventFacts
<1>2. /\ again.attributes = ApplyAttributes(once.attributes, opts, second).attributes
      /\ again.records = once.records
           \cup ApplyAttributes(once.attributes, opts, second).records \cup message
  BY EventFacts
<1>3. Unchanged(once.attributes, opts, second)
  BY <1>1, ApplyAgain DEF WellFormed
<1>4. \A r \in message : r.path = ErrorPath
  BY ErrorFacts
<1> HIDE DEF once, again, message
<1>5. /\ again.attributes = once.attributes
      /\ \A r \in again.records \ once.records : r.path = ErrorPath
  BY <1>2, <1>3, <1>4 DEF Unchanged
<1> QED BY <1>5 DEF once, again

LEMMA EventCount ==
  ASSUME NEW obs, Events(obs)
  PROVE  \E n \in Nat : DOMAIN obs.events = 1..n
<1>1. CASE obs.events = <<>>
  <2>1. DOMAIN obs.events = 1..0 /\ 0 \in Nat
    BY <1>1
  <2> QED BY <2>1
<1>2. CASE \E order \in Orders(supply.chunk.fields) : obs.events = <<ChunkEvent(order)>>
  <2>1. DOMAIN obs.events = 1..1 /\ 1 \in Nat
    BY <1>2
  <2> QED BY <2>1
<1> QED BY <1>1, <1>2 DEF Events

(* Redacting what another exporter of the same kind kept changes no        *)
(* attribute of the observation nor of an event, whatever was supplied and *)
(* whatever the options are; the only new record is the one about the      *)
(* message of an error (redaction.go:100, 294; types.go:71).               *)
THEOREM SecondPass == Spec => SecondPassChangesNothing
<1> DEFINE Part(obs, i) == IF i = 0 THEN obs ELSE obs.events[i]
           Same2(before, after) ==
             /\ after.attributes = before.attributes
             /\ \A r \in after.records \ before.records : r.path = ErrorPath
<1>1. ASSUME IInv, Forward
      PROVE  \A i \in 0..Len(observation.events) :
               Same2(Part(observation, i), Part(observation', i))
  <2>1. /\ stage = "exported"
        /\ observation' = ApplySpan(observation, options.exporter, "forward")
    BY <1>1 DEF Forward, Move
  <2>2. PICK b : IsBuilt(b) /\ observation = Exported(b) /\ options.exporter.max >= 0
    BY <1>1, <2>1 DEF IInv, StageInvariant
  <2> DEFINE opts == options.exporter
             export == "export"
             forward == "forward"
  <2>3. opts \in Options /\ export \in Passes /\ forward \in Passes /\ opts.max >= 0
    BY <1>1, <2>2, ExporterOptionsFacts DEF IInv
  <2>4. observation = ApplySpan(b, opts, export) /\ observation' = ApplySpan(observation, opts, forward)
    BY <2>1, <2>2 DEF Exported
  <2>5. SpanWellFormed(b)
    BY <1>1, <2>2, BuiltWellFormed DEF IInv
  <2> HIDE DEF opts, export, forward
  <2>6. /\ observation.attributes = ApplyEvent(b, opts, export).attributes
        /\ observation.records = ApplyEvent(b, opts, export).records
        /\ observation.error = ApplyEvent(b, opts, export).error
        /\ DOMAIN observation.events = DOMAIN b.events
        /\ \A i \in DOMAIN b.events :
             observation.events[i] = ApplyEvent(b.events[i], opts, export)
    BY <2>4, SpanFacts
  <2>7. /\ observation'.attributes = ApplyEvent(observation, opts, forward).attributes
        /\ observation'.records = ApplyEvent(observation, opts, forward).records
        /\ \A i \in DOMAIN observation.events :
             observation'.events[i] = ApplyEvent(observation.events[i], opts, forward)
    BY <2>4, SpanFacts
  <2>8. Same2(observation, observation')
    <3> DEFINE once == ApplyEvent(b, opts, export)
    <3>1. Same2(once, ApplyEvent(once, opts, forward))
      BY <2>3, <2>5, EventAgain DEF SpanWellFormed
    <3>2. ApplyEvent(observation, opts, forward) = ApplyEvent(once, opts, forward)
      <4> HIDE DEF once
      <4> QED BY <2>6 DEF ApplyEvent, once
    <3> HIDE DEF once
    <3>3. /\ observation.attributes = once.attributes
          /\ observation.records = once.records
      BY <2>6 DEF once
    <3> QED BY <2>7, <3>1, <3>2, <3>3
  <2>9. ASSUME NEW i \in DOMAIN b.events
        PROVE  Same2(observation.events[i], observation'.events[i])
    <3>1. WellFormed(b.events[i])
      BY <2>5 DEF SpanWellFormed
    <3> DEFINE once == ApplyEvent(b.events[i], opts, export)
    <3>2. Same2(once, ApplyEvent(once, opts, forward))
      BY <2>3, <3>1, EventAgain
    <3>3. /\ observation.events[i] = once
          /\ observation'.events[i] = ApplyEvent(once, opts, forward)
      BY <2>6, <2>7
    <3> HIDE DEF once, Same2
    <3> QED BY <3>2, <3>3
  <2>10. \A i \in 1..Len(observation.events) : i \in DOMAIN b.events
    <3>1. PICK n \in Nat : DOMAIN b.events = 1..n
      BY <2>2, EventCount DEF IsBuilt
    <3>2. observation.events = [j \in 1..n |-> ApplyEvent(b.events[j], opts, export)]
      BY <2>4, <3>1 DEF ApplySpan
    <3>3. Len(observation.events) = n
      BY <3>2
    <3> QED BY <3>1, <3>3
  <2>11. ASSUME NEW i \in 0..Len(observation.events)
         PROVE  Same2(Part(observation, i), Part(observation', i))
    <3>1. CASE i = 0
      BY <2>8, <3>1
    <3>2. CASE i # 0
      <4>1. i \in 1..Len(observation.events)
        BY <3>2
      <4>2. i \in DOMAIN b.events
        BY <2>10, <4>1
      <4> QED BY <2>9, <3>2, <4>2
    <3> QED BY <3>1, <3>2
  <2> QED BY <2>11
<1> DEFINE Body == Forward =>
             \A i \in 0..Len(observation.events) :
               LET before == IF i = 0 THEN observation ELSE observation.events[i]
                   after  == IF i = 0 THEN observation' ELSE observation'.events[i]
               IN /\ after.attributes = before.attributes
                  /\ \A r \in after.records \ before.records : r.path = ErrorPath
<1>2. IInv => Body
  BY <1>1
<1> HIDE DEF Body
<1>3. IInv /\ [Next]_vars => [Body]_vars
  BY <1>2
<1>4. Spec => [][Body]_vars
  BY <1>3, Invariant, PTL DEF Spec
<1> QED BY <1>4 DEF SecondPassChangesNothing, Body

-----------------------------------------------------------------------------
(* What an exporter keeps of one observation or event. *)

(* Of what was supplied, options.exporter leaves the part. *)
FromSupply(p) ==
  \E before, applied :
    /\ Supplied(before.attributes, before.records, p.items)
    /\ Applied(before.attributes, applied, options.exporter)
    /\ p.part.attributes = applied.attributes
    /\ before.records \cup applied.records \subseteq p.part.records

LEMMA PartFromSupply ==
  ASSUME Configured, options.exporter.max >= 0,
         NEW before, NEW items, NEW part,
         Supplied(before.attributes, before.records, items),
         part.attributes = ApplyEvent(before, options.exporter, "export").attributes,
         part.records = ApplyEvent(before, options.exporter, "export").records
  PROVE  FromSupply([items |-> items, part |-> part])
<1> DEFINE opts == options.exporter
           export == "export"
           applied == ApplyAttributes(before.attributes, opts, export)
           message == RedactError(before.error, export).records
           p == [items |-> items, part |-> part]
<1>1. opts \in Options /\ export \in Passes /\ opts.max >= 0
  BY ExporterOptionsFacts
<1>2. /\ part.attributes = ApplyEvent(before, opts, export).attributes
      /\ part.records = ApplyEvent(before, opts, export).records
  OBVIOUS
<1>3. p.items = items /\ p.part = part
  OBVIOUS
<1> HIDE DEF export, p
<1>4. Applied(before.attributes, applied, opts)
  BY <1>1, ApplyFacts, SuppliedWellFormed DEF WellFormed
<1>5. /\ part.attributes = applied.attributes
      /\ part.records = before.records \cup applied.records \cup message
  BY <1>2, EventFacts
<1> HIDE DEF applied, message
<1>6. FromSupply(p)
  BY <1>3, <1>4, <1>5 DEF FromSupply
<1> QED BY <1>6 DEF p

LEMMA ExportedParts ==
  ASSUME IInv, stage = "exported"
  PROVE  \A p \in Parts : FromSupply(p)
<1>1. PICK b : IsBuilt(b) /\ observation = Exported(b) /\ options.exporter.max >= 0
  BY DEF IInv, StageInvariant
<1>2. Configured
  BY DEF IInv
<1> DEFINE opts == options.exporter
           export == "export"
<1>3. observation = ApplySpan(b, opts, export)
  BY <1>1 DEF Exported
<1>4. opts \in Options /\ export \in Passes /\ opts.max >= 0
  BY <1>1, <1>2, ExporterOptionsFacts
<1> HIDE DEF export
<1>5. /\ observation.attributes = ApplyEvent(b, opts, export).attributes
      /\ observation.records = ApplyEvent(b, opts, export).records
      /\ DOMAIN observation.events = DOMAIN b.events
      /\ \A i \in DOMAIN b.events :
           observation.events[i] = ApplyEvent(b.events[i], opts, export)
  BY <1>3, SpanFacts
<1>6. FromSupply([items |-> SpanItems, part |-> observation])
  <2>1. Supplied(b.attributes, b.records, SpanItems)
    BY <1>1, <1>2, BuiltSupplied
  <2> QED BY <1>1, <1>2, <1>5, <2>1, PartFromSupply DEF export
<1>7. ASSUME NEW i \in DOMAIN observation.events
      PROVE  FromSupply([items |-> EventItems, part |-> observation.events[i]])
  <2>1. i \in DOMAIN b.events
    BY <1>5, <1>7
  <2>2. PICK order \in Orders(supply.chunk.fields) : b.events = <<ChunkEvent(order)>>
    <3>1. b.events # <<>>
      BY <2>1
    <3> QED BY <1>1, <3>1 DEF IsBuilt, Events
  <2>3. b.events[i] = ChunkEvent(order)
    BY <2>1, <2>2
  <2>4. observation.events # <<>>
    BY <1>7
  <2>5. EventItems = ChunkItems
    BY <2>4 DEF EventItems, ChunkItems
  <2>6. Supplied(ChunkEvent(order).attributes, ChunkEvent(order).records, ChunkItems)
    BY <1>2, EventSupplied
  <2>7. observation.events[i] = ApplyEvent(ChunkEvent(order), opts, export)
    BY <1>5, <2>1, <2>3
  <2> QED BY <1>1, <1>2, <2>5, <2>6, <2>7, PartFromSupply DEF export
<1> QED BY <1>6, <1>7 DEF Parts

-----------------------------------------------------------------------------
(* What is never kept. *)

LEMMA PrefixOfLonger ==
  ASSUME NEW path, path \in Seq(Range(path)), NEW word,
         NEW a, NEW b, NEW c, IsStrictPrefix(<<a, b, c>>, Append(path, word))
  PROVE  IsPrefix(<<a, b, c>>, path)
<1> DEFINE S == Range(path) \cup {word, a, b, c}
           longer == Append(path, word)
           n == Len(path)
           short == <<a, b, c>>
<1>1. path \in Seq(S) /\ word \in S /\ n \in Nat
  <2>1. Range(path) \subseteq S
    OBVIOUS
  <2>2. n \in Nat /\ DOMAIN path = 1..n /\ \A i \in 1..n : path[i] \in Range(path)
    <3> HIDE DEF S
    <3> QED OBVIOUS
  <2> HIDE DEF S
  <2>3. path \in Seq(S)
    BY <2>1, SeqMonotonic
  <2> QED BY <2>2, <2>3 DEF S
<1>2. short \in Seq(S) /\ Len(short) = 3 /\ short = SubSeq(short, 1, 3)
  <2>1. a \in S /\ b \in S /\ c \in S
    OBVIOUS
  <2> HIDE DEF S
  <2> QED BY <2>1
<1> HIDE DEF S
<1>3. /\ longer \in Seq(S) /\ Len(longer) = n + 1
      /\ \A i \in 1..n : longer[i] = path[i]
      /\ SubSeq(longer, 1, n + 1) = longer
  BY <1>1, AppendProperties
<1>4. /\ 3 <= n + 1 /\ short = SubSeq(longer, 1, 3) /\ short # longer
  BY <1>2, <1>3 DEF IsStrictPrefix, IsPrefix
<1> HIDE DEF longer, short
<1>5. n # 2
  <2> HIDE DEF n
  <2> SUFFICES ASSUME n = 2 PROVE FALSE
    OBVIOUS
  <2>1. SubSeq(longer, 1, 3) = longer
    BY <1>3
  <2> QED BY <1>4, <2>1
<1>6. 3 <= n
  <2>1. n \in Nat /\ 3 <= n + 1 /\ n # 2
    BY <1>1, <1>4, <1>5
  <2> HIDE DEF n
  <2> QED BY <2>1
<1>7. SubSeq(longer, 1, 3) = SubSeq(path, 1, 3)
  BY <1>1, <1>3, <1>6
<1>8. IsPrefix(short, path)
  BY <1>2, <1>4, <1>6, <1>7 DEF IsPrefix
<1> QED BY <1>8 DEF short

LEMMA KeptIsAllowed ==
  ASSUME NEW key, IsKey(key), NEW value, Omission(key, value, options.exporter) = "kept"
  PROVE  ~Forbidden(key)
<1> DEFINE path    == key.path
           side    == SummarySide(path)
           below   == IF Len(path) > 1 THEN SummarySide(Front(path)) ELSE "none"
           payload == \E raw \in RawPayloads : IsPrefix(raw, Canonical(key))
           opts    == options.exporter
<1>1. IsSummary(key) => key.name = NoName /\ side # "none" /\ SummaryEnabled(side, opts)
  BY DEF IsSummary, Omission, SideOf
<1>2. key.name # NoName =>
        path = <<"metadata">> \/ (Len(path) > 1 /\ Last(path) = "fields")
  BY DEF IsKey
<1>3. IsSummaryField(key) => ~IsSummary(key) /\ FieldOmission(key, opts) = "kept"
  BY DEF IsSummaryField, IsSummary, Omission
<1>4. IsSummaryField(key) => /\ SummaryEnabled(below, opts)
                             /\ NameOmission(key.name) = "kept"
  BY <1>3 DEF FieldOmission, SideOf, IsSummaryField
<1>5. key.name # NoName /\ below # "none" => IsSummaryField(key)
  <2>1. Len(<<"metadata">>) = 1
    OBVIOUS
  <2>2. below # "none" => Len(path) > 1 /\ SummarySide(Front(path)) # "none"
    OBVIOUS
  <2>3. path = <<"metadata">> => ~(Len(path) > 1)
    BY <2>1
  <2> HIDE DEF path, below
  <2> QED BY <1>2, <2>2, <2>3 DEF IsSummaryField, path
<1>6. ~IsSummary(key) /\ ~IsSummaryField(key) =>
        /\ ~ShouldOmitRawAttribute(key)
        /\ IsMetadata(key) => NameOmission(key.name) = "kept"
  BY DEF Omission
<1>7. NameOmission(key.name) = "kept" =>
        ~IsSensitiveName(key.name.canonical) /\ ~(key.name.bytes > MaxNameBytes)
  BY DEF NameOmission, KeyOmissionReason
<1>8. ~(/\ key.name # NoName
        /\ (path = <<"metadata">> \/ below # "none")
        /\ (IsSensitiveName(key.name.canonical) \/ key.name.bytes > MaxNameBytes))
  <2>1. path = <<"metadata">> => below = "none"
    OBVIOUS
  <2>2. path = <<"metadata">> /\ key.name # NoName => IsMetadata(key) /\ ~IsSummary(key)
    BY DEF IsMetadata, IsSummary
  <2>3. path = <<"metadata">> => ~IsSummaryField(key)
    <3>1. Len(<<"metadata">>) = 1
      OBVIOUS
    <3> QED BY <3>1 DEF IsSummaryField
  <2> HIDE DEF path, below
  <2> QED BY <1>4, <1>5, <1>6, <1>7, <2>1, <2>2, <2>3
<1>9. ~(payload /\ side = "none" /\ below = "none" /\ ~IsPrefix(<<"tool", "input", "summary">>, path))
  <2> SUFFICES ASSUME payload, side = "none", below = "none",
                      ~IsPrefix(<<"tool", "input", "summary">>, path)
               PROVE  FALSE
    OBVIOUS
  <2>1. ~IsSummary(key)
    BY DEF IsSummary
  <2>2. ~IsSummaryField(key)
    BY DEF IsSummaryField
  <2>3. IsStrictPrefix(<<"tool", "input", "summary">>, Canonical(key))
    BY <1>6, <2>1, <2>2 DEF ShouldOmitRawAttribute
  <2>4. CASE key.name = NoName
    <3>1. Canonical(key) = path
      BY <2>4 DEF Canonical
    <3> QED BY <2>3, <3>1 DEF IsStrictPrefix
  <2>5. CASE key.name # NoName
    <3>1. Canonical(key) = Append(path, key.name.canonical)
      BY <2>5 DEF Canonical
    <3>2. path \in Seq(Range(path))
      BY DEF IsKey
    <3> QED BY <2>3, <3>1, <3>2, PrefixOfLonger
  <2> QED BY <2>4, <2>5
<1>10. ~(key.name = NoName /\ ~SummaryEnabled(side, opts) /\ side # "none")
  BY <1>1 DEF IsSummary
<1>11. ~(key.name # NoName /\ ~SummaryEnabled(below, opts) /\ below # "none")
  BY <1>4, <1>5
<1> QED BY <1>8, <1>9, <1>10, <1>11 DEF Forbidden

LEMMA PrefixIsUnder ==
  ASSUME NEW path \in SummaryPaths, NEW key, IsKey(key), IsPrefix(path, key.path)
  PROVE  Under(path, key)
<1> DEFINE n == Len(path)
           longer == key.path
<1>1. path \in Seq(Words) /\ n \in Nat /\ n >= 2
  <2>1. path \in Seq(Words) /\ Len(path) \in 2..3
    BY SummaryPathFacts
  <2>2. \A m \in 2..3 : m \in Nat /\ m >= 2
    OBVIOUS
  <2> QED BY <2>1, <2>2
<1>2. longer \in Seq(Range(longer)) /\ Len(longer) \in Nat
  BY DEF IsKey
<1>3. n <= Len(longer) /\ SubSeq(path, 1, n) = SubSeq(longer, 1, n)
  BY DEF IsPrefix
<1>4. path[1] = SubSeq(path, 1, n)[1] /\ path[2] = SubSeq(path, 1, n)[2]
  <2> HIDE DEF n
  <2> QED BY <1>1, <1>2, <1>3 DEF n
<1>5. longer[1] = SubSeq(longer, 1, n)[1] /\ longer[2] = SubSeq(longer, 1, n)[2]
  <2> HIDE DEF n, longer
  <2> QED BY <1>1, <1>2, <1>3
<1>6. Len(longer) >= 2
  <2> HIDE DEF n, longer
  <2> QED BY <1>1, <1>2, <1>3
<1> QED BY <1>3, <1>4, <1>5, <1>6 DEF Under

(* The keys under the path of a summary are those that the helper made. *)
LEMMA KeysOfSummary ==
  ASSUME Configured, NEW obs, IsBuilt(obs), NEW s \in Summaries
  PROVE  /\ s[1] \in SummaryPaths /\ s[2] \in Summary
         /\ \E order \in Orders(s[2].fields) : \A k : Under(s[1], k) =>
              (k \in DOMAIN obs.attributes
                 <=> k \in DOMAIN Summarized(s[1], s[2], order).attributes)
<1> DEFINE late  == AddMetadataAttributes(supply.late)
           early == AddMetadataAttributes(supply.metadata)
           Result(order) == Summarized(s[1], s[2], order)
<1>1. \A k \in DOMAIN late \cup DOMAIN early : \A path : ~Under(path, k)
  BY GivenSupplied DEF Configured, Given, Over
<1>2. CASE IsFinished(obs)
  <2>1. supply.handle \in Calls /\ supply.handle # "own" /\ supply.handle # "compaction"
    BY <1>2 DEF IsFinished, Calls
  <2>2. PICK first \in Orders(supply.input.fields),
             second \in Orders(supply.output.fields) : BuiltBy(obs, first, second)
    BY <1>2 DEF IsFinished
  <2> DEFINE in  == Inputs(first)
             out == Outputs(second)
             one == InputPath(supply.handle)
             two == OutputPath(supply.handle)
  <2>3. obs.attributes = Over(Over(out.attributes, late), Over(early, in.attributes))
    BY <2>2 DEF BuiltBy
  <2>4. /\ SummaryResult(in, one, supply.input)
        /\ SummaryResult(out, two, supply.output)
    BY <2>1, ResultsOfSummaries
  <2>5. in = Summarized(one, supply.input, first) /\ out = Summarized(two, supply.output, second)
    BY DEF Inputs, Outputs
  <2>6. one \in SummaryPaths /\ two \in SummaryPaths /\ one # two
    BY <2>1, PathsOfHandles
  <2>7. s = <<one, supply.input>> \/ s = <<two, supply.output>>
    BY <2>1 DEF Summaries
  <2>8. supply.input \in Summary /\ supply.output \in Summary
    BY ConfiguredFacts
  <2> HIDE DEF in, out, late, early, one, two
  <2>9. DOMAIN obs.attributes = DOMAIN out.attributes \cup DOMAIN late
                                  \cup DOMAIN early \cup DOMAIN in.attributes
    BY <2>3 DEF Over
  <2>10. /\ \A k \in DOMAIN in.attributes : Under(one, k) /\ ~Under(two, k)
         /\ \A k \in DOMAIN out.attributes : Under(two, k) /\ ~Under(one, k)
    <3>1. /\ \A k \in DOMAIN in.attributes : Under(one, k)
          /\ \A k \in DOMAIN out.attributes : Under(two, k)
      BY <2>4 DEF SummaryResult
    <3> QED BY <2>6, <3>1, UnderOne
  <2>11. \A k : /\ Under(one, k) => (k \in DOMAIN obs.attributes <=> k \in DOMAIN in.attributes)
                /\ Under(two, k) => (k \in DOMAIN obs.attributes <=> k \in DOMAIN out.attributes)
    BY <1>1, <2>9, <2>10
  <2>12. CASE s = <<one, supply.input>>
    <3>1. s[1] = one /\ s[2] = supply.input
      BY <2>12
    <3> QED BY <2>5, <2>6, <2>8, <2>11, <3>1
  <2>13. CASE s = <<two, supply.output>>
    <3>1. s[1] = two /\ s[2] = supply.output
      BY <2>13
    <3> QED BY <2>5, <2>6, <2>8, <2>11, <3>1
  <2> QED BY <2>7, <2>12, <2>13
<1>3. CASE IsCompaction(obs)
  <2>1. supply.handle = "compaction"
    BY <1>3 DEF IsCompaction
  <2>2. PICK order \in Orders(supply.input.fields) : StartedBy(obs, order)
    BY <1>3 DEF IsCompaction
  <2> DEFINE in  == Inputs(order)
             one == InputPath(supply.handle)
  <2>3. obs.attributes = Over(early, in.attributes)
    BY <2>2 DEF StartedBy
  <2>4. in = Summarized(one, supply.input, order)
    BY DEF Inputs
  <2>5. one \in SummaryPaths /\ one = InputPath("compaction") /\ supply.input \in Summary
    BY <2>1, PathsOfHandles, ConfiguredFacts
  <2>6. s = <<one, supply.input>>
    BY <2>1, <2>5 DEF Summaries
  <2> HIDE DEF in, early, one
  <2>7. s[1] = one /\ s[2] = supply.input
    BY <2>6
  <2>8. DOMAIN obs.attributes = DOMAIN early \cup DOMAIN in.attributes
    BY <2>3 DEF Over
  <2>9. \A k : Under(one, k) => (k \in DOMAIN obs.attributes <=> k \in DOMAIN in.attributes)
    BY <1>1, <2>8
  <2> QED BY <2>4, <2>5, <2>7, <2>9
<1>4. CASE IsOwn(obs)
  BY <1>4 DEF IsOwn, Summaries
<1> QED BY <1>2, <1>3, <1>4 DEF IsBuilt

LEMMA RefusedIsGone ==
  ASSUME Configured, NEW obs, IsBuilt(obs), NEW s \in Summaries,
         SummaryRefused(s[1], s[2], options.observer) # {}
  PROVE  s[1] \in SummaryPaths /\ \A k \in DOMAIN obs.attributes : ~Under(s[1], k)
<1>1. PICK order \in Orders(s[2].fields) : \A k : Under(s[1], k) =>
        (k \in DOMAIN obs.attributes
           <=> k \in DOMAIN Summarized(s[1], s[2], order).attributes)
  BY KeysOfSummary
<1>2. s[1] \in SummaryPaths /\ s[2] \in Summary
  BY KeysOfSummary
<1>3. SummaryResult(Summarized(s[1], s[2], order), s[1], s[2])
  BY <1>2, ConfiguredFacts, SummarizedFacts
<1>4. DOMAIN Summarized(s[1], s[2], order).attributes = {}
  BY <1>3 DEF SummaryResult
<1> QED BY <1>1, <1>2, <1>4

IsError(error) ==
  /\ error = [present |-> error.present, operation |-> error.operation,
              cause |-> error.cause]
  /\ error.cause => error.present

LEMMA BuiltError ==
  ASSUME Configured, NEW obs, IsBuilt(obs)
  PROVE  IsError(obs.error)
<1>1. IsError(supply.error)
  BY ConfiguredFacts DEF Error, IsError
<1>2. IsError(NoError)
  BY DEF NoError, IsError
<1> QED BY <1>1, <1>2 DEF IsBuilt, IsFinished, IsCompaction, IsOwn

LEMMA RedactedError ==
  ASSUME NEW error, IsError(error), NEW pass
  PROVE  IsEncryptedReasoningName(RedactError(error, pass).error.operation) =>
           ~RedactError(error, pass).error.cause
<1> DEFINE encrypted == error.present /\ IsEncryptedReasoningName(error.operation)
<1>1. CASE encrypted
  <2>1. RedactError(error, pass).error = [error EXCEPT !.cause = FALSE]
    BY <1>1 DEF RedactError
  <2>2. [error EXCEPT !.cause = FALSE].cause = FALSE
    BY DEF IsError
  <2> QED BY <2>1, <2>2
<1>2. CASE ~encrypted
  <2>1. RedactError(error, pass).error = error
    BY <1>2 DEF RedactError
  <2> QED BY <1>2, <2>1 DEF IsError
<1> QED BY <1>1, <1>2

(* Whatever a helper or the program supplies, an exporter keeps no sensitive  *)
(* or overlong name, no raw payload and no text of a side that is disabled,   *)
(* nothing of a summary that the Observer refused, and no cause of an error   *)
(* in encrypted reasoning (redaction.go:100-216, 406; no_network.go).         *)
THEOREM NothingForbiddenIsKept == Spec => []NothingForbidden
<1>1. ASSUME IInv, stage = "exported"
      PROVE  \A p \in Parts : \A k \in DOMAIN p.part.attributes : ~Forbidden(k)
  <2> SUFFICES ASSUME NEW p \in Parts, NEW k \in DOMAIN p.part.attributes
               PROVE  ~Forbidden(k)
    OBVIOUS
  <2>1. PICK before, applied :
          /\ Supplied(before.attributes, before.records, p.items)
          /\ Applied(before.attributes, applied, options.exporter)
          /\ p.part.attributes = applied.attributes
    BY <1>1, ExportedParts DEF FromSupply
  <2>2. /\ k \in DOMAIN before.attributes
        /\ Omission(k, before.attributes[k], options.exporter) = "kept"
    BY <2>1 DEF Applied
  <2>3. IsKey(k)
    BY <2>1, <2>2 DEF Supplied
  <2> QED BY <2>2, <2>3, KeptIsAllowed
<1>2. ASSUME IInv, stage = "exported",
             NEW s \in Summaries, SummaryRefused(s[1], s[2], options.observer) # {},
             NEW k \in DOMAIN observation.attributes
      PROVE  ~IsPrefix(s[1], k.path)
  <2>1. PICK b : IsBuilt(b) /\ observation = Exported(b) /\ options.exporter.max >= 0
    BY <1>2 DEF IInv, StageInvariant
  <2>2. Configured
    BY <1>2 DEF IInv
  <2> DEFINE opts == options.exporter
             export == "export"
  <2>3. observation = ApplySpan(b, opts, export)
    BY <2>1 DEF Exported
  <2>4. opts \in Options /\ export \in Passes /\ opts.max >= 0
    BY <2>1, <2>2, ExporterOptionsFacts
  <2> HIDE DEF export
  <2>5. observation.attributes = ApplyAttributes(b.attributes, opts, export).attributes
    BY <2>3, SpanFacts, EventFacts
  <2>6. WellFormed(b)
    BY <2>1, <2>2, BuiltWellFormed DEF SpanWellFormed
  <2>7. Applied(b.attributes, ApplyAttributes(b.attributes, opts, export), opts)
    BY <2>4, <2>6, ApplyFacts DEF WellFormed
  <2>8. k \in DOMAIN b.attributes
    BY <1>2, <2>5, <2>7 DEF Applied
  <2>9. IsKey(k)
    BY <2>1, <2>2, <2>8, BuiltSupplied DEF Supplied
  <2>10. s[1] \in SummaryPaths /\ ~Under(s[1], k)
    BY <1>2, <2>1, <2>2, <2>8, RefusedIsGone
  <2> QED BY <2>9, <2>10, PrefixIsUnder
<1>3. ASSUME IInv, stage = "exported"
      PROVE  IsEncryptedReasoningName(observation.error.operation) => ~observation.error.cause
  <2>1. PICK b : IsBuilt(b) /\ observation = Exported(b)
    BY <1>3 DEF IInv, StageInvariant
  <2>2. IsError(b.error)
    BY <1>3, <2>1, BuiltError DEF IInv
  <2>3. observation.error = RedactError(b.error, "export").error
    BY <2>1, SpanFacts, EventFacts DEF Exported
  <2> QED BY <2>2, <2>3, RedactedError
<1>4. IInv => NothingForbidden
  BY <1>1, <1>2, <1>3 DEF NothingForbidden
<1> QED BY <1>4, Invariant, PTL

-----------------------------------------------------------------------------
(* Texts. *)

LEMMA LongestPrefixIs ==
  ASSUME NEW runes \in Runes, NEW limits, NEW m \in 0..Len(runes),
         \A n \in limits : Bytes(Cut(runes, m)) <= n,
         \A l \in 0..Len(runes) : (\A n \in limits : Bytes(Cut(runes, l)) <= n) => l <= m
  PROVE  LongestPrefix(runes, limits) = Cut(runes, m)
<1> DEFINE P(p) == /\ p \in Prefixes(runes)
                   /\ \A n \in limits : Bytes(p) <= n
                   /\ \A q \in Prefixes(runes) :
                        (\A n \in limits : Bytes(q) <= n) => Len(q) <= Len(p)
<1>1. /\ Len(runes) \in Nat
      /\ \A l \in 0..Len(runes) : Len(Cut(runes, l)) = l
  BY CutFacts
<1>2. Prefixes(runes) = {Cut(runes, l) : l \in 0..Len(runes)}
  BY DEF Prefixes, Cut
<1>3. P(Cut(runes, m))
  <2>1. Cut(runes, m) \in Prefixes(runes)
    BY <1>2
  <2>2. ASSUME NEW q \in Prefixes(runes), \A n \in limits : Bytes(q) <= n
        PROVE  Len(q) <= Len(Cut(runes, m))
    <3>1. PICK l \in 0..Len(runes) : q = Cut(runes, l)
      BY <1>2
    <3>2. l <= m
      BY <2>2, <3>1
    <3> QED BY <1>1, <3>1, <3>2
  <2> QED BY <2>1, <2>2
<1>4. ASSUME NEW p, P(p) PROVE p = Cut(runes, m)
  <2>1. PICK l \in 0..Len(runes) : p = Cut(runes, l)
    BY <1>2, <1>4
  <2>2. Len(Cut(runes, m)) <= Len(p)
    BY <1>3, <1>4
  <2>3. l <= m
    BY <1>4, <2>1
  <2>4. l = m
    BY <1>1, <2>1, <2>2, <2>3
  <2> QED BY <2>1, <2>4
<1>5. LongestPrefix(runes, limits) = CHOOSE p : P(p)
  BY DEF LongestPrefix
<1> HIDE DEF P
<1> QED BY <1>3, <1>4, <1>5

LEMMA SummaryEndsInSummary ==
  ASSUME NEW path, SummarySide(path) # "none"
  PROVE  path \in SummaryPaths /\ Last(path) = "summary"
<1>1. path \in SummaryPaths
  BY DEF SummarySide, SummaryPaths
<1> QED BY <1>1, SummaryPathFacts DEF Last

LEMMA BoundedOnce ==
  ASSUME NEW runes \in Runes, NEW limit \in Nat \ {0}
  PROVE  TruncateUTF8(runes, limit) = LongestPrefix(runes, {limit})
<1>1. PICK m : LongestCut(runes, limit, m) /\ TruncateUTF8(runes, limit) = Cut(runes, m)
  BY TruncateFacts
<1>2. /\ m \in 0..Len(runes) /\ \A n \in {limit} : Bytes(Cut(runes, m)) <= n
      /\ \A l \in 0..Len(runes) : (\A n \in {limit} : Bytes(Cut(runes, l)) <= n) => l <= m
  BY <1>1 DEF LongestCut
<1> QED BY <1>1, <1>2, LongestPrefixIs

LEMMA BoundedTwice ==
  ASSUME NEW runes \in Runes, NEW a \in Nat \ {0}, NEW b \in Nat \ {0}
  PROVE  TruncateUTF8(TruncateUTF8(runes, a), b) = LongestPrefix(runes, {a, b})
<1>1. PICK m : /\ m \in 0..Len(runes)
               /\ TruncateUTF8(TruncateUTF8(runes, a), b) = Cut(runes, m)
               /\ Bytes(Cut(runes, m)) <= a /\ Bytes(Cut(runes, m)) <= b
               /\ \A l \in 0..Len(runes) :
                    Bytes(Cut(runes, l)) <= a /\ Bytes(Cut(runes, l)) <= b => l <= m
  BY TruncateTwice
<1> DEFINE limits == {a, b}
<1>2. /\ \A n \in limits : Bytes(Cut(runes, m)) <= n
      /\ \A l \in 0..Len(runes) : (\A n \in limits : Bytes(Cut(runes, l)) <= n) => l <= m
  BY <1>1
<1> HIDE DEF limits
<1>3. LongestPrefix(runes, limits) = Cut(runes, m)
  BY <1>1, <1>2, LongestPrefixIs
<1> QED BY <1>1, <1>3 DEF limits

LEMMA Limits ==
  ASSUME Configured, options.exporter.max >= 0
  PROVE  /\ ObserverLimit \in Nat \ {0}
         /\ MaxSummaryBytes(options.exporter) \in Nat \ {0}
         /\ OwnLimit = {MaxSummaryBytes(options.exporter)}
         /\ BothLimits = {ObserverLimit, MaxSummaryBytes(options.exporter)}
BY ConfiguredFacts, LimitType DEF Bounding, ObserverLimit, OwnLimit, BothLimits

(* Cut once or twice with any two limits, a text leaves an exporter as the   *)
(* longest run of whole runes of what was supplied that fits every limit it  *)
(* passed (redaction.go:294, 308, 487; model_call.go:198).                   *)
THEOREM TextsAreCutOnce == Spec => []TextsAreLongestPrefixes
<1>1. ASSUME IInv, stage = "exported", NEW p \in Parts, NEW k \in DOMAIN p.part.attributes,
             IsBounded(k, p.part.attributes[k])
      PROVE  \E item \in p.items :
               item.key = k /\ p.part.attributes[k].runes = LongestPrefix(item.runes, item.limits)
  <2> DEFINE limit == MaxSummaryBytes(options.exporter)
             left  == p.part.attributes[k].runes
  <2>1. PICK before, applied :
          /\ Supplied(before.attributes, before.records, p.items)
          /\ Applied(before.attributes, applied, options.exporter)
          /\ p.part.attributes = applied.attributes
    BY <1>1, ExportedParts DEF FromSupply
  <2> DEFINE value == before.attributes[k]
  <2>2. /\ ObserverLimit \in Nat \ {0} /\ limit \in Nat \ {0}
        /\ OwnLimit = {limit} /\ BothLimits = {ObserverLimit, limit}
    BY <1>1, Limits DEF IInv, StageInvariant
  <2>3. /\ k \in DOMAIN before.attributes
        /\ applied.attributes[k].text = value.text
        /\ applied.attributes[k] =
             IF IsBounded(k, value) THEN Text(TruncateUTF8(value.runes, limit)) ELSE value
    BY <1>1, <2>1 DEF Applied
  <2>4. IsBounded(k, value)
    BY <1>1, <2>1, <2>3 DEF IsBounded
  <2>5. left = TruncateUTF8(value.runes, limit)
    BY <2>1, <2>3, <2>4 DEF Text
  <2>6. PICK item \in p.items : item.key = k /\ ItemKept(item, value.runes, before.records)
    BY <2>1, <2>3 DEF Supplied
  <2> HIDE DEF limit, left, value
  <2>7. item.runes \in Runes
    BY <2>6 DEF ItemKept
  <2>8. ~(item.key.name = NoName /\ Last(item.key.path) = "name")
    <3> SUFFICES ASSUME k.name = NoName, Last(k.path) = "name" PROVE FALSE
      BY <2>6
    <3>1. IsSummary(k)
      BY <2>4 DEF IsBounded, IsSummaryField, IsMetadata
    <3> QED BY <3>1, SummaryEndsInSummary DEF IsSummary
  <2>9. ASSUME value.runes = item.runes, item.limits = OwnLimit
        PROVE  left = LongestPrefix(item.runes, item.limits)
    BY <2>2, <2>5, <2>7, <2>9, BoundedOnce
  <2>10. ASSUME item.limits = BothLimits,
                value.runes = TruncateUTF8(item.runes, ObserverLimit)
         PROVE  left = LongestPrefix(item.runes, item.limits)
    BY <2>2, <2>5, <2>7, <2>10, BoundedTwice
  <2>11. left = LongestPrefix(item.runes, item.limits)
    BY <2>6, <2>8, <2>9, <2>10 DEF ItemKept
  <2> QED BY <2>6, <2>11 DEF left
<1>2. IInv => TextsAreLongestPrefixes
  BY <1>1 DEF TextsAreLongestPrefixes
<1> QED BY <1>2, Invariant, PTL

-----------------------------------------------------------------------------
(* Every item. *)

AboutRecords(part, item) == {r \in part.records : r.path \in AboutItem(item)}
CutRecords(part, item) ==
  {r \in AboutRecords(part, item) : r.reason = "summary_truncated"}

KeptOrTold(part, item, cuts) ==
  \/ part.attributes[item.key].runes = item.runes
  \/ /\ \E r \in cuts : r.original = Bytes(item.runes)
     /\ \E r \in cuts : r.retained = Bytes(part.attributes[item.key].runes)

Accounted(part, item) ==
  \/ /\ item.key \in DOMAIN part.attributes
     /\ KeptOrTold(part, item, CutRecords(part, item))
  \/ /\ item.key \notin DOMAIN part.attributes
     /\ AboutRecords(part, item) \ CutRecords(part, item) # {}

LEMMA KeyIsAbout ==
  ASSUME NEW item
  PROVE  item.key \in AboutItem(item)
BY DEF AboutItem

LEMMA ItemAccounted ==
  ASSUME NEW p, FromSupply(p), NEW item \in p.items,
         \A other \in p.items \ {item} : other.key # item.key
  PROVE  Accounted(p.part, item)
<1> DEFINE about == AboutRecords(p.part, item)
           cuts == CutRecords(p.part, item)
           k == item.key
           left == p.part.attributes[k].runes
<1>1. PICK before, applied :
        /\ Supplied(before.attributes, before.records, p.items)
        /\ Applied(before.attributes, applied, options.exporter)
        /\ p.part.attributes = applied.attributes
        /\ before.records \cup applied.records \subseteq p.part.records
  BY DEF FromSupply
<1> DEFINE value == before.attributes[k].runes
<1>2. ASSUME NEW r \in before.records \cup applied.records, r.path \in AboutItem(item)
      PROVE  r \in about /\ (r \in cuts <=> r.reason = "summary_truncated")
  BY <1>1, <1>2 DEF AboutRecords, CutRecords
<1>3. k \in AboutItem(item)
  BY KeyIsAbout
<1>4. ASSUME k \in DOMAIN p.part.attributes
      PROVE  KeptOrTold(p.part, item, cuts)
  <2>1. k \in DOMAIN before.attributes
    BY <1>1, <1>4 DEF Applied
  <2>2. ItemKept(item, value, before.records)
    <3>1. PICK other \in p.items : other.key = k /\ ItemKept(other, value, before.records)
      BY <1>1, <2>1 DEF Supplied
    <3>2. other = item
      BY <3>1
    <3> QED BY <3>1, <3>2
  <2>3. \/ value = item.runes
        \/ \E r \in before.records : /\ r.path \in AboutItem(item)
                                     /\ Shortened(r, r.path, item.runes, value)
    BY <2>2 DEF ItemKept
  <2>4. \/ left = value
        \/ \E r \in applied.records : Shortened(r, k, value, left)
    BY <1>1, <1>4 DEF Applied
  <2> HIDE DEF k, left, value
  <2>5. \/ value = item.runes
        \/ \E r \in cuts : r.original = Bytes(item.runes) /\ r.retained = Bytes(value)
    BY <1>2, <2>3 DEF Shortened
  <2>6. \/ left = value
        \/ \E r \in cuts : r.original = Bytes(value) /\ r.retained = Bytes(left)
    BY <1>2, <1>3, <2>4 DEF Shortened
  <2>7. \/ left = item.runes
        \/ /\ \E r \in cuts : r.original = Bytes(item.runes)
           /\ \E r \in cuts : r.retained = Bytes(left)
    BY <2>5, <2>6
  <2> QED BY <2>7 DEF KeptOrTold, left, k
<1>5. ASSUME k \notin DOMAIN p.part.attributes
      PROVE  about \ cuts # {}
  <2>1. CASE k \in DOMAIN before.attributes
    <3>1. PICK r \in applied.records : Gone(r, k)
      BY <1>1, <1>5, <2>1 DEF Applied
    <3>2. r \in about /\ r \notin cuts
      BY <1>2, <1>3, <3>1 DEF Gone
    <3> QED BY <3>2
  <2>2. CASE k \notin DOMAIN before.attributes
    <3>1. PICK r \in before.records : r.path \in AboutItem(item) /\ Gone(r, r.path)
      BY <1>1, <2>2 DEF Supplied, ItemGone
    <3>2. r \in about /\ r \notin cuts
      BY <1>2, <3>1 DEF Gone
    <3> QED BY <3>2
  <2> QED BY <2>1, <2>2
<1> QED BY <1>4, <1>5 DEF Accounted

(* Whatever is supplied and however the two sides are configured, an item    *)
(* that shares its key with no other one is kept whole, or is cut and        *)
(* records tell its first and its last length, or is gone and a record tells *)
(* why (redaction.go:100-175, 226-255, 294).                                 *)
THEOREM EveryItemIsAccounted == Spec => []EveryItemAccounted
<1>1. ASSUME IInv, stage = "exported", NEW p \in Parts, NEW item \in p.items
      PROVE  LET about  == {r \in p.part.records : r.path \in AboutItem(item)}
                 cuts   == {r \in about : r.reason = "summary_truncated"}
                 left   == p.part.attributes[item.key].runes
                 shared == \E other \in p.items \ {item} : other.key = item.key
             IN \/ shared
                \/ item.key \in DOMAIN p.part.attributes
                   /\ \/ left = item.runes
                      \/ /\ \E r \in cuts : r.original = Bytes(item.runes)
                         /\ \E r \in cuts : r.retained = Bytes(left)
                \/ item.key \notin DOMAIN p.part.attributes /\ about \ cuts # {}
  <2> DEFINE about  == {r \in p.part.records : r.path \in AboutItem(item)}
             cuts   == {r \in about : r.reason = "summary_truncated"}
             shared == \E other \in p.items \ {item} : other.key = item.key
  <2>1. FromSupply(p)
    BY <1>1, ExportedParts
  <2>2. ~shared => Accounted(p.part, item)
    BY <2>1, ItemAccounted
  <2>3. about = AboutRecords(p.part, item) /\ cuts = CutRecords(p.part, item)
    BY DEF AboutRecords, CutRecords
  <2> HIDE DEF about, cuts, shared
  <2>4. \/ shared
        \/ /\ item.key \in DOMAIN p.part.attributes
           /\ KeptOrTold(p.part, item, cuts)
        \/ item.key \notin DOMAIN p.part.attributes /\ about \ cuts # {}
    BY <2>2, <2>3 DEF Accounted
  <2> QED BY <2>4 DEF KeptOrTold, about, cuts, shared
<1>2. IInv => EveryItemAccounted
  BY <1>1 DEF EveryItemAccounted
<1> QED BY <1>2, Invariant, PTL

-----------------------------------------------------------------------------
(* The first entries of a map. *)

LEMMA RankFacts ==
  ASSUME NEW name \in Name
  PROVE  Rank(name) \in Nat /\ CanonicalOrder[Rank(name)] = name.canonical
<1> DEFINE P(i) == i \in DOMAIN CanonicalOrder /\ CanonicalOrder[i] = name.canonical
<1>1. /\ Len(CanonicalOrder) \in Nat
      /\ DOMAIN CanonicalOrder = 1..Len(CanonicalOrder)
  BY RedactionAssumption
<1>2. \E i : P(i)
  BY DEF Name, Range
<1>3. Rank(name) = CHOOSE i : P(i)
  BY DEF Rank
<1> HIDE DEF P
<1>4. P(Rank(name))
  BY <1>2, <1>3
<1> QED BY <1>1, <1>4 DEF P

LEMMA BeforeFacts ==
  ASSUME NEW a \in Name, NEW b \in Name
  PROVE  /\ Before(a, b) => ~Before(b, a)
         /\ \/ Before(a, b) \/ Before(b, a)
            \/ a.canonical = b.canonical /\ a.spelling = b.spelling
<1>1. /\ Rank(a) \in Nat /\ Rank(b) \in Nat
      /\ Rank(a) = Rank(b) => a.canonical = b.canonical
  BY RankFacts
<1>2. a.spelling \in Nat /\ b.spelling \in Nat
  BY DEF Name
<1> QED BY <1>1, <1>2 DEF Before

Keeps(entry) == NameOmission(entry.name) = "kept"

(* The positions up to i of entries that may be kept, and those of the ones
   that are. *)
KeptUpTo(order, i) == {j \in 1..i : Keeps(order[j])}
Taken(order, i) ==
  {j \in KeptUpTo(order, i) : Cardinality(KeptUpTo(order, j - 1)) < MaxMapEntries}
KeysTaken(path, order, i) == {FieldKey(path, order[j]) : j \in Taken(order, i)}

LEMMA KeptUpToFacts ==
  ASSUME NEW order, NEW i \in Nat
  PROVE  IsFiniteSet(KeptUpTo(order, i)) /\ Cardinality(KeptUpTo(order, i)) \in Nat
<1>1. IsFiniteSet(1..i)
  BY FS_Interval
<1>2. KeptUpTo(order, i) \in SUBSET (1..i)
  BY DEF KeptUpTo
<1> QED BY <1>1, <1>2, FS_Subset, FS_CardinalityType

LEMMA KeptUpToNext ==
  ASSUME NEW order, NEW i \in Nat \ {0}
  PROVE  /\ Keeps(order[i]) =>
              /\ KeptUpTo(order, i) = KeptUpTo(order, i - 1) \cup {i}
              /\ Cardinality(KeptUpTo(order, i)) = Cardinality(KeptUpTo(order, i - 1)) + 1
         /\ ~Keeps(order[i]) => KeptUpTo(order, i) = KeptUpTo(order, i - 1)
<1>1. 1..i = (1..(i - 1)) \cup {i} /\ i \notin 1..(i - 1) /\ i - 1 \in Nat
  OBVIOUS
<1>2. Keeps(order[i]) => KeptUpTo(order, i) = KeptUpTo(order, i - 1) \cup {i}
  BY <1>1 DEF KeptUpTo
<1>3. ~Keeps(order[i]) => KeptUpTo(order, i) = KeptUpTo(order, i - 1)
  BY <1>1 DEF KeptUpTo
<1>4. i \notin KeptUpTo(order, i - 1)
  BY <1>1 DEF KeptUpTo
<1>5. IsFiniteSet(KeptUpTo(order, i - 1))
  BY <1>1, KeptUpToFacts
<1>6. Cardinality(KeptUpTo(order, i - 1) \cup {i}) = Cardinality(KeptUpTo(order, i - 1)) + 1
  BY <1>4, <1>5, FS_AddElement
<1> QED BY <1>2, <1>3, <1>6

LEMMA TakenNext ==
  ASSUME NEW order, NEW i \in Nat \ {0}
  PROVE  Taken(order, i) =
           IF Keeps(order[i]) /\ Cardinality(KeptUpTo(order, i - 1)) < MaxMapEntries
           THEN Taken(order, i - 1) \cup {i} ELSE Taken(order, i - 1)
<1> DEFINE before == KeptUpTo(order, i - 1)
           fits(j) == Cardinality(KeptUpTo(order, j - 1)) < MaxMapEntries
<1>1. /\ Taken(order, i) = {j \in KeptUpTo(order, i) : fits(j)}
      /\ Taken(order, i - 1) = {j \in before : fits(j)}
  BY DEF Taken
<1>2. /\ Keeps(order[i]) => KeptUpTo(order, i) = before \cup {i}
      /\ ~Keeps(order[i]) => KeptUpTo(order, i) = before
  BY KeptUpToNext
<1>3. fits(i) <=> Cardinality(before) < MaxMapEntries
  OBVIOUS
<1> HIDE DEF before, fits
<1>4. Taken(order, i) =
        IF Keeps(order[i]) /\ fits(i) THEN Taken(order, i - 1) \cup {i} ELSE Taken(order, i - 1)
  BY <1>1, <1>2
<1> QED BY <1>3, <1>4 DEF before

AtMost(count, limit) == IF count <= limit THEN count ELSE limit

(* As many have been kept as there are that may be, up to the limit. *)
MapTaken(acc, path, order, i) ==
  /\ MapAccount(acc)
  /\ DOMAIN acc.attributes = KeysTaken(path, order, i)
  /\ acc.retained = AtMost(Cardinality(KeptUpTo(order, i)), MaxMapEntries)

LEMMA MapTakenNext ==
  ASSUME NEW order, NEW i \in Nat \ {0}, Entry(order[i]), NEW path,
         NEW acc, MapTaken(acc, path, order, i - 1),
         NEW opts \in Options, opts.max >= 0
  PROVE  MapTaken(AddEntry(acc, order[i], path, opts), path, order, i)
<1> DEFINE entry == order[i]
           next  == AddEntry(acc, entry, path, opts)
           key   == FieldKey(path, entry)
           cut   == TruncateUTF8(entry.runes, MaxSummaryBytes(opts))
           count == Cardinality(KeptUpTo(order, i - 1))
<1>1. count \in Nat /\ MaxMapEntries \in Nat
  BY KeptUpToFacts, RedactionAssumption
<1>2. acc.retained = AtMost(count, MaxMapEntries) /\ acc.retained \in Nat
  BY <1>1 DEF MapTaken, AtMost
<1>3. EntryAdded(acc, next, path, entry, MaxSummaryBytes(opts))
  BY <1>2, AddEntryFacts DEF MapTaken
<1>4. EntryFits(acc, entry) <=> Keeps(entry) /\ count < MaxMapEntries
  BY <1>1, <1>2 DEF EntryFits, Keeps, AtMost
<1> HIDE DEF next, key, cut, count
<1>5. /\ MapAccount(next)
      /\ EntryFits(acc, entry) =>
           /\ next.attributes = Over(Only(key, Text(cut)), acc.attributes)
           /\ next.retained = acc.retained + 1
      /\ ~EntryFits(acc, entry) =>
           next.attributes = acc.attributes /\ next.retained = acc.retained
  BY <1>3 DEF EntryAdded, key, cut
<1>6. DOMAIN next.attributes =
        IF EntryFits(acc, entry) THEN DOMAIN acc.attributes \cup {key} ELSE DOMAIN acc.attributes
  BY <1>5 DEF Over, Only
<1>7. DOMAIN next.attributes = KeysTaken(path, order, i)
  <2>1. Taken(order, i) = IF EntryFits(acc, entry)
                          THEN Taken(order, i - 1) \cup {i} ELSE Taken(order, i - 1)
    BY <1>4, TakenNext DEF count
  <2>2. DOMAIN acc.attributes = KeysTaken(path, order, i - 1)
    BY DEF MapTaken
  <2> QED BY <1>6, <2>1, <2>2 DEF KeysTaken, key
<1>8. next.retained = AtMost(Cardinality(KeptUpTo(order, i)), MaxMapEntries)
  <2>1. Cardinality(KeptUpTo(order, i)) = IF Keeps(entry) THEN count + 1 ELSE count
    BY KeptUpToNext DEF count
  <2> QED BY <1>1, <1>2, <1>4, <1>5, <2>1 DEF AtMost
<1> QED BY <1>5, <1>7, <1>8 DEF MapTaken, next

LEMMA StringMapTaken ==
  ASSUME NEW path, NEW order, Len(order) \in Nat,
         \A j \in 1..Len(order) : Entry(order[j]),
         NEW opts \in Options, opts.max >= 0
  PROVE  DOMAIN StringMapAttributes(path, order, opts).attributes
           = KeysTaken(path, order, Len(order))
<1> DEFINE n == Len(order)
<1>1. PICK f : /\ EntriesAdded(f, n, path, order, opts)
               /\ f[n] = StringMapAttributes(path, order, opts)
  BY StringMapSteps
<1> DEFINE S == {i \in 0..n : MapTaken(f[i], path, order, i)}
<1>2. 0 \in S
  <2>1. f[0] = EmptyMap
    BY <1>1 DEF EntriesAdded
  <2>2. MapAccount(EmptyMap) /\ EmptyMap.retained = 0 /\ DOMAIN EmptyMap.attributes = {}
    BY DEF MapAccount, EmptyMap, NoAttributes
  <2>3. KeptUpTo(order, 0) = {} /\ Cardinality({}) = 0 /\ AtMost(0, MaxMapEntries) = 0
    BY FS_EmptySet, RedactionAssumption DEF KeptUpTo, AtMost
  <2>4. KeysTaken(path, order, 0) = {}
    BY <2>3 DEF KeysTaken, Taken
  <2>5. MapTaken(EmptyMap, path, order, 0)
    BY <2>2, <2>3, <2>4 DEF MapTaken
  <2> QED BY <2>1, <2>5
<1>3. ASSUME NEW i \in 1..n, i - 1 \in S PROVE i \in S
  <2>1. f[i] = AddEntry(f[i - 1], order[i], path, opts) /\ i \in Nat \ {0}
    BY <1>1 DEF EntriesAdded
  <2>2. MapTaken(f[i], path, order, i)
    BY <1>3, <2>1, MapTakenNext
  <2> QED BY <2>2
<1>4. n \in S
  <2> HIDE DEF S, n
  <2>1. n \in Nat /\ n \in 0..n
    BY DEF n
  <2> QED BY <1>2, <1>3, <2>1, BoundedInduction
<1> QED BY <1>1, <1>4 DEF MapTaken

KeptFields(map)      == {e \in map : Keeps(e)}
Ahead(fields, entry) == {f \in fields : Before(Trimmed(f.name), Trimmed(entry.name))}
FirstOf(map) ==
  {e \in KeptFields(map) : Cardinality(Ahead(KeptFields(map), e)) < MaxMapEntries}

LEMMA TrimmedName ==
  ASSUME NEW name \in Name
  PROVE  /\ Trimmed(name) \in Name
         /\ Trimmed(name).canonical = name.canonical
         /\ Trimmed(name).spelling = name.spelling
BY DEF Trimmed, Name

LEMMA AheadFinite ==
  ASSUME NEW map \in Entries, NEW entry
  PROVE  /\ IsFiniteSet(Ahead(KeptFields(map), entry))
         /\ Cardinality(Ahead(KeptFields(map), entry)) \in Nat
<1>1. IsFiniteSet(map)
  BY DEF Entries
<1>2. Ahead(KeptFields(map), entry) \in SUBSET map
  BY DEF Ahead, KeptFields
<1> QED BY <1>1, <1>2, FS_Subset, FS_CardinalityType

LEMMA TakenAreFirst ==
  ASSUME NEW map \in Entries, NEW order \in Orders(map),
         NEW j \in Taken(order, Len(order))
  PROVE  order[j] \in FirstOf(map)
<1> DEFINE n      == Len(order)
           e      == order[j]
           ahead  == Ahead(KeptFields(map), e)
           before == KeptUpTo(order, j - 1)
           g      == [f \in ahead |-> CHOOSE l \in 1..n : order[l] = f]
<1>1. /\ n \in Nat
      /\ \A l \in 1..n : order[l] \in map /\ Entry(order[l])
      /\ \A f \in map : \E l \in 1..n : order[l] = f
      /\ \A l, m \in 1..n : l < m => ~Before(Trimmed(order[m].name), Trimmed(order[l].name))
  BY OrderFacts
<1>2. /\ j \in 1..n /\ Keeps(e) /\ e \in map /\ e.name \in Name
      /\ Cardinality(before) < MaxMapEntries
  BY <1>1 DEF Taken, KeptUpTo, Entry
<1>3. ASSUME NEW f \in ahead
      PROVE  g[f] \in before /\ order[g[f]] = f
  <2>1. f \in map /\ Keeps(f) /\ Before(Trimmed(f.name), Trimmed(e.name))
    BY DEF Ahead, KeptFields
  <2>2. g[f] \in 1..n /\ order[g[f]] = f
    BY <1>1, <2>1
  <2>3. g[f] # j
    <3>1. ~Before(Trimmed(e.name), Trimmed(e.name))
      BY <1>2, TrimmedName, BeforeFacts
    <3> QED BY <2>1, <2>2, <3>1
  <2>4. ~(j < g[f])
    <3> HIDE DEF g
    <3> QED BY <1>1, <1>2, <2>1, <2>2
  <2> HIDE DEF g
  <2>5. g[f] \in 1..(j - 1)
    BY <1>1, <1>2, <2>2, <2>3, <2>4
  <2> QED BY <2>1, <2>2, <2>5 DEF KeptUpTo
<1>4. g \in Injection(ahead, before)
  <2>1. g \in [ahead -> before]
    <3> HIDE DEF ahead, before
    <3> QED BY <1>3
  <2>2. ASSUME NEW a \in ahead, NEW b \in ahead, g[a] = g[b] PROVE a = b
    <3> HIDE DEF g, ahead
    <3> QED BY <1>3, <2>2
  <2> HIDE DEF g, ahead, before
  <2> QED BY <2>1, <2>2 DEF Injection, IsInjective
<1>5. IsFiniteSet(before) /\ Cardinality(before) \in Nat
  BY <1>1, <1>2, KeptUpToFacts
<1>6. Cardinality(ahead) \in Nat
  BY AheadFinite
<1> HIDE DEF g, ahead, before
<1>7. Cardinality(ahead) <= Cardinality(before)
  BY <1>4, <1>5, FS_Injection
<1>8. Cardinality(ahead) < MaxMapEntries
  BY <1>2, <1>5, <1>6, <1>7, RedactionAssumption
<1> QED BY <1>2, <1>8 DEF FirstOf, KeptFields, ahead

LEMMA FirstAreTaken ==
  ASSUME NEW map \in Entries, NEW order \in Orders(map), NEW path, NEW e \in FirstOf(map)
  PROVE  FieldKey(path, e) \in KeysTaken(path, order, Len(order))
<1> DEFINE n     == Len(order)
           ahead == Ahead(KeptFields(map), e)
           T     == {l \in 1..n : Keeps(order[l]) /\ FieldKey(path, order[l]) = FieldKey(path, e)}
<1>1. /\ n \in Nat
      /\ \A l \in 1..n : order[l] \in map /\ Entry(order[l])
      /\ \A f \in map : \E l \in 1..n : order[l] = f
      /\ \A l, m \in 1..n : l # m => order[l] # order[m]
      /\ \A l, m \in 1..n : l < m => ~Before(Trimmed(order[m].name), Trimmed(order[l].name))
  BY OrderFacts
<1>2. e \in map /\ Keeps(e) /\ Cardinality(ahead) < MaxMapEntries
  BY DEF FirstOf, KeptFields
<1>3. T # {} /\ T \subseteq Nat
  BY <1>1, <1>2
<1>4. PICK l \in T : \A m \in T : l <= m
  BY <1>3, NatMinimum
<1>5. /\ l \in 1..n /\ Keeps(order[l]) /\ FieldKey(path, order[l]) = FieldKey(path, e)
      /\ order[l].name \in Name
  BY <1>1, <1>4 DEF Entry
<1>6. Trimmed(order[l].name) = Trimmed(e.name)
  BY <1>5 DEF FieldKey, Named
<1> DEFINE before == KeptUpTo(order, l - 1)
           g      == [m \in before |-> order[m]]
<1>7. ASSUME NEW m \in before PROVE order[m] \in ahead /\ m \in 1..n
  <2>1. m \in 1..n /\ m < l /\ Keeps(order[m])
    BY <1>1, <1>5 DEF KeptUpTo
  <2>2. order[m] \in map /\ order[m].name \in Name /\ order[l] \in map
    BY <1>1, <1>5, <2>1 DEF Entry
  <2>3. m \notin T
    BY <1>4, <2>1
  <2>4. FieldKey(path, order[m]) # FieldKey(path, order[l])
    BY <1>5, <2>1, <2>3
  <2>5. Trimmed(order[m].name) # Trimmed(order[l].name)
    BY <2>4 DEF FieldKey
  <2>6. ~(/\ order[m].name.canonical = order[l].name.canonical
          /\ order[m].name.spelling = order[l].name.spelling)
    BY <2>2, <2>5 DEF Entries
  <2>7. ~Before(Trimmed(order[l].name), Trimmed(order[m].name))
    BY <1>1, <1>5, <2>1
  <2> DEFINE a == Trimmed(order[m].name)
             b == Trimmed(order[l].name)
  <2>8. /\ a \in Name /\ b \in Name /\ ~Before(b, a)
        /\ ~(a.canonical = b.canonical /\ a.spelling = b.spelling)
    BY <1>5, <2>2, <2>6, <2>7, TrimmedName
  <2> HIDE DEF a, b
  <2>9. Before(a, b)
    BY <2>8, BeforeFacts
  <2> QED BY <1>6, <2>1, <2>2, <2>9 DEF a, b, Ahead, KeptFields
<1>8. g \in Injection(before, ahead)
  <2> HIDE DEF ahead, before, T, n
  <2> QED BY <1>1, <1>7 DEF Injection, IsInjective
<1>9. IsFiniteSet(ahead) /\ Cardinality(ahead) \in Nat
  BY AheadFinite
<1>10. Cardinality(before) \in Nat
  BY <1>1, <1>5, KeptUpToFacts
<1> HIDE DEF g, ahead, before, T
<1>11. Cardinality(before) <= Cardinality(ahead)
  BY <1>8, <1>9, FS_Injection
<1>12. Cardinality(before) < MaxMapEntries
  BY <1>2, <1>9, <1>10, <1>11, RedactionAssumption
<1>13. l \in Taken(order, n)
  BY <1>5, <1>12 DEF Taken, KeptUpTo, before
<1> QED BY <1>5, <1>13 DEF KeysTaken

LEMMA KeysAreFirst ==
  ASSUME NEW map \in Entries, NEW order \in Orders(map), NEW path
  PROVE  KeysTaken(path, order, Len(order)) = {FieldKey(path, e) : e \in FirstOf(map)}
BY TakenAreFirst, FirstAreTaken DEF KeysTaken

(* Of a summary that is not refused, the fields are those of the map. *)
LEMMA FieldsOfSummary ==
  ASSUME NEW path \in SummaryPaths, NEW summary \in Summary,
         NEW order \in Orders(summary.fields), Bounding,
         SummaryRefused(path, summary, options.observer) = {}
  PROVE  {k \in DOMAIN Summarized(path, summary, order).attributes : k.path = FieldsPath(path)}
           = {FieldKey(FieldsPath(path), e) : e \in FirstOf(summary.fields)}
<1> DEFINE result == Summarized(path, summary, order)
           fields == {FieldKey(FieldsPath(path), e) : e \in FirstOf(summary.fields)}
<1>1. CASE IsAbsent(summary)
  <2>1. result.attributes = NoAttributes /\ summary.fields = {}
    BY <1>1 DEF Summarized, IsAbsent, NoSummary
  <2>2. fields = {}
    BY <2>1 DEF FirstOf, KeptFields
  <2> QED BY <2>1, <2>2, NoAttributesFacts
<1>2. CASE ~IsAbsent(summary)
  <2> DEFINE map    == StringMapAttributes(FieldsPath(path), order, options.observer)
             texted == Texted(path, summary)
             named  == NamedAttribute(path, summary)
  <2>1. result = SummaryAttributes(path, summary, order, options.observer)
    BY <1>2 DEF Summarized
  <2>2. result.attributes = Over(texted, Over(named, map.attributes))
    BY <2>1 DEF SummaryAttributes, Texted, NamedAttribute, SummaryText, ObserverLimit,
                FieldsPath
  <2>3. DOMAIN map.attributes = KeysTaken(FieldsPath(path), order, Len(order))
    <3>1. /\ Len(order) \in Nat
          /\ \A j \in 1..Len(order) : Entry(order[j])
      BY OrderFacts DEF Summary
    <3> QED BY <3>1, StringMapTaken DEF Bounding
  <2>4. DOMAIN map.attributes = fields
    <3>1. summary.fields \in Entries
      BY DEF Summary
    <3> HIDE DEF map
    <3> QED BY <2>3, <3>1, KeysAreFirst
  <2>5. /\ DOMAIN texted \subseteq {Plain(path)}
        /\ DOMAIN named \subseteq {Plain(Append(path, "name"))}
    BY NoAttributesFacts, OnlyFacts DEF Texted, NamedAttribute
  <2> HIDE DEF map, texted, named, result, fields
  <2>6. DOMAIN result.attributes = DOMAIN texted \cup DOMAIN named \cup fields
    BY <2>2, <2>4 DEF Over
  <2>7. Plain(path).path # FieldsPath(path)
    <3>1. Plain(path).path = path
      BY DEF Plain, Named
    <3>2. Len(FieldsPath(path)) = Len(path) + 1 /\ Len(path) \in Int
      BY AppendFacts DEF FieldsPath, Words
    <3> QED BY <3>1, <3>2
  <2>8. Plain(Append(path, "name")).path # FieldsPath(path)
    <3>1. Plain(Append(path, "name")).path = Append(path, "name")
      BY DEF Plain, Named
    <3>2. Last(Append(path, "name")) = "name" /\ Last(FieldsPath(path)) = "fields"
      BY AppendFacts DEF FieldsPath, Words
    <3> QED BY <3>1, <3>2
  <2>9. \A k \in fields : k.path = FieldsPath(path)
    BY DEF fields, FieldKey, Named
  <2> QED BY <2>5, <2>6, <2>7, <2>8, <2>9 DEF result, fields
<1> QED BY <1>1, <1>2

LEMMA FieldsAreUnder ==
  ASSUME NEW path \in SummaryPaths, NEW key, key.path = FieldsPath(path)
  PROVE  Under(path, key)
<1>1. /\ Len(FieldsPath(path)) = Len(path) + 1 /\ Len(path) \in 2..3
      /\ FieldsPath(path)[1] = path[1] /\ FieldsPath(path)[2] = path[2]
  BY AppendFacts DEF FieldsPath, Words
<1>2. \A n \in 2..3 : n + 1 >= 2
  OBVIOUS
<1> QED BY <1>1, <1>2 DEF Under

(* In whatever order a map is read, and whatever it holds, a helper keeps    *)
(* the fields that come first in canonical order among those that may be     *)
(* kept, as many as the limit (redaction.go:226-255).                        *)
THEOREM FirstEntriesAreKept == Spec => []FirstEntriesKept
<1>1. ASSUME IInv, stage = "built", NEW s \in Summaries,
             SummaryRefused(s[1], s[2], options.observer) = {}
      PROVE  {k \in DOMAIN observation.attributes : k.path = FieldsPath(s[1])}
               = {FieldKey(FieldsPath(s[1]), e) : e \in FirstOf(s[2].fields)}
  <2>1. Configured /\ IsBuilt(observation)
    BY <1>1 DEF IInv, StageInvariant
  <2>2. s[1] \in SummaryPaths /\ s[2] \in Summary
    BY <2>1, KeysOfSummary
  <2>3. PICK order \in Orders(s[2].fields) : \A k : Under(s[1], k) =>
          (k \in DOMAIN observation.attributes
             <=> k \in DOMAIN Summarized(s[1], s[2], order).attributes)
    BY <2>1, KeysOfSummary
  <2>4. {k \in DOMAIN Summarized(s[1], s[2], order).attributes : k.path = FieldsPath(s[1])}
          = {FieldKey(FieldsPath(s[1]), e) : e \in FirstOf(s[2].fields)}
    BY <1>1, <2>1, <2>2, FieldsOfSummary, ConfiguredFacts
  <2>5. {k \in DOMAIN observation.attributes : k.path = FieldsPath(s[1])}
          = {k \in DOMAIN Summarized(s[1], s[2], order).attributes : k.path = FieldsPath(s[1])}
    BY <2>2, <2>3, FieldsAreUnder
  <2> QED BY <2>4, <2>5
<1>2. ASSUME IInv, stage = "built", NEW s \in Summaries
      PROVE  LET fields     == {e \in s[2].fields : NameOmission(e.name) = "kept"}
                 ahead(e)   == {f \in fields : Before(Trimmed(f.name), Trimmed(e.name))}
                 first      == {e \in fields : Cardinality(ahead(e)) < MaxMapEntries}
                 path       == Append(s[1], "fields")
             IN SummaryRefused(s[1], s[2], options.observer) = {} =>
                  {k \in DOMAIN observation.attributes : k.path = path}
                    = {Named(path, Trimmed(e.name)) : e \in first}
  <2> DEFINE fields   == {e \in s[2].fields : NameOmission(e.name) = "kept"}
             ahead(e) == {f \in fields : Before(Trimmed(f.name), Trimmed(e.name))}
             first    == {e \in fields : Cardinality(ahead(e)) < MaxMapEntries}
             path     == Append(s[1], "fields")
  <2>1. fields = KeptFields(s[2].fields)
    BY DEF KeptFields, Keeps
  <2>2. \A e : ahead(e) = Ahead(KeptFields(s[2].fields), e)
    BY <2>1 DEF Ahead
  <2>3. first = FirstOf(s[2].fields)
    <3> HIDE DEF fields, ahead
    <3> QED BY <2>1, <2>2 DEF FirstOf
  <2>4. path = FieldsPath(s[1]) /\ \A e : Named(path, Trimmed(e.name)) = FieldKey(path, e)
    BY DEF FieldsPath, FieldKey
  <2> HIDE DEF first, path
  <2>5. SummaryRefused(s[1], s[2], options.observer) = {} =>
          {k \in DOMAIN observation.attributes : k.path = path}
            = {Named(path, Trimmed(e.name)) : e \in first}
    BY <1>1, <1>2, <2>3, <2>4
  <2> QED BY <2>5 DEF first, path
<1>3. IInv => FirstEntriesKept
  BY <1>2 DEF FirstEntriesKept
<1> QED BY <1>3, Invariant, PTL
=============================================================================
