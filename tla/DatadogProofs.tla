--------------------------- MODULE DatadogProofs ---------------------------
(***************************************************************************)
(* Proofs about DatadogExporter: its types, its safety invariants, its     *)
(* action properties, and that it implements DeliveryQueue.                *)
(*                                                                         *)
(* All of them rest on one inductive invariant, Inv.  Next to the three    *)
(* invariants it proves, it says what holding the mutex means (Holding),   *)
(* that tags ascend in pending (InOrder), which is why a request carries   *)
(* the first of what waits, and that a Shutdown that returned nil left     *)
(* nothing behind (Emptied), which is why a later call may answer nil.     *)
(*                                                                         *)
(* The first half is about the recursive helpers, for every sequence of    *)
(* items: Among keeps order and drops the rest, Groups loses nothing and   *)
(* respects the limits.  The proofs go by induction over Append; the Steps *)
(* lemmas unroll each recursion once.                                      *)
(***************************************************************************)
EXTENDS DatadogExporter, InductionLemmas

(* Among: unrolled, then by Append. *)

AmongUnrolled(f, s, S) ==
  /\ f \in [0..Len(s) -> Seq(Item)]
  /\ f[0] = <<>>
  /\ \A i \in 1..Len(s) :
       f[i] = IF s[i] \in S THEN Append(f[i - 1], s[i]) ELSE f[i - 1]
  /\ f[Len(s)] = Among(s, S)

LEMMA AmongSteps ==
  ASSUME NEW s \in Seq(Item), NEW S
  PROVE  \E f : AmongUnrolled(f, s, S)
<1> DEFINE n == Len(s)
           V == Seq(Item)
           step == [p \in (1..n) \X V |->
                      IF s[p[1]] \in S THEN Append(p[2], s[p[1]]) ELSE p[2]]
<1>1. n \in Nat /\ <<>> \in V
  BY LenProperties, EmptySeq
<1>2. step \in Steps(n, V)
  <2>1. ASSUME NEW p \in (1..n) \X V
        PROVE  (IF s[p[1]] \in S THEN Append(p[2], s[p[1]]) ELSE p[2]) \in V
    <3>1. p[2] \in V /\ p[1] \in 1..n
      OBVIOUS
    <3>2. s[p[1]] \in Item
      BY <3>1, ElementOfSeq
    <3>3. Append(p[2], s[p[1]]) \in V
      BY <3>1, <3>2, AppendProperties
    <3> QED BY <3>1, <3>3
  <2> QED BY <2>1 DEF Steps
<1>3. PICK f : Unrolls(f, V, <<>>, n, step)
  <2> HIDE DEF step, n, V
  <2> QED BY <1>1, <1>2, RecursionExists, Zenon
<1>4. f \in [0..n -> V] /\ f[0] = <<>>
  BY <1>3 DEF Unrolls
<1>5. ASSUME NEW i \in 1..n
      PROVE  f[i] = IF s[i] \in S THEN Append(f[i - 1], s[i]) ELSE f[i - 1]
  <2>1. i - 1 \in 0..n
    BY <1>1
  <2>2. f[i] = step[<<i, f[i - 1]>>]
    BY <1>3 DEF Unrolls
  <2>3. <<i, f[i - 1]>> \in (1..n) \X V
    BY <1>4, <2>1
  <2> HIDE DEF n, V
  <2> QED BY <2>2, <2>3
<1> DEFINE E(g) == [k \in 0..n |->
                      IF k = 0 THEN <<>>
                      ELSE IF s[k] \in S THEN Append(g[k - 1], s[k])
                                         ELSE g[k - 1]]
           g == CHOOSE gg : gg = E(gg)
<1>6. f = E(f)
  <2>1. ASSUME NEW k \in 0..n
        PROVE  f[k] = IF k = 0 THEN <<>>
                      ELSE IF s[k] \in S THEN Append(f[k - 1], s[k])
                                         ELSE f[k - 1]
    <3>1. k = 0 \/ k \in 1..n
      BY <1>1
    <3> QED BY <1>4, <1>5, <3>1
  <2>2. f = [k \in 0..n |-> f[k]]
    BY <1>4
  <2> QED BY <2>1, <2>2
<1>7. g = E(g)
  <2> HIDE DEF E
  <2> QED BY <1>6
<1>8. Among(s, S) = g[n]
  BY DEF Among
<1>9. g[n] = f[n]
  <2> HIDE DEF g
  <2>1. g[0] = f[0]
    BY <1>1, <1>4, <1>7
  <2>2. ASSUME NEW i \in 1..n, g[i - 1] = f[i - 1] PROVE g[i] = f[i]
    <3>1. i \in 0..n /\ i # 0
      BY <1>1
    <3>2. g[i] = IF s[i] \in S THEN Append(g[i - 1], s[i]) ELSE g[i - 1]
      BY <1>7, <3>1
    <3> QED BY <1>5, <2>2, <3>2
  <2> HIDE DEF n
  <2> QED BY <1>1, <2>1, <2>2, SameRecursion
<1> HIDE DEF g
<1>10. AmongUnrolled(f, s, S)
  BY <1>4, <1>5, <1>8, <1>9 DEF AmongUnrolled
<1> QED BY <1>10

LEMMA AmongType ==
  ASSUME NEW s \in Seq(Item), NEW S
  PROVE  Among(s, S) \in Seq(Item)
<1>1. Len(s) \in 0..Len(s)
  BY LenProperties
<1>2. PICK f : AmongUnrolled(f, s, S)
  BY AmongSteps
<1> QED BY <1>1, <1>2 DEF AmongUnrolled

LEMMA AmongEmpty ==
  ASSUME NEW S PROVE Among(<<>>, S) = <<>>
<1>1. <<>> \in Seq(Item) /\ Len(<<>>) = 0
  BY EmptySeq
<1>2. PICK f : AmongUnrolled(f, <<>>, S)
  BY <1>1, AmongSteps
<1> QED BY <1>1, <1>2 DEF AmongUnrolled

LEMMA AmongAppend ==
  ASSUME NEW s \in Seq(Item), NEW x \in Item, NEW S
  PROVE  Among(Append(s, x), S)
         = IF x \in S THEN Append(Among(s, S), x) ELSE Among(s, S)
<1> DEFINE r == Append(s, x)
           n == Len(s)
<1>1. /\ r \in Seq(Item) /\ Len(r) = n + 1 /\ n \in Nat
      /\ \A i \in 1..n : r[i] = s[i]
      /\ r[n + 1] = x
  BY AppendProperties, LenProperties
<1> HIDE DEF r
<1>2. PICK f : AmongUnrolled(f, s, S)
  BY AmongSteps
<1>3. PICK g : AmongUnrolled(g, r, S)
  BY <1>1, AmongSteps
<1> USE DEF AmongUnrolled
<1>4. f[n] = g[n]
  <2>1. \A i \in 1..n : i \in 1..(n + 1)
    BY <1>1
  <2>2. \A i \in 1..n : f[i - 1] = g[i - 1] => f[i] = g[i]
    BY <1>1, <1>2, <1>3, <2>1
  <2>3. f[0] = g[0]
    BY <1>2, <1>3
  <2> HIDE DEF n
  <2> QED BY <1>1, <2>2, <2>3, SameRecursion, Zenon
<1>5. n + 1 \in 1..(n + 1) /\ (n + 1) - 1 = n
  BY <1>1
<1>6. g[n + 1] = IF x \in S THEN Append(g[n], x) ELSE g[n]
  BY <1>1, <1>3, <1>5
<1>7. g[n + 1] = Among(r, S) /\ f[n] = Among(s, S)
  BY <1>1, <1>2, <1>3
<1> QED BY <1>4, <1>6, <1>7 DEF r

LEMMA RangeOfAppend ==
  ASSUME NEW T, NEW s \in Seq(T), NEW x \in T
  PROVE  Range(Append(s, x)) = Range(s) \cup {x}
<1>1. /\ Append(s, x) \in Seq(T) /\ Len(Append(s, x)) = Len(s) + 1
      /\ \A i \in 1..Len(s) : Append(s, x)[i] = s[i]
      /\ Append(s, x)[Len(s) + 1] = x
      /\ Len(s) \in Nat
  BY AppendProperties, LenProperties
<1>2. Range(s) = {s[i] : i \in 1..Len(s)}
  BY RangeEquality
<1>3. Range(Append(s, x)) = {Append(s, x)[i] : i \in 1..(Len(s) + 1)}
  BY <1>1, RangeEquality
<1>4. ASSUME NEW i \in 1..(Len(s) + 1) PROVE i \in 1..Len(s) \/ i = Len(s) + 1
  BY <1>1
<1>5. \A i \in 1..Len(s) : i \in 1..(Len(s) + 1)
  BY <1>1
<1>6. Len(s) + 1 \in 1..(Len(s) + 1)
  BY <1>1
<1>7. Range(Append(s, x)) \subseteq Range(s) \cup {x}
  BY <1>1, <1>2, <1>3, <1>4
<1>8. Range(s) \cup {x} \subseteq Range(Append(s, x))
  BY <1>1, <1>2, <1>3, <1>5, <1>6
<1> QED BY <1>7, <1>8

LEMMA ConcatAppend ==
  ASSUME NEW T, NEW s \in Seq(T), NEW r \in Seq(T), NEW x \in T
  PROVE  s \o Append(r, x) = Append(s \o r, x)
<1> DEFINE y == <<x>>
<1>1. y \in Seq(T) /\ s \o r \in Seq(T)
  BY ConcatProperties
<1>2. Append(r, x) = r \o y /\ Append(s \o r, x) = (s \o r) \o y
  BY <1>1, AppendIsConcat
<1> HIDE DEF y
<1>3. (s \o r) \o y = s \o (r \o y)
  BY <1>1, ConcatAssociative
<1> QED BY <1>2, <1>3

LEMMA RangeOfEmpty == Range(<<>>) = {}
BY DEF Range

LEMMA AmongRange ==
  ASSUME NEW s \in Seq(Item), NEW S
  PROVE  Range(Among(s, S)) = Range(s) \cap S
<1> DEFINE G == {r \in Seq(Item) : Range(Among(r, S)) = Range(r) \cap S}
<1>1. <<>> \in G
  BY EmptySeq, AmongEmpty, RangeOfEmpty
<1>2. ASSUME NEW r \in Seq(Item), NEW x \in Item, r \in G
      PROVE  Append(r, x) \in G
  <2>1. Append(r, x) \in Seq(Item) /\ Range(Append(r, x)) = Range(r) \cup {x}
    BY AppendProperties, RangeOfAppend
  <2>2. Among(r, S) \in Seq(Item)
    BY AmongType
  <2>3. Range(Append(Among(r, S), x)) = Range(Among(r, S)) \cup {x}
    BY <2>2, RangeOfAppend
  <2>4. Range(Among(r, S)) = Range(r) \cap S
    BY <1>2
  <2>5. CASE x \in S
    <3>1. Among(Append(r, x), S) = Append(Among(r, S), x)
      BY <2>5, AmongAppend
    <3> QED BY <2>1, <2>3, <2>4, <2>5, <3>1
  <2>6. CASE x \notin S
    <3>1. Among(Append(r, x), S) = Among(r, S)
      BY <2>6, AmongAppend
    <3> QED BY <2>1, <2>4, <2>6, <3>1
  <2> QED BY <2>5, <2>6
<1> HIDE DEF G
<1>3. Seq(Item) \subseteq G
  BY <1>1, <1>2, SeqInduction
<1> QED BY <1>3 DEF G

LEMMA AmongConcat ==
  ASSUME NEW s \in Seq(Item), NEW t \in Seq(Item), NEW S
  PROVE  Among(s \o t, S) = Among(s, S) \o Among(t, S)
<1> DEFINE G == {r \in Seq(Item) :
                   Among(s \o r, S) = Among(s, S) \o Among(r, S)}
<1>1. <<>> \in G
  <2>1. s \o <<>> = s /\ Among(s, S) \o <<>> = Among(s, S)
    BY AmongType, ConcatEmptySeq
  <2> QED BY <2>1, AmongEmpty, EmptySeq
<1>2. ASSUME NEW r \in Seq(Item), NEW x \in Item, r \in G
      PROVE  Append(r, x) \in G
  <2>1. Append(r, x) \in Seq(Item) /\ s \o r \in Seq(Item)
    BY AppendProperties, ConcatProperties
  <2>2. s \o Append(r, x) = Append(s \o r, x)
    BY ConcatAppend
  <2>3. Among(s, S) \in Seq(Item) /\ Among(r, S) \in Seq(Item)
    BY AmongType
  <2>4. Among(s \o r, S) = Among(s, S) \o Among(r, S)
    BY <1>2
  <2>5. CASE x \in S
    <3>1. /\ Among(Append(s \o r, x), S) = Append(Among(s \o r, S), x)
          /\ Among(Append(r, x), S) = Append(Among(r, S), x)
      BY <2>1, <2>5, AmongAppend
    <3>2. Among(s, S) \o Append(Among(r, S), x)
          = Append(Among(s, S) \o Among(r, S), x)
      BY <2>3, ConcatAppend
    <3> QED BY <2>1, <2>2, <2>4, <3>1, <3>2
  <2>6. CASE x \notin S
    <3>1. /\ Among(Append(s \o r, x), S) = Among(s \o r, S)
          /\ Among(Append(r, x), S) = Among(r, S)
      BY <2>1, <2>6, AmongAppend
    <3> QED BY <2>1, <2>2, <2>4, <3>1
  <2> QED BY <2>5, <2>6
<1> HIDE DEF G
<1>3. Seq(Item) \subseteq G
  BY <1>1, <1>2, SeqInduction
<1> QED BY <1>3 DEF G

LEMMA AmongAmong ==
  ASSUME NEW s \in Seq(Item), NEW S, NEW U
  PROVE  Among(Among(s, S), U) = Among(s, S \cap U)
<1> DEFINE G == {r \in Seq(Item) :
                   Among(Among(r, S), U) = Among(r, S \cap U)}
<1>1. <<>> \in G
  BY AmongEmpty, EmptySeq
<1>2. ASSUME NEW r \in Seq(Item), NEW x \in Item, r \in G
      PROVE  Append(r, x) \in G
  <2>1. Append(r, x) \in Seq(Item) /\ Among(r, S) \in Seq(Item)
    BY AppendProperties, AmongType
  <2>2. Among(Among(r, S), U) = Among(r, S \cap U)
    BY <1>2
  <2>3. Among(Append(r, x), S)
        = IF x \in S THEN Append(Among(r, S), x) ELSE Among(r, S)
    BY AmongAppend
  <2>4. Among(Append(r, x), S \cap U)
        = IF x \in S \cap U THEN Append(Among(r, S \cap U), x)
          ELSE Among(r, S \cap U)
    BY AmongAppend
  <2>5. Among(Append(Among(r, S), x), U)
        = IF x \in U THEN Append(Among(Among(r, S), U), x)
          ELSE Among(Among(r, S), U)
    BY <2>1, AmongAppend
  <2>6. CASE x \in S
    <3>1. Among(Append(r, x), S) = Append(Among(r, S), x)
      BY <2>3, <2>6
    <3>2. CASE x \in U
      BY <2>1, <2>2, <2>4, <2>5, <2>6, <3>1, <3>2
    <3>3. CASE x \notin U
      BY <2>1, <2>2, <2>4, <2>5, <2>6, <3>1, <3>3
    <3> QED BY <3>2, <3>3
  <2>7. CASE x \notin S
    BY <2>1, <2>2, <2>3, <2>4, <2>7
  <2> QED BY <2>6, <2>7
<1> HIDE DEF G
<1>3. Seq(Item) \subseteq G
  BY <1>1, <1>2, SeqInduction
<1> QED BY <1>3 DEF G

LEMMA AmongAll ==
  ASSUME NEW s \in Seq(Item), NEW S, Range(s) \subseteq S
  PROVE  Among(s, S) = s
<1> DEFINE G == {r \in Seq(Item) : Range(r) \subseteq S => Among(r, S) = r}
<1>1. <<>> \in G
  BY AmongEmpty, EmptySeq
<1>2. ASSUME NEW r \in Seq(Item), NEW x \in Item, r \in G
      PROVE  Append(r, x) \in G
  <2>1. Append(r, x) \in Seq(Item) /\ Range(Append(r, x)) = Range(r) \cup {x}
    BY AppendProperties, RangeOfAppend
  <2>2. Among(Append(r, x), S)
        = IF x \in S THEN Append(Among(r, S), x) ELSE Among(r, S)
    BY AmongAppend
  <2> QED BY <1>2, <2>1, <2>2
<1> HIDE DEF G
<1>3. Seq(Item) \subseteq G
  BY <1>1, <1>2, SeqInduction
<1> QED BY <1>3 DEF G

(* A sequence is empty as soon as nothing is in it. *)
LEMMA EmptyRange ==
  ASSUME NEW T, NEW s \in Seq(T), Range(s) = {}
  PROVE  s = <<>>
<1> SUFFICES ASSUME s # <<>> PROVE FALSE
  OBVIOUS
<1>1. PICK r \in Seq(T), x \in T : s = Append(r, x)
  BY SequenceEmptyOrAppend
<1>2. Range(s) = Range(r) \cup {x}
  BY <1>1, RangeOfAppend
<1> QED BY <1>2

-----------------------------------------------------------------------------
(* Ascending tags. *)

Ascending(s) == \A i, j \in DOMAIN s : i < j => s[i].tag < s[j].tag

LEMMA AscendingAppend ==
  ASSUME NEW s \in Seq(Item), NEW x \in Item
  PROVE  Ascending(Append(s, x))
         <=> /\ Ascending(s)
             /\ \A y \in Range(s) : y.tag < x.tag
<1> DEFINE r == Append(s, x)
           n == Len(s)
<1>1. /\ r \in Seq(Item) /\ Len(r) = n + 1 /\ n \in Nat
      /\ \A i \in 1..n : r[i] = s[i]
      /\ r[n + 1] = x
      /\ DOMAIN r = 1..(n + 1) /\ DOMAIN s = 1..n
  BY AppendProperties, LenProperties
<1>2. Range(s) = {s[i] : i \in 1..n}
  BY RangeEquality
<1> HIDE DEF r, n
<1>3. ASSUME Ascending(r)
      PROVE  Ascending(s) /\ \A y \in Range(s) : y.tag < x.tag
  <2>1. \A i \in 1..n : i \in 1..(n + 1) /\ i < n + 1
    BY <1>1
  <2>2. n + 1 \in 1..(n + 1)
    BY <1>1
  <2>3. Ascending(s)
    BY <1>1, <1>3, <2>1 DEF Ascending
  <2>4. \A i \in 1..n : s[i].tag < x.tag
    BY <1>1, <1>3, <2>1, <2>2 DEF Ascending
  <2> QED BY <1>2, <2>3, <2>4
<1>4. ASSUME Ascending(s), \A y \in Range(s) : y.tag < x.tag
      PROVE  Ascending(r)
  <2> SUFFICES ASSUME NEW i \in 1..(n + 1), NEW j \in 1..(n + 1), i < j
               PROVE  r[i].tag < r[j].tag
    BY <1>1 DEF Ascending
  <2>1. i \in 1..n
    BY <1>1
  <2>2. CASE j = n + 1
    <3>1. s[i] \in Range(s)
      BY <1>2, <2>1
    <3> QED BY <1>1, <1>4, <2>1, <2>2, <3>1
  <2>3. CASE j # n + 1
    <3>1. j \in 1..n
      BY <1>1, <2>3
    <3> QED BY <1>1, <1>4, <2>1, <3>1 DEF Ascending
  <2> QED BY <2>2, <2>3
<1> QED BY <1>3, <1>4 DEF r

LEMMA AscendingAmong ==
  ASSUME NEW s \in Seq(Item), NEW S, Ascending(s)
  PROVE  Ascending(Among(s, S))
<1> DEFINE G == {r \in Seq(Item) : Ascending(r) => Ascending(Among(r, S))}
<1>1. <<>> \in G
  BY AmongEmpty, EmptySeq
<1>2. ASSUME NEW r \in Seq(Item), NEW x \in Item, r \in G
      PROVE  Append(r, x) \in G
  <2> SUFFICES ASSUME Ascending(Append(r, x))
               PROVE  Ascending(Among(Append(r, x), S))
    BY AppendProperties
  <2>1. Ascending(r) /\ \A y \in Range(r) : y.tag < x.tag
    BY AscendingAppend
  <2>2. Ascending(Among(r, S)) /\ Among(r, S) \in Seq(Item)
    BY <1>2, <2>1, AmongType
  <2>3. Range(Among(r, S)) \subseteq Range(r)
    BY AmongRange
  <2>4. Among(Append(r, x), S)
        = IF x \in S THEN Append(Among(r, S), x) ELSE Among(r, S)
    BY AmongAppend
  <2>5. Ascending(Append(Among(r, S), x))
    BY <2>1, <2>2, <2>3, AscendingAppend
  <2> QED BY <2>2, <2>4, <2>5
<1> HIDE DEF G
<1>3. Seq(Item) \subseteq G
  BY <1>1, <1>2, SeqInduction
<1> QED BY <1>3 DEF G

(* The tags of a first part precede those of the rest. *)
LEMMA AscendingConcat ==
  ASSUME NEW s \in Seq(Item), NEW t \in Seq(Item)
  PROVE  Ascending(s \o t)
         <=> /\ Ascending(s) /\ Ascending(t)
             /\ \A y \in Range(s), z \in Range(t) : y.tag < z.tag
<1> DEFINE G == {r \in Seq(Item) :
                   Ascending(s \o r)
                   <=> /\ Ascending(s) /\ Ascending(r)
                       /\ \A y \in Range(s), z \in Range(r) : y.tag < z.tag}
<1>1. <<>> \in G
  <2>1. s \o <<>> = s /\ <<>> \in Seq(Item)
    BY ConcatEmptySeq, EmptySeq
  <2>2. Ascending(<<>>)
    BY DEF Ascending
  <2> QED BY <2>1, <2>2, RangeOfEmpty
<1>2. ASSUME NEW r \in Seq(Item), NEW x \in Item, r \in G
      PROVE  Append(r, x) \in G
  <2>1. Append(r, x) \in Seq(Item) /\ s \o r \in Seq(Item)
    BY AppendProperties, ConcatProperties
  <2>2. s \o Append(r, x) = Append(s \o r, x)
    BY ConcatAppend
  <2>3. Range(s \o r) = Range(s) \cup Range(r)
    BY RangeConcatenation
  <2>4. Range(Append(r, x)) = Range(r) \cup {x}
    BY RangeOfAppend
  <2>5. Ascending(Append(s \o r, x))
        <=> Ascending(s \o r) /\ \A y \in Range(s \o r) : y.tag < x.tag
    BY <2>1, AscendingAppend
  <2>6. Ascending(Append(r, x))
        <=> Ascending(r) /\ \A y \in Range(r) : y.tag < x.tag
    BY AscendingAppend
  <2>7. Ascending(s \o r)
        <=> /\ Ascending(s) /\ Ascending(r)
            /\ \A y \in Range(s), z \in Range(r) : y.tag < z.tag
    BY <1>2
  <2>8. Ascending(s \o Append(r, x))
        <=> /\ Ascending(s) /\ Ascending(Append(r, x))
            /\ \A y \in Range(s), z \in Range(Append(r, x)) : y.tag < z.tag
    BY <2>2, <2>3, <2>4, <2>5, <2>6, <2>7, Zenon
  <2> QED BY <2>1, <2>8
<1> HIDE DEF G
<1>3. Seq(Item) \subseteq G
  BY <1>1, <1>2, SeqInduction
<1> QED BY <1>3 DEF G

-----------------------------------------------------------------------------
(* The size of a single item. *)

LEMMA BytesOfOne ==
  ASSUME NEW x \in Item
  PROVE  Bytes(<<x>>) = SizeOf[x.obs] /\ Bytes(<<x>>) \in Nat
<1> DEFINE s == <<x>>
           E(g) == [i \in 0..Len(s) |->
                      IF i = 0 THEN 0 ELSE g[i - 1] + SizeOf[s[i].obs]]
           g == CHOOSE gg : gg = E(gg)
           z == SizeOf[x.obs]
           f == [i \in 0..1 |-> IF i = 0 THEN 0 ELSE z]
<1>1. Len(s) = 1 /\ s[1] = x /\ z \in Nat
  BY ConstantsAssumption DEF Item
<1>2. Bytes(s) = g[Len(s)]
  BY DEF Bytes
<1> HIDE DEF s, z
<1>3. f = E(f)
  <2>1. f[0] = 0
    OBVIOUS
  <2>2. ASSUME NEW i \in 0..1
        PROVE  f[i] = IF i = 0 THEN 0 ELSE f[i - 1] + SizeOf[s[i].obs]
    <3>1. CASE i = 0
      BY <2>1, <3>1
    <3>2. CASE i = 1
      <4>1. f[i] = z /\ i - 1 = 0
        BY <3>2
      <4>2. SizeOf[s[i].obs] = z
        BY <1>1, <3>2 DEF z
      <4> HIDE DEF f
      <4> QED BY <1>1, <2>1, <3>2, <4>1, <4>2
    <3> QED BY <3>1, <3>2
  <2>3. f = [i \in 0..1 |-> f[i]]
    OBVIOUS
  <2> HIDE DEF f
  <2> QED BY <1>1, <2>2, <2>3
<1>4. g = E(g)
  <2> HIDE DEF E, f
  <2> QED BY <1>3
<1> HIDE DEF g
<1>5. g[0] = 0
  BY <1>1, <1>4
<1>6. g[1] = g[0] + SizeOf[s[1].obs]
  <2>1. 1 \in 0..Len(s) /\ 1 # 0 /\ 1 - 1 = 0
    BY <1>1
  <2> QED BY <1>4, <2>1
<1>7. g[1] = z
  BY <1>1, <1>5, <1>6 DEF z
<1> QED BY <1>1, <1>2, <1>7 DEF s, z

(* Of what has ended, each item is either too large or can be sent. *)
LEMMA OversizeOrShippable ==
  ASSUME NEW x \in Item
  PROVE  /\ x.obs \in Ended => Oversize(x) \/ Shippable(x)
         /\ Shippable(x) <=> x \in Shippables
<1>1. Bytes(<<x>>) \in Nat /\ MaxPayloadBytes \in Nat
  BY BytesOfOne, ConstantsAssumption
<1>2. x \in Shippables <=> Shippable(x)
  BY DEF Shippables
<1>3. Bytes(<<x>>) > MaxPayloadBytes \/ Bytes(<<x>>) <= MaxPayloadBytes
  BY <1>1
<1> QED BY <1>2, <1>3 DEF Oversize, Shippable

-----------------------------------------------------------------------------
(* Groups. *)

GroupsUnrolled(f, s) ==
  /\ f \in [0..Len(s) -> Seq(Seq(Item))]
  /\ f[0] = <<>>
  /\ \A i \in 1..Len(s) : f[i] = Placed(f[i - 1], s[i])
  /\ f[Len(s)] = Groups(s)

LEMMA PlacedCases ==
  ASSUME NEW g \in Seq(Seq(Item)), NEW x \in Item
  PROVE  \/ Placed(g, x) = Append(g, <<x>>)
         \/ \E h \in Seq(Seq(Item)), l \in Seq(Item) :
              /\ g = Append(h, l)
              /\ Fits(l, x)
              /\ Placed(g, x) = Append(h, Append(l, x))
<1>1. CASE ~(g # <<>> /\ Fits(Last(g), x))
  BY <1>1 DEF Placed
<1>2. CASE g # <<>> /\ Fits(Last(g), x)
  <2>1. PICK h \in Seq(Seq(Item)), l \in Seq(Item) : g = Append(h, l)
    BY <1>2, SequenceEmptyOrAppend
  <2>2. /\ Len(g) = Len(h) + 1 /\ Len(h) \in Nat
        /\ g[Len(h) + 1] = l
        /\ \A i \in 1..Len(h) : g[i] = h[i]
    BY <2>1, AppendProperties, LenProperties
  <2>3. Last(g) = l
    BY <2>2 DEF Last
  <2> DEFINE m == Append(l, x)
             p == Placed(g, x)
  <2>4. m \in Seq(Item)
    BY AppendProperties
  <2>5. p = [g EXCEPT ![Len(g)] = m]
    <3>1. g[Len(g)] = l
      BY <2>2
    <3> QED BY <1>2, <3>1 DEF Placed
  <2> HIDE DEF m, p
  <2>6. Len(g) \in 1..Len(g)
    BY <2>2
  <2>7. /\ p \in Seq(Seq(Item)) /\ Len(p) = Len(g)
        /\ \A j \in 1..Len(g) : p[j] = IF j = Len(g) THEN m ELSE g[j]
    <3>1. /\ [g EXCEPT ![Len(g)] = m] \in Seq(Seq(Item))
          /\ Len([g EXCEPT ![Len(g)] = m]) = Len(g)
          /\ \A j \in 1..Len(g) : [g EXCEPT ![Len(g)] = m][j]
                                   = IF j = Len(g) THEN m ELSE g[j]
      BY <2>4, <2>6, ExceptSeq
    <3> QED BY <2>5, <3>1
  <2>8. p = Append(h, m)
    <3>1. /\ Append(h, m) \in Seq(Seq(Item)) /\ Len(Append(h, m)) = Len(h) + 1
          /\ \A j \in 1..Len(h) : Append(h, m)[j] = h[j]
          /\ Append(h, m)[Len(h) + 1] = m
      BY <2>4, AppendProperties
    <3>2. ASSUME NEW j \in 1..Len(p) PROVE p[j] = Append(h, m)[j]
      <4>1. j \in 1..Len(g)
        BY <2>7
      <4>2. CASE j = Len(g)
        BY <2>2, <2>7, <3>1, <4>1, <4>2
      <4>3. CASE j # Len(g)
        <5>1. j \in 1..Len(h)
          BY <2>2, <4>1, <4>3
        <5> QED BY <2>2, <2>7, <3>1, <4>1, <4>3, <5>1
      <4> QED BY <4>2, <4>3
    <3>3. Len(p) = Len(Append(h, m))
      BY <2>2, <2>7, <3>1
    <3> QED BY <2>7, <3>1, <3>2, <3>3, SeqEqual
  <2> QED BY <1>2, <2>1, <2>3, <2>8 DEF p, m
<1> QED BY <1>1, <1>2

LEMMA PlacedType ==
  ASSUME NEW g \in Seq(Seq(Item)), NEW x \in Item
  PROVE  Placed(g, x) \in Seq(Seq(Item))
<1>1. <<x>> \in Seq(Item)
  OBVIOUS
<1>2. CASE Placed(g, x) = Append(g, <<x>>)
  BY <1>1, <1>2, AppendProperties
<1>3. ASSUME NEW h \in Seq(Seq(Item)), NEW l \in Seq(Item),
             Placed(g, x) = Append(h, Append(l, x))
      PROVE  Placed(g, x) \in Seq(Seq(Item))
  <2>1. Append(l, x) \in Seq(Item)
    BY AppendProperties
  <2> QED BY <1>3, <2>1, AppendProperties
<1> QED BY <1>2, <1>3, PlacedCases

(* Placing an item puts it behind all others. *)
LEMMA PlacedFlatten ==
  ASSUME NEW g \in Seq(Seq(Item)), NEW x \in Item
  PROVE  FlattenSeq(Placed(g, x)) = Append(FlattenSeq(g), x)
<1>1. <<x>> \in Seq(Item)
  OBVIOUS
<1>2. CASE Placed(g, x) = Append(g, <<x>>)
  <2>1. FlattenSeq(Append(g, <<x>>)) = FlattenSeq(g) \o <<x>>
    BY <1>1, FlattenAppend
  <2>2. FlattenSeq(g) \o <<x>> = Append(FlattenSeq(g), x)
    BY FlattenType, AppendIsConcat
  <2> QED BY <1>2, <2>1, <2>2
<1>3. ASSUME NEW h \in Seq(Seq(Item)), NEW l \in Seq(Item),
             g = Append(h, l), Placed(g, x) = Append(h, Append(l, x))
      PROVE  FlattenSeq(Placed(g, x)) = Append(FlattenSeq(g), x)
  <2>1. Append(l, x) \in Seq(Item) /\ FlattenSeq(h) \in Seq(Item)
    BY AppendProperties, FlattenType
  <2>2. FlattenSeq(Append(h, Append(l, x))) = FlattenSeq(h) \o Append(l, x)
    BY <2>1, FlattenAppend
  <2>3. FlattenSeq(Append(h, l)) = FlattenSeq(h) \o l
    BY FlattenAppend
  <2>4. FlattenSeq(h) \o Append(l, x) = Append(FlattenSeq(h) \o l, x)
    BY <2>1, ConcatAppend
  <2> QED BY <1>3, <2>2, <2>3, <2>4
<1>4. \/ Placed(g, x) = Append(g, <<x>>)
      \/ \E h \in Seq(Seq(Item)), l \in Seq(Item) :
           g = Append(h, l) /\ Placed(g, x) = Append(h, Append(l, x))
  BY PlacedCases
<1> QED BY <1>2, <1>3, <1>4

Within(group) ==
  Len(group) \in 1..BatchSize /\ Bytes(group) <= MaxPayloadBytes

(* Neither a filled group nor a new one exceeds a limit. *)
LEMMA PlacedWithin ==
  ASSUME NEW g \in Seq(Seq(Item)), NEW x \in Shippables,
         \A group \in Range(g) : Within(group)
  PROVE  \A group \in Range(Placed(g, x)) : Within(group)
<1>1. x \in Item /\ Bytes(<<x>>) <= MaxPayloadBytes
  BY DEF Shippables, Shippable
<1>2. \A q \in Seq(Seq(Item)), e \in Seq(Item) :
        Range(Append(q, e)) = Range(q) \cup {e}
  BY RangeOfAppend
<1>3. CASE Placed(g, x) = Append(g, <<x>>)
  <2>1. Range(Append(g, <<x>>)) = Range(g) \cup {<<x>>}
    <3>1. <<x>> \in Seq(Item)
      BY <1>1
    <3> QED BY <1>2, <3>1
  <2>2. Len(<<x>>) \in 1..BatchSize
    BY ConstantsAssumption
  <2> QED BY <1>1, <1>3, <2>1, <2>2 DEF Within
<1>4. ASSUME NEW h \in Seq(Seq(Item)), NEW l \in Seq(Item),
             g = Append(h, l), Fits(l, x),
             Placed(g, x) = Append(h, Append(l, x))
      PROVE  \A group \in Range(Placed(g, x)) : Within(group)
  <2>1. Append(l, x) \in Seq(Item) /\ Len(Append(l, x)) = Len(l) + 1
        /\ Len(l) \in Nat
    BY <1>1, AppendProperties, LenProperties
  <2>2. /\ Range(Append(h, Append(l, x))) = Range(h) \cup {Append(l, x)}
        /\ Range(g) = Range(h) \cup {l}
    BY <1>4, <1>2, <2>1
  <2>3. Within(Append(l, x))
    BY <1>4, <2>1, ConstantsAssumption DEF Within, Fits
  <2> QED BY <1>4, <2>2, <2>3
<1> QED BY <1>1, <1>3, <1>4, PlacedCases

LEMMA GroupsSteps ==
  ASSUME NEW s \in Seq(Item)
  PROVE  \E f : GroupsUnrolled(f, s)
<1> DEFINE n == Len(s)
           V == Seq(Seq(Item))
           step == [p \in (1..n) \X V |-> Placed(p[2], s[p[1]])]
<1>1. n \in Nat /\ <<>> \in V
  BY LenProperties, EmptySeq
<1>2. step \in Steps(n, V)
  <2>1. ASSUME NEW p \in (1..n) \X V
        PROVE  Placed(p[2], s[p[1]]) \in V
    <3>1. p[2] \in V /\ p[1] \in 1..n
      OBVIOUS
    <3>2. s[p[1]] \in Item
      BY <3>1, ElementOfSeq
    <3> QED BY <3>1, <3>2, PlacedType
  <2> QED BY <2>1 DEF Steps
<1>3. PICK f : Unrolls(f, V, <<>>, n, step)
  <2> HIDE DEF step, n, V
  <2> QED BY <1>1, <1>2, RecursionExists, Zenon
<1>4. f \in [0..n -> V] /\ f[0] = <<>>
  BY <1>3 DEF Unrolls
<1>5. ASSUME NEW i \in 1..n
      PROVE  f[i] = Placed(f[i - 1], s[i])
  <2>1. i - 1 \in 0..n
    BY <1>1
  <2>2. f[i] = step[<<i, f[i - 1]>>]
    BY <1>3 DEF Unrolls
  <2>3. <<i, f[i - 1]>> \in (1..n) \X V
    BY <1>4, <2>1
  <2> HIDE DEF n, V
  <2> QED BY <2>2, <2>3
<1> DEFINE E(g) == [k \in 0..n |->
                      IF k = 0 THEN <<>> ELSE Placed(g[k - 1], s[k])]
           g == CHOOSE gg : gg = E(gg)
<1>6. f = E(f)
  <2>1. ASSUME NEW k \in 0..n
        PROVE  f[k] = IF k = 0 THEN <<>> ELSE Placed(f[k - 1], s[k])
    <3>1. k = 0 \/ k \in 1..n
      BY <1>1
    <3> QED BY <1>4, <1>5, <3>1
  <2>2. f = [k \in 0..n |-> f[k]]
    BY <1>4
  <2> QED BY <2>1, <2>2
<1>7. g = E(g)
  <2> HIDE DEF E
  <2> QED BY <1>6
<1>8. Groups(s) = g[n]
  BY DEF Groups
<1>9. g[n] = f[n]
  <2> HIDE DEF g
  <2>1. g[0] = f[0]
    BY <1>1, <1>4, <1>7
  <2>2. ASSUME NEW i \in 1..n, g[i - 1] = f[i - 1] PROVE g[i] = f[i]
    <3>1. i \in 0..n /\ i # 0
      BY <1>1
    <3>2. g[i] = Placed(g[i - 1], s[i])
      BY <1>7, <3>1
    <3> QED BY <1>5, <2>2, <3>2
  <2> HIDE DEF n
  <2> QED BY <1>1, <2>1, <2>2, SameRecursion
<1> HIDE DEF g
<1>10. GroupsUnrolled(f, s)
  BY <1>4, <1>5, <1>8, <1>9 DEF GroupsUnrolled
<1> QED BY <1>10

LEMMA GroupsType ==
  ASSUME NEW s \in Seq(Item)
  PROVE  Groups(s) \in Seq(Seq(Item))
<1>1. Len(s) \in 0..Len(s)
  BY LenProperties
<1>2. PICK f : GroupsUnrolled(f, s)
  BY GroupsSteps
<1> QED BY <1>1, <1>2 DEF GroupsUnrolled

LEMMA GroupsEmpty == Groups(<<>>) = <<>>
<1>1. <<>> \in Seq(Item) /\ Len(<<>>) = 0
  BY EmptySeq
<1>2. PICK f : GroupsUnrolled(f, <<>>)
  BY <1>1, GroupsSteps
<1> QED BY <1>1, <1>2 DEF GroupsUnrolled

LEMMA GroupsAppend ==
  ASSUME NEW s \in Seq(Item), NEW x \in Item
  PROVE  Groups(Append(s, x)) = Placed(Groups(s), x)
<1> DEFINE r == Append(s, x)
           n == Len(s)
<1>1. /\ r \in Seq(Item) /\ Len(r) = n + 1 /\ n \in Nat
      /\ \A i \in 1..n : r[i] = s[i]
      /\ r[n + 1] = x
  BY AppendProperties, LenProperties
<1> HIDE DEF r
<1>2. PICK f : GroupsUnrolled(f, s)
  BY GroupsSteps
<1>3. PICK g : GroupsUnrolled(g, r)
  BY <1>1, GroupsSteps
<1> USE DEF GroupsUnrolled
<1>4. f[n] = g[n]
  <2>1. \A i \in 1..n : i \in 1..(n + 1)
    BY <1>1
  <2>2. \A i \in 1..n : f[i - 1] = g[i - 1] => f[i] = g[i]
    BY <1>1, <1>2, <1>3, <2>1
  <2>3. f[0] = g[0]
    BY <1>2, <1>3
  <2> HIDE DEF n
  <2> QED BY <1>1, <2>2, <2>3, SameRecursion, Zenon
<1>5. n + 1 \in 1..(n + 1) /\ (n + 1) - 1 = n
  BY <1>1
<1>6. g[n + 1] = Placed(g[n], x)
  BY <1>1, <1>3, <1>5
<1>7. g[n + 1] = Groups(r) /\ f[n] = Groups(s)
  BY <1>1, <1>2, <1>3
<1> QED BY <1>4, <1>6, <1>7 DEF r

(* Grouping loses, repeats and reorders nothing. *)
LEMMA GroupsFlatten ==
  ASSUME NEW s \in Seq(Item)
  PROVE  FlattenSeq(Groups(s)) = s
<1> DEFINE G == {r \in Seq(Item) : FlattenSeq(Groups(r)) = r}
<1>1. <<>> \in G
  BY GroupsEmpty, FlattenEmpty, EmptySeq
<1>2. ASSUME NEW r \in Seq(Item), NEW x \in Item, r \in G
      PROVE  Append(r, x) \in G
  <2>1. Append(r, x) \in Seq(Item) /\ Groups(r) \in Seq(Seq(Item))
    BY AppendProperties, GroupsType
  <2>2. FlattenSeq(Groups(Append(r, x))) = Append(FlattenSeq(Groups(r)), x)
    BY <2>1, GroupsAppend, PlacedFlatten
  <2> QED BY <1>2, <2>1, <2>2
<1> HIDE DEF G
<1>3. Seq(Item) \subseteq G
  BY <1>1, <1>2, SeqInduction
<1> QED BY <1>3 DEF G

LEMMA GroupsWithin ==
  ASSUME NEW s \in Seq(Item), Range(s) \subseteq Shippables
  PROVE  \A group \in Range(Groups(s)) : Within(group)
<1> DEFINE G == {r \in Seq(Item) :
                   Range(r) \subseteq Shippables =>
                     \A group \in Range(Groups(r)) : Within(group)}
<1>1. <<>> \in G
  BY GroupsEmpty, RangeOfEmpty, EmptySeq
<1>2. ASSUME NEW r \in Seq(Item), NEW x \in Item, r \in G
      PROVE  Append(r, x) \in G
  <2>1. Append(r, x) \in Seq(Item) /\ Groups(r) \in Seq(Seq(Item))
    BY AppendProperties, GroupsType
  <2>2. Range(Append(r, x)) = Range(r) \cup {x}
    BY RangeOfAppend
  <2>3. ASSUME Range(Append(r, x)) \subseteq Shippables
        PROVE  \A group \in Range(Groups(Append(r, x))) : Within(group)
    <3>1. \A group \in Range(Groups(r)) : Within(group)
      BY <1>2, <2>2, <2>3
    <3>2. x \in Shippables
      BY <2>2, <2>3
    <3>3. Groups(Append(r, x)) = Placed(Groups(r), x)
      BY GroupsAppend
    <3> QED BY <2>1, <3>1, <3>2, <3>3, PlacedWithin
  <2> QED BY <2>1, <2>3
<1> HIDE DEF G
<1>3. Seq(Item) \subseteq G
  BY <1>1, <1>2, SeqInduction
<1> QED BY <1>3 DEF G

-----------------------------------------------------------------------------
(* What an entering call takes in, and what compactPending leaves. *)

LEMMA TagsOfRange ==
  ASSUME NEW s PROVE Tags(s) = {x.tag : x \in Range(s)}
BY DEF Tags, Range

LEMMA TaggedFacts ==
  ASSUME accepted \in Nat, NEW b \in Seq(Observations)
  PROVE  /\ Tagged(b) \in Seq(Item)
         /\ Ascending(Tagged(b))
         /\ \A x \in Range(Tagged(b)) :
              x.tag > accepted /\ x.tag \in 1..(accepted + Len(b))
         /\ b = <<>> => Tagged(b) = <<>>
<1> DEFINE n == Len(b)
           t == Tagged(b)
<1>1. n \in Nat
  BY LenProperties
<1>2. t = [i \in 1..n |-> [obs |-> b[i], tag |-> accepted + i]]
  BY DEF Tagged
<1>3. ASSUME NEW i \in 1..n
      PROVE  [obs |-> b[i], tag |-> accepted + i] \in Item
  <2>1. b[i] \in Observations
    BY ElementOfSeq
  <2> QED BY <1>1, <2>1 DEF Item
<1> HIDE DEF t
<1>4. t \in [1..n -> Item]
  BY <1>2, <1>3
<1>5. t \in Seq(Item) /\ DOMAIN t = 1..n
  BY <1>1, <1>4
<1>6. \A i \in 1..n : t[i].tag = accepted + i
  BY <1>2
<1> HIDE DEF n
<1>7. Ascending(t)
  BY <1>1, <1>5, <1>6 DEF Ascending
<1>8. ASSUME NEW x \in Range(t)
      PROVE  x.tag > accepted /\ x.tag \in 1..(accepted + n)
  <2>1. PICK i \in 1..n : x = t[i]
    BY <1>5 DEF Range
  <2> QED BY <1>1, <1>6, <2>1
<1>9. b = <<>> => t = <<>>
  <2> SUFFICES ASSUME b = <<>> PROVE t = <<>>
    OBVIOUS
  <2>1. n = 0
    BY DEF n
  <2>2. Range(t) = {}
    BY <1>5, <2>1 DEF Range
  <2> QED BY <1>5, <2>2, EmptyRange
<1> QED BY <1>5, <1>7, <1>8, <1>9 DEF t, n

LEMMA CompactFacts ==
  ASSUME NEW s \in Seq(Item), NEW d
  PROVE  /\ Compact(s, d) \in Seq(Item)
         /\ Range(Compact(s, d))
            = {x \in Range(s) : Shippable(x) /\ x.tag \notin d}
         /\ Ascending(s) => Ascending(Compact(s, d))
<1> DEFINE S == {item \in Shippables : item.tag \notin d}
<1>1. Compact(s, d) = Among(s, S)
  BY DEF Compact
<1>2. Range(s) \subseteq Item
  BY RangeOfSeq
<1>3. Range(s) \cap S = {x \in Range(s) : Shippable(x) /\ x.tag \notin d}
  BY <1>2 DEF Shippables
<1> HIDE DEF S
<1>4. Range(Among(s, S)) = Range(s) \cap S
  BY AmongRange
<1> QED BY <1>1, <1>3, <1>4, AmongType, AscendingAmong

(* Nothing delivered: only what cannot be sent is dropped. *)
LEMMA CompactNothing ==
  ASSUME NEW s
  PROVE  Compact(s, {}) = Among(s, Shippables)
<1>1. {item \in Shippables : item.tag \notin {}} = Shippables
  OBVIOUS
<1> QED BY <1>1 DEF Compact

(* Once a first part of what was left is delivered, the rest is left. *)
LEMMA CompactAfter ==
  ASSUME NEW s \in Seq(Item), Ascending(s), NEW d,
         NEW h \in Seq(Item), NEW r \in Seq(Item),
         Compact(s, d) = h \o r
  PROVE  Compact(s, d \cup Tags(h)) = r
<1> DEFINE S == {item \in Shippables : item.tag \notin d}
           U == {item \in Shippables : item.tag \notin Tags(h)}
           W == {item \in Shippables : item.tag \notin d \cup Tags(h)}
<1>1. S \cap U = W
  OBVIOUS
<1>2. Among(s, S) = h \o r /\ Compact(s, d \cup Tags(h)) = Among(s, W)
  BY DEF Compact
<1>3. Ascending(h \o r)
  BY <1>2, AscendingAmong
<1>4. \A y \in Range(h), z \in Range(r) : y.tag < z.tag
  BY <1>3, AscendingConcat
<1>5. Range(h) \cup Range(r) = Range(s) \cap S
  <2>1. Range(h \o r) = Range(h) \cup Range(r)
    BY RangeConcatenation
  <2> HIDE DEF S
  <2>2. Range(Among(s, S)) = Range(s) \cap S
    BY AmongRange
  <2> QED BY <1>2, <2>1, <2>2
<1>6. Range(h) \subseteq Item /\ Range(r) \subseteq Item
  BY RangeOfSeq
<1>7. Range(r) \subseteq U
  <2> SUFFICES ASSUME NEW z \in Range(r) PROVE z \in U
    OBVIOUS
  <2>1. z \in Shippables
    BY <1>5
  <2>2. ASSUME z.tag \in Tags(h) PROVE FALSE
    <3>1. PICK y \in Range(h) : y.tag = z.tag
      BY <2>2, TagsOfRange
    <3>2. y.tag < z.tag /\ y.tag \in Nat
      BY <1>4, <1>6 DEF Item
    <3> QED BY <3>1, <3>2
  <2> QED BY <2>1, <2>2
<1>8. Range(h) \cap U = {}
  BY TagsOfRange
<1> HIDE DEF S, U, W
<1>9. Among(h \o r, U) = Among(h, U) \o Among(r, U)
  BY AmongConcat
<1>10. Among(r, U) = r
  BY <1>7, AmongAll
<1>11. Among(h, U) = <<>>
  <2>1. Range(Among(h, U)) = {}
    BY <1>8, AmongRange
  <2> QED BY <2>1, AmongType, EmptyRange
<1>12. Among(Among(s, S), U) = Among(s, W)
  BY <1>1, AmongAmong
<1>13. <<>> \o r = r
  BY ConcatEmptySeq
<1> QED BY <1>2, <1>9, <1>10, <1>11, <1>12, <1>13

LEMMA GroupedFacts ==
  ASSUME NEW s \in Seq(Item)
  PROVE  /\ Grouped(s) \in Seq(Seq(Item))
         /\ FlattenSeq(Grouped(s)) = Compact(s, {})
         /\ \A group \in Range(Grouped(s)) : Within(group)
<1> DEFINE r == Among(s, Shippables)
<1>1. r \in Seq(Item)
  BY AmongType
<1>2. Range(r) \subseteq Shippables
  BY AmongRange
<1>3. Compact(s, {}) = r
  BY CompactNothing
<1>4. Grouped(s) = Groups(r)
  BY DEF Grouped
<1> HIDE DEF r
<1>5. Groups(r) \in Seq(Seq(Item)) /\ FlattenSeq(Groups(r)) = r
  BY <1>1, GroupsType, GroupsFlatten
<1>6. \A group \in Range(Groups(r)) : Within(group)
  BY <1>1, <1>2, GroupsWithin
<1> QED BY <1>3, <1>4, <1>5, <1>6

-----------------------------------------------------------------------------
(* The inductive invariant, the invariants, the refinement.                *)

Calling ==
  \A c \in Callers :
    \/ call[c] = Idle
    \/ /\ call[c].op \in Operations
       /\ call[c].op # "export" => call[c].batch = <<>>

Holding ==
  IF lock = None THEN drain = NoDrain
  ELSE /\ call[lock].op \in Operations
       /\ call[lock].batch = <<>>
       /\ shutdown => call[lock].op = "shutdown"
       /\ drain.groups # <<>>
       /\ drain.paused => drain.attempt <= MaxRetries
       /\ drain.delivered \subseteq Range(acked)

InOrder ==
  /\ Ascending(pending)
  /\ \A x \in Range(pending) : x.tag \in 1..accepted

Emptied ==
  shutdown /\ lock = None /\ lastShutdownErr = {} => pending = <<>>

Inv ==
  /\ TypeOK
  /\ Calling
  /\ Holding
  /\ InOrder
  /\ DrainMatchesQueue
  /\ WithinLimits
  /\ Emptied

-----------------------------------------------------------------------------
(* Types of the parts *)

LEMMA ErrorTypes ==
  /\ \A op \in Operations :
       /\ ContextError(op) \in Error
       /\ Err(op, "exporter_closed", FALSE, TRUE) \in Error
       /\ Err(op, "transient", TRUE, FALSE) \in Error
       /\ Err(op, "permanent", FALSE, TRUE) \in Error
  /\ \A items : BatchErrs(items) \in SUBSET Error
<1>1. \A op \in Operations \cup {"batch"},
         class \in {"exporter_closed", "payload_too_large", "context",
                    "transient", "permanent"},
         retry \in BOOLEAN, drop \in BOOLEAN :
           Err(op, class, retry, drop) \in Error
  BY DEF Err, Error
<1>2. Err("batch", "payload_too_large", FALSE, TRUE) \in Error
  BY <1>1
<1>3. \A items : BatchErrs(items) \in SUBSET Error
  <2> TAKE items
  <2>1. \/ BatchErrs(items) = {Err("batch", "payload_too_large", FALSE, TRUE)}
        \/ BatchErrs(items) = {}
    BY DEF BatchErrs
  <2> QED BY <1>2, <2>1
<1> QED BY <1>1, <1>3 DEF ContextError

LEMMA InitInv == Init => Inv
<1> SUFFICES ASSUME Init PROVE Inv
  OBVIOUS
<1> USE DEF Init
<1>1. <<>> \in Seq(Item) /\ <<>> \in Seq(Nat) /\ <<>> \in Seq(Seq(Item))
      /\ <<>> \in Seq(Observations)
  BY EmptySeq
<1>2. TypeOK
  <2>1. drain \in [groups : Seq(Seq(Item)), delivered : SUBSET Nat,
                   attempt : 0..(MaxRetries + 1), paused : BOOLEAN]
    BY <1>1, ConstantsAssumption DEF NoDrain
  <2>2. call \in [Callers -> [op : Operations \cup {"idle"},
                              batch : Seq(Observations)]]
    BY <1>1 DEF Idle
  <2> QED BY <1>1, <2>1, <2>2 DEF TypeOK
<1>3. Calling /\ Holding
  BY DEF Calling, Holding
<1>4. InOrder
  BY RangeOfEmpty DEF InOrder, Ascending
<1>5. DrainMatchesQueue
  BY DEF DrainMatchesQueue
<1>6. WithinLimits
  BY DEF WithinLimits, NoDrain
<1>7. Emptied
  BY DEF Emptied
<1> QED BY <1>2, <1>3, <1>4, <1>5, <1>6, <1>7 DEF Inv

-----------------------------------------------------------------------------
(* What the group being sent is. *)

LEMMA SentFacts ==
  ASSUME Inv, lock # None
  PROVE  /\ lock \in Callers
         /\ Head(drain.groups) \in Seq(Item)
         /\ Tail(drain.groups) \in Seq(Seq(Item))
         /\ FlattenSeq(drain.groups)
            = Head(drain.groups) \o FlattenSeq(Tail(drain.groups))
         /\ FlattenSeq(Tail(drain.groups))
            = Compact(pending, drain.delivered \cup Tags(Head(drain.groups)))
         /\ Range(Head(drain.groups)) \subseteq Range(pending)
         /\ Tags(Head(drain.groups)) \subseteq 1..accepted
<1> DEFINE h == Head(drain.groups)
           r == Tail(drain.groups)
           d == drain.delivered
<1>1. /\ lock \in Callers /\ pending \in Seq(Item)
      /\ drain.groups \in Seq(Seq(Item)) /\ drain.groups # <<>>
      /\ Ascending(pending) /\ \A x \in Range(pending) : x.tag \in 1..accepted
      /\ FlattenSeq(drain.groups) = Compact(pending, d)
  BY DEF Inv, TypeOK, Holding, InOrder, DrainMatchesQueue
<1>2. h \in Seq(Item) /\ r \in Seq(Seq(Item))
  BY <1>1, HeadTailProperties
<1>3. FlattenSeq(drain.groups) = h \o FlattenSeq(r)
  BY <1>1, FlattenFirst
<1>4. FlattenSeq(r) \in Seq(Item)
  BY <1>2, FlattenType
<1> HIDE DEF h, r, d
<1>5. Compact(pending, d \cup Tags(h)) = FlattenSeq(r)
  <2>1. Compact(pending, d) = h \o FlattenSeq(r)
    BY <1>1, <1>3
  <2> QED BY <1>1, <1>2, <1>4, <2>1, CompactAfter
<1>6. Range(h) \subseteq Range(pending)
  <2>1. Range(h \o FlattenSeq(r)) = Range(h) \cup Range(FlattenSeq(r))
    BY <1>2, <1>4, RangeConcatenation
  <2>2. Range(Compact(pending, d)) \subseteq Range(pending)
    BY <1>1, CompactFacts
  <2> QED BY <1>1, <1>3, <2>1, <2>2
<1>7. Tags(h) \subseteq 1..accepted
  BY <1>1, <1>6, TagsOfRange
<1> QED BY <1>1, <1>2, <1>3, <1>5, <1>6, <1>7 DEF h, r, d

(* What an entering call finds: the old pending and its own batch. *)
LEMMA TakenFacts ==
  ASSUME Inv, NEW c \in Callers
  PROVE  /\ Taken(c) \in Seq(Item)
         /\ Ascending(Taken(c))
         /\ Len(call[c].batch) \in Nat
         /\ \A x \in Range(Taken(c)) :
              x.tag \in 1..(accepted + Len(call[c].batch))
         /\ Range(pending) \subseteq Range(Taken(c))
         /\ \A x \in Range(Taken(c)) : x \in Range(pending) \/ x.tag > accepted
         /\ call[c].batch = <<>> => Taken(c) = pending
<1> DEFINE b == call[c].batch
           t == Tagged(b)
<1>1. /\ accepted \in Nat /\ b \in Seq(Observations) /\ pending \in Seq(Item)
      /\ Ascending(pending) /\ \A x \in Range(pending) : x.tag \in 1..accepted
  BY DEF Inv, TypeOK, InOrder
<1> HIDE DEF b
<1>2. /\ t \in Seq(Item) /\ Ascending(t)
      /\ \A x \in Range(t) : x.tag > accepted /\ x.tag \in 1..(accepted + Len(b))
      /\ b = <<>> => t = <<>>
  BY <1>1, TaggedFacts
<1>3. Len(b) \in Nat
  BY <1>1, LenProperties
<1>4. Taken(c) = pending \o t
  BY DEF Taken, b
<1> HIDE DEF t
<1>5. pending \o t \in Seq(Item) /\ Range(pending \o t) = Range(pending) \cup Range(t)
  BY <1>1, <1>2, ConcatProperties, RangeConcatenation
<1>6. \A y \in Range(pending), z \in Range(t) : y.tag < z.tag
  BY <1>1, <1>2
<1>7. Ascending(pending \o t)
  BY <1>1, <1>2, <1>6, AscendingConcat
<1>8. \A x \in Range(pending \o t) : x.tag \in 1..(accepted + Len(b))
  BY <1>1, <1>2, <1>3, <1>5
<1>9. b = <<>> => pending \o t = pending
  BY <1>1, <1>2, ConcatEmptySeq
<1> QED BY <1>2, <1>3, <1>4, <1>5, <1>7, <1>8, <1>9 DEF b

-----------------------------------------------------------------------------
(* A call that returns gives the mutex back. *)

LEMMA LeaveKeeps ==
  ASSUME Inv, NEW c \in Callers, NEW errs \in SUBSET Error, Leave(c, errs),
         pending' \in Seq(Item), Ascending(pending)',
         accepted' \in Nat, acked' \in Seq(Nat), received' \subseteq 1..accepted',
         \A x \in Range(pending') : x.tag \in 1..accepted',
         shutdown' \in BOOLEAN, lastShutdownErr' \in SUBSET Error,
         shutdown' /\ lastShutdownErr' = {} => pending' = <<>>
  PROVE  Inv'
<1> USE DEF Inv, Leave
<1>1. call' \in [Callers -> [op : Operations \cup {"idle"},
                             batch : Seq(Observations)]]
  <2>1. Idle \in [op : Operations \cup {"idle"}, batch : Seq(Observations)]
    BY EmptySeq DEF Idle
  <2> QED BY <2>1 DEF TypeOK
<1>2. drain' \in [groups : Seq(Seq(Item)), delivered : SUBSET Nat,
                  attempt : 0..(MaxRetries + 1), paused : BOOLEAN]
  BY EmptySeq, ConstantsAssumption DEF NoDrain
<1>3. TypeOK'
  BY <1>1, <1>2 DEF TypeOK
<1>4. Calling'
  <2>1. ASSUME NEW k \in Callers PROVE call'[k] = call[k] \/ call'[k] = Idle
    BY DEF TypeOK
  <2> QED BY <2>1 DEF Calling
<1>5. Holding'
  BY DEF Holding
<1>6. InOrder'
  BY DEF InOrder
<1>7. DrainMatchesQueue'
  BY DEF DrainMatchesQueue
<1>8. WithinLimits'
  BY DEF WithinLimits, NoDrain
<1>9. Emptied'
  BY DEF Emptied
<1> QED BY <1>3, <1>4, <1>5, <1>6, <1>7, <1>8, <1>9

LEMMA FinishKeeps ==
  ASSUME Inv, NEW c \in Callers, NEW errs \in SUBSET Error, NEW rest \in Seq(Item),
         Finish(c, errs, rest), Ascending(rest),
         accepted' \in Nat, acked' \in Seq(Nat), received' \subseteq 1..accepted',
         \A x \in Range(rest) : x.tag \in 1..accepted',
         shutdown' \in BOOLEAN, shutdown' => call[c].op = "shutdown",
         errs = {} => rest = <<>>
  PROVE  Inv'
<1>1. Leave(c, errs) /\ pending' = rest
      /\ lastShutdownErr' = IF call[c].op = "shutdown" THEN errs
                            ELSE lastShutdownErr
  BY DEF Finish
<1>2. lastShutdownErr' \in SUBSET Error
  BY <1>1 DEF Inv, TypeOK
<1>3. shutdown' /\ lastShutdownErr' = {} => pending' = <<>>
  BY <1>1
<1>4. Ascending(pending)'
  BY <1>1 DEF Ascending
<1>5. \A x \in Range(pending') : x.tag \in 1..accepted'
  BY <1>1
<1> QED BY <1>1, <1>2, <1>3, <1>4, <1>5, LeaveKeeps

-----------------------------------------------------------------------------
(* One lemma per action that leaves the queue alone. *)

LEMMA BeginKeeps ==
  ASSUME Inv, NEW c \in Callers, Begin(c) PROVE Inv'
<1> USE DEF Inv
<1> DEFINE Calls == [op : Operations \cup {"idle"}, batch : Seq(Observations)]
<1>1. PICK k \in Calls :
        /\ k.op \in Operations /\ (k.op # "export" => k.batch = <<>>)
        /\ call' = [call EXCEPT ![c] = k]
  <2>1. CASE \E batch \in Batches :
               call' = [call EXCEPT ![c] = [op |-> "export", batch |-> batch]]
    <3>1. PICK batch \in Batches :
            call' = [call EXCEPT ![c] = [op |-> "export", batch |-> batch]]
      BY <2>1
    <3>2. [op |-> "export", batch |-> batch] \in Calls
      BY ConstantsAssumption DEF Operations
    <3> QED BY <3>1, <3>2 DEF Operations
  <2>2. CASE \E op \in {"flush", "shutdown"} :
               call' = [call EXCEPT ![c] = [op |-> op, batch |-> <<>>]]
    <3>1. PICK op \in {"flush", "shutdown"} :
            call' = [call EXCEPT ![c] = [op |-> op, batch |-> <<>>]]
      BY <2>2
    <3>2. [op |-> op, batch |-> <<>>] \in Calls
      BY EmptySeq DEF Operations
    <3> QED BY <3>1, <3>2 DEF Operations
  <2> QED BY <2>1, <2>2 DEF Begin
<1>2. UNCHANGED <<pending, accepted, acked, received, shutdown, lastShutdownErr,
                  lock, drain, ended>> /\ result' = {} /\ call[c] = Idle
  BY DEF Begin, queue
<1>3. TypeOK'
  BY <1>1, <1>2 DEF TypeOK
<1>4. Calling'
  <2>1. ASSUME NEW e \in Callers PROVE call'[e] = call[e] \/ call'[e] = k
    BY <1>1 DEF TypeOK
  <2> QED BY <1>1, <2>1 DEF Calling
<1>5. Holding'
  <2>1. ASSUME lock # None PROVE call'[lock] = call[lock]
    <3>1. call[lock].op \in Operations /\ Idle.op \notin Operations
      BY <2>1 DEF Holding, Idle, Operations
    <3> QED BY <1>1, <1>2, <2>1, <3>1 DEF TypeOK
  <2> QED BY <1>2, <2>1 DEF Holding
<1>6. InOrder' /\ Emptied'
  BY <1>2 DEF InOrder, Ascending, Emptied
<1>7. DrainMatchesQueue'
  BY <1>2 DEF DrainMatchesQueue, Compact
<1>8. WithinLimits'
  BY <1>2 DEF WithinLimits
<1> QED BY <1>3, <1>4, <1>5, <1>6, <1>7, <1>8

LEMMA EndContextKeeps ==
  ASSUME Inv, NEW c \in Callers, EndContext(c) PROVE Inv'
<1> USE DEF Inv
<1>1. UNCHANGED <<pending, accepted, acked, received, shutdown, lastShutdownErr,
                  lock, drain, call, result>> /\ ended' = ended \cup {c}
  BY DEF EndContext, queue
<1>2. TypeOK'
  BY <1>1 DEF TypeOK
<1>3. Calling' /\ Holding' /\ InOrder' /\ Emptied'
  BY <1>1 DEF Calling, Holding, InOrder, Ascending, Emptied
<1>4. DrainMatchesQueue'
  BY <1>1 DEF DrainMatchesQueue
<1>5. WithinLimits'
  BY <1>1 DEF WithinLimits
<1> QED BY <1>2, <1>3, <1>4, <1>5

LEMMA StutterKeeps ==
  ASSUME Inv, UNCHANGED vars PROVE Inv'
BY DEF Inv, vars, queue, TypeOK, Calling, Holding, InOrder, Ascending, Emptied,
       DrainMatchesQueue, WithinLimits

(* Of a call that is under way. *)
LEMMA CallFacts ==
  ASSUME Inv, NEW c \in Callers, call[c] # Idle
  PROVE  /\ call[c].op \in Operations
         /\ call[c].op # "export" => call[c].batch = <<>>
BY DEF Inv, Calling

LEMMA ClosedKeeps ==
  ASSUME Inv, NEW c \in Callers, ExportClosed(c) \/ AnswerClosed(c) PROVE Inv'
<1>1. /\ call[c] # Idle /\ lock = None /\ shutdown
      /\ UNCHANGED <<pending, accepted, acked, received, shutdown,
                     lastShutdownErr>>
  BY DEF ExportClosed, AnswerClosed, Acquires, queue
<1>2. PICK errs \in SUBSET Error : Leave(c, errs)
  <2>1. CASE ExportClosed(c)
    <3>1. {Err("export", "exporter_closed", FALSE, TRUE)} \in SUBSET Error
      BY ErrorTypes DEF Operations
    <3> QED BY <2>1, <3>1 DEF ExportClosed
  <2>2. CASE AnswerClosed(c)
    BY <2>2 DEF AnswerClosed, Inv, TypeOK
  <2> QED BY <2>1, <2>2
<1>3. /\ pending' \in Seq(Item) /\ Ascending(pending)'
      /\ accepted' \in Nat /\ acked' \in Seq(Nat)
      /\ received' \subseteq 1..accepted'
      /\ \A x \in Range(pending') : x.tag \in 1..accepted'
      /\ shutdown' \in BOOLEAN /\ lastShutdownErr' \in SUBSET Error
      /\ shutdown' /\ lastShutdownErr' = {} => pending' = <<>>
  BY <1>1 DEF Inv, TypeOK, InOrder, Ascending, Emptied
<1> QED BY <1>2, <1>3, LeaveKeeps

LEMMA PauseKeeps ==
  ASSUME Inv, NEW c \in Callers, Pause(c) PROVE Inv'
<1> USE DEF Inv
<1>1. /\ UNCHANGED <<pending, accepted, acked, shutdown, lastShutdownErr, lock,
                     call, ended, result>>
      /\ lock = c /\ lock # None /\ drain.attempt <= MaxRetries
      /\ drain' = [drain EXCEPT !.paused = TRUE]
  BY ConstantsAssumption DEF Pause, Sending
<1>2. received' \subseteq 1..accepted'
  BY <1>1, SentFacts DEF Pause, Attempted, TypeOK
<1>3. /\ drain' \in [groups : Seq(Seq(Item)), delivered : SUBSET Nat,
                     attempt : 0..(MaxRetries + 1), paused : BOOLEAN]
      /\ drain'.groups = drain.groups /\ drain'.delivered = drain.delivered
      /\ drain'.attempt = drain.attempt
  BY <1>1 DEF TypeOK
<1>4. TypeOK'
  BY <1>1, <1>2, <1>3 DEF TypeOK
<1>5. Calling' /\ InOrder' /\ Emptied'
  BY <1>1 DEF Calling, InOrder, Ascending, Emptied
<1>6. Holding'
  BY <1>1, <1>3 DEF Holding
<1>7. DrainMatchesQueue'
  BY <1>1, <1>3 DEF DrainMatchesQueue, Compact
<1>8. WithinLimits'
  BY <1>3 DEF WithinLimits
<1> QED BY <1>4, <1>5, <1>6, <1>7, <1>8

LEMMA ResumeKeeps ==
  ASSUME Inv, NEW c \in Callers, Resume(c) PROVE Inv'
<1> USE DEF Inv
<1>1. /\ UNCHANGED <<pending, accepted, acked, received, shutdown,
                     lastShutdownErr, lock, call, ended, result>>
      /\ lock = c /\ lock # None /\ drain.paused
      /\ drain' = [drain EXCEPT !.paused = FALSE, !.attempt = @ + 1]
  BY ConstantsAssumption DEF Resume, queue
<1>2. drain.attempt \in 0..MaxRetries
  BY <1>1, ConstantsAssumption DEF Holding, TypeOK
<1>3. /\ drain'.groups = drain.groups /\ drain'.delivered = drain.delivered
      /\ drain'.attempt = drain.attempt + 1 /\ ~drain'.paused
      /\ drain.attempt + 1 \in 0..(MaxRetries + 1)
  BY <1>1, <1>2, ConstantsAssumption DEF TypeOK
<1>4. drain' \in [groups : Seq(Seq(Item)), delivered : SUBSET Nat,
                  attempt : 0..(MaxRetries + 1), paused : BOOLEAN]
  BY <1>1, <1>3 DEF TypeOK
<1>5. TypeOK'
  BY <1>1, <1>4 DEF TypeOK
<1>6. Calling' /\ InOrder' /\ Emptied'
  BY <1>1 DEF Calling, InOrder, Ascending, Emptied
<1>7. Holding'
  BY <1>1, <1>3 DEF Holding
<1>8. DrainMatchesQueue'
  BY <1>1, <1>3 DEF DrainMatchesQueue, Compact
<1>9. WithinLimits'
  BY <1>3 DEF WithinLimits
<1> QED BY <1>5, <1>6, <1>7, <1>8, <1>9

-----------------------------------------------------------------------------
(* One lemma per action that changes the queue. *)

(* What every entering call has in common. *)
LEMMA EntersFacts ==
  ASSUME Inv, NEW c \in Callers, Enters(c)
  PROVE  /\ call[c].op \in Operations
         /\ accepted' \in Nat /\ accepted' = accepted + Len(call[c].batch)
         /\ shutdown' \in BOOLEAN
         /\ shutdown' => call[c].op = "shutdown"
         /\ lock = None
         /\ received \subseteq 1..accepted' /\ acked \in Seq(Nat)
         /\ \A x \in Range(Taken(c)) : x.tag \in 1..accepted'
<1>1. call[c].op \in Operations
  BY CallFacts DEF Enters, Acquires
<1>2. /\ accepted' = accepted + Len(call[c].batch) /\ lock = None
      /\ shutdown' = (call[c].op = "shutdown")
  BY DEF Enters, Acquires
<1>3. accepted \in Nat /\ received \subseteq 1..accepted /\ acked \in Seq(Nat)
  BY DEF Inv, TypeOK
<1>4. Len(call[c].batch) \in Nat /\ accepted' \in Nat
  BY <1>2, <1>3, TakenFacts
<1>5. received \subseteq 1..accepted'
  <2>1. \A i \in 1..accepted : i \in 1..accepted'
    BY <1>2, <1>3, <1>4
  <2> QED BY <1>3, <2>1
<1>6. \A x \in Range(Taken(c)) : x.tag \in 1..accepted'
  BY <1>2, TakenFacts
<1>7. shutdown' \in BOOLEAN /\ (shutdown' => call[c].op = "shutdown")
  BY <1>2
<1> QED BY <1>1, <1>2, <1>3, <1>4, <1>5, <1>6, <1>7, Zenon

LEMMA DrainCanceledKeeps ==
  ASSUME Inv, NEW c \in Callers, DrainCanceled(c) PROVE Inv'
<1>1. /\ Enters(c) /\ Finish(c, {ContextError(call[c].op)}, Taken(c))
      /\ acked' = acked /\ received' = received
  BY DEF DrainCanceled
<1>2. {ContextError(call[c].op)} \in SUBSET Error
  BY <1>1, EntersFacts, ErrorTypes
<1>3. Taken(c) \in Seq(Item) /\ Ascending(Taken(c))
  BY TakenFacts
<1>4. /\ accepted' \in Nat /\ acked' \in Seq(Nat)
      /\ received' \subseteq 1..accepted'
      /\ shutdown' \in BOOLEAN
      /\ shutdown' => call[c].op = "shutdown"
      /\ \A x \in Range(Taken(c)) : x.tag \in 1..accepted'
  BY <1>1, EntersFacts
<1> DEFINE errs == {ContextError(call[c].op)}
           rest == Taken(c)
<1>5. errs # {} /\ errs \in SUBSET Error /\ Finish(c, errs, rest)
  BY <1>1, <1>2
<1> HIDE DEF errs
<1> QED BY <1>3, <1>4, <1>5, FinishKeeps

(* Nothing to send: nothing that could be sent stays pending either. *)
LEMMA GroupedNothing ==
  ASSUME NEW s \in Seq(Item), Grouped(s) = <<>>
  PROVE  Compact(s, {}) = <<>>
BY GroupedFacts, FlattenEmpty

LEMMA DrainNothingKeeps ==
  ASSUME Inv, NEW c \in Callers, DrainNothing(c) PROVE Inv'
<1> DEFINE errs == BatchErrs(Taken(c))
           rest == Compact(Taken(c), {})
<1>1. /\ Enters(c) /\ Finish(c, errs, rest) /\ Grouped(Taken(c)) = <<>>
      /\ acked' = acked /\ received' = received
  BY DEF DrainNothing
<1>2. errs \in SUBSET Error
  BY ErrorTypes
<1>3. Taken(c) \in Seq(Item) /\ Ascending(Taken(c))
  BY TakenFacts
<1>4. rest = <<>>
  BY <1>1, <1>3, GroupedNothing
<1>5. rest \in Seq(Item) /\ Ascending(rest)
      /\ Range(rest) \subseteq Range(Taken(c))
  BY <1>3, CompactFacts
<1>6. /\ accepted' \in Nat /\ acked' \in Seq(Nat)
      /\ received' \subseteq 1..accepted'
      /\ shutdown' \in BOOLEAN
      /\ shutdown' => call[c].op = "shutdown"
      /\ \A x \in Range(Taken(c)) : x.tag \in 1..accepted'
  BY <1>1, EntersFacts
<1>7. \A x \in Range(rest) : x.tag \in 1..accepted'
  BY <1>5, <1>6
<1> HIDE DEF errs, rest
<1> QED BY <1>1, <1>2, <1>4, <1>5, <1>6, <1>7, FinishKeeps

LEMMA DrainStartsKeeps ==
  ASSUME Inv, NEW c \in Callers, DrainStarts(c) PROVE Inv'
<1> DEFINE s == Taken(c)
           g == Grouped(s)
           k == call'[c]
<1>1. /\ Enters(c) /\ g # <<>>
      /\ pending' = s /\ lock' = c
      /\ drain' = [NoDrain EXCEPT !.groups = g, !.attempt = 1]
      /\ call' = [call EXCEPT ![c].batch = <<>>]
      /\ UNCHANGED <<acked, received, lastShutdownErr, ended, result>>
  BY DEF DrainStarts
<1>2. s \in Seq(Item) /\ Ascending(s)
  BY TakenFacts
<1>3. /\ g \in Seq(Seq(Item)) /\ FlattenSeq(g) = Compact(s, {})
      /\ \A group \in Range(g) : Within(group)
  BY <1>2, GroupedFacts
<1> HIDE DEF s, g
<1>4. /\ drain'.groups = g /\ drain'.delivered = {} /\ drain'.attempt = 1
      /\ drain'.paused = FALSE
      /\ drain' = [groups |-> g, delivered |-> {}, attempt |-> 1,
                   paused |-> FALSE]
  BY <1>1 DEF NoDrain
<1>5. /\ call[c].op \in Operations
      /\ accepted' \in Nat /\ shutdown' \in BOOLEAN
      /\ shutdown' => call[c].op = "shutdown"
      /\ received' \subseteq 1..accepted'
      /\ \A x \in Range(s) : x.tag \in 1..accepted'
  BY <1>1, EntersFacts DEF s
<1>6. /\ call[c] \in [op : Operations \cup {"idle"}, batch : Seq(Observations)]
      /\ call \in [Callers -> [op : Operations \cup {"idle"},
                               batch : Seq(Observations)]]
  BY DEF Inv, TypeOK
<1>7. k = [op |-> call[c].op, batch |-> <<>>]
  <2>1. k = [call[c] EXCEPT !.batch = <<>>]
    BY <1>1, <1>6
  <2> HIDE DEF k
  <2> QED BY <1>6, <2>1
<1>8. call' = [call EXCEPT ![c] = k]
  BY <1>1, <1>6
<1> HIDE DEF k
<1>9. k \in [op : Operations \cup {"idle"}, batch : Seq(Observations)]
  BY <1>5, <1>7, EmptySeq
<1>10. call' \in [Callers -> [op : Operations \cup {"idle"},
                              batch : Seq(Observations)]]
  BY <1>6, <1>8, <1>9
<1>11. drain' \in [groups : Seq(Seq(Item)), delivered : SUBSET Nat,
                   attempt : 0..(MaxRetries + 1), paused : BOOLEAN]
  BY <1>3, <1>4, ConstantsAssumption
<1>12. TypeOK'
  BY <1>1, <1>2, <1>5, <1>10, <1>11 DEF Inv, TypeOK
<1>13. \A e \in Callers \ {c} : call'[e] = call[e]
  BY <1>6, <1>8
<1>14. call'[c] = k
  BY <1>6, <1>8
<1>15. Calling'
  BY <1>5, <1>7, <1>13, <1>14 DEF Inv, Calling
<1>16. Holding'
  BY <1>1, <1>4, <1>5, <1>7, <1>14, ConstantsAssumption DEF Holding
<1>17. InOrder'
  BY <1>1, <1>2, <1>5 DEF InOrder, Ascending
<1>18. DrainMatchesQueue'
  BY <1>1, <1>3, <1>4 DEF DrainMatchesQueue, Compact
<1>19. WithinLimits'
  <2>1. \A i \in DOMAIN g : g[i] \in Range(g)
    BY DEF Range
  <2> QED BY <1>3, <1>4, <2>1 DEF WithinLimits, Within
<1>20. Emptied'
  BY <1>1, ConstantsAssumption DEF Emptied
<1> QED BY <1>12, <1>15, <1>16, <1>17, <1>18, <1>19, <1>20 DEF Inv

LEMMA KeptFacts ==
  ASSUME Inv, NEW err
  PROVE  /\ Kept(err) \in Seq(Item) /\ Ascending(Kept(err))
         /\ Range(Kept(err)) \subseteq Range(pending)
<1>1. pending \in Seq(Item) /\ Ascending(pending)
  BY DEF Inv, TypeOK, InOrder
<1>2. CASE err.retryable
  BY <1>1, <1>2, CompactFacts DEF Kept
<1>3. CASE ~err.retryable
  <2>1. Kept(err) = <<>>
    BY <1>3 DEF Kept
  <2> QED BY <2>1, EmptySeq, RangeOfEmpty DEF Ascending
<1> QED BY <1>2, <1>3

(* A drain gives up only while it holds the mutex. *)
LEMMA AbortKeeps ==
  ASSUME Inv, NEW c \in Callers, lock = c, NEW err \in Error, Abort(c, err)
  PROVE  Inv'
<1>1. /\ Finish(c, {err}, Kept(err))
      /\ shutdown' = shutdown /\ accepted' = accepted /\ acked' = acked
      /\ received' = received \/ Attempted
  BY DEF Abort
<1>2. lock # None
  BY ConstantsAssumption
<1>3. received' \subseteq 1..accepted'
  BY <1>1, <1>2, SentFacts DEF Attempted, Inv, TypeOK
<1>4. /\ accepted' \in Nat /\ acked' \in Seq(Nat) /\ shutdown' \in BOOLEAN
      /\ shutdown' => call[c].op = "shutdown"
      /\ \A x \in Range(pending) : x.tag \in 1..accepted'
  BY <1>1, <1>2 DEF Inv, TypeOK, Holding, InOrder
<1>5. /\ Kept(err) \in Seq(Item) /\ Ascending(Kept(err))
      /\ \A x \in Range(Kept(err)) : x.tag \in 1..accepted'
  BY <1>4, KeptFacts
<1> DEFINE errs == {err}
           rest == Kept(err)
<1>6. errs \in SUBSET Error /\ errs # {}
  OBVIOUS
<1>7. Finish(c, errs, rest)
  BY <1>1
<1> HIDE DEF errs, rest
<1>8. rest \in Seq(Item) /\ Ascending(rest)
      /\ \A x \in Range(rest) : x.tag \in 1..accepted'
  BY <1>5 DEF rest
<1> QED BY <1>3, <1>4, <1>6, <1>7, <1>8, FinishKeeps

LEMMA FailureKeeps ==
  ASSUME Inv, NEW c \in Callers, Exhausted(c) \/ Refused(c) \/ Interrupted(c)
  PROVE  Inv'
<1>1. lock = c
  BY DEF Exhausted, Refused, Interrupted, Sending
<1>2. call[c].op \in Operations
  BY <1>1, ConstantsAssumption DEF Inv, Holding
<1>3. PICK err \in Error : Abort(c, err)
  BY <1>2, ErrorTypes DEF Exhausted, Refused, Interrupted
<1> QED BY <1>1, <1>3, AbortKeeps

(* The tags of a group, in order, are numbers. *)
LEMMA AckedType ==
  ASSUME NEW a \in Seq(Nat), NEW sent \in Seq(Item)
  PROVE  /\ a \o [i \in DOMAIN sent |-> sent[i].tag] \in Seq(Nat)
         /\ Range(a \o [i \in DOMAIN sent |-> sent[i].tag])
            = Range(a) \cup Tags(sent)
<1> DEFINE t == [i \in DOMAIN sent |-> sent[i].tag]
<1>1. DOMAIN sent = 1..Len(sent) /\ Len(sent) \in Nat
      /\ \A i \in 1..Len(sent) : sent[i] \in Item
  BY LenProperties, ElementOfSeq
<1>2. t \in Seq(Nat)
  BY <1>1 DEF Item
<1>3. Range(t) = Tags(sent)
  BY DEF Range, Tags
<1> HIDE DEF t
<1>4. a \o t \in Seq(Nat) /\ Range(a \o t) = Range(a) \cup Range(t)
  BY <1>2, ConcatProperties, RangeConcatenation
<1> QED BY <1>3, <1>4 DEF t

(* What the last group of a drain leaves: nothing. *)
LEMMA LastGroup ==
  ASSUME Inv, lock # None, ~(Len(drain.groups) > 1)
  PROVE  Compact(pending, drain.delivered \cup Tags(Head(drain.groups))) = <<>>
<1>1. drain.groups \in Seq(Seq(Item)) /\ drain.groups # <<>>
  BY DEF Inv, TypeOK, Holding
<1>2. Len(Tail(drain.groups)) = Len(drain.groups) - 1
      /\ Tail(drain.groups) \in Seq(Seq(Item))
  BY <1>1, HeadTailProperties
<1>3. Len(drain.groups) \in Nat
  BY <1>1, LenProperties
<1>4. Len(Tail(drain.groups)) \in Nat
  BY <1>2, LenProperties
<1>5. Len(Tail(drain.groups)) = 0
  <2> DEFINE m == Len(Tail(drain.groups))
             n == Len(drain.groups)
  <2>1. m = n - 1 /\ n \in Nat /\ m \in Nat /\ ~(n > 1)
    BY <1>2, <1>3, <1>4
  <2> HIDE DEF m, n
  <2>2. m = 0
    BY <2>1
  <2> QED BY <2>2 DEF m
<1>6. Tail(drain.groups) = <<>>
  BY <1>2, <1>5, EmptySeq
<1> QED BY <1>6, SentFacts, FlattenEmpty

LEMMA DeliveredKeeps ==
  ASSUME Inv, NEW c \in Callers, Delivered(c) PROVE Inv'
<1> DEFINE sent == Head(drain.groups)
           d == drain.delivered \cup Tags(sent)
<1>1. lock = c /\ lock # None /\ shutdown' = shutdown /\ accepted' = accepted
  BY ConstantsAssumption DEF Delivered, Sending
<1>2. /\ acked' = acked \o [i \in DOMAIN sent |-> sent[i].tag]
      /\ received' = received \cup Tags(sent)
  BY DEF Delivered
<1>3. /\ sent \in Seq(Item) /\ Tags(sent) \subseteq 1..accepted
      /\ Tail(drain.groups) \in Seq(Seq(Item))
      /\ FlattenSeq(Tail(drain.groups)) = Compact(pending, d)
  BY <1>1, SentFacts
<1>4. acked \in Seq(Nat)
  BY DEF Inv, TypeOK
<1>5. acked' \in Seq(Nat) /\ Range(acked') = Range(acked) \cup Tags(sent)
  BY <1>2, <1>3, <1>4, AckedType
<1>6. received' \subseteq 1..accepted'
  BY <1>1, <1>2, <1>3 DEF Inv, TypeOK
<1>7. CASE Len(drain.groups) > 1
  <2>1. /\ drain' = [drain EXCEPT !.groups = Tail(@), !.attempt = 1,
                                  !.delivered = d]
        /\ UNCHANGED <<pending, lastShutdownErr, lock, call, ended, result>>
    BY <1>7 DEF Delivered
  <2>2. drain \in [groups : Seq(Seq(Item)), delivered : SUBSET Nat,
                   attempt : 0..(MaxRetries + 1), paused : BOOLEAN]
    BY DEF Inv, TypeOK
  <2> DEFINE rest == Tail(drain.groups)
  <2> HIDE DEF d, sent
  <2>3. /\ drain'.groups = rest /\ drain'.delivered = d /\ drain'.attempt = 1
        /\ drain'.paused = drain.paused
        /\ drain' = [groups |-> rest, delivered |-> d, attempt |-> 1,
                     paused |-> drain.paused]
    BY <2>1, <2>2
  <2>4. d \in SUBSET Nat
    BY <1>3, <2>2 DEF d, Inv, TypeOK
  <2>5. drain' \in [groups : Seq(Seq(Item)), delivered : SUBSET Nat,
                    attempt : 0..(MaxRetries + 1), paused : BOOLEAN]
    BY <1>3, <2>2, <2>3, <2>4, ConstantsAssumption
  <2>6. TypeOK'
    BY <1>1, <1>5, <1>6, <2>1, <2>5 DEF Inv, TypeOK
  <2>7. Calling' /\ InOrder' /\ Emptied'
    BY <1>1, <2>1 DEF Inv, Calling, InOrder, Ascending, Emptied
  <2>8. /\ rest # <<>>
        /\ \A i \in DOMAIN rest : i + 1 \in DOMAIN drain.groups
                                 /\ rest[i] = drain.groups[i + 1]
    <3>1. drain.groups # <<>> /\ Len(drain.groups) \in Nat
          /\ DOMAIN drain.groups = 1..Len(drain.groups)
      BY <1>1, <2>2, LenProperties DEF Inv, Holding
    <3>2. /\ Len(rest) = Len(drain.groups) - 1
          /\ \A i \in 1..Len(rest) : rest[i] = drain.groups[i + 1]
      BY <2>2, <3>1, HeadTailProperties
    <3> HIDE DEF rest
    <3>3. DOMAIN rest = 1..Len(rest)
      BY <1>3, LenProperties DEF rest
    <3> QED BY <1>7, <3>1, <3>2, <3>3
  <2>9. Holding'
    <3>1. d \subseteq Range(acked')
      BY <1>1, <1>5 DEF d, Inv, Holding
    <3>2. ~drain.paused
      BY DEF Delivered, Sending
    <3> HIDE DEF rest
    <3> QED BY <1>1, <2>1, <2>3, <2>8, <3>1, <3>2 DEF Inv, Holding
  <2>10. DrainMatchesQueue'
    <3> HIDE DEF rest
    <3>1. FlattenSeq(rest) = Compact(pending, d)
      BY <1>3 DEF rest, d
    <3> QED BY <2>1, <2>3, <3>1 DEF DrainMatchesQueue, Compact
  <2>11. WithinLimits'
    <3> HIDE DEF rest
    <3>1. \A i \in DOMAIN rest : Within(rest[i])
      BY <2>8 DEF Inv, WithinLimits, Within
    <3> QED BY <2>3, <3>1 DEF WithinLimits, Within
  <2> QED BY <2>6, <2>7, <2>9, <2>10, <2>11 DEF Inv
<1>8. CASE ~(Len(drain.groups) > 1)
  <2> DEFINE errs == BatchErrs(pending)
             rest == Compact(pending, d)
  <2>1. Finish(c, errs, rest)
    BY <1>8 DEF Delivered
  <2>2. errs \in SUBSET Error
    BY ErrorTypes
  <2>3. rest = <<>>
    BY <1>1, <1>8, LastGroup
  <2>4. rest \in Seq(Item) /\ Ascending(rest)
        /\ \A x \in Range(rest) : x.tag \in 1..accepted'
    <3> HIDE DEF rest
    <3> QED BY <2>3, EmptySeq, RangeOfEmpty DEF Ascending
  <2>5. /\ accepted' \in Nat /\ shutdown' \in BOOLEAN
        /\ shutdown' => call[c].op = "shutdown"
    BY <1>1 DEF Inv, TypeOK, Holding
  <2> HIDE DEF errs, rest
  <2> QED BY <1>5, <1>6, <2>1, <2>2, <2>3, <2>4, <2>5, FinishKeeps
<1> QED BY <1>7, <1>8

LEMMA NextKeeps ==
  ASSUME Inv, [Next]_vars PROVE Inv'
<1>1. CASE UNCHANGED vars
  BY <1>1, StutterKeeps
<1>2. CASE Next
  <2>1. PICK c \in Callers : Begin(c) \/ EndContext(c) \/ Enter(c) \/ Send(c)
    BY <1>2 DEF Next
  <2>2. CASE Begin(c) \/ EndContext(c)
    BY <2>2, BeginKeeps, EndContextKeeps
  <2>3. CASE Enter(c)
    BY <2>3, ClosedKeeps, DrainCanceledKeeps, DrainNothingKeeps,
       DrainStartsKeeps DEF Enter
  <2>4. CASE Send(c)
    BY <2>4, DeliveredKeeps, PauseKeeps, FailureKeeps, ResumeKeeps DEF Send
  <2> QED BY <2>1, <2>2, <2>3, <2>4
<1> QED BY <1>1, <1>2

LEMMA Invariance == Spec => []Inv
<1>1. Inv /\ [Next]_vars => Inv'
  BY NextKeeps
<1> QED BY InitInv, <1>1, PTL DEF Spec

-----------------------------------------------------------------------------
(* The invariants *)

(* Every variable keeps its type, received tags were accepted before, and no
   group is sent more than MaxRetries + 1 times (exporter.go, sendWithRetry). *)
THEOREM TypeCorrect == Spec => []TypeOK
<1>1. Inv => TypeOK
  BY DEF Inv
<1> QED BY Invariance, <1>1, PTL

(* No request is empty or exceeds BatchSize or MaxPayloadBytes, whatever was
   retained from earlier drains (exporter.go, splitPayloadGroups). *)
THEOREM RequestsRespectLimits == Spec => []WithinLimits
<1>1. Inv => WithinLimits
  BY DEF Inv
<1> QED BY Invariance, <1>1, PTL

(* What a drain has left to send is what is pending and undelivered, in the
   same order: grouping loses, repeats and reorders nothing, and no other call
   touches the queue meanwhile (exporter.go, drainLocked). *)
THEOREM DrainKeepsQueue == Spec => []DrainMatchesQueue
<1>1. Inv => DrainMatchesQueue
  BY DEF Inv
<1> QED BY Invariance, <1>1, PTL

-----------------------------------------------------------------------------
(* The action properties *)

Silent ==
  shutdown /\ lock = None
    => UNCHANGED <<queue, lastShutdownErr, shutdown, drain>>

(* After Shutdown has returned nothing is sent, accepted or forgotten, and
   its answer stays (exporter.go, the closed branches of the three calls). *)
THEOREM ClosedStaysSilent == Spec => ClosedIsSilent
<1>1. ASSUME Inv, [Next]_vars PROVE Silent
  <2> SUFFICES ASSUME shutdown, lock = None
               PROVE  UNCHANGED <<queue, lastShutdownErr, shutdown, drain>>
    BY DEF Silent
  <2>1. CASE UNCHANGED vars
    BY <2>1 DEF vars
  <2>2. CASE Next
    <3>1. PICK c \in Callers :
            Begin(c) \/ EndContext(c) \/ Enter(c) \/ Send(c)
      BY <2>2 DEF Next
    <3>2. CASE Begin(c) \/ EndContext(c)
      BY <3>2 DEF Begin, EndContext
    <3>3. CASE ExportClosed(c) \/ AnswerClosed(c)
      <4>1. drain = NoDrain
        BY <1>1 DEF Inv, Holding
      <4>2. drain' = NoDrain
        BY <3>3 DEF ExportClosed, AnswerClosed, Leave
      <4> QED BY <3>3, <4>1, <4>2 DEF ExportClosed, AnswerClosed
    <3>4. ~(DrainCanceled(c) \/ DrainNothing(c) \/ DrainStarts(c))
      BY DEF DrainCanceled, DrainNothing, DrainStarts, Enters
    <3>5. ~Send(c)
      BY ConstantsAssumption DEF Send, Delivered, Pause, Exhausted, Refused,
         Interrupted, Resume, Sending
    <3> QED BY <3>1, <3>2, <3>3, <3>4, <3>5 DEF Enter
  <2> QED BY <1>1, <2>1, <2>2
<1> QED BY Invariance, <1>1, PTL DEF Spec, ClosedIsSilent, Silent

(* A failed drain keeps what it may retry. *)
LEMMA AbortReports ==
  ASSUME Inv, NEW c \in Callers, lock = c, NEW err \in Error, Abort(c, err),
         NEW x \in Range(pending), Shippable(x),
         x.tag \notin Tags(pending'), x.tag \notin Range(acked')
  PROVE  Returns(c) /\ \E e \in result' : ~e.retryable
<1>1. /\ pending' = Kept(err) /\ acked' = acked /\ result' = {err}
      /\ call' = [call EXCEPT ![c] = Idle]
  BY DEF Abort, Finish, Leave
<1>2. lock # None /\ drain.delivered \subseteq Range(acked)
      /\ call[c].op \in Operations /\ pending \in Seq(Item)
  BY ConstantsAssumption DEF Inv, Holding, TypeOK
<1>3. ASSUME err.retryable PROVE FALSE
  <2>1. pending' = Compact(pending, drain.delivered)
    BY <1>1, <1>3 DEF Kept
  <2>2. x \in Range(pending')
    BY <1>1, <1>2, <2>1, CompactFacts
  <2> QED BY <2>2, TagsOfRange
<1>4. Returns(c)
  BY <1>1, <1>2 DEF Returns, Idle, Operations, Inv, TypeOK
<1> QED BY <1>1, <1>3, <1>4

Reported ==
  \A i \in DOMAIN pending :
    /\ Shippable(pending[i])
    /\ pending[i].tag \notin Tags(pending')
    /\ pending[i].tag \notin Range(acked')
    => \E c \in Callers : /\ Returns(c)
                          /\ \E e \in result' : ~e.retryable

(* An observation that can be sent leaves pending unacknowledged only with an
   error that is not retryable (exporter.go, drainLocked and
   compactPending). *)
THEOREM LossAlwaysReported == Spec => LossIsReported
<1>1. ASSUME Inv, [Next]_vars PROVE Reported
  <2> SUFFICES ASSUME NEW i \in DOMAIN pending,
                      Shippable(pending[i]),
                      pending[i].tag \notin Tags(pending'),
                      pending[i].tag \notin Range(acked')
               PROVE  \E c \in Callers : /\ Returns(c)
                                         /\ \E e \in result' : ~e.retryable
    BY DEF Reported
  <2> DEFINE x == pending[i]
  <2>1. x \in Range(pending) /\ Shippable(x)
        /\ x.tag \notin Tags(pending') /\ x.tag \notin Range(acked')
    BY DEF Range
  <2> HIDE DEF x
  <2>2. x \notin Range(pending')
    BY <2>1, TagsOfRange
  <2>3. pending # pending'
    BY <2>1, <2>2
  <2>4. PICK c \in Callers : Begin(c) \/ EndContext(c) \/ Enter(c) \/ Send(c)
    BY <1>1, <2>3 DEF Next, vars, queue
  <2>5. ~(Begin(c) \/ EndContext(c) \/ ExportClosed(c) \/ AnswerClosed(c)
          \/ Pause(c) \/ Resume(c))
    BY <2>3 DEF Begin, EndContext, ExportClosed, AnswerClosed, Pause, Resume,
       queue
  <2>6. Taken(c) \in Seq(Item) /\ Range(pending) \subseteq Range(Taken(c))
    BY <1>1, TakenFacts
  <2>7. ~(DrainCanceled(c) \/ DrainStarts(c))
    BY <2>1, <2>2, <2>6 DEF DrainCanceled, DrainStarts, Finish
  <2>8. ~DrainNothing(c)
    <3>1. x \in Range(Compact(Taken(c), {}))
      BY <2>1, <2>6, CompactFacts
    <3> QED BY <2>2, <3>1 DEF DrainNothing, Finish
  <2>9. ~Delivered(c)
    <3> SUFFICES ASSUME Delivered(c) PROVE FALSE
      OBVIOUS
    <3> DEFINE sent == Head(drain.groups)
               d == drain.delivered \cup Tags(sent)
    <3>1. lock # None
      BY ConstantsAssumption DEF Delivered, Sending
    <3>2. pending' = Compact(pending, d)
      BY <2>3 DEF Delivered, Finish
    <3>3. sent \in Seq(Item) /\ acked \in Seq(Nat) /\ pending \in Seq(Item)
      BY <1>1, <3>1, SentFacts DEF Inv, TypeOK
    <3>4. Range(acked') = Range(acked) \cup Tags(sent)
      BY <3>3, AckedType DEF Delivered
    <3>5. d \subseteq Range(acked')
      BY <1>1, <3>1, <3>4 DEF Inv, Holding
    <3> HIDE DEF d
    <3>6. x \in Range(Compact(pending, d))
      BY <2>1, <3>3, <3>5, CompactFacts
    <3> QED BY <2>2, <3>2, <3>6
  <2>10. Exhausted(c) \/ Refused(c) \/ Interrupted(c)
    BY <2>4, <2>5, <2>7, <2>8, <2>9 DEF Enter, Send
  <2>11. lock = c
    BY <2>10 DEF Exhausted, Refused, Interrupted, Sending
  <2>12. call[c].op \in Operations
    BY <1>1, <2>11, ConstantsAssumption DEF Inv, Holding
  <2>13. PICK err \in Error : Abort(c, err)
    BY <2>10, <2>12, ErrorTypes DEF Exhausted, Refused, Interrupted
  <2> QED BY <1>1, <2>1, <2>11, <2>13, AbortReports
<1> QED BY Invariance, <1>1, PTL DEF Spec, LossIsReported, Reported

(* Only its own steps make a call return. *)
LEMMA ReturnsByLeaving ==
  ASSUME Inv, NEW c \in Callers, NEW k \in Callers, Returns(k),
         Begin(c) \/ EndContext(c) \/ Enter(c) \/ Send(c)
  PROVE  /\ c = k
         /\ \/ ExportClosed(c) \/ AnswerClosed(c) \/ DrainCanceled(c)
            \/ DrainNothing(c)
            \/ Delivered(c) /\ ~(Len(drain.groups) > 1)
            \/ Exhausted(c) \/ Refused(c) \/ Interrupted(c)
<1>1. /\ call[k] # Idle /\ call'[k] = Idle
      /\ call \in [Callers -> [op : Operations \cup {"idle"},
                              batch : Seq(Observations)]]
  BY DEF Returns, Inv, TypeOK
<1>2. ~(EndContext(c) \/ Pause(c) \/ Resume(c)
        \/ (Delivered(c) /\ Len(drain.groups) > 1))
  BY <1>1 DEF EndContext, Pause, Resume, Delivered
<1>3. ~Begin(c)
  <2>1. ASSUME Begin(c)
        PROVE  call'[c] # Idle /\ \A e \in Callers \ {c} : call'[e] = call[e]
    <3>1. CASE \E batch \in Batches :
                 call' = [call EXCEPT ![c] = [op |-> "export", batch |-> batch]]
      BY <1>1, <3>1 DEF Idle
    <3>2. CASE \E op \in {"flush", "shutdown"} :
                 call' = [call EXCEPT ![c] = [op |-> op, batch |-> <<>>]]
      BY <1>1, <3>2 DEF Idle
    <3> QED BY <2>1, <3>1, <3>2 DEF Begin
  <2> QED BY <1>1, <2>1
<1>4. ~DrainStarts(c)
  <2> SUFFICES ASSUME DrainStarts(c) PROVE FALSE
    OBVIOUS
  <2>1. call[c].op \in Operations
    BY EntersFacts DEF DrainStarts
  <2> DEFINE e == [call[c] EXCEPT !.batch = <<>>]
  <2>2. call' = [call EXCEPT ![c] = e]
    BY DEF DrainStarts
  <2>3. e.op = call[c].op
    BY <1>1
  <2> HIDE DEF e
  <2>4. c = k
    BY <1>1, <2>2
  <2>5. call'[c] = e
    BY <1>1, <2>2
  <2> QED BY <1>1, <2>1, <2>3, <2>4, <2>5 DEF Idle, Operations
<1>5. \/ ExportClosed(c) \/ AnswerClosed(c) \/ DrainCanceled(c)
      \/ DrainNothing(c)
      \/ Delivered(c) /\ ~(Len(drain.groups) > 1)
      \/ Exhausted(c) \/ Refused(c) \/ Interrupted(c)
  BY <1>2, <1>3, <1>4 DEF Enter, Send
<1>6. call' = [call EXCEPT ![c] = Idle]
  BY <1>5 DEF ExportClosed, AnswerClosed, DrainCanceled, DrainNothing,
     Delivered, Exhausted, Refused, Interrupted, Abort, Finish, Leave
<1>7. c = k
  BY <1>1, <1>6
<1> QED BY <1>5, <1>7

(* Without a batch error nothing was too large. *)
LEMMA NoOversize ==
  ASSUME NEW s \in Seq(Item), BatchErrs(s) = {}
  PROVE  \A x \in Range(s) : x.obs \in Ended => Shippable(x)
<1>1. \A i \in DOMAIN s : ~Oversize(s[i])
  BY DEF BatchErrs
<1>2. Range(s) \subseteq Item
  BY RangeOfSeq
<1>3. \A x \in Range(s) : ~Oversize(x)
  BY <1>1 DEF Range
<1> QED BY <1>2, <1>3, OversizeOrShippable

NilDelivers ==
  \A c \in Callers :
    Returns(c) /\ result' = {}
    => /\ pending' = <<>>
       /\ \A i \in DOMAIN Taken(c) :
            Taken(c)[i].obs \in Ended => Taken(c)[i].tag \in Range(acked')

(* A call that returns nil delivered everything that had ended, what earlier
   calls left pending included; also a Flush or Shutdown after a Shutdown
   (exporter.go, drainLocked and lastShutdownErr). *)
THEOREM NilAlwaysDelivers == Spec => NilMeansDelivered
<1>1. ASSUME Inv, [Next]_vars PROVE NilDelivers
  <2> SUFFICES ASSUME NEW k \in Callers, Returns(k), result' = {}
               PROVE  /\ pending' = <<>>
                      /\ \A x \in Range(Taken(k)) :
                           x.obs \in Ended => x.tag \in Range(acked')
    BY DEF NilDelivers, Range
  <2>1. PICK c \in Callers : Begin(c) \/ EndContext(c) \/ Enter(c) \/ Send(c)
    BY <1>1 DEF Next, vars, Returns
  <2>2. c = k
    BY <1>1, <2>1, ReturnsByLeaving
  <2>3. ~(ExportClosed(c) \/ DrainCanceled(c))
    BY DEF ExportClosed, DrainCanceled, Finish, Leave
  <2>4. ~(Exhausted(c) \/ Refused(c) \/ Interrupted(c))
    BY DEF Exhausted, Refused, Interrupted, Abort, Finish, Leave
  <2>5. Taken(c) \in Seq(Item) /\ (call[c].batch = <<>> => Taken(c) = pending)
    BY <1>1, TakenFacts
  <2>6. CASE AnswerClosed(c)
    <3>1. /\ lastShutdownErr = {} /\ shutdown /\ lock = None
          /\ call[c] # Idle /\ call[c].op # "export" /\ pending' = pending
      BY <2>6 DEF AnswerClosed, Acquires, Leave, queue
    <3>2. pending = <<>> /\ call[c].batch = <<>>
      BY <1>1, <3>1, CallFacts DEF Inv, Emptied
    <3> QED BY <2>2, <2>5, <3>1, <3>2, RangeOfEmpty
  <2>7. CASE DrainNothing(c)
    <3>1. /\ BatchErrs(Taken(c)) = {} /\ pending' = Compact(Taken(c), {})
          /\ Grouped(Taken(c)) = <<>>
      BY <2>7 DEF DrainNothing, Finish, Leave
    <3>2. Compact(Taken(c), {}) = <<>>
      BY <2>5, <3>1, GroupedNothing
    <3>3. \A x \in Range(Taken(c)) : ~Shippable(x)
      BY <2>5, <3>2, CompactFacts, RangeOfEmpty
    <3> QED BY <2>2, <2>5, <3>1, <3>2, <3>3, NoOversize
  <2>8. CASE Delivered(c) /\ ~(Len(drain.groups) > 1)
    <3> DEFINE sent == Head(drain.groups)
               d == drain.delivered \cup Tags(sent)
    <3>1. lock # None /\ lock = c
      BY <2>8, ConstantsAssumption DEF Delivered, Sending
    <3>2. pending' = Compact(pending, d) /\ BatchErrs(pending) = {}
      BY <2>8 DEF Delivered, Finish, Leave
    <3>3. sent \in Seq(Item) /\ acked \in Seq(Nat) /\ pending \in Seq(Item)
      BY <1>1, <3>1, SentFacts DEF Inv, TypeOK
    <3>4. Range(acked') = Range(acked) \cup Tags(sent)
      BY <2>8, <3>3, AckedType DEF Delivered
    <3>5. d \subseteq Range(acked')
      BY <1>1, <3>1, <3>4 DEF Inv, Holding
    <3>6. Compact(pending, d) = <<>>
      BY <1>1, <2>8, <3>1, LastGroup
    <3> HIDE DEF d
    <3>7. \A x \in Range(pending) : Shippable(x) => x.tag \in d
      BY <3>3, <3>6, CompactFacts, RangeOfEmpty
    <3>8. Taken(c) = pending
      BY <1>1, <2>5, <3>1 DEF Inv, Holding
    <3> QED BY <2>2, <3>2, <3>3, <3>5, <3>6, <3>7, <3>8, NoOversize
  <2>9. \/ ExportClosed(c) \/ AnswerClosed(c) \/ DrainCanceled(c)
        \/ DrainNothing(c)
        \/ Delivered(c) /\ ~(Len(drain.groups) > 1)
        \/ Exhausted(c) \/ Refused(c) \/ Interrupted(c)
    BY <1>1, <2>1, ReturnsByLeaving
  <2> QED BY <2>3, <2>4, <2>6, <2>7, <2>8, <2>9
<1> QED BY Invariance, <1>1, PTL DEF Spec, NilMeansDelivered, NilDelivers

-----------------------------------------------------------------------------
(* The refinement *)

LEMMA WaitingIs ==
  ASSUME Inv
  PROVE  Waiting = Tags(Compact(pending, drain.delivered))
<1>1. pending \in Seq(Item)
  BY DEF Inv, TypeOK
<1>2. Range(Compact(pending, drain.delivered))
      = {x \in Range(pending) : Shippable(x) /\ x.tag \notin drain.delivered}
  BY <1>1, CompactFacts
<1> DEFINE T == {pending[i].tag :
                   i \in {j \in DOMAIN pending : Shippable(pending[j])}}
<1>3. T = {x.tag : x \in {y \in Range(pending) : Shippable(y)}}
  BY DEF Range
<1>4. Waiting = T \ drain.delivered
  BY DEF Waiting
<1> HIDE DEF T
<1>5. Tags(Compact(pending, drain.delivered))
      = {x.tag : x \in Range(Compact(pending, drain.delivered))}
  BY TagsOfRange
<1> QED BY <1>2, <1>3, <1>4, <1>5

WaitingIsUndelivered == Waiting = Tags(Compact(pending, drain.delivered))

LEMMA WaitingNext ==
  Inv' => Waiting' = Tags(Compact(pending, drain.delivered))'
<1>1. Inv => WaitingIsUndelivered
  BY WaitingIs DEF WaitingIsUndelivered
<1>2. Inv' => WaitingIsUndelivered'
  BY <1>1, PTL
<1> QED BY <1>2 DEF WaitingIsUndelivered

(* A request carries the first of what waits. *)
LEMMA RequestIsFirst ==
  ASSUME Inv, lock # None
  PROVE  /\ Queue!FirstOfWaiting(Tags(Head(drain.groups)))
         /\ Tags(Head(drain.groups)) \in SUBSET Waiting
<1> DEFINE h == Head(drain.groups)
           r == FlattenSeq(Tail(drain.groups))
<1>1. /\ h \in Seq(Item) /\ Tail(drain.groups) \in Seq(Seq(Item))
      /\ FlattenSeq(drain.groups) = h \o r
      /\ pending \in Seq(Item) /\ Ascending(pending)
      /\ FlattenSeq(drain.groups) = Compact(pending, drain.delivered)
  BY SentFacts DEF Inv, TypeOK, InOrder, DrainMatchesQueue
<1>2. r \in Seq(Item)
  BY <1>1, FlattenType
<1>3. h # <<>>
  <2>1. /\ drain.groups \in Seq(Seq(Item)) /\ drain.groups # <<>>
        /\ \A i \in DOMAIN drain.groups : Len(drain.groups[i]) \in 1..BatchSize
    BY DEF Inv, TypeOK, Holding, WithinLimits
  <2>2. DOMAIN drain.groups = 1..Len(drain.groups) /\ 1 \in 1..Len(drain.groups)
    BY <2>1, LenProperties, EmptySeq
  <2>3. Len(drain.groups[1]) \in 1..BatchSize
    BY <2>1, <2>2
  <2>4. drain.groups[1] = h
    BY <2>1
  <2> HIDE DEF h
  <2> QED BY <2>3, <2>4, EmptySeq, ConstantsAssumption
<1> HIDE DEF h, r
<1>4. /\ Range(h \o r) = Range(h) \cup Range(r)
      /\ Waiting = Tags(h \o r)
      /\ Ascending(h \o r)
  <2>1. Range(h \o r) = Range(h) \cup Range(r)
    BY <1>1, <1>2, RangeConcatenation
  <2>2. Ascending(Compact(pending, drain.delivered))
    BY <1>1, CompactFacts
  <2>3. Waiting = Tags(Compact(pending, drain.delivered))
    BY WaitingIs
  <2> QED BY <1>1, <2>1, <2>2, <2>3
<1>5. \A y \in Range(h), z \in Range(r) : y.tag < z.tag
  BY <1>1, <1>2, <1>4, AscendingConcat
<1>6. Waiting = Tags(h) \cup Tags(r)
  BY <1>4, TagsOfRange
<1>7. \A y \in Tags(h), z \in Tags(r) : y < z
  BY <1>5, TagsOfRange
<1>8. Tags(h) # {}
  <2>1. Range(h) # {}
    BY <1>1, <1>3, EmptyRange
  <2> QED BY <2>1, TagsOfRange
<1> QED BY <1>6, <1>7, <1>8 DEF h, Queue!FirstOfWaiting

LEMMA QueueInit == Init => Queue!Init
<1> SUFFICES ASSUME Init PROVE Queue!Init
  OBVIOUS
<1>1. Waiting = {}
  BY DEF Init, Waiting
<1>2. Range(acked) = {}
  BY RangeOfEmpty DEF Init
<1> QED BY <1>1, <1>2 DEF Init, Queue!Init

(* An entering call: what it takes in is numbered on from accepted. *)
LEMMA EnterAccepts ==
  ASSUME Inv, NEW c \in Callers, Enters(c),
         Range(acked)' = Range(acked), received' = received,
         Waiting' = Tags(Compact(Taken(c), {}))
  PROVE  Queue!Accept
<1>1. /\ accepted \in Nat /\ accepted' = accepted + Len(call[c].batch)
      /\ Len(call[c].batch) \in Nat /\ accepted' \in Nat
  BY EntersFacts, TakenFacts DEF Inv, TypeOK
<1>2. drain.delivered = {} /\ pending \in Seq(Item)
  BY DEF Enters, Acquires, Inv, Holding, NoDrain, TypeOK
<1>3. /\ Taken(c) \in Seq(Item) /\ Range(pending) \subseteq Range(Taken(c))
      /\ \A x \in Range(Taken(c)) : x \in Range(pending) \/ x.tag > accepted
      /\ \A x \in Range(Taken(c)) : x.tag \in 1..accepted'
  BY TakenFacts, EntersFacts
<1>4. Waiting = Tags(Compact(pending, {}))
  BY <1>2, WaitingIs
<1> DEFINE old == Range(Compact(pending, {}))
           new == Range(Compact(Taken(c), {}))
<1>5. /\ Waiting = {x.tag : x \in old}
      /\ Waiting' = {x.tag : x \in new}
  BY <1>4, TagsOfRange
<1>6. /\ old = {x \in Range(pending) : Shippable(x)}
      /\ new = {x \in Range(Taken(c)) : Shippable(x)}
  BY <1>2, <1>3, CompactFacts
<1> HIDE DEF old, new
<1>7. Waiting \subseteq Waiting'
  BY <1>3, <1>5, <1>6
<1>8. Waiting' \ Waiting \subseteq accepted + 1 .. accepted'
  <2> SUFFICES ASSUME NEW x \in new, x.tag \notin Waiting
               PROVE  x.tag \in accepted + 1 .. accepted'
    BY <1>5
  <2>1. x \notin Range(pending)
    BY <1>5, <1>6
  <2>2. x.tag > accepted /\ x.tag \in 1..accepted'
    BY <1>3, <1>6, <2>1
  <2> QED BY <1>1, <2>2
<1>9. accepted' >= accepted
  BY <1>1
<1> QED BY <1>1, <1>7, <1>8, <1>9 DEF Queue!Accept

(* What compactPending leaves stays what it is when compacted again. *)
LEMMA CompactTwice ==
  ASSUME NEW s \in Seq(Item), NEW d
  PROVE  Tags(Compact(Compact(s, d), {})) = Tags(Compact(s, d))
<1>1. Compact(s, d) \in Seq(Item)
  BY CompactFacts
<1>2. \A x \in Range(Compact(s, d)) : Shippable(x)
  BY CompactFacts
<1>3. Range(Compact(Compact(s, d), {})) = Range(Compact(s, d))
  BY <1>1, <1>2, CompactFacts
<1> QED BY <1>3, TagsOfRange

(* Once the mutex is given back, all that can be sent waits. *)
LEMMA WaitingAfter ==
  ASSUME Inv', NEW rest, pending' = rest, drain' = NoDrain
  PROVE  Waiting' = Tags(Compact(rest, {}))
<1>1. Waiting' = Tags(Compact(pending, drain.delivered))'
  BY WaitingNext
<1>2. Tags(Compact(pending, drain.delivered))' = Tags(Compact(rest, {}))
  BY DEF Tags, Compact, NoDrain
<1> QED BY <1>1, <1>2

LEMMA EnterRefines ==
  ASSUME Inv, Inv', NEW c \in Callers,
         DrainCanceled(c) \/ DrainNothing(c) \/ DrainStarts(c)
  PROVE  Queue!Accept
<1>1. Enters(c) /\ Range(acked)' = Range(acked) /\ received' = received
  BY DEF DrainCanceled, DrainNothing, DrainStarts
<1>2. Taken(c) \in Seq(Item)
  BY TakenFacts
<1>3. Waiting' = Tags(Compact(Taken(c), {}))
  <2>1. CASE DrainCanceled(c)
    <3>1. pending' = Taken(c) /\ drain' = NoDrain
      BY <2>1 DEF DrainCanceled, Finish, Leave
    <3> QED BY <3>1, WaitingAfter
  <2>2. CASE DrainNothing(c)
    <3>1. pending' = Compact(Taken(c), {}) /\ drain' = NoDrain
      BY <2>2 DEF DrainNothing, Finish, Leave
    <3>2. Waiting' = Tags(Compact(Compact(Taken(c), {}), {}))
      BY <3>1, WaitingAfter
    <3> QED BY <1>2, <3>2, CompactTwice
  <2>3. CASE DrainStarts(c)
    <3>1. pending' = Taken(c) /\ drain'.delivered = {}
      BY <2>3 DEF DrainStarts, NoDrain
    <3>2. Waiting' = Tags(Compact(pending, drain.delivered))'
      BY WaitingNext
    <3>3. Tags(Compact(pending, drain.delivered))' = Tags(Compact(Taken(c), {}))
      BY <3>1 DEF Tags, Compact
    <3> QED BY <3>2, <3>3
  <2> QED BY <2>1, <2>2, <2>3
<1> QED BY <1>1, <1>3, EnterAccepts

LEMMA DeliveredRefines ==
  ASSUME Inv, Inv', NEW c \in Callers, Delivered(c)
  PROVE  \E request \in SUBSET Waiting : Queue!Acknowledge(request)
<1> DEFINE h == Head(drain.groups)
           d == drain.delivered \cup Tags(h)
           request == Tags(h)
<1>1. lock # None /\ accepted' = accepted /\ received' = received \cup Tags(h)
      /\ acked' = acked \o [i \in DOMAIN h |-> h[i].tag]
  BY ConstantsAssumption DEF Delivered, Sending
<1>2. h \in Seq(Item) /\ acked \in Seq(Nat) /\ pending \in Seq(Item)
  BY <1>1, SentFacts DEF Inv, TypeOK
<1>3. Range(acked') = Range(acked) \cup Tags(h)
  BY <1>1, <1>2, AckedType
<1>4. Queue!FirstOfWaiting(request) /\ request \in SUBSET Waiting
  BY <1>1, RequestIsFirst
<1>5. Waiting = Tags(Compact(pending, drain.delivered))
  BY WaitingIs
<1>6. Waiting' = Tags(Compact(pending, d))
  <2>1. CASE Len(drain.groups) > 1
    <3>1. pending' = pending /\ drain'.delivered = d
      <4>1. drain' = [drain EXCEPT !.groups = Tail(@), !.attempt = 1,
                                   !.delivered = d] /\ pending' = pending
        BY <2>1 DEF Delivered
      <4>2. drain \in [groups : Seq(Seq(Item)), delivered : SUBSET Nat,
                       attempt : 0..(MaxRetries + 1), paused : BOOLEAN]
        BY DEF Inv, TypeOK
      <4> HIDE DEF d
      <4> QED BY <4>1, <4>2
    <3>2. Waiting' = Tags(Compact(pending, drain.delivered))'
      BY WaitingNext
    <3> HIDE DEF d
    <3>3. Tags(Compact(pending, drain.delivered))' = Tags(Compact(pending, d))
      BY <3>1 DEF Tags, Compact
    <3> QED BY <3>2, <3>3
  <2>2. CASE ~(Len(drain.groups) > 1)
    <3> DEFINE rest == Compact(pending, d)
    <3>1. pending' = rest /\ drain' = NoDrain
      BY <2>2 DEF Delivered, Finish, Leave
    <3>2. Waiting' = Tags(Compact(rest, {}))
      <4> HIDE DEF rest
      <4> QED BY <3>1, WaitingAfter
    <3> QED BY <1>2, <3>2, CompactTwice
  <2> QED BY <2>1, <2>2
<1>7. Waiting' = Waiting \ request
  <2> DEFINE left == Range(Compact(pending, drain.delivered))
             kept == Range(Compact(pending, d))
  <2>1. /\ left = {x \in Range(pending) :
                    Shippable(x) /\ x.tag \notin drain.delivered}
        /\ kept = {x \in Range(pending) : Shippable(x) /\ x.tag \notin d}
    BY <1>2, CompactFacts
  <2>2. Waiting = {x.tag : x \in left} /\ Waiting' = {x.tag : x \in kept}
    BY <1>5, <1>6, TagsOfRange
  <2> HIDE DEF left, kept
  <2>3. kept = {x \in left : x.tag \notin request}
    BY <2>1
  <2> HIDE DEF request, d
  <2> QED BY <2>2, <2>3
<1>8. Queue!Acknowledge(request)
  BY <1>1, <1>3, <1>4, <1>7 DEF Queue!Acknowledge
<1> QED BY <1>4, <1>8

LEMMA PauseRefines ==
  ASSUME Inv, NEW c \in Callers, Pause(c)
  PROVE  \/ UNCHANGED Queue!vars
         \/ \E request \in SUBSET Waiting : Queue!Arrive(request)
<1> DEFINE request == Tags(Head(drain.groups))
<1>1. /\ UNCHANGED <<pending, accepted, acked>> /\ lock # None
      /\ drain' = [drain EXCEPT !.paused = TRUE]
      /\ received' = received \/ received' = received \cup request
  BY ConstantsAssumption DEF Pause, Sending, Attempted
<1>2. drain'.delivered = drain.delivered
  BY <1>1 DEF Inv, TypeOK
<1>3. Waiting' = Waiting /\ Range(acked)' = Range(acked)
  BY <1>1, <1>2 DEF Waiting, Shippable, Bytes
<1>4. Queue!FirstOfWaiting(request) /\ request \in SUBSET Waiting
  BY <1>1, RequestIsFirst
<1> HIDE DEF request
<1>5. CASE received' = received
  BY <1>1, <1>3, <1>5 DEF Queue!vars
<1>6. CASE received' = received \cup request
  <2>1. Queue!Arrive(request)
    BY <1>1, <1>3, <1>4, <1>6 DEF Queue!Arrive
  <2> QED BY <1>4, <2>1
<1> QED BY <1>1, <1>5, <1>6

LEMMA AbortRefines ==
  ASSUME Inv, Inv', NEW c \in Callers, lock = c, NEW err, Abort(c, err)
  PROVE  \/ UNCHANGED Queue!vars
         \/ \E request \in SUBSET Waiting :
              Queue!Arrive(request) \/ Queue!GiveUp(request)
<1> DEFINE request == Tags(Head(drain.groups))
           rest == Kept(err)
<1>1. /\ pending' = rest /\ drain' = NoDrain
      /\ accepted' = accepted /\ acked' = acked /\ lock # None
      /\ received' = received \/ received' = received \cup request
  BY ConstantsAssumption DEF Abort, Finish, Leave, Attempted
<1>2. Queue!FirstOfWaiting(request) /\ request \in SUBSET Waiting
  BY <1>1, RequestIsFirst
<1>3. Range(acked)' = Range(acked)
  BY <1>1
<1>4. Waiting' = Tags(Compact(rest, {}))
  <2> HIDE DEF rest
  <2> QED BY <1>1, WaitingAfter
<1>5. CASE err.retryable
  <2>1. Waiting' = Waiting
    <3>1. rest = Compact(pending, drain.delivered)
      BY <1>5 DEF Kept
    <3>2. pending \in Seq(Item)
      BY DEF Inv, TypeOK
    <3> QED BY <1>4, <3>1, <3>2, CompactTwice, WaitingIs
  <2> HIDE DEF request
  <2>2. CASE received' = received
    BY <1>1, <1>3, <2>1, <2>2 DEF Queue!vars
  <2>3. CASE received' = received \cup request
    <3>1. Queue!Arrive(request)
      BY <1>1, <1>2, <1>3, <2>1, <2>3 DEF Queue!Arrive
    <3> QED BY <1>2, <3>1
  <2> QED BY <1>1, <2>2, <2>3
<1>6. CASE ~err.retryable
  <2>1. Waiting' = {}
    <3>1. rest = <<>>
      BY <1>6 DEF Kept
    <3>2. Range(Compact(<<>>, {})) = {}
      BY EmptySeq, CompactFacts, RangeOfEmpty
    <3> QED BY <1>4, <3>1, <3>2, TagsOfRange
  <2> HIDE DEF request
  <2>2. CASE received' = received
    <3>1. Queue!GiveUp({})
      BY <1>1, <1>3, <2>1, <2>2 DEF Queue!GiveUp
    <3> QED BY <3>1
  <2>3. CASE received' = received \cup request
    <3>1. Queue!GiveUp(request)
      BY <1>1, <1>2, <1>3, <2>1, <2>3 DEF Queue!GiveUp
    <3> QED BY <1>2, <3>1
  <2> QED BY <1>1, <2>2, <2>3
<1> QED BY <1>5, <1>6

LEMMA QuietRefines ==
  ASSUME Inv, NEW c \in Callers,
         Begin(c) \/ EndContext(c) \/ ExportClosed(c) \/ AnswerClosed(c)
         \/ Resume(c)
  PROVE  UNCHANGED Queue!vars
<1>1. UNCHANGED <<pending, accepted, acked, received>>
  BY DEF Begin, EndContext, ExportClosed, AnswerClosed, Resume, queue
<1>2. drain'.delivered = drain.delivered
  <2>1. CASE Begin(c) \/ EndContext(c)
    BY <2>1 DEF Begin, EndContext
  <2>2. CASE ExportClosed(c) \/ AnswerClosed(c)
    <3>1. drain = NoDrain
      BY <2>2 DEF ExportClosed, AnswerClosed, Acquires, Inv, Holding
    <3>2. drain' = NoDrain
      BY <2>2 DEF ExportClosed, AnswerClosed, Leave
    <3> QED BY <3>1, <3>2
  <2>3. CASE Resume(c)
    BY <2>3 DEF Resume, Inv, TypeOK
  <2> QED BY <2>1, <2>2, <2>3
<1>3. Waiting' = Waiting /\ Range(acked)' = Range(acked)
  BY <1>1, <1>2 DEF Waiting, Shippable, Bytes
<1> QED BY <1>1, <1>3 DEF Queue!vars

LEMMA StepRefines ==
  ASSUME Inv, Inv', [Next]_vars PROVE [Queue!Next]_(Queue!vars)
<1>1. CASE UNCHANGED vars
  <2>1. Waiting' = Waiting /\ Range(acked)' = Range(acked)
    BY <1>1 DEF vars, queue, Waiting, Shippable, Bytes
  <2> QED BY <1>1, <2>1 DEF vars, queue, Queue!vars
<1>2. CASE Next
  <2>1. PICK c \in Callers : Begin(c) \/ EndContext(c) \/ Enter(c) \/ Send(c)
    BY <1>2 DEF Next
  <2>2. CASE Begin(c) \/ EndContext(c) \/ ExportClosed(c) \/ AnswerClosed(c)
             \/ Resume(c)
    BY <2>2, QuietRefines
  <2>3. CASE DrainCanceled(c) \/ DrainNothing(c) \/ DrainStarts(c)
    BY <2>3, EnterRefines DEF Queue!Next
  <2>4. CASE Delivered(c)
    BY <2>4, DeliveredRefines DEF Queue!Next
  <2>5. CASE Pause(c)
    BY <2>5, PauseRefines DEF Queue!Next
  <2>6. CASE Exhausted(c) \/ Refused(c) \/ Interrupted(c)
    <3>1. lock = c
      BY <2>6 DEF Exhausted, Refused, Interrupted, Sending
    <3>2. PICK err : Abort(c, err)
      BY <2>6 DEF Exhausted, Refused, Interrupted
    <3> QED BY <3>1, <3>2, AbortRefines DEF Queue!Next
  <2> QED BY <2>1, <2>2, <2>3, <2>4, <2>5, <2>6 DEF Enter, Send
<1> QED BY <1>1, <1>2

(* Whatever the network does, observations reach the intake in the order of
   acceptance, at least once if they are acknowledged and never again
   afterwards (exporter.go, drainLocked): every step of the exporter is a step
   of DeliveryQueue or leaves what it speaks of unchanged. *)
THEOREM DeliversInOrder == Spec => ImplementsQueue
<1>1. Inv /\ Inv' /\ [Next]_vars => [Queue!Next]_(Queue!vars)
  BY StepRefines
<1> QED BY QueueInit, Invariance, <1>1, PTL
        DEF Spec, ImplementsQueue, Queue!Spec

=============================================================================
