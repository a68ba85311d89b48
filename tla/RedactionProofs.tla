-------------------------- MODULE RedactionProofs --------------------------
(***************************************************************************)
(* What the functions of Redaction return, for every string, every map of  *)
(* fields, every key and every option.                                     *)
(***************************************************************************)
EXTENDS Redaction, InductionLemmas, FiniteSetTheorems

-----------------------------------------------------------------------------
(* Bytes: the recursion unrolled, then the prefixes of a string. *)

BytesUnrolled(f, runes) ==
  /\ f \in [0..Len(runes) -> Nat]
  /\ f[0] = 0
  /\ \A i \in 1..Len(runes) : f[i] = f[i - 1] + runes[i]
  /\ f[Len(runes)] = Bytes(runes)

LEMMA BytesSteps ==
  ASSUME NEW runes \in Runes
  PROVE  \E f : BytesUnrolled(f, runes)
<1> DEFINE n == Len(runes)
           step == [p \in (1..n) \X Nat |-> p[2] + runes[p[1]]]
<1>1. n \in Nat
  BY LenProperties DEF Runes
<1>2. \A i \in 1..n : runes[i] \in Nat
  BY ElementOfSeq DEF Runes
<1>3. step \in Steps(n, Nat)
  <2> HIDE DEF n
  <2> QED BY <1>2 DEF Steps
<1>4. PICK f : Unrolls(f, Nat, 0, n, step)
  <2> HIDE DEF step, n
  <2> QED BY <1>1, <1>3, RecursionExists
<1>5. f \in [0..n -> Nat] /\ f[0] = 0
  BY <1>4 DEF Unrolls
<1>6. ASSUME NEW i \in 1..n PROVE f[i] = f[i - 1] + runes[i]
  <2>1. i - 1 \in 0..n
    BY <1>1
  <2>2. f[i] = step[<<i, f[i - 1]>>]
    BY <1>4 DEF Unrolls
  <2>3. <<i, f[i - 1]>> \in (1..n) \X Nat
    BY <1>5, <2>1
  <2> HIDE DEF n
  <2> QED BY <2>2, <2>3
<1> DEFINE E(g) == [i \in 0..n |-> IF i = 0 THEN 0 ELSE g[i - 1] + runes[i]]
           g == CHOOSE gg : gg = E(gg)
<1>7. f = E(f)
  <2>1. ASSUME NEW k \in 0..n
        PROVE  f[k] = IF k = 0 THEN 0 ELSE f[k - 1] + runes[k]
    <3>1. k = 0 \/ k \in 1..n
      BY <1>1
    <3> QED BY <1>5, <1>6, <3>1
  <2>2. f = [k \in 0..n |-> f[k]]
    BY <1>5
  <2> QED BY <2>1, <2>2
<1>8. g = E(g)
  <2> HIDE DEF E
  <2> QED BY <1>7
<1>9. Bytes(runes) = g[n]
  BY DEF Bytes
<1>10. g[n] = f[n]
  <2> HIDE DEF g
  <2>1. g[0] = f[0]
    BY <1>1, <1>5, <1>8
  <2>2. ASSUME NEW i \in 1..n, g[i - 1] = f[i - 1] PROVE g[i] = f[i]
    <3>1. i \in 0..n /\ i # 0
      BY <1>1
    <3>2. g[i] = g[i - 1] + runes[i]
      BY <1>8, <3>1
    <3> QED BY <1>6, <2>2, <3>2
  <2> HIDE DEF n
  <2> QED BY <1>1, <2>1, <2>2, SameRecursion
<1> HIDE DEF g
<1>11. BytesUnrolled(f, runes)
  BY <1>5, <1>6, <1>9, <1>10 DEF BytesUnrolled
<1> QED BY <1>11

LEMMA BytesType ==
  ASSUME NEW runes \in Runes
  PROVE  Bytes(runes) \in Nat
<1>1. PICK f : BytesUnrolled(f, runes)
  BY BytesSteps
<1>2. Len(runes) \in 0..Len(runes)
  BY LenProperties DEF Runes
<1> QED BY <1>1, <1>2 DEF BytesUnrolled

Cut(runes, m) == SubSeq(runes, 1, m)

LEMMA CutFacts ==
  ASSUME NEW runes \in Runes, NEW m \in 0..Len(runes)
  PROVE  /\ Cut(runes, m) \in Runes
         /\ Len(Cut(runes, m)) = m
         /\ \A i \in 1..m : Cut(runes, m)[i] = runes[i]
         /\ Len(runes) \in Nat
         /\ Cut(runes, Len(runes)) = runes
<1>1. Len(runes) \in Nat /\ runes \in Seq(1..4)
  BY LenProperties DEF Runes
<1>2. \A i \in 1..m : runes[i] \in 1..4
  BY <1>1, ElementOfSeq
<1>3. Cut(runes, m) \in Seq(1..4) /\ Len(Cut(runes, m)) = m
  BY <1>1, <1>2, SubSeqProperties DEF Cut
<1>4. \A i \in 1..m : Cut(runes, m)[i] = runes[i]
  BY <1>1, SubSeqProperties DEF Cut
<1>5. Cut(runes, Len(runes)) = runes
  BY <1>1 DEF Cut
<1> QED BY <1>1, <1>3, <1>4, <1>5 DEF Runes

(* The bytes of the prefixes are the partial sums of the whole. *)
LEMMA CutBytes ==
  ASSUME NEW runes \in Runes, NEW f, BytesUnrolled(f, runes),
         NEW m \in 0..Len(runes)
  PROVE  Bytes(Cut(runes, m)) = f[m]
<1>1. /\ Cut(runes, m) \in Runes /\ Len(Cut(runes, m)) = m
      /\ \A i \in 1..m : Cut(runes, m)[i] = runes[i]
      /\ Len(runes) \in Nat
  BY CutFacts
<1>2. PICK g : BytesUnrolled(g, Cut(runes, m))
  BY <1>1, BytesSteps
<1>3. g[0] = f[0]
  BY <1>2 DEF BytesUnrolled
<1>4. ASSUME NEW i \in 1..m, g[i - 1] = f[i - 1] PROVE g[i] = f[i]
  <2>1. i \in 1..Len(runes)
    BY <1>1
  <2>2. f[i] = f[i - 1] + runes[i]
    BY <2>1 DEF BytesUnrolled
  <2>3. g[i] = g[i - 1] + runes[i]
    BY <1>1, <1>2 DEF BytesUnrolled
  <2> QED BY <1>4, <2>2, <2>3
<1>5. g[m] = f[m]
  BY <1>1, <1>3, <1>4, SameRecursion
<1> QED BY <1>1, <1>2, <1>5 DEF BytesUnrolled

(* A longer prefix has more bytes. *)
LEMMA CutGrows ==
  ASSUME NEW runes \in Runes, NEW m \in 0..Len(runes), NEW k \in 0..m
  PROVE  /\ Bytes(Cut(runes, k)) \in Nat /\ Bytes(Cut(runes, m)) \in Nat
         /\ Bytes(Cut(runes, k)) <= Bytes(Cut(runes, m))
         /\ k < m => Bytes(Cut(runes, k)) < Bytes(Cut(runes, m))
<1>1. PICK f : BytesUnrolled(f, runes)
  BY BytesSteps
<1>2. Len(runes) \in Nat
  BY CutFacts
<1>3. ASSUME NEW i \in 1..Len(runes)
      PROVE  f[i - 1] \in Nat /\ f[i] \in Nat /\ f[i - 1] < f[i]
  <2>1. i - 1 \in 0..Len(runes) /\ i \in 0..Len(runes)
    BY <1>2
  <2>2. f[i - 1] \in Nat /\ f[i] \in Nat /\ f[i] = f[i - 1] + runes[i]
    BY <1>1, <2>1 DEF BytesUnrolled
  <2>3. runes[i] \in 1..4
    BY ElementOfSeq DEF Runes
  <2> QED BY <2>2, <2>3
<1> DEFINE S == {i \in 0..m : k <= i => f[k] <= f[i] /\ (k < i => f[k] < f[i])}
<1>4. f[k] \in Nat /\ f[m] \in Nat
  BY <1>1, <1>2 DEF BytesUnrolled
<1>5. 0 \in S
  BY <1>4
<1>6. ASSUME NEW i \in 1..m, i - 1 \in S PROVE i \in S
  <2>1. f[i - 1] \in Nat /\ f[i] \in Nat /\ f[i - 1] < f[i]
    BY <1>2, <1>3
  <2>2. k <= i - 1 => f[k] <= f[i - 1]
    BY <1>6
  <2> QED BY <1>4, <2>1, <2>2
<1>7. 0..m \subseteq S
  <2> HIDE DEF S
  <2> QED BY <1>5, <1>6, BoundedInduction
<1>8. f[k] <= f[m] /\ (k < m => f[k] < f[m])
  <2>1. m \in S
    BY <1>7
  <2> QED BY <2>1
<1>9. Bytes(Cut(runes, k)) = f[k] /\ Bytes(Cut(runes, m)) = f[m]
  BY <1>1, <1>2, CutBytes
<1> QED BY <1>4, <1>8, <1>9

-----------------------------------------------------------------------------
(* TruncateUTF8 *)

LEMMA NatMaximum ==
  ASSUME NEW n \in Nat, NEW T, T \subseteq 0..n, T # {}
  PROVE  \E x \in T : \A y \in T : y <= x
<1> DEFINE U == {y \in 0..n : n - y \in T}
<1>1. \A y \in T : y \in 0..n /\ n - y \in 0..n /\ n - (n - y) = y
  OBVIOUS
<1>2. U # {} /\ U \subseteq Nat
  <2>1. PICK y \in T : TRUE
    OBVIOUS
  <2>2. n - y \in U
    BY <1>1, <2>1
  <2>3. 0..n \subseteq Nat /\ U \subseteq 0..n
    OBVIOUS
  <2> HIDE DEF U
  <2> QED BY <2>2, <2>3
<1> HIDE DEF U
<1>3. PICK u \in U : \A y \in U : u <= y
  BY <1>2, NatMinimum
<1>4. n - u \in T /\ u \in 0..n
  BY <1>3 DEF U
<1>5. ASSUME NEW y \in T PROVE y <= n - u
  <2>1. n - y \in U
    BY <1>1 DEF U
  <2>2. u <= n - y /\ y \in 0..n
    BY <1>1, <1>3, <2>1
  <2> QED BY <1>4, <2>2
<1> QED BY <1>4, <1>5

(* The result is the longest prefix that fits the limit. *)
LongestCut(runes, limit, m) ==
  /\ m \in 0..Len(runes)
  /\ Bytes(Cut(runes, m)) <= limit
  /\ \A l \in 0..Len(runes) : Bytes(Cut(runes, l)) <= limit => l <= m

LEMMA TruncateFacts ==
  ASSUME NEW runes \in Runes, NEW limit \in Nat \ {0}
  PROVE  \E m : /\ LongestCut(runes, limit, m)
                /\ TruncateUTF8(runes, limit) = Cut(runes, m)
<1> DEFINE n == Len(runes)
<1>1. n \in Nat /\ DOMAIN runes = 1..n /\ Cut(runes, n) = runes
  BY CutFacts, LenProperties DEF Runes
<1>2. CASE Bytes(runes) <= limit
  <2>1. TruncateUTF8(runes, limit) = Cut(runes, n)
    BY <1>1, <1>2 DEF TruncateUTF8
  <2>2. LongestCut(runes, limit, n)
    BY <1>1, <1>2 DEF LongestCut
  <2> QED BY <2>1, <2>2
<1>3. CASE ~(Bytes(runes) <= limit)
  <2> DEFINE T == {l \in 0..n : Bytes(Cut(runes, l)) <= limit}
  <2>1. 0 \in T
    <3>1. PICK f : BytesUnrolled(f, runes)
      BY BytesSteps
    <3>2. Bytes(Cut(runes, 0)) = 0
      BY <1>1, <3>1, CutBytes DEF BytesUnrolled
    <3> QED BY <1>1, <3>2
  <2>2. PICK m \in T : \A l \in T : l <= m
    <3> HIDE DEF T
    <3>1. T \subseteq 0..n
      BY DEF T
    <3> QED BY <1>1, <2>1, <3>1, NatMaximum
  <2>3. LongestCut(runes, limit, m)
    BY <2>2 DEF LongestCut
  <2>4. m # n
    BY <1>1, <1>3, <2>2
  <2> DEFINE start(i) == Bytes(SubSeq(runes, 1, i - 1))
             P(i) == /\ i \in DOMAIN runes
                     /\ start(i) <= limit
                     /\ \A j \in DOMAIN runes : start(j) <= limit => j <= i
  <2>5. P(m + 1)
    <3>1. m + 1 \in DOMAIN runes /\ (m + 1) - 1 = m
      <4>1. m \in 0..n
        OBVIOUS
      <4> HIDE DEF P, T, start, n
      <4> QED BY <1>1, <2>4, <4>1
    <3>2. start(m + 1) <= limit
      BY <2>2, <3>1 DEF Cut
    <3>3. ASSUME NEW j \in DOMAIN runes, start(j) <= limit PROVE j <= m + 1
      <4>1. j - 1 \in 0..n /\ Bytes(Cut(runes, j - 1)) <= limit
        BY <1>1, <3>3 DEF Cut
      <4>2. j - 1 <= m
        BY <2>2, <4>1
      <4> QED BY <1>1, <2>2, <4>2
    <3> QED BY <3>1, <3>2, <3>3
  <2>6. \A i : P(i) => i = m + 1
    BY <1>1, <2>2, <2>5
  <2>7. LastStart(runes, limit) = m + 1
    <3>1. LastStart(runes, limit) = CHOOSE i \in DOMAIN runes : P(i)
      BY DEF LastStart
    <3> HIDE DEF P
    <3>2. m + 1 \in DOMAIN runes
      BY <2>5 DEF P
    <3> QED BY <2>5, <2>6, <3>1, <3>2
  <2>8. TruncateUTF8(runes, limit) = Cut(runes, m)
    <3>1. TruncateUTF8(runes, limit)
          = SubSeq(runes, 1, LastStart(runes, limit) - 1)
      <4>1. ~(limit <= 0)
        OBVIOUS
      <4> HIDE DEF P, T, start, n
      <4> QED BY <1>3, <4>1 DEF TruncateUTF8
    <3>2. (m + 1) - 1 = m
      BY <2>2
    <3> QED BY <2>7, <3>1, <3>2 DEF Cut
  <2> QED BY <2>3, <2>8
<1> QED BY <1>2, <1>3

LEMMA TruncateType ==
  ASSUME NEW runes \in Runes, NEW limit \in Nat \ {0}
  PROVE  /\ TruncateUTF8(runes, limit) \in Runes
         /\ Bytes(runes) \in Nat
         /\ Bytes(TruncateUTF8(runes, limit)) \in Nat
         /\ Bytes(TruncateUTF8(runes, limit)) <= limit
         /\ Bytes(TruncateUTF8(runes, limit)) <= Bytes(runes)
         /\ Bytes(TruncateUTF8(runes, limit)) = Bytes(runes) =>
              TruncateUTF8(runes, limit) = runes
<1>1. PICK m : /\ LongestCut(runes, limit, m)
               /\ TruncateUTF8(runes, limit) = Cut(runes, m)
  BY TruncateFacts
<1>2. m \in 0..Len(runes) /\ Bytes(Cut(runes, m)) <= limit
  BY <1>1 DEF LongestCut
<1>3. Len(runes) \in 0..Len(runes) /\ m \in 0..Len(runes)
      /\ Cut(runes, Len(runes)) = runes /\ Cut(runes, m) \in Runes
      /\ Len(runes) \in Nat
  BY <1>2, CutFacts
<1>4. /\ Bytes(Cut(runes, m)) \in Nat /\ Bytes(runes) \in Nat
      /\ Bytes(Cut(runes, m)) <= Bytes(runes)
      /\ m < Len(runes) => Bytes(Cut(runes, m)) < Bytes(runes)
  BY <1>2, <1>3, CutGrows
<1>5. Bytes(Cut(runes, m)) = Bytes(runes) => m = Len(runes)
  BY <1>2, <1>3, <1>4
<1> QED BY <1>1, <1>2, <1>3, <1>4, <1>5

(* What fits is left alone. *)
LEMMA TruncateFits ==
  ASSUME NEW runes \in Runes, NEW limit \in Nat \ {0}, Bytes(runes) <= limit
  PROVE  TruncateUTF8(runes, limit) = runes
BY DEF TruncateUTF8

(* Cut twice, a string is the longest prefix that fits both limits. *)
LEMMA TruncateTwice ==
  ASSUME NEW runes \in Runes, NEW a \in Nat \ {0}, NEW b \in Nat \ {0}
  PROVE  \E m : /\ m \in 0..Len(runes)
                /\ TruncateUTF8(TruncateUTF8(runes, a), b) = Cut(runes, m)
                /\ Bytes(Cut(runes, m)) <= a /\ Bytes(Cut(runes, m)) <= b
                /\ \A l \in 0..Len(runes) :
                     Bytes(Cut(runes, l)) <= a /\ Bytes(Cut(runes, l)) <= b
                       => l <= m
<1>1. PICK m : LongestCut(runes, a, m) /\ TruncateUTF8(runes, a) = Cut(runes, m)
  BY TruncateFacts
<1> DEFINE kept == Cut(runes, m)
<1>2. /\ m \in 0..Len(runes) /\ kept \in Runes /\ Len(kept) = m
      /\ Len(runes) \in Nat /\ m \in Nat
      /\ Bytes(kept) <= a
      /\ \A l \in 0..Len(runes) : Bytes(Cut(runes, l)) <= a => l <= m
  BY <1>1, CutFacts DEF LongestCut
<1>3. ASSUME NEW l \in 0..m PROVE Cut(kept, l) = Cut(runes, l)
  <2>1. /\ l \in 0..Len(kept) /\ l \in 0..Len(runes)
        /\ \A i \in 1..l : i \in 1..m
    BY <1>2
  <2>2. /\ Cut(kept, l) \in Runes /\ Len(Cut(kept, l)) = l
        /\ \A i \in 1..l : Cut(kept, l)[i] = kept[i]
    BY <1>2, <2>1, CutFacts
  <2>3. /\ Cut(runes, l) \in Runes /\ Len(Cut(runes, l)) = l
        /\ \A i \in 1..l : Cut(runes, l)[i] = runes[i]
    BY <2>1, CutFacts
  <2>4. \A i \in 1..m : kept[i] = runes[i]
    BY <1>2, CutFacts
  <2>5. \A i \in 1..l : Cut(kept, l)[i] = Cut(runes, l)[i]
    BY <2>1, <2>2, <2>3, <2>4
  <2> HIDE DEF kept
  <2> QED BY <2>2, <2>3, <2>5, SeqEqual DEF Runes
<1>4. PICK k : LongestCut(kept, b, k) /\ TruncateUTF8(kept, b) = Cut(kept, k)
  BY <1>2, TruncateFacts
<1> HIDE DEF kept
<1>5. /\ k \in 0..m /\ Bytes(Cut(kept, k)) <= b
      /\ \A l \in 0..m : Bytes(Cut(kept, l)) <= b => l <= k
  BY <1>2, <1>4 DEF LongestCut
<1>6. k \in 0..Len(runes) /\ Cut(kept, k) = Cut(runes, k)
  BY <1>2, <1>3, <1>5
<1>7. Bytes(Cut(runes, k)) <= a
  <2>1. Bytes(Cut(runes, k)) <= Bytes(Cut(runes, m))
        /\ Bytes(Cut(runes, k)) \in Nat /\ Bytes(Cut(runes, m)) \in Nat
    BY <1>2, <1>5, CutGrows
  <2> QED BY <1>2, <2>1 DEF kept
<1>8. ASSUME NEW l \in 0..Len(runes),
             Bytes(Cut(runes, l)) <= a, Bytes(Cut(runes, l)) <= b
      PROVE  l <= k
  <2>1. l \in 0..m
    BY <1>2, <1>8
  <2> QED BY <1>3, <1>5, <1>8, <2>1
<1> QED BY <1>1, <1>4, <1>5, <1>6, <1>7, <1>8 DEF kept

LEMMA LimitType ==
  ASSUME NEW opts \in Options, opts.max >= 0
  PROVE  MaxSummaryBytes(opts) \in Nat \ {0}
BY RedactionAssumption DEF Options, MaxSummaryBytes

-----------------------------------------------------------------------------
(* Records *)

Omissions == {"default_omitted", "summary_disabled", "field_limit_exceeded",
              "encrypted_reasoning_forbidden"}
Passes    == {"build", "export", "forward"}

GoodRecord(r) ==
  /\ r.reason \in Omissions \cup {"summary_truncated"}
  /\ r.pass \in Passes
  /\ r.reason = "summary_truncated" => r.retained \in 0..(r.original - 1)

(* r tells that something about path is gone, or went from one length to
   another. *)
Gone(r, path) == r.path = path /\ r.reason # "summary_truncated"
Shortened(r, path, from, to) ==
  /\ r.path = path /\ r.reason = "summary_truncated"
  /\ r.original = Bytes(from) /\ r.retained = Bytes(to)

LEMMA OmissionRecord ==
  ASSUME NEW path, NEW reason \in Omissions, NEW original, NEW retained,
         NEW pass \in Passes
  PROVE  /\ GoodRecord(Record(path, reason, original, retained, pass))
         /\ Gone(Record(path, reason, original, retained, pass), path)
BY DEF GoodRecord, Gone, Record, Omissions

IsBounding(bounded, path, runes, limit) ==
  /\ bounded.runes = TruncateUTF8(runes, limit)
  /\ bounded.runes \in Runes
  /\ \A r \in bounded.records : GoodRecord(r)
  /\ \/ bounded.runes = runes
     \/ \E r \in bounded.records : Shortened(r, path, runes, bounded.runes)
  /\ Bytes(runes) <= limit => bounded.records = {}

LEMMA BoundedStringFacts ==
  ASSUME NEW path, NEW runes \in Runes, NEW limit \in Nat \ {0},
         NEW pass \in Passes
  PROVE  IsBounding(BoundedString(path, runes, limit, pass), path, runes, limit)
<1> DEFINE kept == TruncateUTF8(runes, limit)
           r == Record(path, "summary_truncated", Bytes(runes), Bytes(kept), pass)
<1>1. /\ kept \in Runes /\ Bytes(kept) \in Nat /\ Bytes(runes) \in Nat
      /\ Bytes(kept) <= Bytes(runes)
      /\ Bytes(kept) = Bytes(runes) => kept = runes
      /\ Bytes(runes) <= limit => kept = runes
  BY TruncateType, TruncateFits
<1> HIDE DEF kept
<1>2. Shortened(r, path, runes, kept)
  BY DEF Shortened, Record
<1>3. Bytes(kept) # Bytes(runes) => GoodRecord(r)
  BY <1>1 DEF GoodRecord, Record
<1> DEFINE bounded == BoundedString(path, runes, limit, pass)
<1>4. /\ bounded.runes = kept
      /\ bounded.records = IF Bytes(kept) = Bytes(runes) THEN {} ELSE {r}
  BY DEF BoundedString, kept
<1> HIDE DEF bounded, r
<1>5. /\ bounded.runes = TruncateUTF8(runes, limit)
      /\ bounded.runes \in Runes
      /\ \A q \in bounded.records : GoodRecord(q)
      /\ \/ bounded.runes = runes
         \/ \E q \in bounded.records : Shortened(q, path, runes, bounded.runes)
      /\ Bytes(runes) <= limit => bounded.records = {}
  BY <1>1, <1>2, <1>3, <1>4 DEF kept
<1>6. IsBounding(bounded, path, runes, limit)
  BY <1>5 DEF IsBounding
<1> QED BY <1>6 DEF bounded

-----------------------------------------------------------------------------
(* ApplyAttributes *)

LEMMA NameOmissionRange ==
  \A name : NameOmission(name) \in Omissions \cup {"kept"}
BY DEF NameOmission, KeyOmissionReason, Omissions

LEMMA OmissionRange ==
  \A key, value, opts : Omission(key, value, opts) \in Omissions \cup {"kept"}
<1> SUFFICES ASSUME NEW key, NEW value, NEW opts
             PROVE  Omission(key, value, opts) \in Omissions \cup {"kept"}
  OBVIOUS
<1>1. FieldOmission(key, opts) \in Omissions \cup {"kept"}
  BY NameOmissionRange DEF FieldOmission, Omissions
<1> QED BY <1>1, NameOmissionRange DEF Omission, Omissions

(* The verdict on a value depends on its being a string, not on the string. *)
LEMMA OmissionOfKind ==
  ASSUME NEW key, NEW a, NEW b, NEW opts, a.text = b.text
  PROVE  Omission(key, a, opts) = Omission(key, b, opts)
BY DEF Omission

Attributes(attrs) == \A k \in DOMAIN attrs : attrs[k] \in Value

(* Of attributes, those are kept which may be, each bounded if it has to
   be; a record tells of all that was cut or left out. *)
Applied(attrs, applied, opts) ==
  /\ DOMAIN applied.attributes =
       {k \in DOMAIN attrs : Omission(k, attrs[k], opts) = "kept"}
  /\ \A k \in DOMAIN applied.attributes :
       /\ applied.attributes[k] =
            IF IsBounded(k, attrs[k])
            THEN Text(TruncateUTF8(attrs[k].runes, MaxSummaryBytes(opts)))
            ELSE attrs[k]
       /\ applied.attributes[k] \in Value
       /\ applied.attributes[k].text = attrs[k].text
       /\ \/ applied.attributes[k].runes = attrs[k].runes
          \/ \E r \in applied.records :
               Shortened(r, k, attrs[k].runes, applied.attributes[k].runes)
  /\ \A k \in DOMAIN attrs \ DOMAIN applied.attributes :
       \E r \in applied.records : Gone(r, k)
  /\ \A r \in applied.records : GoodRecord(r)

LEMMA ApplyFacts ==
  ASSUME NEW attrs, Attributes(attrs), NEW opts \in Options, opts.max >= 0,
         NEW pass \in Passes
  PROVE  Applied(attrs, ApplyAttributes(attrs, opts, pass), opts)
<1> DEFINE limit == MaxSummaryBytes(opts)
           omission == [k \in DOMAIN attrs |-> Omission(k, attrs[k], opts)]
           kept == {k \in DOMAIN attrs : omission[k] = "kept"}
           bounded(k) == BoundedString(k, attrs[k].runes, limit, pass)
           bytes(k) == IF omission[k] = "summary_disabled" THEN 0
                       ELSE Bytes(attrs[k].runes)
           omitted == {Record(k, omission[k], bytes(k), 0, pass) :
                         k \in DOMAIN attrs \ kept}
           cut == {j \in kept : IsBounded(j, attrs[j])}
           applied == ApplyAttributes(attrs, opts, pass)
           value(k) == IF IsBounded(k, attrs[k]) THEN Text(bounded(k).runes)
                       ELSE attrs[k]
<1>1. applied = [attributes |-> [k \in kept |-> value(k)],
                 records |-> omitted \cup UNION {bounded(k).records : k \in cut}]
  BY DEF ApplyAttributes
<1>2. limit \in Nat \ {0}
  BY LimitType
<1>3. ASSUME NEW k \in DOMAIN attrs
      PROVE  /\ attrs[k].runes \in Runes /\ attrs[k].text \in BOOLEAN
             /\ attrs[k] = [text |-> attrs[k].text, runes |-> attrs[k].runes]
             /\ bounded(k).runes = TruncateUTF8(attrs[k].runes, limit)
             /\ bounded(k).runes \in Runes
             /\ \A r \in bounded(k).records : GoodRecord(r)
             /\ \/ bounded(k).runes = attrs[k].runes
                \/ \E r \in bounded(k).records :
                     Shortened(r, k, attrs[k].runes, bounded(k).runes)
  <2>1. /\ attrs[k].runes \in Runes /\ attrs[k].text \in BOOLEAN
        /\ attrs[k] = [text |-> attrs[k].text, runes |-> attrs[k].runes]
    BY DEF Attributes, Value
  <2> HIDE DEF limit
  <2>2. IsBounding(bounded(k), k, attrs[k].runes, limit)
    BY <1>2, <2>1, BoundedStringFacts
  <2> HIDE DEF bounded
  <2> QED BY <2>1, <2>2 DEF IsBounding
<1> HIDE DEF bounded, limit
<1>4. /\ DOMAIN applied.attributes = kept
      /\ \A k \in kept : applied.attributes[k] = value(k)
      /\ applied.records = omitted \cup UNION {bounded(k).records : k \in cut}
  BY <1>1
<1> HIDE DEF applied
<1>5. kept = {k \in DOMAIN attrs : Omission(k, attrs[k], opts) = "kept"}
  OBVIOUS
<1>6. ASSUME NEW k \in kept
      PROVE  /\ value(k) = IF IsBounded(k, attrs[k])
                           THEN Text(TruncateUTF8(attrs[k].runes, limit))
                           ELSE attrs[k]
             /\ value(k) \in Value
             /\ value(k).text = attrs[k].text
             /\ \/ value(k).runes = attrs[k].runes
                \/ \E r \in applied.records :
                     Shortened(r, k, attrs[k].runes, value(k).runes)
  <2>1. k \in DOMAIN attrs
    OBVIOUS
  <2>2. CASE IsBounded(k, attrs[k])
    <3>1. attrs[k].text
      BY <2>2 DEF IsBounded
    <3>2. value(k) = Text(bounded(k).runes)
      BY <2>2
    <3>3. /\ value(k).runes = bounded(k).runes
          /\ value(k).text = TRUE /\ value(k) \in Value
      BY <1>3, <2>1, <3>2 DEF Text, Value
    <3>4. attrs[k].text = TRUE
      BY <1>3, <2>1, <3>1
    <3>5. \A r \in bounded(k).records : r \in applied.records
      BY <1>4, <2>2
    <3> HIDE DEF value, kept
    <3> QED BY <1>3, <2>1, <2>2, <3>2, <3>3, <3>4, <3>5
  <2>3. CASE ~IsBounded(k, attrs[k])
    <3>1. value(k) = attrs[k]
      BY <2>3
    <3>2. attrs[k] \in Value
      BY <2>1 DEF Attributes
    <3> HIDE DEF value
    <3> QED BY <2>3, <3>1, <3>2
  <2> QED BY <2>2, <2>3
<1>7. ASSUME NEW k \in DOMAIN attrs \ kept
      PROVE  LET r == Record(k, omission[k], bytes(k), 0, pass)
             IN  r \in applied.records /\ GoodRecord(r) /\ Gone(r, k)
  <2>1. omission[k] \in Omissions
    BY OmissionRange
  <2> DEFINE r == Record(k, omission[k], bytes(k), 0, pass)
  <2>2. r \in applied.records
    BY <1>4
  <2> HIDE DEF omission, bytes
  <2>3. GoodRecord(r) /\ Gone(r, k)
    BY <2>1, OmissionRecord
  <2> QED BY <2>2, <2>3
<1>8. ASSUME NEW r \in applied.records PROVE GoodRecord(r)
  <2>1. CASE r \in omitted
    <3>1. PICK k \in DOMAIN attrs \ kept :
            r = Record(k, omission[k], bytes(k), 0, pass)
      BY <2>1
    <3> QED BY <1>7, <3>1
  <2>2. CASE r \notin omitted
    <3>1. PICK k \in cut : r \in bounded(k).records
      BY <1>4, <2>2
    <3> QED BY <1>3, <3>1
  <2> QED BY <2>1, <2>2
<1>9. /\ DOMAIN applied.attributes =
           {k \in DOMAIN attrs : Omission(k, attrs[k], opts) = "kept"}
      /\ \A k \in DOMAIN applied.attributes :
           /\ applied.attributes[k] =
                IF IsBounded(k, attrs[k])
                THEN Text(TruncateUTF8(attrs[k].runes, limit))
                ELSE attrs[k]
           /\ applied.attributes[k] \in Value
           /\ applied.attributes[k].text = attrs[k].text
           /\ \/ applied.attributes[k].runes = attrs[k].runes
              \/ \E r \in applied.records :
                   Shortened(r, k, attrs[k].runes, applied.attributes[k].runes)
      /\ \A k \in DOMAIN attrs \ DOMAIN applied.attributes :
           \E r \in applied.records : Gone(r, k)
  <2> HIDE DEF value, kept, bytes, omission
  <2> QED BY <1>4, <1>5, <1>6, <1>7
<1>10. Applied(attrs, applied, opts)
  BY <1>8, <1>9 DEF Applied, limit
<1> QED BY <1>10 DEF applied

(* What a second pass with the same options finds within its limits, it
   leaves alone, and writes no record about. *)
Unchanged(attrs, opts, pass) ==
  /\ ApplyAttributes(attrs, opts, pass).attributes = attrs
  /\ ApplyAttributes(attrs, opts, pass).records = {}

LEMMA ApplyAgain ==
  ASSUME NEW attrs, Attributes(attrs), NEW opts \in Options, opts.max >= 0,
         NEW first \in Passes, NEW second \in Passes
  PROVE  Unchanged(ApplyAttributes(attrs, opts, first).attributes, opts, second)
<1> DEFINE limit == MaxSummaryBytes(opts)
           once == ApplyAttributes(attrs, opts, first).attributes
           again == ApplyAttributes(once, opts, second)
<1>1. limit \in Nat \ {0}
  BY LimitType
<1>0. Applied(attrs, ApplyAttributes(attrs, opts, first), opts)
  BY ApplyFacts
<1>2. /\ DOMAIN once = {k \in DOMAIN attrs : Omission(k, attrs[k], opts) = "kept"}
      /\ \A k \in DOMAIN once :
           /\ once[k] = IF IsBounded(k, attrs[k])
                        THEN Text(TruncateUTF8(attrs[k].runes, limit))
                        ELSE attrs[k]
           /\ once[k] \in Value
           /\ once[k].text = attrs[k].text
  BY <1>0 DEF Applied
<1>3. once = [k \in DOMAIN once |-> once[k]]
  BY DEF ApplyAttributes
<1>4. ASSUME NEW k \in DOMAIN once
      PROVE  /\ Omission(k, once[k], opts) = "kept"
             /\ IsBounded(k, once[k]) =>
                  /\ BoundedString(k, once[k].runes, limit, second).records = {}
                  /\ Text(BoundedString(k, once[k].runes, limit, second).runes)
                     = once[k]
  <2>1. Omission(k, once[k], opts) = "kept"
    BY <1>2, OmissionOfKind
  <2>2. ASSUME IsBounded(k, once[k])
        PROVE  /\ once[k].runes \in Runes /\ Bytes(once[k].runes) <= limit
               /\ Text(once[k].runes) = once[k]
    <3>1. IsBounded(k, attrs[k])
      BY <1>2, <2>2 DEF IsBounded
    <3>2. once[k] = Text(TruncateUTF8(attrs[k].runes, limit))
      BY <1>2, <3>1
    <3>3. attrs[k].runes \in Runes
      BY <1>2 DEF Attributes, Value
    <3>4. once[k].runes = TruncateUTF8(attrs[k].runes, limit)
      BY <3>2 DEF Text
    <3> HIDE DEF once, limit
    <3> QED BY <1>1, <3>2, <3>3, <3>4, TruncateType
  <2>3. ASSUME IsBounded(k, once[k])
        PROVE  /\ BoundedString(k, once[k].runes, limit, second).records = {}
               /\ BoundedString(k, once[k].runes, limit, second).runes
                  = once[k].runes
    <3>1. once[k].runes \in Runes /\ Bytes(once[k].runes) <= limit
      BY <2>2, <2>3
    <3> HIDE DEF once, limit
    <3>2. IsBounding(BoundedString(k, once[k].runes, limit, second), k,
                     once[k].runes, limit)
      BY <1>1, <3>1, BoundedStringFacts
    <3> QED BY <1>1, <3>1, <3>2, TruncateFits DEF IsBounding
  <2> QED BY <2>1, <2>2, <2>3
<1> DEFINE omission == [k \in DOMAIN once |-> Omission(k, once[k], opts)]
           kept == {k \in DOMAIN once : omission[k] = "kept"}
           bounded(k) == BoundedString(k, once[k].runes, limit, second)
           bytes(k) == IF omission[k] = "summary_disabled" THEN 0
                       ELSE Bytes(once[k].runes)
           value(k) == IF IsBounded(k, once[k]) THEN Text(bounded(k).runes)
                       ELSE once[k]
           cut == {j \in kept : IsBounded(j, once[j])}
<1>5. again = [attributes |-> [k \in kept |-> value(k)],
               records |-> {Record(k, omission[k], bytes(k), 0, second) :
                              k \in DOMAIN once \ kept}
                           \cup UNION {bounded(k).records : k \in cut}]
  <2> HIDE DEF once
  <2> QED BY DEF ApplyAttributes
<1> HIDE DEF once, limit, again
<1>6. kept = DOMAIN once
  BY <1>4
<1>7. \A k \in kept : value(k) = once[k]
  BY <1>4, <1>6
<1>8. \A k \in cut : bounded(k).records = {}
  BY <1>4, <1>6
<1>9. again.attributes = [k \in kept |-> value(k)]
      /\ again.records = {Record(k, omission[k], bytes(k), 0, second) :
                             k \in DOMAIN once \ kept}
                         \cup UNION {bounded(k).records : k \in cut}
  BY <1>5
<1> HIDE DEF kept, value, bounded, cut, omission, bytes
<1>10. again.attributes = once /\ again.records = {}
  BY <1>3, <1>6, <1>7, <1>8, <1>9
<1>11. Unchanged(once, opts, second)
  BY <1>10 DEF Unchanged, again
<1> QED BY <1>11 DEF once

-----------------------------------------------------------------------------
(* StringMapAttributes: the recursion unrolled, one entry, then all. *)

EmptyMap == [attributes |-> NoAttributes, records |-> {}, retained |-> 0]

EntriesAdded(f, n, path, order, opts) ==
  /\ f = [i \in 0..n |-> f[i]]
  /\ f[0] = EmptyMap
  /\ \A i \in 1..n : f[i] = AddEntry(f[i - 1], order[i], path, opts)

LEMMA EntriesAddedExists ==
  ASSUME NEW n \in Nat, NEW path, NEW order, NEW opts
  PROVE  \E f : EntriesAdded(f, n, path, order, opts)
<1> DEFINE Upto(k, f) == EntriesAdded(f, k, path, order, opts)
           U == {k \in 0..n : \E f : Upto(k, f)}
<1>1. 0 \in U
  <2> DEFINE f == [i \in 0..0 |-> EmptyMap]
  <2>1. f = [i \in 0..0 |-> f[i]] /\ f[0] = EmptyMap
    OBVIOUS
  <2> HIDE DEF f
  <2>2. Upto(0, f)
    BY <2>1 DEF EntriesAdded
  <2> QED BY <2>2
<1>2. ASSUME NEW k \in 1..n, k - 1 \in U PROVE k \in U
  <2>1. PICK f : Upto(k - 1, f)
    BY <1>2
  <2> DEFINE v == AddEntry(f[k - 1], order[k], path, opts)
             g == [i \in 0..k |-> IF i = k THEN v ELSE f[i]]
  <2> HIDE DEF v
  <2>2. g = [i \in 0..k |-> g[i]] /\ g[0] = EmptyMap
    <3>1. 0 # k /\ 0 \in 0..k
      OBVIOUS
    <3>2. f[0] = EmptyMap
      BY <2>1 DEF EntriesAdded
    <3> QED BY <3>1, <3>2
  <2>3. ASSUME NEW i \in 1..k
        PROVE  g[i] = AddEntry(g[i - 1], order[i], path, opts)
    <3>1. i \in 0..k /\ i - 1 \in 0..k /\ i - 1 # k
      OBVIOUS
    <3>2. g[i - 1] = f[i - 1]
      BY <3>1
    <3>3. CASE i = k
      <4>1. g[i] = v
        BY <3>1, <3>3
      <4> QED BY <3>2, <3>3, <4>1 DEF v
    <3>4. CASE i # k
      <4>1. i \in 1..(k - 1)
        BY <3>4
      <4>2. g[i] = f[i]
        BY <3>1, <3>4
      <4>3. f[i] = AddEntry(f[i - 1], order[i], path, opts)
        BY <2>1, <4>1 DEF EntriesAdded
      <4> QED BY <3>2, <4>2, <4>3
    <3> QED BY <3>3, <3>4
  <2> HIDE DEF g
  <2>4. Upto(k, g)
    BY <2>2, <2>3 DEF EntriesAdded
  <2> HIDE DEF Upto
  <2> QED BY <2>4
<1>3. 0..n \subseteq U
  <2> HIDE DEF U
  <2> QED BY <1>1, <1>2, BoundedInduction
<1>4. n \in U
  BY <1>3
<1> QED BY <1>4

LEMMA StringMapSteps ==
  ASSUME NEW path, NEW order, Len(order) \in Nat, NEW opts
  PROVE  \E f : /\ EntriesAdded(f, Len(order), path, order, opts)
                /\ f[Len(order)] = StringMapAttributes(path, order, opts)
<1> DEFINE n == Len(order)
           E(h) == [i \in 0..n |-> IF i = 0 THEN EmptyMap
                                   ELSE AddEntry(h[i - 1], order[i], path, opts)]
           g == CHOOSE gg : gg = E(gg)
<1>1. PICK f : EntriesAdded(f, n, path, order, opts)
  BY EntriesAddedExists
<1>2. f = E(f)
  <2>1. ASSUME NEW k \in 0..n
        PROVE  f[k] = IF k = 0 THEN EmptyMap
                      ELSE AddEntry(f[k - 1], order[k], path, opts)
    <3>1. k = 0 \/ k \in 1..n
      OBVIOUS
    <3> QED BY <1>1, <3>1 DEF EntriesAdded
  <2>2. f = [k \in 0..n |-> f[k]]
    BY <1>1 DEF EntriesAdded
  <2> HIDE DEF n
  <2> QED BY <2>1, <2>2
<1>3. g = E(g)
  <2> HIDE DEF E
  <2> QED BY <1>2
<1>4. StringMapAttributes(path, order, opts) = g[n]
  BY DEF StringMapAttributes, EmptyMap
<1> HIDE DEF g
<1>5. g[n] = f[n]
  <2>1. g[0] = f[0]
    BY <1>1, <1>3 DEF EntriesAdded
  <2>2. ASSUME NEW i \in 1..n, g[i - 1] = f[i - 1] PROVE g[i] = f[i]
    <3>1. i \in 0..n /\ i # 0
      OBVIOUS
    <3>2. g[i] = AddEntry(g[i - 1], order[i], path, opts)
      BY <1>3, <3>1
    <3> QED BY <1>1, <2>2, <3>2 DEF EntriesAdded
  <2>3. n \in Nat
    OBVIOUS
  <2> HIDE DEF n
  <2> QED BY <2>1, <2>2, <2>3, SameRecursion
<1> QED BY <1>1, <1>4, <1>5

Entry(entry) == entry.name \in Name /\ entry.runes \in Runes
FieldKey(path, entry) == Named(path, Trimmed(entry.name))

(* A field within the limits, before the number of entries counts. *)
LEMMA MapOmissionFacts ==
  ASSUME NEW name, NEW retained \in Nat
  PROVE  /\ MapOmission(name, retained) \in Omissions \cup {"kept"}
         /\ MapOmission(name, retained) = "kept" <=>
              NameOmission(name) = "kept" /\ retained < MaxMapEntries
BY RedactionAssumption
   DEF MapOmission, NameOmission, KeyOmissionReason, Omissions, Name

MapAccount(acc) ==
  acc = [attributes |-> acc.attributes, records |-> acc.records,
         retained |-> acc.retained]

EntryFits(acc, entry) ==
  NameOmission(entry.name) = "kept" /\ acc.retained < MaxMapEntries

EntryAdded(acc, next, path, entry, limit) ==
  LET key == FieldKey(path, entry)
      cut == TruncateUTF8(entry.runes, limit)
  IN  /\ MapAccount(next)
      /\ acc.records \subseteq next.records
      /\ \A r \in next.records \ acc.records : GoodRecord(r)
      /\ EntryFits(acc, entry) =>
           /\ next.attributes = Over(Only(key, Text(cut)), acc.attributes)
           /\ next.retained = acc.retained + 1
           /\ \/ cut = entry.runes
              \/ \E r \in next.records : Shortened(r, key, entry.runes, cut)
      /\ ~EntryFits(acc, entry) =>
           /\ next.attributes = acc.attributes
           /\ next.retained = acc.retained
           /\ \E r \in next.records : Gone(r, key)

LEMMA AddEntryFacts ==
  ASSUME NEW acc, MapAccount(acc), acc.retained \in Nat,
         NEW entry, Entry(entry), NEW path,
         NEW opts \in Options, opts.max >= 0
  PROVE  EntryAdded(acc, AddEntry(acc, entry, path, opts), path, entry,
                    MaxSummaryBytes(opts))
<1> DEFINE key == Named(path, Trimmed(entry.name))
           omission == MapOmission(entry.name, acc.retained)
           original == IF entry.name.bytes > MaxNameBytes
                       THEN entry.name.bytes ELSE Bytes(entry.runes)
           limit == MaxSummaryBytes(opts)
           value == BoundedString(key, entry.runes, limit, "build")
           record == Record(key, omission, original, 0, "build")
           next == AddEntry(acc, entry, path, opts)
           cut == TruncateUTF8(entry.runes, limit)
<1>1. limit \in Nat \ {0}
  BY LimitType
<1>2. /\ omission \in Omissions \cup {"kept"}
      /\ omission = "kept" <=>
           NameOmission(entry.name) = "kept" /\ acc.retained < MaxMapEntries
  BY MapOmissionFacts
<1>3. /\ value.runes = cut
      /\ \A r \in value.records : GoodRecord(r)
      /\ cut = entry.runes \/ \E r \in value.records : Shortened(r, key, entry.runes, cut)
  <2>1. entry.runes \in Runes /\ "build" \in Passes
    BY DEF Entry, Passes
  <2>2. value.runes = cut
    BY DEF BoundedString
  <2> HIDE DEF limit, key
  <2>3. IsBounding(BoundedString(key, entry.runes, limit, "build"), key,
                   entry.runes, limit)
    BY <1>1, <2>1, BoundedStringFacts
  <2>4. /\ \A r \in value.records : GoodRecord(r)
        /\ \/ value.runes = entry.runes
           \/ \E r \in value.records : Shortened(r, key, entry.runes, value.runes)
    BY <2>3 DEF IsBounding, value
  <2> HIDE DEF value, cut
  <2> QED BY <2>2, <2>4
<1>4. next = IF omission # "kept"
             THEN [acc EXCEPT !.records = @ \cup {record}]
             ELSE [attributes |-> Over(Only(key, Text(value.runes)), acc.attributes),
                   records |-> acc.records \cup value.records,
                   retained |-> acc.retained + 1]
  BY DEF AddEntry
<1>5. omission # "kept" => GoodRecord(record) /\ Gone(record, key)
  <2>1. "build" \in Passes
    BY DEF Passes
  <2> HIDE DEF omission, key, original
  <2> QED BY <1>2, <2>1, OmissionRecord
<1> HIDE DEF omission, record, value, limit, key, next, cut
<1>6. omission # "kept" =>
        next = [attributes |-> acc.attributes, records |-> acc.records \cup {record},
                retained |-> acc.retained]
  BY <1>4 DEF MapAccount
<1>7. omission # "kept" =>
        /\ MapAccount(next) /\ next.attributes = acc.attributes
        /\ next.retained = acc.retained /\ next.records = acc.records \cup {record}
  BY <1>6 DEF MapAccount
<1>8. omission = "kept" =>
        /\ MapAccount(next)
        /\ next.attributes = Over(Only(key, Text(cut)), acc.attributes)
        /\ next.retained = acc.retained + 1
        /\ next.records = acc.records \cup value.records
  BY <1>3, <1>4 DEF MapAccount
<1>9. /\ MapAccount(next)
      /\ acc.records \subseteq next.records
      /\ \A r \in next.records \ acc.records : GoodRecord(r)
  BY <1>3, <1>5, <1>7, <1>8
<1>10. omission = "kept" => \/ cut = entry.runes
                           \/ \E r \in next.records :
                                Shortened(r, key, entry.runes, cut)
  BY <1>3, <1>8
<1>11. omission # "kept" => \E r \in next.records : Gone(r, key)
  BY <1>5, <1>7
<1>12. EntryFits(acc, entry) <=> omission = "kept"
  BY <1>2 DEF EntryFits
<1>13. key = FieldKey(path, entry) /\ cut = TruncateUTF8(entry.runes, limit)
  BY DEF key, cut, FieldKey
<1>14. EntryAdded(acc, next, path, entry, limit)
  BY <1>7, <1>8, <1>9, <1>10, <1>11, <1>12, <1>13 DEF EntryAdded
<1> QED BY <1>14 DEF next, limit

(* Every attribute of a map comes from an entry, whole or cut with a record,
   and every entry is kept or gone with a record. *)
FieldKept(acc, path, k, entry, limit) ==
  LET cut == TruncateUTF8(entry.runes, limit)
  IN  /\ k = FieldKey(path, entry)
      /\ NameOmission(entry.name) = "kept"
      /\ acc.attributes[k] = Text(cut)
      /\ \/ cut = entry.runes
         \/ \E r \in acc.records : Shortened(r, k, entry.runes, cut)

MapOfEntries(acc, path, order, n, limit) ==
  /\ \A k \in DOMAIN acc.attributes :
       \E j \in 1..n : FieldKept(acc, path, k, order[j], limit)
  /\ \A j \in 1..n : \/ FieldKey(path, order[j]) \in DOMAIN acc.attributes
                     \/ \E r \in acc.records : Gone(r, FieldKey(path, order[j]))
  /\ \A r \in acc.records : GoodRecord(r)

LEMMA OverFacts ==
  ASSUME NEW f, NEW g
  PROVE  /\ DOMAIN Over(f, g) = DOMAIN f \cup DOMAIN g
         /\ \A k \in DOMAIN f : Over(f, g)[k] = f[k]
         /\ \A k \in DOMAIN g \ DOMAIN f : Over(f, g)[k] = g[k]
BY DEF Over

LEMMA MapGrows ==
  ASSUME NEW acc, MapAccount(acc), acc.retained \in Nat,
         NEW path, NEW order, NEW i \in Nat \ {0}, Entry(order[i]),
         NEW opts \in Options, opts.max >= 0,
         MapOfEntries(acc, path, order, i - 1, MaxSummaryBytes(opts))
  PROVE  MapOfEntries(AddEntry(acc, order[i], path, opts), path, order, i,
                      MaxSummaryBytes(opts))
<1> DEFINE limit == MaxSummaryBytes(opts)
           entry == order[i]
           next == AddEntry(acc, entry, path, opts)
           key == FieldKey(path, entry)
           cut == TruncateUTF8(entry.runes, limit)
           kept == EntryFits(acc, entry)
<1>0. EntryAdded(acc, next, path, entry, limit)
  BY AddEntryFacts
<1>1. /\ acc.records \subseteq next.records
      /\ \A r \in next.records \ acc.records : GoodRecord(r)
      /\ kept => /\ next.attributes = Over(Only(key, Text(cut)), acc.attributes)
                 /\ \/ cut = entry.runes
                    \/ \E r \in next.records : Shortened(r, key, entry.runes, cut)
      /\ ~kept => /\ next.attributes = acc.attributes
                  /\ \E r \in next.records : Gone(r, key)
  BY <1>0 DEF EntryAdded
<1>2. kept => NameOmission(entry.name) = "kept"
  BY DEF EntryFits
<1> HIDE DEF next, key, cut, kept, limit
<1>3. /\ \A k \in DOMAIN acc.attributes :
           \E j \in 1..(i - 1) : FieldKept(acc, path, k, order[j], limit)
      /\ \A j \in 1..(i - 1) :
           \/ FieldKey(path, order[j]) \in DOMAIN acc.attributes
           \/ \E r \in acc.records : Gone(r, FieldKey(path, order[j]))
      /\ \A r \in acc.records : GoodRecord(r)
  BY DEF MapOfEntries, limit
<1>4. /\ 1..(i - 1) \subseteq 1..i /\ i \in 1..i
      /\ \A j \in 1..i : j = i \/ j \in 1..(i - 1)
  OBVIOUS
<1>5. ASSUME NEW k, k \in DOMAIN acc.attributes,
             next.attributes[k] = acc.attributes[k]
      PROVE  \E j \in 1..i : FieldKept(next, path, k, order[j], limit)
  <2>1. PICK j \in 1..(i - 1) : FieldKept(acc, path, k, order[j], limit)
    BY <1>3, <1>5
  <2>2. FieldKept(next, path, k, order[j], limit)
    BY <1>1, <1>5, <2>1 DEF FieldKept
  <2> QED BY <1>4, <2>1, <2>2
<1>6. CASE kept
  <2>1. /\ DOMAIN next.attributes = {key} \cup DOMAIN acc.attributes
        /\ next.attributes[key] = Text(cut)
        /\ \A k \in DOMAIN acc.attributes \ {key} :
             next.attributes[k] = acc.attributes[k]
    <3>1. next.attributes = Over(Only(key, Text(cut)), acc.attributes)
      BY <1>1, <1>6
    <3> QED BY <3>1 DEF Over, Only
  <2>2. FieldKept(next, path, key, order[i], limit)
    BY <1>1, <1>2, <1>6, <2>1 DEF FieldKept, key, cut
  <2>3. \A k \in DOMAIN next.attributes :
          \E j \in 1..i : FieldKept(next, path, k, order[j], limit)
    BY <1>4, <1>5, <2>1, <2>2
  <2>4. \A j \in 1..i :
          \/ FieldKey(path, order[j]) \in DOMAIN next.attributes
          \/ \E r \in next.records : Gone(r, FieldKey(path, order[j]))
    BY <1>1, <1>3, <1>4, <2>1 DEF key
  <2> QED BY <1>1, <1>3, <2>3, <2>4 DEF MapOfEntries, next, limit
<1>7. CASE ~kept
  <2>1. next.attributes = acc.attributes /\ \E r \in next.records : Gone(r, key)
    BY <1>1, <1>7
  <2>2. \A k \in DOMAIN next.attributes :
          \E j \in 1..i : FieldKept(next, path, k, order[j], limit)
    BY <1>5, <2>1
  <2>3. \A j \in 1..i :
          \/ FieldKey(path, order[j]) \in DOMAIN next.attributes
          \/ \E r \in next.records : Gone(r, FieldKey(path, order[j]))
    BY <1>1, <1>3, <1>4, <2>1 DEF key
  <2> QED BY <1>1, <1>3, <2>2, <2>3 DEF MapOfEntries, next, limit
<1> QED BY <1>6, <1>7

LEMMA StringMapFacts ==
  ASSUME NEW path, NEW order, Len(order) \in Nat,
         \A j \in 1..Len(order) : Entry(order[j]),
         NEW opts \in Options, opts.max >= 0
  PROVE  MapOfEntries(StringMapAttributes(path, order, opts), path, order,
                      Len(order), MaxSummaryBytes(opts))
<1> DEFINE n == Len(order)
           limit == MaxSummaryBytes(opts)
           Good(acc, i) == /\ MapAccount(acc) /\ acc.retained \in Nat
                           /\ MapOfEntries(acc, path, order, i, limit)
<1>1. PICK f : /\ EntriesAdded(f, n, path, order, opts)
               /\ f[n] = StringMapAttributes(path, order, opts)
  BY StringMapSteps
<1> DEFINE S == {i \in 0..n : Good(f[i], i)}
<1>2. 0 \in S
  <2>1. f[0] = EmptyMap
    BY <1>1 DEF EntriesAdded
  <2>2. MapAccount(EmptyMap) /\ EmptyMap.retained = 0
        /\ DOMAIN EmptyMap.attributes = {} /\ EmptyMap.records = {}
    BY DEF MapAccount, EmptyMap, NoAttributes
  <2>3. MapOfEntries(EmptyMap, path, order, 0, limit)
    <3> HIDE DEF limit
    <3>1. 1..0 = {}
      OBVIOUS
    <3> QED BY <2>2, <3>1 DEF MapOfEntries
  <2> HIDE DEF n, limit
  <2>4. 0 \in 0..n
    BY DEF n
  <2> QED BY <2>1, <2>2, <2>3, <2>4
<1>3. ASSUME NEW i \in 1..n, i - 1 \in S PROVE i \in S
  <2>1. Good(f[i - 1], i - 1)
    BY <1>3
  <2>2. f[i] = AddEntry(f[i - 1], order[i], path, opts) /\ i \in Nat \ {0}
    BY <1>1 DEF EntriesAdded
  <2>3. MapOfEntries(f[i], path, order, i, limit)
    BY <2>1, <2>2, MapGrows
  <2>4. MapAccount(f[i]) /\ f[i].retained \in Nat
    <3> HIDE DEF limit
    <3>1. /\ MapAccount(f[i])
          /\ f[i].retained = f[i - 1].retained
             \/ f[i].retained = f[i - 1].retained + 1
      <4>1. EntryAdded(f[i - 1], f[i], path, order[i], MaxSummaryBytes(opts))
        BY <2>1, <2>2, AddEntryFacts
      <4> QED BY <4>1 DEF EntryAdded
    <3> QED BY <2>1, <3>1
  <2>5. i \in 0..n
    OBVIOUS
  <2> HIDE DEF n, limit
  <2> QED BY <2>3, <2>4, <2>5
<1>4. n \in 0..n
  OBVIOUS
<1>5. n \in S
  <2> HIDE DEF S, n
  <2>1. n \in Nat
    BY DEF n
  <2> QED BY <1>2, <1>3, <1>4, <2>1, BoundedInduction
<1> HIDE DEF limit
<1>6. MapOfEntries(f[n], path, order, n, limit)
  BY <1>5
<1> QED BY <1>1, <1>6 DEF limit
=============================================================================
