-------------------------- MODULE InductionLemmas --------------------------
(***************************************************************************)
(* Induction over numbers and sequences, stated with sets.                 *)
(*                                                                         *)
(* The induction theorems of the library take a predicate as a parameter;  *)
(* these take the set of those numbers or sequences that satisfy it, so    *)
(* that a first-order prover can use them.  From them: recursive functions *)
(* over 0..n exist and are determined by their equations, and what         *)
(* FlattenSeq computes.                                                    *)
(***************************************************************************)
EXTENDS Integers, Sequences, SequencesExt, SequenceTheorems,
        WellFoundedInduction, TLAPS

(* A nonempty set of natural numbers has a least element. *)
LEMMA NatMinimum ==
  ASSUME NEW T, T \subseteq Nat, T # {}
  PROVE  \E x \in T : \A y \in T : x <= y
<1> DEFINE R == {ss \in Nat \X Nat : ss[1] < ss[2]}
<1>1. IsWellFoundedOn(R, Nat)
  BY NatLessThanWellFounded, Zenon DEF OpToRel
<1>2. \E x \in T : \A y \in T : ~ (<<y, x>> \in R)
  <2> HIDE DEF R
  <2> QED BY <1>1, WFMin, Zenon
<1>3. ASSUME NEW x \in Nat, NEW y \in Nat, ~ (<<y, x>> \in R)
      PROVE  x <= y
  <2>1. /\ <<y, x>> \in Nat \X Nat
        /\ <<y, x>>[1] = y /\ <<y, x>>[2] = x
    OBVIOUS
  <2>2. ~ (y < x)
    BY <1>3, <2>1, Zenon
  <2> QED BY <2>2
<1> HIDE DEF R
<1> QED BY <1>2, <1>3

LEMMA SetInduction ==
  ASSUME NEW S, 0 \in S, \A n \in Nat : n \in S => n + 1 \in S
  PROVE  Nat \subseteq S
<1> SUFFICES ASSUME Nat \ S # {} PROVE FALSE
  OBVIOUS
<1>1. PICK x \in Nat \ S : \A y \in Nat \ S : x <= y
  BY NatMinimum
<1>2. x - 1 \in Nat /\ ~(x <= x - 1)
  BY <1>1
<1>3. x - 1 \in S
  BY <1>1, <1>2
<1> QED BY <1>1, <1>2, <1>3

LEMMA BoundedInduction ==
  ASSUME NEW n \in Nat, NEW S, 0 \in S,
         \A i \in 1..n : i - 1 \in S => i \in S
  PROVE  0..n \subseteq S
<1> DEFINE U == {i \in Nat : i <= n => i \in S}
<1>1. 0 \in U
  OBVIOUS
<1>2. ASSUME NEW i \in Nat, i \in U PROVE i + 1 \in U
  <2>1. CASE i + 1 <= n
    <3>1. i + 1 \in 1..n /\ (i + 1) - 1 = i /\ i <= n
      BY <2>1
    <3>2. i \in S
      BY <1>2, <3>1
    <3>3. i + 1 \in S
      BY <3>1, <3>2
    <3> QED BY <3>3
  <2> QED BY <2>1
<1> HIDE DEF U
<1>3. Nat \subseteq U
  BY <1>1, <1>2, SetInduction
<1> QED BY <1>3 DEF U

(* Every sequence is built from the empty one by Append. *)
LEMMA SeqInduction ==
  ASSUME NEW T, NEW S, <<>> \in S,
         \A s \in Seq(T), x \in T : s \in S => Append(s, x) \in S
  PROVE  Seq(T) \subseteq S
<1> DEFINE U == {n \in Nat : \A s \in Seq(T) : Len(s) = n => s \in S}
<1>1. 0 \in U
  <2>1. \A s \in Seq(T) : Len(s) = 0 => s = <<>>
    BY EmptySeq
  <2> QED BY <2>1
<1>2. ASSUME NEW n \in Nat, n \in U PROVE n + 1 \in U
  <2> SUFFICES ASSUME NEW s \in Seq(T), Len(s) = n + 1 PROVE s \in S
    OBVIOUS
  <2>1. s # <<>>
    OBVIOUS
  <2>2. PICK t \in Seq(T), x \in T : s = Append(t, x)
    BY <2>1, SequenceEmptyOrAppend
  <2>3. Len(t) = n
    <3>1. Len(t) \in Nat /\ Len(s) = Len(t) + 1
      BY <2>2, AppendProperties
    <3> QED BY <3>1
  <2>4. t \in S
    BY <1>2, <2>3
  <2> QED BY <2>2, <2>4
<1> HIDE DEF U
<1>3. Nat \subseteq U
  BY <1>1, <1>2, SetInduction
<1>4. ASSUME NEW s \in Seq(T) PROVE s \in S
  <2>1. Len(s) \in U
    BY <1>3
  <2> QED BY <2>1 DEF U
<1> QED BY <1>4

-----------------------------------------------------------------------------
(* Recursive functions over 0..n.  tlapm reads f[i \in D] == e as a choice of
   a function that satisfies the equation, so that there is one has to be
   shown. *)

Steps(n, V) == [(1..n) \X V -> V]

Unrolls(f, V, base, n, step) ==
  /\ f \in [0..n -> V]
  /\ f[0] = base
  /\ \A i \in 1..n : f[i] = step[<<i, f[i - 1]>>]

LEMMA RecursionExists ==
  ASSUME NEW V, NEW base \in V, NEW n \in Nat, NEW step \in Steps(n, V)
  PROVE  \E f : Unrolls(f, V, base, n, step)
<1> USE DEF Unrolls, Steps
<1> DEFINE Upto(k, f) == Unrolls(f, V, base, k, step)
           U == {k \in 0..n : \E f : Upto(k, f)}
<1>1. 0 \in U
  <2>1. Upto(0, [i \in 0..0 |-> base])
    OBVIOUS
  <2>2. 0 \in 0..n
    OBVIOUS
  <2> HIDE DEF Upto
  <2> QED BY <2>1, <2>2
<1>2. ASSUME NEW k \in 1..n, k - 1 \in U PROVE k \in U
  <2>1. PICK f : Upto(k - 1, f)
    BY <1>2
  <2> DEFINE v == step[<<k, f[k - 1]>>]
             g == [i \in 0..k |-> IF i = k THEN v ELSE f[i]]
  <2>2. k - 1 \in Nat /\ k - 1 \in 0..(k - 1) /\ k \in Nat /\ 0 \in 0..k /\ 0 # k
    OBVIOUS
  <2>3. f[k - 1] \in V
    BY <2>1, <2>2
  <2>4. v \in V
    BY <2>3
  <2> HIDE DEF v
  <2>5. g \in [0..k -> V]
    <3>1. ASSUME NEW i \in 0..k PROVE (IF i = k THEN v ELSE f[i]) \in V
      BY <2>1, <2>4
    <3> QED BY <3>1
  <2>6. g[0] = base
    BY <2>1, <2>2
  <2>7. ASSUME NEW i \in 1..k PROVE g[i] = step[<<i, g[i - 1]>>]
    <3>1. i \in 0..k /\ i - 1 \in 0..k /\ i - 1 # k
      BY <2>2
    <3>2. g[i - 1] = f[i - 1]
      BY <3>1
    <3>3. CASE i = k
      <4>1. g[i] = v
        BY <3>1, <3>3
      <4> QED BY <4>1, <3>2, <3>3 DEF v
    <3>4. CASE i # k
      <4>1. i \in 1..(k - 1)
        BY <2>2, <3>4
      <4>2. g[i] = f[i]
        BY <3>1, <3>4
      <4>3. f[i] = step[<<i, f[i - 1]>>]
        BY <2>1, <4>1
      <4> QED BY <3>2, <4>2, <4>3
    <3> QED BY <3>3, <3>4
  <2>8. Upto(k, g)
    BY <2>5, <2>6, <2>7
  <2>9. k \in 0..n
    OBVIOUS
  <2> HIDE DEF Upto, g
  <2> QED BY <2>8, <2>9
<1>3. 0..n \subseteq U
  <2> HIDE DEF U
  <2> QED BY <1>1, <1>2, BoundedInduction
<1>4. n \in U
  BY <1>3
<1>5. PICK f : Upto(n, f)
  BY <1>4
<1> QED BY <1>5

(* Two functions that begin alike and step alike agree. *)
LEMMA SameRecursion ==
  ASSUME NEW n \in Nat, NEW f, NEW g, f[0] = g[0],
         \A i \in 1..n : f[i - 1] = g[i - 1] => f[i] = g[i]
  PROVE  f[n] = g[n]
<1> DEFINE U == {i \in 0..n : f[i] = g[i]}
<1>1. 0 \in U
  OBVIOUS
<1>2. \A i \in 1..n : i - 1 \in U => i \in U
  OBVIOUS
<1> HIDE DEF U
<1>3. 0..n \subseteq U
  BY <1>1, <1>2, BoundedInduction
<1> QED BY <1>3 DEF U

-----------------------------------------------------------------------------
(* FlattenSeq: the partial concatenations, and what follows from them. *)

LEMMA FlattenSteps ==
  ASSUME NEW T, NEW q \in Seq(Seq(T))
  PROVE  \E f \in [0..Len(q) -> Seq(T)] :
           /\ f[0] = <<>>
           /\ \A i \in 1..Len(q) : f[i] = f[i - 1] \o q[i]
           /\ f[Len(q)] = FlattenSeq(q)
<1> DEFINE n == Len(q)
           V == Seq(T)
           step == [p \in (1..n) \X V |-> p[2] \o q[p[1]]]
<1>1. n \in Nat /\ <<>> \in V
  BY LenProperties, EmptySeq
<1>2. step \in [(1..n) \X V -> V]
  <2>1. ASSUME NEW p \in (1..n) \X V PROVE p[2] \o q[p[1]] \in V
    <3>1. p[2] \in V /\ p[1] \in 1..n
      OBVIOUS
    <3>2. q[p[1]] \in V
      BY <3>1, ElementOfSeq
    <3> QED BY <3>1, <3>2, ConcatProperties
  <2> QED BY <2>1
<1>3. PICK f : Unrolls(f, V, <<>>, n, step)
  <2>1. step \in Steps(n, V)
    BY <1>2 DEF Steps
  <2> HIDE DEF step, n, V
  <2> QED BY <1>1, <2>1, RecursionExists, Zenon
<1> USE DEF Unrolls
<1>4. f[0] = <<>>
  BY <1>3
<1>5. ASSUME NEW i \in 1..n PROVE f[i] = f[i - 1] \o q[i]
  <2>1. i \in 0..n /\ i # 0 /\ i - 1 \in 0..n
    BY <1>1
  <2>2. f[i] = step[<<i, f[i - 1]>>]
    BY <1>3, <2>1
  <2>3. f[i - 1] \in V
    BY <1>3, <2>1
  <2>4. <<i, f[i - 1]>> \in (1..n) \X V
    BY <2>3
  <2> HIDE DEF n, V
  <2> QED BY <2>2, <2>4
<1>6. f[n] = FlattenSeq(q)
  <2>1. CASE n = 0
    <3>1. q = <<>>
      BY <2>1, EmptySeq
    <3> QED BY <1>4, <2>1, <3>1 DEF FlattenSeq
  <2>2. CASE n # 0
    <3> DEFINE E(g) == [i \in 1..n |-> IF i = 1 THEN q[i] ELSE g[i - 1] \o q[i]]
               h == [i \in 1..n |-> f[i]]
               g == CHOOSE gg : gg = E(gg)
    <3>1. h = E(h)
      <4>1. ASSUME NEW i \in 1..n
            PROVE  f[i] = IF i = 1 THEN q[i] ELSE h[i - 1] \o q[i]
        <5>1. CASE i = 1
          <6>1. f[i] = <<>> \o q[i]
            <7>1. i - 1 = 0
              BY <5>1
            <7> QED BY <1>4, <1>5, <7>1, Zenon
          <6>2. q[i] \in Seq(T)
            BY ElementOfSeq
          <6> QED BY <5>1, <6>1, <6>2, ConcatEmptySeq
        <5>2. CASE i # 1
          <6>1. i - 1 \in 1..n
            BY <1>1, <5>2
          <6>2. h[i - 1] = f[i - 1]
            BY <6>1
          <6> HIDE DEF h
          <6> QED BY <1>5, <5>2, <6>2
        <5> QED BY <5>1, <5>2
      <4> QED BY <4>1
    <3>2. g = E(g)
      <4> HIDE DEF E, h
      <4> QED BY <3>1
    <3>3. \A i \in 1..n : g[i] = IF i = 1 THEN q[i] ELSE g[i - 1] \o q[i]
      <4> HIDE DEF g
      <4> QED BY <3>2
    <3>4. FlattenSeq(q) = g[n]
      BY <2>2 DEF FlattenSeq
    <3> HIDE DEF g
    <3> DEFINE U == {i \in 0..n : i # 0 => g[i] = f[i]}
    <3>5. 0 \in U
      BY <1>1
    <3>6. ASSUME NEW i \in 1..n, i - 1 \in U PROVE i \in U
      <4>1. CASE i = 1
        <5>1. f[i] = h[i] /\ h[i] = q[i]
          <6>1. f[i] = <<>> \o q[i]
            <7>1. i - 1 = 0
              BY <4>1
            <7> QED BY <1>4, <1>5, <7>1, Zenon
          <6>2. q[i] \in Seq(T)
            BY ElementOfSeq
          <6>3. f[i] = q[i]
            BY <6>1, <6>2, ConcatEmptySeq
          <6> QED BY <6>3
        <5> QED BY <3>3, <4>1, <5>1
      <4>2. CASE i # 1
        <5>1. i - 1 # 0
          BY <4>2
        <5>2. g[i - 1] = f[i - 1]
          BY <3>6, <5>1
        <5> HIDE DEF h
        <5>3. g[i] = f[i]
          BY <1>5, <3>3, <4>2, <5>2
        <5> QED BY <5>3
      <4> QED BY <4>1, <4>2
    <3>7. 0..n \subseteq U
      <4> HIDE DEF U
      <4> QED BY <1>1, <3>5, <3>6, BoundedInduction
    <3>8. n \in 0..n
      BY <1>1
    <3>9. g[n] = f[n]
      BY <2>2, <3>7, <3>8
    <3> QED BY <3>4, <3>9
  <2> QED BY <2>1, <2>2
<1> QED BY <1>3, <1>4, <1>5, <1>6

LEMMA FlattenType ==
  ASSUME NEW T, NEW q \in Seq(Seq(T))
  PROVE  FlattenSeq(q) \in Seq(T)
<1>1. Len(q) \in 0..Len(q)
  BY LenProperties
<1>2. PICK f \in [0..Len(q) -> Seq(T)] : f[Len(q)] = FlattenSeq(q)
  BY FlattenSteps, Zenon
<1> QED BY <1>1, <1>2

LEMMA FlattenEmpty == FlattenSeq(<<>>) = <<>>
BY EmptySeq DEF FlattenSeq

LEMMA FlattenAppend ==
  ASSUME NEW T, NEW q \in Seq(Seq(T)), NEW x \in Seq(T)
  PROVE  FlattenSeq(Append(q, x)) = FlattenSeq(q) \o x
<1> DEFINE r == Append(q, x)
           n == Len(q)
<1>1. /\ r \in Seq(Seq(T)) /\ Len(r) = n + 1 /\ n \in Nat
      /\ \A i \in 1..n : r[i] = q[i]
      /\ r[n + 1] = x
  BY AppendProperties, LenProperties
<1> HIDE DEF r
<1>2. PICK f \in [0..n -> Seq(T)] :
        /\ f[0] = <<>>
        /\ \A i \in 1..n : f[i] = f[i - 1] \o q[i]
        /\ f[n] = FlattenSeq(q)
  BY FlattenSteps
<1>3. PICK g \in [0..(n + 1) -> Seq(T)] :
        /\ g[0] = <<>>
        /\ \A i \in 1..(n + 1) : g[i] = g[i - 1] \o r[i]
        /\ g[n + 1] = FlattenSeq(r)
  <2>1. \E g \in [0..Len(r) -> Seq(T)] :
          /\ g[0] = <<>>
          /\ \A i \in 1..Len(r) : g[i] = g[i - 1] \o r[i]
          /\ g[Len(r)] = FlattenSeq(r)
    BY <1>1, FlattenSteps, Zenon
  <2> QED BY <1>1, <2>1, Zenon
<1>4. f[n] = g[n]
  <2>1. \A i \in 1..n : i \in 1..(n + 1)
    BY <1>1
  <2>2. \A i \in 1..n : f[i - 1] = g[i - 1] => f[i] = g[i]
    BY <1>1, <1>2, <1>3, <2>1
  <2> HIDE DEF n
  <2>3. f[0] = g[0]
    BY <1>2, <1>3
  <2> QED BY <1>1, <2>2, <2>3, SameRecursion, Zenon
<1>5. n + 1 \in 1..(n + 1) /\ (n + 1) - 1 = n
  BY <1>1
<1>6. g[n + 1] = g[n] \o x
  BY <1>1, <1>3, <1>5
<1> QED BY <1>2, <1>3, <1>4, <1>6 DEF r

LEMMA FlattenFirst ==
  ASSUME NEW T, NEW q \in Seq(Seq(T)), q # <<>>
  PROVE  FlattenSeq(q) = Head(q) \o FlattenSeq(Tail(q))
<1> DEFINE S == {r \in Seq(Seq(T)) :
                   r # <<>> =>
                     FlattenSeq(r) = Head(r) \o FlattenSeq(Tail(r))}
<1>1. <<>> \in S
  BY EmptySeq
<1>2. ASSUME NEW r \in Seq(Seq(T)), NEW x \in Seq(T), r \in S
      PROVE  Append(r, x) \in S
  <2>1. Append(r, x) \in Seq(Seq(T))
    BY AppendProperties
  <2>2. FlattenSeq(Append(r, x)) = FlattenSeq(r) \o x
    BY FlattenAppend
  <2>3. CASE r = <<>>
    <3>1. Head(Append(r, x)) = x /\ Tail(Append(r, x)) = <<>>
      BY <2>3, HeadTailAppend
    <3>2. <<>> \o x = x /\ x \o <<>> = x
      BY ConcatEmptySeq
    <3> QED BY <2>1, <2>2, <2>3, <3>1, <3>2, FlattenEmpty
  <2>4. CASE r # <<>>
    <3>1. /\ Head(Append(r, x)) = Head(r)
          /\ Tail(Append(r, x)) = Append(Tail(r), x)
      BY <2>4, HeadTailAppend
    <3>2. Head(r) \in Seq(T) /\ Tail(r) \in Seq(Seq(T))
      BY <2>4, HeadTailProperties
    <3>3. FlattenSeq(Append(Tail(r), x)) = FlattenSeq(Tail(r)) \o x
      BY <3>2, FlattenAppend
    <3>4. FlattenSeq(r) = Head(r) \o FlattenSeq(Tail(r))
      BY <1>2, <2>4
    <3>5. (Head(r) \o FlattenSeq(Tail(r))) \o x
          = Head(r) \o (FlattenSeq(Tail(r)) \o x)
      <4>1. FlattenSeq(Tail(r)) \in Seq(T)
        BY <3>2, FlattenType
      <4> DEFINE h == Head(r)
                 t == FlattenSeq(Tail(r))
      <4>2. h \in Seq(T) /\ t \in Seq(T)
        BY <3>2, <4>1
      <4> HIDE DEF h, t, S
      <4>3. (h \o t) \o x = h \o (t \o x)
        BY <4>2, ConcatAssociative, SMTT(60)
      <4> QED BY <4>3 DEF h, t
    <3> QED BY <2>1, <2>2, <3>1, <3>3, <3>4, <3>5
  <2> QED BY <2>3, <2>4
<1> HIDE DEF S
<1>3. Seq(Seq(T)) \subseteq S
  BY <1>1, <1>2, SeqInduction
<1> QED BY <1>3 DEF S

=============================================================================
