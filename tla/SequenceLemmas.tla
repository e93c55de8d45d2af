-------------------------- MODULE SequenceLemmas --------------------------
(***************************************************************************)
(* What the proofs about texts need of numbers and sequences.              *)
(*                                                                         *)
(* Induction is stated with sets: the rule of the library has an operator  *)
(* as a parameter, which the provers cannot give a value.  It follows from *)
(* the order on Nat being well founded.  With it, what FlattenSeq computes *)
(* can be said of sequences of any length.                                 *)
(***************************************************************************)
EXTENDS Naturals, SequencesExt, SequenceTheorems, WellFoundedInduction, TLAPS

-----------------------------------------------------------------------------
(* Induction *)

\* Every nonempty set of numbers has a least one.
LEMMA LeastNumber ==
  ASSUME NEW S, S \subseteq Nat, S # {}
  PROVE  \E n \in S : \A m \in S : n <= m
<1> DEFINE Less == {p \in Nat \X Nat : p[1] < p[2]}
<1>1. IsWellFoundedOn(Less, Nat)
  BY NatLessThanWellFounded DEF OpToRel
<1>2. \A x, y \in Nat : <<x, y>> \in Less <=> x < y
  OBVIOUS
<1>. HIDE DEF Less
<1>3. PICK n \in S : \A m \in S : ~ (<<m, n>> \in Less)
  BY <1>1, WFMin
<1>4. \A m \in S : n <= m
  <2> TAKE m \in S
  <2>1. m \in Nat /\ n \in Nat /\ ~ (m < n)
    BY <1>3, <1>2
  <2>. QED BY <2>1
<1>. QED BY <1>4

\* A set that has 0, and n + 1 with every n, has every number.
LEMMA NumberInduction ==
  ASSUME NEW S, 0 \in S, \A n \in Nat : n \in S => n + 1 \in S
  PROVE  Nat \subseteq S
<1> SUFFICES ASSUME Nat \ S # {} PROVE FALSE
  OBVIOUS
<1>1. PICK n \in Nat \ S : \A m \in Nat \ S : n <= m
  BY LeastNumber
<1>2. n # 0 /\ n - 1 \in Nat /\ n - 1 \in S
  BY <1>1
<1>. QED BY <1>1, <1>2

\* A set that has the empty sequence, and every sequence that is a sequence
\* of the set with one more element, has every sequence.
LEMMA SequenceInduction ==
  ASSUME NEW A, NEW S, <<>> \in S,
         \A s \in Seq(A), x \in A : s \in S => Append(s, x) \in S
  PROVE  Seq(A) \subseteq S
<1> DEFINE T == {n \in Nat : \A s \in Seq(A) : Len(s) = n => s \in S}
<1>1. 0 \in T
  <2>1. \A s \in Seq(A) : Len(s) = 0 => s = <<>>
    BY EmptySeq
  <2>. QED BY <2>1
<1>2. ASSUME NEW n \in Nat, n \in T PROVE n + 1 \in T
  <2> SUFFICES ASSUME NEW s \in Seq(A), Len(s) = n + 1 PROVE s \in S
    OBVIOUS
  <2>1. s # <<>>
    BY EmptySeq
  <2>2. PICK t \in Seq(A), x \in A : s = Append(t, x)
    BY <2>1, SequenceEmptyOrAppend
  <2>3. Len(t) = n
    BY <2>2, AppendProperties
  <2>. QED BY <1>2, <2>2, <2>3
<1>3. Nat \subseteq T
  <2>. HIDE DEF T
  <2>. QED BY <1>1, <1>2, NumberInduction
<1>4. \A s \in Seq(A) : Len(s) \in Nat
  OBVIOUS
<1>. QED BY <1>3, <1>4

-----------------------------------------------------------------------------
(* FlattenSeq *)

\* FlattenSeq is a recursive function that the library defines with CHOOSE.
\* No pieces give nothing.
LEMMA FlattenEmpty == FlattenSeq(<<>>) = <<>>
BY DEF FlattenSeq

\* g[i]: the first i sequences of s, one after the other
Joins(g, s, n) ==
  /\ n > 0 => g[1] = s[1]
  /\ \A i \in 2 .. n : g[i] = g[i - 1] \o s[i]

\* A sequence of sequences can be joined from left to right.
LEMMA JoinsExists ==
  ASSUME NEW S, NEW s \in Seq(Seq(S))
  PROVE  \A n \in Nat : n <= Len(s) => \E g \in [1 .. n -> Seq(S)] : Joins(g, s, n)
<1> DEFINE T == {n \in Nat : n <= Len(s) => \E g \in [1 .. n -> Seq(S)] : Joins(g, s, n)}
<1>1. 0 \in T
  <2>1. [i \in 1 .. 0 |-> <<>>] \in [1 .. 0 -> Seq(S)]
    OBVIOUS
  <2>2. Joins([i \in 1 .. 0 |-> <<>>], s, 0)
    BY DEF Joins
  <2>. QED BY <2>1, <2>2
<1>2. ASSUME NEW n \in Nat, n \in T PROVE n + 1 \in T
  <2> SUFFICES ASSUME n + 1 <= Len(s)
               PROVE \E g \in [1 .. n + 1 -> Seq(S)] : Joins(g, s, n + 1)
    OBVIOUS
  <2>1. PICK g \in [1 .. n -> Seq(S)] : Joins(g, s, n)
    BY <1>2
  <2> DEFINE h == [i \in 1 .. n + 1 |-> IF i <= n THEN g[i]
                     ELSE IF n = 0 THEN s[1] ELSE g[n] \o s[n + 1]]
  <2>2. \A i \in 1 .. Len(s) : s[i] \in Seq(S)
    OBVIOUS
  <2>3. h \in [1 .. n + 1 -> Seq(S)]
    <3> SUFFICES ASSUME NEW i \in 1 .. n + 1 PROVE h[i] \in Seq(S)
      OBVIOUS
    <3>1. CASE i <= n
      BY <3>1
    <3>2. CASE i = n + 1 /\ n = 0
      BY <3>2, <2>2
    <3>3. CASE i = n + 1 /\ n # 0
      <4>1. g[n] \in Seq(S) /\ s[n + 1] \in Seq(S)
        BY <3>3, <2>2
      <4>. QED BY <4>1, <3>3, ConcatProperties
    <3>. QED BY <3>1, <3>2, <3>3
  <2>4. Joins(h, s, n + 1)
    <3>1. h[1] = s[1]
      BY <2>1 DEF Joins
    <3>2. \A i \in 1 .. n : i \in 1 .. n + 1 /\ h[i] = g[i]
      OBVIOUS
    <3>4. n > 0 => h[n + 1] = g[n] \o s[n + 1]
      <4>1. n + 1 \in 1 .. n + 1 /\ ~ (n + 1 <= n) /\ (n > 0 => n # 0)
        OBVIOUS
      <4>. QED BY <4>1, Zenon
    <3>. HIDE DEF h
    <3>3. ASSUME NEW i \in 2 .. n + 1 PROVE h[i] = h[i - 1] \o s[i]
      <4>1. CASE i <= n
        <5>1. i \in 2 .. n /\ i \in 1 .. n /\ i - 1 \in 1 .. n
          BY <4>1
        <5>. QED BY <5>1, <2>1, <3>2 DEF Joins
      <4>2. CASE i = n + 1
        <5>1. n > 0 /\ n \in 1 .. n /\ i - 1 = n
          BY <4>2
        <5>. QED BY <5>1, <4>2, <3>2, <3>4
      <4>3. i <= n \/ i = n + 1
        OBVIOUS
      <4>. QED BY <4>1, <4>2, <4>3
    <3>. QED BY <3>1, <3>3 DEF Joins
  <2>. QED BY <2>3, <2>4
<1>3. Nat \subseteq T
  <2>. HIDE DEF T
  <2>. QED BY <1>1, <1>2, NumberInduction
<1>. QED BY <1>3

\* The value that FlattenSeq chooses is the last of these joins.
LEMMA FlattenIs ==
  ASSUME NEW S, NEW s \in Seq(Seq(S)), s # <<>>,
         NEW g \in [1 .. Len(s) -> Seq(S)], Joins(g, s, Len(s))
  PROVE  FlattenSeq(s) = g[Len(s)]
<1> DEFINE n == Len(s)
           Rec(f) == f = [i \in 1 .. n |-> IF i = 1 THEN s[i] ELSE f[i - 1] \o s[i]]
           f == CHOOSE f : Rec(f)
<1>0. n \in Nat /\ n > 0
  OBVIOUS
<1>1. FlattenSeq(s) = f[n]
  BY <1>0 DEF FlattenSeq
<1>. HIDE DEF f, n
<1>2. Rec(g)
  <2>1. ASSUME NEW i \in 1 .. n
        PROVE  g[i] = IF i = 1 THEN s[i] ELSE g[i - 1] \o s[i]
    <3>1. i = 1 \/ i \in 2 .. n
      BY <1>0
    <3>. QED BY <1>0, <3>1 DEF Joins, n
  <2>. QED BY <2>1 DEF n
<1>3. Rec(f)
  BY <1>2, Zenon DEF f
<1>4. f[1] = s[1] /\ \A i \in 2 .. n : f[i] = f[i - 1] \o s[i]
  <2>1. \A i \in 1 .. n : f[i] = IF i = 1 THEN s[i] ELSE f[i - 1] \o s[i]
    BY <1>3
  <2>2. 1 \in 1 .. n /\ \A i \in 2 .. n : i \in 1 .. n /\ i # 1
    BY <1>0
  <2>. QED BY <2>1, <2>2, Zenon
<1> DEFINE T == {k \in Nat : k + 1 <= n => f[k + 1] = g[k + 1]}
<1>5. 0 \in T
  BY <1>0, <1>4 DEF Joins, n
<1>6. ASSUME NEW k \in Nat, k \in T PROVE k + 1 \in T
  <2> SUFFICES ASSUME k + 2 <= n PROVE f[k + 2] = g[k + 2]
    BY <1>0
  <2>1. f[k + 1] = g[k + 1]
    BY <1>6, <1>0
  <2>2. k + 2 \in 2 .. n /\ (k + 2) - 1 = k + 1
    BY <1>0
  <2>3. f[k + 2] = f[k + 1] \o s[k + 2]
    BY <1>4, <2>2
  <2>4. g[k + 2] = g[k + 1] \o s[k + 2]
    BY <2>2 DEF Joins, n
  <2>. QED BY <2>1, <2>3, <2>4
<1>7. Nat \subseteq T
  <2>. HIDE DEF T
  <2>. QED BY <1>5, <1>6, NumberInduction
<1>8. n - 1 \in Nat /\ (n - 1) + 1 = n
  BY <1>0
<1>9. f[n] = g[n]
  <2>1. (n - 1) + 1 <= n
    BY <1>0
  <2>2. n - 1 \in T
    BY <1>7, <1>8, Zenon
  <2>3. f[(n - 1) + 1] = g[(n - 1) + 1]
    BY <2>1, <2>2, Zenon
  <2>. QED BY <1>8, <2>3, Zenon
<1>. QED BY <1>1, <1>9 DEF n

\* What is joined from sequences of S is a sequence of S.
LEMMA FlattenType ==
  ASSUME NEW S, NEW s \in Seq(Seq(S))
  PROVE  FlattenSeq(s) \in Seq(S)
<1>1. CASE s = <<>>
  BY <1>1, FlattenEmpty, EmptySeq
<1>2. CASE s # <<>>
  <2>1. Len(s) \in Nat /\ Len(s) # 0
    BY <1>2
  <2>2. PICK g \in [1 .. Len(s) -> Seq(S)] : Joins(g, s, Len(s))
    BY <2>1, JoinsExists
  <2>3. FlattenSeq(s) = g[Len(s)]
    BY <1>2, <2>2, FlattenIs
  <2>4. Len(s) \in 1 .. Len(s)
    BY <2>1
  <2>. QED BY <2>2, <2>3, <2>4
<1>. QED BY <1>1, <1>2

\* One piece more is joined at the end.
LEMMA FlattenAppend ==
  ASSUME NEW S, NEW s \in Seq(Seq(S)), NEW x \in Seq(S)
  PROVE  FlattenSeq(Append(s, x)) = FlattenSeq(s) \o x
<1> DEFINE t == Append(s, x)
           n == Len(s)
<1>0. t \in Seq(Seq(S)) /\ n \in Nat /\ Len(t) = n + 1 /\ t[n + 1] = x
      /\ t # <<>> /\ \A i \in 1 .. n : t[i] = s[i]
  BY AppendProperties
<1>. HIDE DEF t
<1>1. PICK g \in [1 .. n + 1 -> Seq(S)] : Joins(g, t, n + 1)
  <2>1. n + 1 \in Nat /\ n + 1 <= Len(t)
    BY <1>0
  <2>. QED BY <1>0, <2>1, JoinsExists
<1>2. FlattenSeq(t) = g[n + 1]
  BY <1>0, <1>1, FlattenIs
<1>3. CASE n = 0
  <2>1. g[n + 1] = x /\ s = <<>>
    BY <1>0, <1>1, <1>3 DEF Joins
  <2>. QED BY <2>1, <1>2, FlattenEmpty, ConcatEmptySeq DEF t
<1>4. CASE n # 0
  <2> DEFINE h == [i \in 1 .. n |-> g[i]]
  <2>1. h \in [1 .. n -> Seq(S)]
    BY <1>0
  <2>2. Joins(h, s, n)
    <3>1. \A i \in 1 .. n : h[i] = g[i]
      OBVIOUS
    <3>2. \A i \in 2 .. n : i \in 2 .. n + 1 /\ i \in 1 .. n /\ i - 1 \in 1 .. n
      BY <1>0
    <3>3. 1 \in 1 .. n
      BY <1>0, <1>4
    <3>. HIDE DEF h
    <3>4. h[1] = s[1]
      BY <1>0, <1>1, <3>1, <3>3 DEF Joins
    <3>5. ASSUME NEW i \in 2 .. n PROVE h[i] = h[i - 1] \o s[i]
      <4>1. i \in 2 .. n + 1 /\ h[i] = g[i] /\ h[i - 1] = g[i - 1] /\ t[i] = s[i]
        BY <1>0, <3>1, <3>2
      <4>. QED BY <1>1, <4>1 DEF Joins
    <3>. QED BY <3>4, <3>5 DEF Joins
  <2>3. FlattenSeq(s) = h[n]
    <3>1. s # <<>>
      BY <1>4
    <3>. HIDE DEF h
    <3>. QED BY <2>1, <2>2, <3>1, FlattenIs
  <2>4. h[n] = g[n] /\ g[n + 1] = g[n] \o x
    <3>1. n \in 1 .. n /\ n + 1 \in 2 .. n + 1 /\ (n + 1) - 1 = n
      BY <1>0, <1>4
    <3>. QED BY <3>1, <1>0, <1>1 DEF Joins
  <2>. QED BY <1>2, <2>3, <2>4 DEF t
<1>. QED BY <1>3, <1>4

\* FlattenSeq respects concatenation.
LEMMA FlattenConcat ==
  ASSUME NEW S, NEW s \in Seq(Seq(S)), NEW t \in Seq(Seq(S))
  PROVE  FlattenSeq(s \o t) = FlattenSeq(s) \o FlattenSeq(t)
<1> DEFINE T == {u \in Seq(Seq(S)) : FlattenSeq(s \o u) = FlattenSeq(s) \o FlattenSeq(u)}
<1>1. <<>> \in T
  <2>1. <<>> \in Seq(Seq(S)) /\ FlattenSeq(s) \in Seq(S) /\ s \o <<>> = s
    BY EmptySeq, FlattenType, ConcatEmptySeq
  <2>2. FlattenSeq(s) \o <<>> = FlattenSeq(s)
    BY <2>1, ConcatEmptySeq
  <2>. QED BY <2>1, <2>2, FlattenEmpty
<1>2. ASSUME NEW u \in Seq(Seq(S)), NEW x \in Seq(S), u \in T
      PROVE  Append(u, x) \in T
  <2>1. s \o u \in Seq(Seq(S)) /\ Append(u, x) \in Seq(Seq(S))
    BY ConcatProperties, AppendProperties
  <2>2. s \o Append(u, x) = Append(s \o u, x)
    <3>1. <<x>> \in Seq(Seq(S))
      OBVIOUS
    <3>2. s \o (u \o <<x>>) = (s \o u) \o <<x>>
      BY <3>1, ConcatAssociative
    <3>. QED BY <2>1, <3>2, AppendIsConcat
  <2>3. FlattenSeq(s \o Append(u, x)) = (FlattenSeq(s) \o FlattenSeq(u)) \o x
    BY <1>2, <2>1, <2>2, FlattenAppend
  <2>4. FlattenSeq(Append(u, x)) = FlattenSeq(u) \o x
    BY FlattenAppend
  <2>5. FlattenSeq(s) \in Seq(S) /\ FlattenSeq(u) \in Seq(S)
    BY FlattenType
  <2>6. (FlattenSeq(s) \o FlattenSeq(u)) \o x = FlattenSeq(s) \o (FlattenSeq(u) \o x)
    BY <2>5, ConcatAssociative
  <2>. QED BY <2>1, <2>3, <2>4, <2>6
<1>3. Seq(Seq(S)) \subseteq T
  <2>. HIDE DEF T
  <2>. QED BY <1>1, <1>2, SequenceInduction
<1>. QED BY <1>3

\* One piece of one element for each element gives the sequence back.
LEMMA FlattenSingles ==
  ASSUME NEW S, NEW v \in Seq(S), NEW s, Len(s) = Len(v), s \in Seq(Seq(S)),
         \A i \in 1 .. Len(v) : s[i] = <<v[i]>>
  PROVE  FlattenSeq(s) = v
<1> DEFINE T == {u \in Seq(S) : FlattenSeq([i \in 1 .. Len(u) |-> <<u[i]>>]) = u}
<1>1. <<>> \in T
  <2>1. [i \in 1 .. 0 |-> <<(<<>>[i])>>] = <<>>
    OBVIOUS
  <2>. QED BY <2>1, FlattenEmpty, EmptySeq
<1>2. ASSUME NEW u \in Seq(S), NEW x \in S, u \in T
      PROVE  Append(u, x) \in T
  <2> DEFINE p == [i \in 1 .. Len(u) |-> <<u[i]>>]
             w == Append(u, x)
             q == [i \in 1 .. Len(w) |-> <<w[i]>>]
  <2>1. w \in Seq(S) /\ Len(w) = Len(u) + 1 /\ w[Len(u) + 1] = x
        /\ \A i \in 1 .. Len(u) : w[i] = u[i]
    BY AppendProperties
  <2>2. p \in Seq(Seq(S)) /\ Len(p) = Len(u) /\ <<x>> \in Seq(S)
    OBVIOUS
  <2>3. q = Append(p, <<x>>)
    <3>. HIDE DEF w
    <3>. QED BY <2>1, <2>2
  <2>4. FlattenSeq(q) = FlattenSeq(p) \o <<x>>
    <3>. HIDE DEF p, q
    <3>. QED BY <2>2, <2>3, FlattenAppend
  <2>. QED BY <1>2, <2>1, <2>4, AppendIsConcat
<1>3. Seq(S) \subseteq T
  <2>. HIDE DEF T
  <2>. QED BY <1>1, <1>2, SequenceInduction
<1>4. s = [i \in 1 .. Len(v) |-> <<v[i]>>]
  <2>1. s = [i \in 1 .. Len(s) |-> s[i]]
    BY LenProperties
  <2>. QED BY <2>1, Zenon
<1>. QED BY <1>3, <1>4

\* Empty pieces give nothing.
LEMMA FlattenNothing ==
  ASSUME NEW S, NEW n \in Nat, NEW s \in Seq(Seq(S)), Len(s) = n,
         \A i \in 1 .. n : s[i] = <<>>
  PROVE  FlattenSeq(s) = <<>>
<1> DEFINE T == {t \in Seq({<<>>}) : FlattenSeq(t) = <<>>}
<1>1. <<>> \in T
  BY FlattenEmpty, EmptySeq
<1>2. ASSUME NEW t \in Seq({<<>>}), NEW x \in {<<>>}, t \in T PROVE Append(t, x) \in T
  <2>1. Append(t, x) \in Seq({<<>>}) /\ x = <<>>
    BY AppendProperties
  <2>2. {<<>>} \subseteq Seq(S) /\ <<>> \in Seq(S)
    BY EmptySeq
  <2>3. t \in Seq(Seq(S))
    BY <2>2, SeqMonotonic
  <2>4. FlattenSeq(Append(t, x)) = FlattenSeq(t) \o <<>>
    BY <2>1, <2>2, <2>3, FlattenAppend
  <2>. QED BY <1>2, <2>1, <2>2, <2>4, ConcatEmptySeq
<1>3. Seq({<<>>}) \subseteq T
  <2>. HIDE DEF T
  <2>. QED BY <1>1, <1>2, SequenceInduction
<1>4. s \in Seq({<<>>})
  OBVIOUS
<1>. QED BY <1>3, <1>4

\* Pieces of at most one element give no more elements than there are
\* pieces.
LEMMA FlattenShort ==
  ASSUME NEW S, NEW s \in Seq(Seq(S)), \A i \in 1 .. Len(s) : Len(s[i]) <= 1
  PROVE  Len(FlattenSeq(s)) <= Len(s)
<1> DEFINE Short == {x \in Seq(S) : Len(x) <= 1}
           T == {t \in Seq(Short) : Len(FlattenSeq(t)) <= Len(t)}
<1>1. <<>> \in T
  BY FlattenEmpty, EmptySeq
<1>2. ASSUME NEW t \in Seq(Short), NEW x \in Short, t \in T PROVE Append(t, x) \in T
  <2>1. Append(t, x) \in Seq(Short) /\ Len(Append(t, x)) = Len(t) + 1
    BY AppendProperties
  <2>2. Short \subseteq Seq(S)
    OBVIOUS
  <2>3. t \in Seq(Seq(S)) /\ x \in Seq(S) /\ Len(x) <= 1
    BY <2>2, SeqMonotonic
  <2>4. FlattenSeq(t) \in Seq(S)
    BY <2>3, FlattenType
  <2>5. FlattenSeq(Append(t, x)) = FlattenSeq(t) \o x
    BY <2>3, FlattenAppend
  <2>6. Len(FlattenSeq(t) \o x) = Len(FlattenSeq(t)) + Len(x)
    BY <2>3, <2>4, ConcatProperties
  <2>7. Len(FlattenSeq(t)) \in Nat /\ Len(t) \in Nat /\ Len(x) \in Nat
        /\ Len(FlattenSeq(t)) <= Len(t)
    BY <1>2, <2>3, <2>4
  <2>. QED BY <2>1, <2>3, <2>5, <2>6, <2>7
<1>3. Seq(Short) \subseteq T
  <2>. HIDE DEF T, Short
  <2>. QED BY <1>1, <1>2, SequenceInduction
<1>4. s \in Seq(Short)
  <2>1. \A i \in 1 .. Len(s) : s[i] \in Short
    OBVIOUS
  <2>. HIDE DEF Short
  <2>. QED BY <2>1
<1>. QED BY <1>3, <1>4

\* What a piece has, the whole has.
LEMMA FlattenHas ==
  ASSUME NEW S, NEW s \in Seq(Seq(S)), NEW c,
         \E i \in 1 .. Len(s) : \E j \in 1 .. Len(s[i]) : s[i][j] = c
  PROVE  \E k \in 1 .. Len(FlattenSeq(s)) : FlattenSeq(s)[k] = c
<1> DEFINE Has(x) == \E k \in 1 .. Len(x) : x[k] = c
           T == {t \in Seq(Seq(S)) : (\E m \in 1 .. Len(t) : Has(t[m])) => Has(FlattenSeq(t))}
<1>1. <<>> \in T
  BY EmptySeq
<1>2. ASSUME NEW t \in Seq(Seq(S)), NEW x \in Seq(S), t \in T PROVE Append(t, x) \in T
  <2> DEFINE u == Append(t, x)
  <2>1. u \in Seq(Seq(S)) /\ Len(u) = Len(t) + 1 /\ u[Len(t) + 1] = x
        /\ \A m \in 1 .. Len(t) : u[m] = t[m]
    BY AppendProperties
  <2> SUFFICES ASSUME NEW m \in 1 .. Len(u), Has(u[m]) PROVE Has(FlattenSeq(u))
    BY <2>1
  <2>2. FlattenSeq(u) = FlattenSeq(t) \o x /\ FlattenSeq(t) \in Seq(S)
    BY FlattenAppend, FlattenType
  <2>. HIDE DEF u
  <2> DEFINE y == FlattenSeq(t)
  <2>3. /\ Len(y) \in Nat /\ Len(x) \in Nat /\ Len(y \o x) = Len(y) + Len(x)
        /\ \A k \in 1 .. Len(y) : (y \o x)[k] = y[k]
        /\ \A k \in 1 .. Len(x) : (y \o x)[Len(y) + k] = x[k]
    BY <2>2, ConcatProperties
  <2>. HIDE DEF y
  <2>4. CASE m = Len(t) + 1
    <3>1. PICK k \in 1 .. Len(x) : x[k] = c
      BY <2>1, <2>4
    <3>2. Len(y) + k \in 1 .. Len(y \o x) /\ (y \o x)[Len(y) + k] = c
      BY <2>3, <3>1
    <3>. QED BY <2>2, <3>2 DEF y
  <2>5. CASE m # Len(t) + 1
    <3>1. m \in 1 .. Len(t)
      BY <2>1, <2>5
    <3>2. Has(y)
      <4>1. Has(t[m])
        BY <3>1, <2>1
      <4>. QED BY <1>2, <3>1, <4>1 DEF y
    <3>3. PICK k \in 1 .. Len(y) : y[k] = c
      BY <3>2
    <3>4. k \in 1 .. Len(y \o x) /\ (y \o x)[k] = c
      BY <2>3, <3>3
    <3>. QED BY <2>2, <3>4 DEF y
  <2>. QED BY <2>4, <2>5
<1>3. Seq(Seq(S)) \subseteq T
  <2>. HIDE DEF T
  <2>. QED BY <1>1, <1>2, SequenceInduction
<1>. QED BY <1>3

-----------------------------------------------------------------------------
(* The least and the greatest number *)

\* The greatest and the least number of a set, which the library chooses.
LEMMA MaxIs ==
  ASSUME NEW S, S \subseteq Nat, NEW m \in S, \A x \in S : x <= m
  PROVE  Max(S) = m
<1>1. m \in Nat /\ \A y \in S : m >= y
  OBVIOUS
<1>2. Max(S) \in S /\ \A y \in S : Max(S) >= y
  BY <1>1, Zenon DEF Max
<1>3. Max(S) \in Nat /\ Max(S) >= m /\ m >= Max(S)
  BY <1>1, <1>2
<1>. QED BY <1>1, <1>3

\* ... and the least one.
LEMMA MinIs ==
  ASSUME NEW S, S \subseteq Nat, NEW m \in S, \A x \in S : m <= x
  PROVE  Min(S) = m
<1>1. m \in Nat /\ \A y \in S : m <= y
  OBVIOUS
<1>2. Min(S) \in S /\ \A y \in S : Min(S) <= y
  BY <1>1, Zenon DEF Min
<1>3. Min(S) \in Nat /\ Min(S) <= m /\ m <= Min(S)
  BY <1>1, <1>2
<1>. QED BY <1>1, <1>3

\* A nonempty set of numbers with a bound has a greatest one.
LEMMA GreatestNumber ==
  ASSUME NEW n \in Nat, NEW S, S \subseteq 0 .. n, S # {}
  PROVE  \E m \in S : \A x \in S : x <= m
<1> DEFINE T == {n - x : x \in S}
<1>1. T \subseteq Nat /\ T # {}
  <2>1. \A x \in S : n - x \in Nat
    OBVIOUS
  <2>. QED BY <2>1
<1>2. PICK d \in T : \A e \in T : d <= e
  BY <1>1, LeastNumber
<1>3. PICK m \in S : d = n - m
  OBVIOUS
<1>4. \A x \in S : n - m <= n - x
  BY <1>2, <1>3
<1>5. \A x \in S : x <= m
  BY <1>4
<1>. QED BY <1>5

-----------------------------------------------------------------------------
(* Parts and concatenations *)

\* SubSeq, with what the library says of it for sequences
LEMMA SubSeqIs ==
  ASSUME NEW S, NEW s \in Seq(S), NEW a \in Nat, NEW b \in Nat,
         1 <= a, a <= b + 1, b <= Len(s)
  PROVE  /\ SubSeq(s, a, b) \in Seq(S)
         /\ Len(SubSeq(s, a, b)) = b - a + 1
         /\ \A i \in 1 .. b - a + 1 : SubSeq(s, a, b)[i] = s[a + i - 1]
<1>1. \A i \in a .. b : s[i] \in S
  OBVIOUS
<1>. QED BY <1>1, SubSeqProperties

\* A part of the second sequence is a part of the concatenation.
LEMMA SubSeqShift ==
  ASSUME NEW S, NEW t \in Seq(S), NEW u \in Seq(S), NEW a \in Nat, NEW b \in Nat,
         1 <= a, a <= b + 1, b <= Len(u)
  PROVE  SubSeq(t \o u, Len(t) + a, Len(t) + b) = SubSeq(u, a, b)
<1> DEFINE x == SubSeq(t \o u, Len(t) + a, Len(t) + b)
           y == SubSeq(u, a, b)
           n == Len(t)
<1>1. t \o u \in Seq(S) /\ n \in Nat /\ Len(u) \in Nat /\ Len(t \o u) = n + Len(u)
  BY ConcatProperties
<1>2. /\ x \in Seq(S) /\ Len(x) = b - a + 1
      /\ \A i \in 1 .. b - a + 1 : x[i] = (t \o u)[n + a + i - 1]
  <2>1. n + a \in Nat /\ n + b \in Nat /\ 1 <= n + a /\ n + a <= (n + b) + 1
        /\ n + b <= Len(t \o u) /\ (n + b) - (n + a) + 1 = b - a + 1
    BY <1>1
  <2>. QED BY <1>1, <2>1, SubSeqIs
<1>3. /\ y \in Seq(S) /\ Len(y) = b - a + 1
      /\ \A i \in 1 .. b - a + 1 : y[i] = u[a + i - 1]
  BY SubSeqIs
<1>4. \A i \in 1 .. b - a + 1 : x[i] = y[i]
  <2> TAKE i \in 1 .. b - a + 1
  <2>1. n + a + i - 1 \in 1 .. n + Len(u) /\ ~ (n + a + i - 1 <= n)
        /\ (n + a + i - 1) - n = a + i - 1
    BY <1>1
  <2>2. (t \o u)[n + a + i - 1] = u[a + i - 1]
    BY <2>1, ConcatProperties
  <2>. QED BY <1>2, <1>3, <2>2
<1>. QED BY <1>2, <1>3, <1>4, SeqEqual

\* A part of the first one as well.
LEMMA SubSeqInFirst ==
  ASSUME NEW S, NEW t \in Seq(S), NEW u \in Seq(S), NEW a \in Nat, NEW b \in Nat,
         1 <= a, a <= b + 1, b <= Len(t)
  PROVE  SubSeq(t \o u, a, b) = SubSeq(t, a, b)
<1> DEFINE x == SubSeq(t \o u, a, b)
           y == SubSeq(t, a, b)
<1>1. t \o u \in Seq(S) /\ Len(t) \in Nat /\ Len(u) \in Nat
      /\ Len(t \o u) = Len(t) + Len(u)
      /\ \A i \in 1 .. Len(t) : (t \o u)[i] = t[i]
  BY ConcatProperties
<1>2. /\ x \in Seq(S) /\ Len(x) = b - a + 1
      /\ \A i \in 1 .. b - a + 1 : x[i] = (t \o u)[a + i - 1]
  BY <1>1, SubSeqIs
<1>3. /\ y \in Seq(S) /\ Len(y) = b - a + 1
      /\ \A i \in 1 .. b - a + 1 : y[i] = t[a + i - 1]
  BY SubSeqIs
<1>4. \A i \in 1 .. b - a + 1 : x[i] = y[i]
  BY <1>1, <1>2, <1>3
<1>. QED BY <1>2, <1>3, <1>4, SeqEqual

\* How to recognise a concatenation, ...
LEMMA ConcatIs ==
  ASSUME NEW S, NEW a \in Seq(S), NEW b \in Seq(S), NEW c \in Seq(S),
         Len(c) = Len(a) + Len(b),
         \A i \in 1 .. Len(a) : c[i] = a[i],
         \A i \in 1 .. Len(b) : c[Len(a) + i] = b[i]
  PROVE  c = a \o b
<1>1. a \o b \in Seq(S) /\ Len(a \o b) = Len(a) + Len(b)
      /\ Len(a) \in Nat /\ Len(b) \in Nat
  BY ConcatProperties
<1>2. ASSUME NEW i \in 1 .. Len(c) PROVE c[i] = (a \o b)[i]
  <2>1. CASE i <= Len(a)
    <3>1. i \in 1 .. Len(a)
      BY <1>1, <2>1
    <3>. QED BY <1>1, <3>1, ConcatProperties
  <2>2. CASE i > Len(a)
    <3>1. i - Len(a) \in 1 .. Len(b) /\ Len(a) + (i - Len(a)) = i
          /\ i \in 1 .. Len(a) + Len(b) /\ ~ (i <= Len(a))
      BY <1>1, <2>2
    <3>2. c[Len(a) + (i - Len(a))] = b[i - Len(a)]
      BY <3>1
    <3>3. (a \o b)[i] = b[i - Len(a)]
      BY <3>1, ConcatProperties
    <3>. QED BY <3>1, <3>2, <3>3
  <2>3. i <= Len(a) \/ i > Len(a)
    BY <1>1
  <2>. QED BY <2>1, <2>2, <2>3
<1>. QED BY <1>1, <1>2, SeqEqual

\* ... and how to take the last element off.
LEMMA TakeLast ==
  ASSUME NEW S, NEW n \in Nat, NEW p \in Seq(S), Len(p) = n + 1
  PROVE  /\ SubSeq(p, 1, n) \in Seq(S)
         /\ Len(SubSeq(p, 1, n)) = n
         /\ \A i \in 1 .. n : SubSeq(p, 1, n)[i] = p[i]
         /\ p = Append(SubSeq(p, 1, n), p[n + 1])
<1> DEFINE q == SubSeq(p, 1, n)
<1>1. q \in Seq(S) /\ Len(q) = n /\ (\A i \in 1 .. n : q[i] = p[i]) /\ p[n + 1] \in S
  OBVIOUS
<1>. HIDE DEF q
<1>2. p = Append(q, p[n + 1])
  BY <1>1
<1>. QED BY <1>1, <1>2 DEF q

\* Where the elements of a concatenation come from
LEMMA ConcatAt ==
  ASSUME NEW S, NEW a \in Seq(S), NEW b \in Seq(S)
  PROVE  /\ a \o b \in Seq(S)
         /\ Len(a) \in Nat /\ Len(b) \in Nat /\ Len(a \o b) = Len(a) + Len(b)
         /\ \A i \in 1 .. Len(a) : (a \o b)[i] = a[i]
         /\ \A i \in 1 .. Len(b) : (a \o b)[Len(a) + i] = b[i]
<1>1. Len(a) \in Nat /\ Len(b) \in Nat
  OBVIOUS
<1>2. a \o b \in Seq(S) /\ Len(a \o b) = Len(a) + Len(b)
  BY ConcatProperties
<1>3. \A i \in 1 .. Len(a) : (a \o b)[i] = a[i]
  BY <1>1, ConcatProperties
<1>4. ASSUME NEW i \in 1 .. Len(b) PROVE (a \o b)[Len(a) + i] = b[i]
  <2>1. Len(a) + i \in 1 .. Len(a) + Len(b) /\ ~ (Len(a) + i <= Len(a))
        /\ (Len(a) + i) - Len(a) = i
    BY <1>1
  <2>. QED BY <2>1, ConcatProperties
<1>. QED BY <1>1, <1>2, <1>3, <1>4

\* The beginning of a sequence
LEMMA Beginning ==
  ASSUME NEW S, NEW s \in Seq(S), NEW m \in 0 .. Len(s)
  PROVE  /\ SubSeq(s, 1, m) \in Seq(S)
         /\ Len(SubSeq(s, 1, m)) = m
         /\ \A i \in 1 .. m : SubSeq(s, 1, m)[i] = s[i]
<1>1. m \in Nat /\ 1 <= m + 1 /\ m <= Len(s) /\ m - 1 + 1 = m
  OBVIOUS
<1>2. /\ SubSeq(s, 1, m) \in Seq(S) /\ Len(SubSeq(s, 1, m)) = m - 1 + 1
      /\ \A i \in 1 .. m - 1 + 1 : SubSeq(s, 1, m)[i] = s[1 + i - 1]
  BY <1>1, SubSeqIs
<1>3. \A i \in 1 .. m : 1 + i - 1 = i
  BY <1>1
<1>. QED BY <1>1, <1>2, <1>3

\* A sequence is what stands before an element, the element, and the rest.
LEMMA SplitAt ==
  ASSUME NEW S, NEW s \in Seq(S), NEW j \in 1 .. Len(s)
  PROVE  LET p == SubSeq(s, 1, j - 1)
             z == SubSeq(s, j + 1, Len(s))
         IN  /\ p \in Seq(S) /\ Len(p) = j - 1 /\ \A i \in 1 .. j - 1 : p[i] = s[i]
             /\ z \in Seq(S)
             /\ s = p \o (<<s[j]>> \o z)
<1> DEFINE n == Len(s)
           g == s[j]
           p == SubSeq(s, 1, j - 1)
           z == SubSeq(s, j + 1, n)
           y == <<g>> \o z
<1>1. n \in Nat /\ j \in Nat /\ 1 <= j /\ j <= n /\ j - 1 \in 0 .. n /\ g \in S
  OBVIOUS
<1>. HIDE DEF g
<1>2. p \in Seq(S) /\ Len(p) = j - 1 /\ \A i \in 1 .. j - 1 : p[i] = s[i]
  BY <1>1, Beginning
<1>3. /\ z \in Seq(S) /\ Len(z) = n - (j + 1) + 1
      /\ \A i \in 1 .. n - (j + 1) + 1 : z[i] = s[j + 1 + i - 1]
  <2>1. j + 1 \in Nat /\ n \in Nat /\ 1 <= j + 1 /\ j + 1 <= n + 1 /\ n <= Len(s)
    BY <1>1
  <2>. QED BY <1>1, <2>1, SubSeqIs
<1>. HIDE DEF p, z
<1>4. /\ y \in Seq(S) /\ Len(y) = 1 + Len(z) /\ y[1] = g
      /\ \A i \in 1 .. Len(z) : y[1 + i] = z[i]
  <2>1. <<g>> \in Seq(S) /\ Len(<<g>>) = 1 /\ <<g>>[1] = g
    BY <1>1
  <2>3. z \in Seq(S) /\ <<g>> \in Seq(S)
    BY <1>3, <2>1
  <2>2. /\ y \in Seq(S) /\ Len(y) = Len(<<g>>) + Len(z)
        /\ \A i \in 1 .. Len(<<g>>) : y[i] = <<g>>[i]
        /\ \A i \in 1 .. Len(z) : y[Len(<<g>>) + i] = z[i]
    BY <2>3, ConcatAt
  <2>. HIDE DEF y
  <2>. QED BY <2>1, <2>2
<1>. HIDE DEF y
<1>5. s = p \o y
  <2>1. Len(s) = Len(p) + Len(y)
    BY <1>1, <1>2, <1>3, <1>4
  <2>2. \A i \in 1 .. Len(p) : s[i] = p[i]
    BY <1>2
  <2>3. ASSUME NEW i \in 1 .. Len(y) PROVE s[Len(p) + i] = y[i]
    <3>1. CASE i = 1
      <4>1. Len(p) + i = j
        BY <1>1, <1>2, <3>1
      <4>. QED BY <1>4, <3>1, <4>1 DEF g
    <3>2. CASE i # 1
      <4>1. i - 1 \in 1 .. n - (j + 1) + 1 /\ i - 1 \in 1 .. Len(z)
            /\ 1 + (i - 1) = i /\ j + 1 + (i - 1) - 1 = Len(p) + i
        BY <1>1, <1>2, <1>3, <1>4, <3>2
      <4>2. y[i] = z[i - 1]
        BY <1>4, <4>1
      <4>3. z[i - 1] = s[j + 1 + (i - 1) - 1]
        BY <1>3, <4>1
      <4>. QED BY <4>1, <4>2, <4>3
    <3>. QED BY <3>1, <3>2
  <2>. QED BY <1>2, <1>4, <2>1, <2>2, <2>3, ConcatIs
<1>. QED BY <1>2, <1>3, <1>5 DEF p, z, y, g, n
=============================================================================
