-------------------------- MODULE EnvFileProof --------------------------
(***************************************************************************)
(* What export_credentials writes, processBulkEnv reads back exactly when  *)
(* every key fits on a line and every value is Plain: for credentials of   *)
(* any number and texts of any length.                                     *)
(*                                                                         *)
(* Escape and ReplaceEscape undo each other on quotes (QuotesComeBack).    *)
(* An import reads a file line by line (ImportOfLine), so that the first   *)
(* credential that is not exportable decides: its line gives another value *)
(* (ReadBroken), or its key is none that an import can give (LinesType).   *)
(***************************************************************************)
EXTENDS EnvFile, SequenceLemmas

-----------------------------------------------------------------------------
(* What is written for a value, and what replacing does *)

\* What the conversions are made of.
LEMMA Chars ==
  /\ Quote # Backslash /\ Quote # Apostrophe /\ Quote # LetterN /\ Quote # Newline
  /\ Quote # Return /\ Quote # Equals /\ Quote # Hash /\ Quote # Space
  /\ LetterN # Backslash /\ Newline # LetterN /\ Newline # Backslash
  /\ Newline # Return /\ Newline # Equals /\ Return # Equals /\ Equals # Space
  /\ Equals # Hash /\ Return # Backslash
BY DEF Quote, Apostrophe, Backslash, LetterN, Newline, Return, Equals, Hash, Space

\* The empty value is written as nothing.
LEMMA EscapeEmpty == Escape(<<>>) = <<>>
<1>1. [i \in DOMAIN <<>> |-> Escaped(<<>>[i])] = <<>>
  OBVIOUS
<1>. QED BY <1>1, FlattenEmpty DEF Escape

\* One character more in a value is one piece more in what is written.
LEMMA EscapeAppend ==
  ASSUME NEW S, NEW v \in Seq(S), NEW c \in S, Backslash \in S, Quote \in S
  PROVE  /\ Escape(v) \in Seq(S)
         /\ Escape(Append(v, c)) = Escape(v) \o Escaped(c)
<1> DEFINE w == Append(v, c)
           p == [i \in DOMAIN v |-> Escaped(v[i])]
           q == [i \in DOMAIN w |-> Escaped(w[i])]
<1>1. w \in Seq(S) /\ Len(w) = Len(v) + 1 /\ w[Len(v) + 1] = c
      /\ \A i \in 1 .. Len(v) : w[i] = v[i]
  BY AppendProperties
<1>2. p \in Seq(Seq(S)) /\ Len(p) = Len(v) /\ Escaped(c) \in Seq(S)
  <2>1. \A x \in S : Escaped(x) \in Seq(S)
    BY DEF Escaped
  <2>2. \A i \in 1 .. Len(v) : Escaped(v[i]) \in Seq(S)
    BY <2>1
  <2>3. p = [i \in 1 .. Len(v) |-> Escaped(v[i])]
    OBVIOUS
  <2>. QED BY <2>1, <2>2, <2>3
<1>3. q = Append(p, Escaped(c))
  <2>. HIDE DEF w
  <2>. QED BY <1>1, <1>2
<1>4. Escape(v) = FlattenSeq(p) /\ Escape(w) = FlattenSeq(q)
  BY DEF Escape
<1>. HIDE DEF p, q, w
<1>5. Escape(v) \in Seq(S) /\ Escape(w) = Escape(v) \o Escaped(c)
  BY <1>2, <1>3, <1>4, FlattenType, FlattenAppend
<1>. QED BY <1>5 DEF w

\* The pieces that ReplaceEscape joins
Pieces(s, second, by) == [i \in 1 .. Len(s) |-> Replaced(s, i, second, by)]

\* What is replaced is joined from one piece for each character.
LEMMA ReplaceIs ==
  ASSUME NEW S, NEW s \in Seq(S), NEW second, NEW by \in S
  PROVE  /\ Pieces(s, second, by) \in Seq(Seq(S))
         /\ Len(Pieces(s, second, by)) = Len(s)
         /\ \A i \in 1 .. Len(s) : Pieces(s, second, by)[i] = Replaced(s, i, second, by)
         /\ ReplaceEscape(s, second, by) = FlattenSeq(Pieces(s, second, by))
         /\ ReplaceEscape(s, second, by) \in Seq(S)
<1> DEFINE p == Pieces(s, second, by)
<1>1. \A i \in 1 .. Len(s) : Replaced(s, i, second, by) \in Seq(S)
  BY DEF Replaced
<1>2. p \in Seq(Seq(S)) /\ Len(p) = Len(s)
      /\ \A i \in 1 .. Len(s) : p[i] = Replaced(s, i, second, by)
  BY <1>1 DEF Pieces
<1>3. ReplaceEscape(s, second, by) = FlattenSeq(p)
  <2>1. DOMAIN s = 1 .. Len(s)
    OBVIOUS
  <2>. QED BY <2>1, Zenon DEF ReplaceEscape, Pieces
<1>4. FlattenSeq(p) \in Seq(S)
  <2>. HIDE DEF p
  <2>. QED BY <1>2, FlattenType
<1>. QED BY <1>2, <1>3, <1>4

\* In the empty text there is nothing to replace.
LEMMA ReplaceEmpty ==
  ASSUME NEW second, NEW by
  PROVE  ReplaceEscape(<<>>, second, by) = <<>>
<1>1. [i \in DOMAIN <<>> |-> Replaced(<<>>, i, second, by)] = <<>>
  OBVIOUS
<1>. QED BY <1>1, FlattenEmpty DEF ReplaceEscape

\* A character that ends no escape is taken over.
LEMMA ReplaceAppend ==
  ASSUME NEW S, NEW s \in Seq(S), NEW c \in S, NEW second, NEW by \in S,
         c # second \/ s = <<>> \/ s[Len(s)] # Backslash
  PROVE  ReplaceEscape(Append(s, c), second, by) = ReplaceEscape(s, second, by) \o <<c>>
<1> DEFINE w == Append(s, c)
           n == Len(s)
           p == Pieces(s, second, by)
           q == Pieces(w, second, by)
<1>1. w \in Seq(S) /\ n \in Nat /\ Len(w) = n + 1 /\ w[n + 1] = c
      /\ \A i \in 1 .. n : w[i] = s[i]
  BY AppendProperties
<1>. HIDE DEF w
<1>2. \A i \in 0 .. n : EscapeAt(w, i, second) <=> EscapeAt(s, i, second)
  <2> TAKE i \in 0 .. n
  <2>1. CASE i \in 1 .. n - 1
    BY <1>1, <2>1 DEF EscapeAt
  <2>2. CASE i = 0
    BY <1>1, <2>2 DEF EscapeAt
  <2>3. CASE i = n /\ n > 0
    <3>1. ~ (w[n] = Backslash /\ w[n + 1] = second)
      BY <1>1, <2>3
    <3>. QED BY <1>1, <2>3, <3>1 DEF EscapeAt
  <2>. QED BY <1>1, <2>1, <2>2, <2>3
<1>3. ~ EscapeAt(w, n + 1, second) /\ ~ EscapeAt(s, n, second)
  BY <1>1 DEF EscapeAt
<1>4. \A i \in 1 .. n : Replaced(w, i, second, by) = Replaced(s, i, second, by)
  BY <1>1, <1>2 DEF Replaced
<1>5. Replaced(w, n + 1, second, by) = <<c>>
  BY <1>1, <1>2, <1>3 DEF Replaced
<1>6. q = Append(p, <<c>>)
  BY <1>1, <1>4, <1>5 DEF Pieces
<1>7. /\ p \in Seq(Seq(S)) /\ ReplaceEscape(s, second, by) = FlattenSeq(p)
      /\ ReplaceEscape(w, second, by) = FlattenSeq(q)
  BY <1>1, ReplaceIs
<1>8. FlattenSeq(Append(p, <<c>>)) = FlattenSeq(p) \o <<c>>
  <2>1. <<c>> \in Seq(S)
    OBVIOUS
  <2>. HIDE DEF p
  <2>. QED BY <1>7, <2>1, FlattenAppend
<1>. QED BY <1>6, <1>7, <1>8 DEF w

\* An escape at the end is replaced.
LEMMA ReplacePair ==
  ASSUME NEW S, NEW s \in Seq(S), NEW second \in S, NEW by \in S,
         Backslash \in S, second # Backslash
  PROVE  ReplaceEscape(s \o <<Backslash, second>>, second, by)
           = ReplaceEscape(s, second, by) \o <<by>>
<1> DEFINE w == s \o <<Backslash, second>>
           n == Len(s)
           p == Pieces(s, second, by)
           q == Pieces(w, second, by)
<1>1. w \in Seq(S) /\ n \in Nat /\ Len(w) = n + 2 /\ w[n + 1] = Backslash
      /\ w[n + 2] = second /\ \A i \in 1 .. n : w[i] = s[i]
  <2>1. <<Backslash, second>> \in Seq(S) /\ Len(<<Backslash, second>>) = 2
    OBVIOUS
  <2>. QED BY <2>1, ConcatProperties
<1>. HIDE DEF w
<1>2. \A i \in 0 .. n : EscapeAt(w, i, second) <=> EscapeAt(s, i, second)
  <2> TAKE i \in 0 .. n
  <2>1. CASE i \in 1 .. n - 1
    BY <1>1, <2>1 DEF EscapeAt
  <2>2. CASE i = 0
    BY <1>1, <2>2 DEF EscapeAt
  <2>3. CASE i = n /\ n > 0
    BY <1>1, <2>3 DEF EscapeAt
  <2>. QED BY <1>1, <2>1, <2>2, <2>3
<1>3. ~ EscapeAt(w, n + 2, second) /\ ~ EscapeAt(s, n, second)
      /\ EscapeAt(w, n + 1, second)
  BY <1>1 DEF EscapeAt
<1>4. \A i \in 1 .. n : Replaced(w, i, second, by) = Replaced(s, i, second, by)
  BY <1>1, <1>2 DEF Replaced
<1>5. Replaced(w, n + 1, second, by) = <<>> /\ Replaced(w, n + 2, second, by) = <<by>>
  BY <1>1, <1>2, <1>3 DEF Replaced
<1>6. q = Append(Append(p, <<>>), <<by>>)
  BY <1>1, <1>4, <1>5 DEF Pieces
<1>7. /\ p \in Seq(Seq(S)) /\ ReplaceEscape(s, second, by) = FlattenSeq(p)
      /\ ReplaceEscape(w, second, by) = FlattenSeq(q)
  BY <1>1, ReplaceIs
<1>8. FlattenSeq(Append(Append(p, <<>>), <<by>>)) = (FlattenSeq(p) \o <<>>) \o <<by>>
  <2>1. <<>> \in Seq(S) /\ Append(p, <<>>) \in Seq(Seq(S))
    BY <1>7, EmptySeq, AppendProperties
  <2>2. <<by>> \in Seq(S)
    OBVIOUS
  <2>. HIDE DEF p
  <2>3. FlattenSeq(Append(p, <<>>)) = FlattenSeq(p) \o <<>>
    BY <1>7, <2>1, FlattenAppend
  <2>4. FlattenSeq(Append(Append(p, <<>>), <<by>>)) = FlattenSeq(Append(p, <<>>)) \o <<by>>
    BY <2>1, <2>2, FlattenAppend
  <2>. QED BY <2>3, <2>4
<1>9. FlattenSeq(p) \o <<>> = FlattenSeq(p)
  BY <1>7, FlattenType, ConcatEmptySeq
<1>. QED BY <1>6, <1>7, <1>8, <1>9 DEF w

\* Reading takes back what writing did to the quotes, whatever the value:
\* replace(/\\"/g, '"') undoes replace('"', "\\\"").
THEOREM QuotesComeBack ==
  ASSUME NEW S, NEW v \in Seq(S), Backslash \in S, Quote \in S
  PROVE  ReplaceEscape(Escape(v), Quote, Quote) = v
<1> DEFINE T == {u \in Seq(S) : ReplaceEscape(Escape(u), Quote, Quote) = u}
<1>1. <<>> \in T
  BY EscapeEmpty, ReplaceEmpty, EmptySeq
<1>2. ASSUME NEW u \in Seq(S), NEW c \in S, u \in T PROVE Append(u, c) \in T
  <2>1. Escape(u) \in Seq(S) /\ Escape(Append(u, c)) = Escape(u) \o Escaped(c)
    BY EscapeAppend
  <2>2. CASE c = Quote
    <3>1. ReplaceEscape(Escape(u) \o <<Backslash, Quote>>, Quote, Quote)
            = ReplaceEscape(Escape(u), Quote, Quote) \o <<Quote>>
      BY <2>1, ReplacePair, Chars
    <3>. QED BY <1>2, <2>1, <2>2, <3>1, AppendIsConcat, AppendProperties DEF Escaped
  <2>3. CASE c # Quote
    <3>1. ReplaceEscape(Append(Escape(u), c), Quote, Quote)
            = ReplaceEscape(Escape(u), Quote, Quote) \o <<c>>
      BY <2>1, <2>3, ReplaceAppend
    <3>2. Escape(u) \o <<c>> = Append(Escape(u), c)
      BY <2>1, AppendIsConcat
    <3>3. ReplaceEscape(Escape(Append(u, c)), Quote, Quote) = u \o <<c>>
      BY <1>2, <2>1, <2>3, <3>1, <3>2 DEF Escaped
    <3>. QED BY <3>3, AppendIsConcat, AppendProperties
  <2>. QED BY <2>2, <2>3
<1>3. Seq(S) \subseteq T
  <2>. HIDE DEF T
  <2>. QED BY <1>1, <1>2, SequenceInduction
<1>. QED BY <1>3

\* Without the escape nothing changes.
LEMMA ReplaceKeeps ==
  ASSUME NEW S, NEW s \in Seq(S), NEW second, NEW by \in S,
         \A i \in 1 .. Len(s) : ~ EscapeAt(s, i, second)
  PROVE  ReplaceEscape(s, second, by) = s
<1> DEFINE p == Pieces(s, second, by)
<1>1. p \in Seq(Seq(S)) /\ Len(p) = Len(s) /\ ReplaceEscape(s, second, by) = FlattenSeq(p)
  BY ReplaceIs
<1>2. ASSUME NEW i \in 1 .. Len(s) PROVE p[i] = <<s[i]>>
  <2>1. ~ EscapeAt(s, i - 1, second)
    BY DEF EscapeAt
  <2>2. p[i] = Replaced(s, i, second, by)
    BY ReplaceIs
  <2>. QED BY <2>1, <2>2 DEF Replaced
<1>. HIDE DEF p
<1>3. FlattenSeq(p) = s
  BY <1>1, <1>2, FlattenSingles
<1>. QED BY <1>1, <1>3

\* With one, what it stands for is in the result.
LEMMA ReplaceBrings ==
  ASSUME NEW S, NEW s \in Seq(S), NEW second, NEW by \in S, second # Backslash,
         NEW i \in 1 .. Len(s), EscapeAt(s, i, second)
  PROVE  LET r == ReplaceEscape(s, second, by)
         IN  \E k \in 1 .. Len(r) : r[k] = by
<1> DEFINE p == Pieces(s, second, by)
<1>1. p \in Seq(Seq(S)) /\ Len(p) = Len(s) /\ ReplaceEscape(s, second, by) = FlattenSeq(p)
  BY ReplaceIs
<1>2. i + 1 \in 1 .. Len(s) /\ ~ EscapeAt(s, i + 1, second) /\ (i + 1) - 1 = i
  BY DEF EscapeAt
<1>3. p[i + 1] = <<by>>
  <2>1. p[i + 1] = Replaced(s, i + 1, second, by)
    BY <1>2, ReplaceIs
  <2>. QED BY <1>2, <2>1 DEF Replaced
<1>. HIDE DEF p
<1>4. 1 \in 1 .. Len(p[i + 1]) /\ p[i + 1][1] = by
  BY <1>3
<1>5. i + 1 \in 1 .. Len(p)
  BY <1>1, <1>2
<1>6. \E k \in 1 .. Len(FlattenSeq(p)) : FlattenSeq(p)[k] = by
  <2> DEFINE m == i + 1
  <2>1. m \in 1 .. Len(p) /\ 1 \in 1 .. Len(p[m]) /\ p[m][1] = by
    BY <1>4, <1>5
  <2>. HIDE DEF m
  <2>2. \E k \in 1 .. Len(p) : \E j \in 1 .. Len(p[k]) : p[k][j] = by
    BY <2>1, Zenon
  <2>. QED BY <1>1, <2>2, FlattenHas
<1>. QED BY <1>1, <1>6

\* Replacing makes no text longer, ...
LEMMA ReplaceShortens ==
  ASSUME NEW S, NEW s \in Seq(S), NEW second, NEW by \in S
  PROVE  /\ ReplaceEscape(s, second, by) \in Seq(S)
         /\ Len(ReplaceEscape(s, second, by)) <= Len(s)
<1> DEFINE p == Pieces(s, second, by)
<1>1. /\ p \in Seq(Seq(S)) /\ Len(p) = Len(s)
      /\ ReplaceEscape(s, second, by) = FlattenSeq(p)
      /\ ReplaceEscape(s, second, by) \in Seq(S)
  BY ReplaceIs
<1>2. \A i \in 1 .. Len(p) : Len(p[i]) <= 1
  <2>1. \A i \in 1 .. Len(p) : p[i] = Replaced(s, i, second, by)
    BY <1>1, ReplaceIs
  <2>2. Len(<<>>) <= 1 /\ Len(<<by>>) <= 1 /\ \A i : Len(<<s[i]>>) <= 1
    OBVIOUS
  <2>. QED BY <2>1, <2>2, Zenon DEF Replaced
<1>. HIDE DEF p
<1>. QED BY <1>1, <1>2, FlattenShort

\* ... and a longer text gives no shorter one.
LEMMA ReplaceGrows ==
  ASSUME NEW S, NEW s \in Seq(S), NEW t \in Seq(S), NEW second \in S, NEW by \in S,
         Backslash \in S, second # Backslash
  PROVE  Len(ReplaceEscape(s, second, by)) <= Len(ReplaceEscape(s \o t, second, by))
<1> DEFINE R(x) == ReplaceEscape(x, second, by)
           T == {u \in Seq(S) : Len(R(s)) <= Len(R(s \o u))}
<1>0. ASSUME NEW x \in Seq(S) PROVE R(x) \in Seq(S) /\ Len(R(x)) \in Nat
  <2>1. R(x) \in Seq(S)
    BY ReplaceShortens
  <2>. HIDE DEF R
  <2>. QED BY <2>1
<1>1. <<>> \in T
  <2>1. s \o <<>> = s /\ <<>> \in Seq(S)
    BY ConcatEmptySeq, EmptySeq
  <2>2. Len(R(s)) \in Nat
    BY <1>0
  <2>. HIDE DEF R
  <2>. QED BY <2>1, <2>2
<1>2. ASSUME NEW x \in Seq(S), NEW c \in S
      PROVE  Len(R(x)) <= Len(R(Append(x, c)))
  <2>1. CASE c # second \/ x = <<>> \/ x[Len(x)] # Backslash
    <3>1. R(Append(x, c)) = R(x) \o <<c>>
      BY <2>1, ReplaceAppend
    <3>. HIDE DEF R
    <3>2. R(x) \in Seq(S) /\ <<c>> \in Seq(S) /\ Len(<<c>>) = 1 /\ Len(R(x)) \in Nat
      BY <1>0
    <3>. QED BY <3>1, <3>2, ConcatProperties
  <2>2. CASE c = second /\ x # <<>> /\ x[Len(x)] = Backslash
    <3>1. PICK y \in Seq(S), d \in S : x = Append(y, d)
      BY <2>2, SequenceEmptyOrAppend
    <3>2. d = Backslash
      BY <2>2, <3>1, AppendProperties
    <3>3. R(x) = R(y) \o <<Backslash>>
      BY <3>1, <3>2, ReplaceAppend
    <3>4. Append(x, c) = y \o <<Backslash, second>>
      BY <2>2, <3>1, <3>2
    <3>5. R(y \o <<Backslash, second>>) = R(y) \o <<by>>
      BY ReplacePair
    <3>6. R(y) \in Seq(S) /\ Len(R(y)) \in Nat
      BY <1>0
    <3>. HIDE DEF R
    <3>7. /\ <<by>> \in Seq(S) /\ Len(<<by>>) = 1
          /\ <<Backslash>> \in Seq(S) /\ Len(<<Backslash>>) = 1
      OBVIOUS
    <3>8. Len(R(x)) = Len(R(y)) + 1 /\ Len(R(Append(x, c))) = Len(R(y)) + 1
      BY <3>3, <3>4, <3>5, <3>6, <3>7, ConcatProperties
    <3>. QED BY <3>6, <3>8
  <2>. QED BY <2>1, <2>2
<1>3. ASSUME NEW u \in Seq(S), NEW c \in S, u \in T PROVE Append(u, c) \in T
  <2>1. s \o u \in Seq(S) /\ Append(u, c) \in Seq(S) /\ s \o Append(u, c) \in Seq(S)
    BY ConcatProperties, AppendProperties
  <2>2. s \o Append(u, c) = Append(s \o u, c)
    <3>1. <<c>> \in Seq(S)
      OBVIOUS
    <3>2. s \o (u \o <<c>>) = (s \o u) \o <<c>>
      BY <3>1, ConcatAssociative
    <3>. QED BY <2>1, <3>2, AppendIsConcat
  <2>3. Len(R(s \o u)) <= Len(R(Append(s \o u, c)))
    BY <1>2, <2>1
  <2>4. Len(R(s)) \in Nat /\ Len(R(s \o u)) \in Nat /\ Len(R(s \o Append(u, c))) \in Nat
    BY <1>0, <2>1
  <2>5. Len(R(s)) <= Len(R(s \o u))
    BY <1>3
  <2>. HIDE DEF R
  <2>6. Len(R(s)) <= Len(R(s \o Append(u, c)))
    BY <2>2, <2>3, <2>4, <2>5
  <2>. QED BY <2>1, <2>6
<1>4. Seq(S) \subseteq T
  <2>. HIDE DEF T
  <2>. QED BY <1>1, <1>3, SequenceInduction
<1>. QED BY <1>4

-----------------------------------------------------------------------------
(* The lines of a text *)

\* p is where the line that ends before i starts after
LineStart(text, i, p) ==
  /\ p \in 0 .. i - 1
  /\ p = 0 \/ text[p] = Newline
  /\ \A j \in p + 1 .. i - 1 : text[j] # Newline

\* Every line starts somewhere, and goes on to what ends it.
LEMMA LineBeforeIs ==
  ASSUME NEW text, NEW i \in Nat, i > 0
  PROVE  /\ \E p : LineStart(text, i, p)
         /\ \A p : LineStart(text, i, p) => LineBefore(text, i) = SubSeq(text, p + 1, i - 1)
<1> DEFINE E == {0} \union {j \in 1 .. i - 1 : text[j] = Newline}
<1>1. E \subseteq 0 .. i - 1 /\ E # {} /\ i - 1 \in Nat
  OBVIOUS
<1>2. ASSUME NEW p \in E, \A x \in E : x <= p
      PROVE  LineStart(text, i, p)
  <2>1. \A j \in p + 1 .. i - 1 : j \in 1 .. i - 1 /\ ~ (j <= p)
    BY <1>1
  <2>. QED BY <1>1, <1>2, <2>1 DEF LineStart
<1>3. \E p : LineStart(text, i, p)
  <2>. HIDE DEF E
  <2>. QED BY <1>1, <1>2, GreatestNumber
<1>4. ASSUME NEW p, LineStart(text, i, p)
      PROVE  LineBefore(text, i) = SubSeq(text, p + 1, i - 1)
  <2>1. p \in E /\ \A x \in E : x <= p
    BY <1>4 DEF LineStart
  <2>2. E \subseteq Nat
    OBVIOUS
  <2>3. Max(E) = p
    <3>. HIDE DEF E
    <3>. QED BY <2>1, <2>2, MaxIs
  <2>. QED BY <2>3 DEF LineBefore
<1>. QED BY <1>3, <1>4

\* What position i of a text gives to Ended
LinePiece(text, i) == IF text[i] = Newline THEN <<LineBefore(text, i)>> ELSE <<>>

\* Ended joins them.
LinePieces(text) == [i \in 1 .. Len(text) |-> LinePiece(text, i)]

\* The lines of a text have no line end.
LEMMA EndedIs ==
  ASSUME NEW S, NEW text \in Seq(S)
  PROVE  /\ LinePieces(text) \in Seq(Seq(Seq(S \ {Newline})))
         /\ Len(LinePieces(text)) = Len(text)
         /\ Ended(text) = FlattenSeq(LinePieces(text))
         /\ Ended(text) \in Seq(Seq(S \ {Newline}))
<1> DEFINE p == LinePieces(text)
           L == Seq(S \ {Newline})
<1>1. ASSUME NEW i \in 1 .. Len(text) PROVE LinePiece(text, i) \in Seq(L)
  <2>1. i \in Nat /\ i > 0 /\ i <= Len(text) /\ Len(text) \in Nat
    OBVIOUS
  <2>2. PICK q : LineStart(text, i, q) /\ LineBefore(text, i) = SubSeq(text, q + 1, i - 1)
    BY <2>1, LineBeforeIs
  <2>3. q \in 0 .. i - 1 /\ \A j \in q + 1 .. i - 1 : text[j] \in S \ {Newline}
    BY <2>1, <2>2 DEF LineStart
  <2>4. q + 1 \in Int /\ i - 1 \in Int
    BY <2>1, <2>3
  <2>5. SubSeq(text, q + 1, i - 1) \in L
    BY <2>3, <2>4, SubSeqProperties
  <2>6. <<LineBefore(text, i)>> \in Seq(L) /\ <<>> \in Seq(L)
    <3>. HIDE DEF L
    <3>. QED BY <2>2, <2>5
  <2>. QED BY <2>6, Zenon DEF LinePiece
<1>2. p \in Seq(Seq(L)) /\ Len(p) = Len(text)
  <2>. HIDE DEF L
  <2>. QED BY <1>1 DEF LinePieces
<1>3. Ended(text) = FlattenSeq(p)
  <2>1. DOMAIN text = 1 .. Len(text)
    OBVIOUS
  <2>. QED BY <2>1, Zenon DEF Ended, LinePieces, LinePiece
<1>4. FlattenSeq(p) \in Seq(L)
  <2>. HIDE DEF p, L
  <2>. QED BY <1>2, FlattenType
<1>. QED BY <1>2, <1>3, <1>4

\* A text that ends with a line end, or is empty, and the text after it have
\* their lines each for itself.
LEMMA EndedConcat ==
  ASSUME NEW S, NEW t \in Seq(S), NEW u \in Seq(S), t = <<>> \/ t[Len(t)] = Newline
  PROVE  Ended(t \o u) = Ended(t) \o Ended(u)
<1> DEFINE w == t \o u
           n == Len(t)
           m == Len(u)
<1>1. /\ w \in Seq(S) /\ n \in Nat /\ m \in Nat /\ Len(w) = n + m
      /\ \A i \in 1 .. n : w[i] = t[i]
      /\ \A i \in 1 .. m : w[n + i] = u[i]
  BY ConcatProperties
<1>2. ASSUME NEW i \in 1 .. n PROVE LinePiece(w, i) = LinePiece(t, i)
  <2>1. i \in Nat /\ i > 0 /\ i <= n
    BY <1>1
  <2>2. PICK p : LineStart(t, i, p) /\ LineBefore(t, i) = SubSeq(t, p + 1, i - 1)
    BY <2>1, LineBeforeIs
  <2>3. LineStart(w, i, p)
    BY <1>1, <2>1, <2>2 DEF LineStart
  <2>4. LineBefore(w, i) = SubSeq(w, p + 1, i - 1)
    BY <2>1, <2>3, LineBeforeIs
  <2>5. SubSeq(w, p + 1, i - 1) = SubSeq(t, p + 1, i - 1)
    <3>1. p + 1 \in Nat /\ i - 1 \in Nat /\ 1 <= p + 1 /\ p + 1 <= (i - 1) + 1 /\ i - 1 <= Len(t)
      BY <2>1, <2>2 DEF LineStart
    <3>. QED BY <3>1, SubSeqInFirst
  <2>. QED BY <1>1, <2>2, <2>4, <2>5 DEF LinePiece
<1>3. ASSUME NEW i \in 1 .. m PROVE LinePiece(w, n + i) = LinePiece(u, i)
  <2>1. i \in Nat /\ i > 0 /\ i <= m /\ n + i \in Nat /\ n + i > 0
    BY <1>1
  <2>2. PICK p : LineStart(u, i, p) /\ LineBefore(u, i) = SubSeq(u, p + 1, i - 1)
    BY <2>1, LineBeforeIs
  <2>3. LineStart(w, n + i, n + p)
    <3>1. n + p \in 0 .. (n + i) - 1
      BY <1>1, <2>1, <2>2 DEF LineStart
    <3>2. n + p = 0 \/ w[n + p] = Newline
      <4>1. CASE p = 0 /\ n > 0
        BY <1>1, <4>1
      <4>2. CASE p # 0
        BY <1>1, <2>1, <2>2, <4>2 DEF LineStart
      <4>3. n + p = 0 \/ (p = 0 /\ n > 0) \/ p # 0
        BY <1>1
      <4>. QED BY <4>1, <4>2, <4>3, Zenon
    <3>3. ASSUME NEW j \in (n + p) + 1 .. (n + i) - 1 PROVE w[j] # Newline
      <4>1. j - n \in p + 1 .. i - 1 /\ j - n \in 1 .. m /\ n + (j - n) = j
        BY <1>1, <2>1, <2>2 DEF LineStart
      <4>2. u[j - n] # Newline
        BY <2>2, <4>1 DEF LineStart
      <4>3. w[n + (j - n)] = u[j - n]
        BY <1>1, <4>1
      <4>. QED BY <4>1, <4>2, <4>3
    <3>. QED BY <3>1, <3>2, <3>3 DEF LineStart
  <2>4. LineBefore(w, n + i) = SubSeq(w, (n + p) + 1, (n + i) - 1)
    BY <2>1, <2>3, LineBeforeIs
  <2>5. SubSeq(w, n + (p + 1), n + (i - 1)) = SubSeq(u, p + 1, i - 1)
    <3>1. p + 1 \in Nat /\ i - 1 \in Nat /\ 1 <= p + 1 /\ p + 1 <= (i - 1) + 1 /\ i - 1 <= Len(u)
      BY <2>1, <2>2 DEF LineStart
    <3>. QED BY <3>1, SubSeqShift
  <2>6. (n + p) + 1 = n + (p + 1) /\ (n + i) - 1 = n + (i - 1)
    BY <1>1, <2>1, <2>2 DEF LineStart
  <2>7. LineBefore(w, n + i) = LineBefore(u, i)
    BY <2>2, <2>4, <2>5, <2>6
  <2>. QED BY <1>1, <2>7 DEF LinePiece
<1> DEFINE L == Seq(S \ {Newline})
           a == LinePieces(t)
           b == LinePieces(u)
           c == LinePieces(w)
<1>4. /\ a \in Seq(Seq(L)) /\ Len(a) = n /\ Ended(t) = FlattenSeq(a)
      /\ b \in Seq(Seq(L)) /\ Len(b) = m /\ Ended(u) = FlattenSeq(b)
      /\ c \in Seq(Seq(L)) /\ Len(c) = n + m /\ Ended(w) = FlattenSeq(c)
  BY <1>1, EndedIs
<1>5. /\ \A i \in 1 .. n : c[i] = a[i]
      /\ \A i \in 1 .. m : c[n + i] = b[i]
  BY <1>1, <1>2, <1>3 DEF LinePieces
<1>. HIDE DEF a, b, c, L, w
<1>6. c = a \o b
  <2> DEFINE M == Seq(L)
  <2>1. a \in Seq(M) /\ b \in Seq(M) /\ c \in Seq(M)
    BY <1>4
  <2>. HIDE DEF M
  <2>2. /\ Len(c) = Len(a) + Len(b)
        /\ \A i \in 1 .. Len(a) : c[i] = a[i]
        /\ \A i \in 1 .. Len(b) : c[Len(a) + i] = b[i]
    BY <1>4, <1>5
  <2>. QED BY <2>1, <2>2, ConcatIs
<1>7. FlattenSeq(a \o b) = FlattenSeq(a) \o FlattenSeq(b)
  BY <1>4, FlattenConcat
<1>. QED BY <1>4, <1>6, <1>7 DEF w

\* One line and its end
LEMMA EndedLine ==
  ASSUME NEW S, NEW b \in Seq(S \ {Newline})
  PROVE  Ended(Append(b, Newline)) = <<b>>
<1> DEFINE C == S \union {Newline}
           L == Seq(C \ {Newline})
           w == Append(b, Newline)
           n == Len(b)
           p == LinePieces(w)
<1>1. b \in Seq(C) /\ b \in L
  OBVIOUS
<1>2. /\ w \in Seq(C) /\ n \in Nat /\ Len(w) = n + 1 /\ w[n + 1] = Newline
      /\ \A i \in 1 .. n : w[i] = b[i] /\ b[i] # Newline
  BY <1>1, AppendProperties
<1>3. /\ p \in Seq(Seq(L)) /\ Len(p) = n + 1 /\ Ended(w) = FlattenSeq(p)
  BY <1>2, EndedIs
<1>4. \A i \in 1 .. n : p[i] = <<>>
  BY <1>2 DEF LinePieces, LinePiece
<1>5. p[n + 1] = <<b>>
  <2>1. LineStart(w, n + 1, 0)
    BY <1>2 DEF LineStart
  <2>2. n + 1 \in Nat /\ n + 1 > 0 /\ (n + 1) - 1 = n
    BY <1>2
  <2>3. LineBefore(w, n + 1) = SubSeq(w, 1, n)
    <3> DEFINE k == n + 1
    <3>1. k \in Nat /\ k > 0 /\ LineStart(w, k, 0) /\ k - 1 = n
      BY <2>1, <2>2
    <3>. HIDE DEF k, w
    <3>2. LineBefore(w, k) = SubSeq(w, 0 + 1, k - 1)
      BY <3>1, LineBeforeIs
    <3>. QED BY <3>1, <3>2 DEF k
  <2>4. SubSeq(w, 1, n) = b
    BY <1>1, <1>2
  <2>. QED BY <1>2, <2>3, <2>4 DEF LinePieces, LinePiece
<1> DEFINE q == SubSeq(p, 1, n)
<1>. HIDE DEF L, p
<1>6. /\ q \in Seq(Seq(L)) /\ Len(q) = n /\ (\A i \in 1 .. n : q[i] = <<>>)
      /\ p = Append(q, <<b>>)
  BY <1>2, <1>3, <1>4, <1>5, TakeLast
<1>. HIDE DEF q
<1>7. FlattenSeq(q) = <<>>
  BY <1>2, <1>6, FlattenNothing
<1>8. <<b>> \in Seq(L)
  BY <1>1
<1>9. FlattenSeq(Append(q, <<b>>)) = FlattenSeq(q) \o <<b>>
  BY <1>6, <1>8, FlattenAppend
<1>. QED BY <1>3, <1>6, <1>7, <1>8, <1>9, ConcatEmptySeq DEF w

-----------------------------------------------------------------------------
(* One line *)

\* What Trim leaves of s is from a to b.
InkFrom(s, a, b) ==
  /\ a \in 1 .. Len(s) /\ b \in a .. Len(s)
  /\ s[a] \notin Blank /\ s[b] \notin Blank
  /\ \A i \in 1 .. a - 1 : s[i] \in Blank
  /\ \A i \in b + 1 .. Len(s) : s[i] \in Blank

\* Trim takes what is from the first to the last character with ink ...
LEMMA TrimIs ==
  ASSUME NEW S, NEW s \in Seq(S), NEW a, NEW b, InkFrom(s, a, b)
  PROVE  Trim(s) = SubSeq(s, a, b)
<1> DEFINE ink == {i \in DOMAIN s : s[i] \notin Blank}
<1>1. Len(s) \in Nat /\ DOMAIN s = 1 .. Len(s)
  OBVIOUS
<1>2. ink \subseteq Nat /\ a \in ink /\ b \in ink
  BY <1>1 DEF InkFrom
<1>3. \A x \in ink : a <= x /\ x <= b
  <2> TAKE x \in ink
  <2>1. x \in 1 .. Len(s) /\ s[x] \notin Blank
    BY <1>1
  <2>2. ~ (x \in 1 .. a - 1) /\ ~ (x \in b + 1 .. Len(s))
    BY <2>1 DEF InkFrom
  <2>. QED BY <1>1, <2>1, <2>2 DEF InkFrom
<1>4. Trim(s) = IF ink = {} THEN <<>> ELSE SubSeq(s, Min(ink), Max(ink))
  BY DEF Trim
<1>. HIDE DEF ink
<1>5. Min(ink) = a /\ Max(ink) = b
  BY <1>2, <1>3, MinIs, MaxIs
<1>. QED BY <1>2, <1>4, <1>5

\* ... or nothing, when there is none.
LEMMA TrimCases ==
  ASSUME NEW S, NEW s \in Seq(S)
  PROVE  \/ Trim(s) = <<>> /\ \A i \in 1 .. Len(s) : s[i] \in Blank
         \/ \E a, b : InkFrom(s, a, b) /\ Trim(s) = SubSeq(s, a, b)
<1> DEFINE ink == {i \in 1 .. Len(s) : s[i] \notin Blank}
<1>1. Len(s) \in Nat /\ DOMAIN s = 1 .. Len(s)
  OBVIOUS
<1>2. CASE ink = {}
  BY <1>1, <1>2 DEF Trim
<1>3. CASE ink # {}
  <2>1. ink \subseteq Nat /\ ink \subseteq 0 .. Len(s)
    BY <1>1
  <2>2. PICK a \in ink : \A x \in ink : a <= x
    <3>. HIDE DEF ink
    <3>. QED BY <1>3, <2>1, LeastNumber
  <2>3. PICK b \in ink : \A x \in ink : x <= b
    <3>. HIDE DEF ink
    <3>. QED BY <1>1, <1>3, <2>1, GreatestNumber
  <2>4. ASSUME NEW i \in 1 .. a - 1 PROVE s[i] \in Blank
    <3>1. i \in 1 .. Len(s) /\ ~ (a <= i)
      BY <1>1
    <3>. QED BY <2>2, <3>1
  <2>5. ASSUME NEW i \in b + 1 .. Len(s) PROVE s[i] \in Blank
    <3>1. i \in 1 .. Len(s) /\ ~ (i <= b)
      BY <1>1
    <3>. QED BY <2>3, <3>1
  <2>6. a \in 1 .. Len(s) /\ b \in a .. Len(s) /\ s[a] \notin Blank /\ s[b] \notin Blank
    BY <1>1, <2>2
  <2>7. InkFrom(s, a, b)
    BY <2>4, <2>5, <2>6 DEF InkFrom
  <2>. QED BY <2>7, TrimIs
<1>. QED BY <1>2, <1>3

\* A text that begins and ends with ink is left alone.
LEMMA TrimKeeps ==
  ASSUME NEW S, NEW s \in Seq(S), s # <<>>, s[1] \notin Blank, s[Len(s)] \notin Blank
  PROVE  Trim(s) = s
<1>1. Len(s) \in Nat /\ Len(s) > 0
  OBVIOUS
<1>2. InkFrom(s, 1, Len(s))
  BY <1>1 DEF InkFrom
<1>3. SubSeq(s, 1, Len(s)) = s
  BY SubSeqFull
<1>. QED BY <1>2, <1>3, TrimIs

\* Trim brings no new characters.
LEMMA TrimType ==
  ASSUME NEW S, NEW s \in Seq(S)
  PROVE  Trim(s) \in Seq(S)
<1>1. CASE Trim(s) = <<>>
  BY <1>1, EmptySeq
<1>2. CASE \E a, b : InkFrom(s, a, b) /\ Trim(s) = SubSeq(s, a, b)
  <2>1. PICK a, b : InkFrom(s, a, b) /\ Trim(s) = SubSeq(s, a, b)
    BY <1>2
  <2>2. a \in Nat /\ b \in Nat /\ 1 <= a /\ a <= b + 1 /\ b <= Len(s)
    BY <2>1 DEF InkFrom
  <2>. QED BY <2>1, <2>2, SubSeqIs
<1>. QED BY <1>1, <1>2, TrimCases

\* What is read from a line that begins as an exported one does
LEMMA ReadWritten ==
  ASSUME NEW S, NEW key \in Seq(S), Fits(key), Equals \in S,
         NEW w \in Seq(S), w # <<>>, w[1] = Quote,
         NEW m \in 1 .. Len(w), w[m] \notin Blank,
         \A i \in m + 1 .. Len(w) : w[i] \in Blank,
         \A i \in 1 .. m : w[i] # Return
  PROVE  ReadLine((key \o <<Equals>>) \o w) = << <<key, Unquote(SubSeq(w, 1, m))>> >>
<1> DEFINE k == key \o <<Equals>>
           line == k \o w
           n == Len(key)
           x == Trim(line)
           y == SubSeq(w, 1, m)
<1>1. /\ n \in Nat /\ n > 0 /\ k \in Seq(S) /\ Len(k) = n + 1 /\ k[n + 1] = Equals
      /\ \A i \in 1 .. n : k[i] = key[i]
  <2>1. <<Equals>> \in Seq(S)
    OBVIOUS
  <2>. QED BY <2>1, ConcatProperties DEF Fits
<1>. HIDE DEF k
<1>2. /\ line \in Seq(S) /\ Len(line) = n + 1 + Len(w) /\ Len(w) \in Nat
      /\ \A i \in 1 .. n : line[i] = key[i]
      /\ line[n + 1] = Equals
      /\ \A i \in 1 .. Len(w) : line[n + 1 + i] = w[i]
  <2>1. /\ line \in Seq(S) /\ Len(line) = Len(k) + Len(w) /\ Len(w) \in Nat
        /\ \A i \in 1 .. Len(k) : line[i] = k[i]
        /\ \A i \in 1 .. Len(w) : line[Len(k) + i] = w[i]
    <3>1. k \in Seq(S) /\ w \in Seq(S)
      BY <1>1
    <3>2. line \in Seq(S) /\ Len(line) = Len(k) + Len(w) /\ Len(w) \in Nat
      BY <3>1, ConcatAt
    <3>3. \A i \in 1 .. Len(k) : line[i] = k[i]
      BY <3>1, ConcatAt
    <3>4. \A i \in 1 .. Len(w) : line[Len(k) + i] = w[i]
      BY <3>1, ConcatAt
    <3>. QED BY <3>2, <3>3, <3>4
  <2>2. n + 1 \in 1 .. n + 1 /\ \A i \in 1 .. n : i \in 1 .. n + 1
    BY <1>1
  <2>. HIDE DEF line
  <2>. QED BY <1>1, <2>1, <2>2
<1>3. Quote \notin Blank /\ Equals \notin Blank /\ Return \in Blank /\ Return # Equals
  BY Chars DEF Blank
<1>4. x = SubSeq(line, 1, n + 1 + m)
  <2>1. \A i \in n + 1 + m + 1 .. Len(line) : line[i] \in Blank
    <3> TAKE i \in n + 1 + m + 1 .. Len(line)
    <3>1. i - (n + 1) \in m + 1 .. Len(w) /\ n + 1 + (i - (n + 1)) = i
          /\ i - (n + 1) \in 1 .. Len(w)
      BY <1>1, <1>2
    <3>2. line[n + 1 + (i - (n + 1))] = w[i - (n + 1)]
      BY <1>2, <3>1
    <3>. QED BY <3>1, <3>2
  <2>2. line[1] \notin Blank /\ line[n + 1 + m] \notin Blank
    BY <1>1, <1>2 DEF Fits
  <2>3. InkFrom(line, 1, n + 1 + m)
    <3>. HIDE DEF line
    <3>. QED BY <1>1, <1>2, <2>1, <2>2 DEF InkFrom
  <2>. QED BY <1>2, <2>3, TrimIs
<1>5. /\ x \in Seq(S) /\ Len(x) = n + 1 + m
      /\ \A i \in 1 .. n + 1 + m : x[i] = line[i]
  <2>1. n + 1 + m \in 0 .. Len(line)
    BY <1>1, <1>2
  <2>. QED BY <1>2, <1>4, <2>1, Beginning
<1>. HIDE DEF line, x
<1>6. FirstEquals(x) = n + 1
  <2> DEFINE E == {i \in DOMAIN x : x[i] = Equals}
  <2>1. DOMAIN x = 1 .. n + 1 + m
    BY <1>5
  <2>2. E \subseteq Nat /\ n + 1 \in E
    BY <1>1, <1>2, <1>5, <2>1
  <2>3. ASSUME NEW i \in E PROVE n + 1 <= i
    <3>1. i \in 1 .. n + 1 + m /\ x[i] = Equals
      BY <2>1
    <3>2. i \notin 1 .. n
      <4>1. \A j \in 1 .. n : key[j] # Equals
        BY <1>1 DEF Fits
      <4>. QED BY <1>1, <1>2, <1>5, <3>1, <4>1
    <3>. QED BY <1>1, <3>1, <3>2
  <2>. HIDE DEF E
  <2>4. Min(E) = n + 1
    BY <2>2, <2>3, MinIs
  <2>. QED BY <2>4 DEF FirstEquals, E
<1>7. IsAssignment(x)
  <2>1. x # <<>> /\ x[1] = key[1]
    <3>1. 1 \in 1 .. n /\ 1 \in 1 .. n + 1 + m /\ n + 1 + m # 0
      BY <1>1
    <3>2. x # <<>>
      BY <1>5, <3>1
    <3>. QED BY <1>2, <1>5, <3>1, <3>2
  <2>2. key[1] \notin {Hash, Equals}
    BY <1>1 DEF Fits
  <2>3. n + 1 \in DOMAIN x /\ x[n + 1] = Equals
    BY <1>1, <1>2, <1>5
  <2>4. ASSUME NEW i \in DOMAIN x, x[i] = Return PROVE i < n + 1
    <3> SUFFICES ASSUME i >= n + 1 PROVE FALSE
      BY <1>1, <1>5
    <3>1. i # n + 1
      BY <1>2, <1>3, <2>3, <2>4
    <3>2. i - (n + 1) \in 1 .. m /\ n + 1 + (i - (n + 1)) = i
          /\ i - (n + 1) \in 1 .. Len(w) /\ i \in 1 .. n + 1 + m
      <4>1. i \in 1 .. n + 1 + m
        BY <1>5
      <4>2. n \in Nat /\ Len(w) \in Nat /\ m \in 1 .. Len(w) /\ i >= n + 1
        BY <1>1, <1>2
      <4>. HIDE DEF n
      <4>. QED BY <3>1, <4>1, <4>2
    <3>3. line[n + 1 + (i - (n + 1))] = w[i - (n + 1)]
      BY <1>2, <3>2
    <3>4. x[i] = w[i - (n + 1)]
      BY <1>5, <3>2, <3>3
    <3>. QED BY <2>4, <3>2, <3>4
  <2>. QED BY <1>6, <2>1, <2>2, <2>3, <2>4 DEF IsAssignment
<1>8. SubSeq(x, 1, (n + 1) - 1) = key
  <2>1. (n + 1) - 1 = n /\ n \in 0 .. Len(x)
    BY <1>1, <1>5
  <2>2. SubSeq(x, 1, n) \in Seq(S) /\ Len(SubSeq(x, 1, n)) = n
        /\ \A i \in 1 .. n : SubSeq(x, 1, n)[i] = x[i]
    BY <1>5, <2>1, Beginning
  <2>3. \A i \in 1 .. n : SubSeq(x, 1, n)[i] = key[i]
    BY <1>1, <1>2, <1>5, <2>2
  <2>4. SubSeq(x, 1, n) = key
    BY <2>1, <2>2, <2>3, SeqEqual
  <2>. QED BY <2>1, <2>4
<1>9. /\ y \in Seq(S) /\ Len(y) = m
      /\ \A i \in 1 .. m : y[i] = w[i]
  <2>1. m \in 0 .. Len(w)
    BY <1>2
  <2>. QED BY <2>1, Beginning
<1>10. SubSeq(x, (n + 1) + 1, Len(x)) = y
  <2>1. n + 2 \in Nat /\ n + 1 + m \in Nat /\ 1 <= n + 2 /\ n + 2 <= (n + 1 + m) + 1
        /\ n + 1 + m <= Len(x) /\ (n + 1 + m) - (n + 2) + 1 = m /\ (n + 1) + 1 = n + 2
    BY <1>1, <1>5
  <2> DEFINE z == SubSeq(x, n + 2, n + 1 + m)
  <2>2. z \in Seq(S) /\ Len(z) = (n + 1 + m) - (n + 2) + 1
        /\ \A i \in 1 .. (n + 1 + m) - (n + 2) + 1 : z[i] = x[n + 2 + i - 1]
    BY <1>5, <2>1, SubSeqIs
  <2>. HIDE DEF z, y
  <2>3. \A i \in 1 .. m : z[i] = y[i]
    <3> TAKE i \in 1 .. m
    <3>1. n + 2 + i - 1 = n + 1 + i /\ n + 1 + i \in 1 .. n + 1 + m /\ i \in 1 .. Len(w)
      BY <1>1, <1>2
    <3>2. x[n + 1 + i] = w[i]
      BY <1>2, <1>5, <3>1
    <3>. QED BY <1>9, <2>1, <2>2, <3>1, <3>2
  <2>4. z = y
    BY <1>9, <2>1, <2>2, <2>3, SeqEqual
  <2>. QED BY <1>5, <2>1, <2>4 DEF z
<1>11. Trim(key) = key
  BY <1>1, TrimKeeps DEF Fits
<1>12. Trim(y) = y
  <2>1. y # <<>> /\ y[1] \notin Blank /\ y[Len(y)] \notin Blank
    BY <1>3, <1>9
  <2>. HIDE DEF y
  <2>. QED BY <1>9, <2>1, TrimKeeps
<1>13. Assignment(x) = <<key, Unquote(y)>>
  <2>. HIDE DEF y
  <2>. QED BY <1>6, <1>8, <1>10, <1>11, <1>12 DEF Assignment
<1>. QED BY <1>7, <1>13 DEF ReadLine, x, line, k

-----------------------------------------------------------------------------
(* What an import can give *)

\* A key that fits, and a value without the ends of line that "." does not match
Readable == {k \in Text : Fits(k)} \X Seq(Char \ {Return})

\* A line has no line end.
LineText == Seq(Char \ {Newline})

\* Where the characters of the conversions belong.
LEMMA CharsIn ==
  /\ {Quote, Apostrophe, Backslash, LetterN, Equals, Newline, Return} \subseteq Char
  /\ {Quote, Backslash, LetterN, Newline} \subseteq Char \ {Return}
  /\ {Quote, Backslash, Equals, Return} \subseteq Char \ {Newline}
  /\ Quote \notin Blank /\ Equals \notin Blank /\ Newline \in Blank /\ Return \in Blank
  BY Chars DEF Char, Blank, Quote, Apostrophe, Backslash, LetterN, Newline, Return,
               Equals, Hash, Space, Other

\* Unquote brings no characters but the quote and the line end.
LEMMA UnquoteType ==
  ASSUME NEW S, NEW s \in Seq(S), Quote \in S, Newline \in S
  PROVE  Unquote(s) \in Seq(S)
<1>1. Between(s, Quote) \/ (~ Between(s, Quote) /\ Between(s, Apostrophe))
        => Inner(s) \in Seq(S)
  <2> SUFFICES ASSUME s # <<>> PROVE Inner(s) \in Seq(S)
    BY DEF Between
  <2>1. Len(s) \in Nat /\ Len(s) > 0 /\ 2 \in Int /\ Len(s) - 1 \in Int
    OBVIOUS
  <2>2. \A i \in 2 .. Len(s) - 1 : s[i] \in S
    BY <2>1
  <2>. QED BY <2>1, <2>2, SubSeqProperties DEF Inner
<1>2. \A x \in Seq(S) : ReplaceEscape(ReplaceEscape(x, Quote, Quote), LetterN, Newline) \in Seq(S)
  BY ReplaceShortens
<1>3. CASE Between(s, Quote)
  BY <1>1, <1>2, <1>3 DEF Unquote
<1>4. CASE ~ Between(s, Quote) /\ Between(s, Apostrophe)
  BY <1>1, <1>4 DEF Unquote
<1>5. CASE ~ Between(s, Quote) /\ ~ Between(s, Apostrophe)
  BY <1>5 DEF Unquote
<1>. QED BY <1>3, <1>4, <1>5

\* A line gives at most one credential, whose key fits.
LEMMA ReadLineType ==
  ASSUME NEW line \in LineText
  PROVE  ReadLine(line) \in Seq(Readable)
<1> DEFINE x == Trim(line)
           n == Len(x)
           at == FirstEquals(x)
           E == {i \in DOMAIN x : x[i] = Equals}
<1>0. x \in LineText /\ n \in Nat /\ DOMAIN x = 1 .. n
  <2>1. x \in LineText
    BY TrimType DEF LineText
  <2>. HIDE DEF x
  <2>. QED BY <2>1 DEF LineText
<1> SUFFICES ASSUME IsAssignment(x) PROVE Assignment(x) \in Readable
  BY EmptySeq DEF ReadLine
<1>1. /\ x # <<>> /\ x[1] \notin Blank /\ x[1] \notin {Hash, Equals}
  <2>1. x # <<>> /\ x[1] \notin {Hash, Equals}
    BY DEF IsAssignment
  <2>2. PICK a, b : InkFrom(line, a, b) /\ x = SubSeq(line, a, b)
    BY <2>1, TrimCases DEF LineText
  <2>3. /\ a \in Nat /\ b \in Nat /\ 1 <= a /\ a <= b + 1 /\ b <= Len(line)
        /\ 1 \in 1 .. b - a + 1 /\ a + 1 - 1 = a
    BY <2>2 DEF InkFrom
  <2>4. x[1] = line[a]
    <3>1. \A i \in 1 .. b - a + 1 : SubSeq(line, a, b)[i] = line[a + i - 1]
      BY <2>3, SubSeqIs DEF LineText
    <3>. QED BY <2>2, <2>3, <3>1
  <2>. QED BY <2>1, <2>2, <2>4 DEF InkFrom
<1>. HIDE DEF x
<1>2. /\ at \in 2 .. n /\ x[at] = Equals
      /\ \A i \in 1 .. at - 1 : x[i] # Equals
  <2>1. E # {} /\ E \subseteq Nat
    BY <1>0 DEF IsAssignment
  <2>2. PICK e \in E : \A i \in E : e <= i
    <3>. HIDE DEF E
    <3>. QED BY <2>1, LeastNumber
  <2>3. at = e
    <3>1. at = Min(E)
      BY DEF FirstEquals
    <3>. HIDE DEF E, at
    <3>. QED BY <2>1, <2>2, <3>1, MinIs
  <2>. HIDE DEF at
  <2>4. e \in 1 .. n /\ x[e] = Equals /\ e # 1
    BY <1>0, <1>1
  <2>5. ASSUME NEW i \in 1 .. e - 1 PROVE x[i] # Equals
    <3>1. i \in 1 .. n /\ ~ (e <= i)
      BY <1>0, <2>4
    <3>. QED BY <1>0, <2>2, <3>1
  <2>. QED BY <1>0, <2>3, <2>4, <2>5
<1>3. \A i \in 1 .. n : x[i] = Return => i < at
  BY <1>0 DEF IsAssignment
<1>. HIDE DEF at, E
<1>4. Trim(SubSeq(x, 1, at - 1)) \in {k \in Text : Fits(k)}
  <2> DEFINE k == SubSeq(x, 1, at - 1)
             KeyChar == Char \ {Newline, Equals}
  <2>1. at - 1 \in 0 .. Len(x) /\ 1 \in 1 .. at - 1 /\ at - 1 \in Nat
    BY <1>0, <1>2
  <2>2. /\ k \in Seq(Char \ {Newline}) /\ Len(k) = at - 1
        /\ \A i \in 1 .. at - 1 : k[i] = x[i]
    BY <1>0, <2>1, Beginning DEF LineText
  <2>. HIDE DEF k
  <2>3. k \in Seq(KeyChar)
    <3>1. \A i \in 1 .. Len(k) : k[i] \in KeyChar
      BY <1>2, <2>2
    <3>. HIDE DEF KeyChar
    <3>. QED BY <2>2, <3>1
  <2>4. k # <<>> /\ k[1] \notin Blank /\ k[1] # Hash /\ Len(k) >= 1
    BY <1>1, <2>1, <2>2
  <2>5. PICK a, b : InkFrom(k, a, b) /\ Trim(k) = SubSeq(k, a, b)
    <3>1. ~ \A i \in 1 .. Len(k) : k[i] \in Blank
      BY <2>1, <2>2, <2>4
    <3>. QED BY <2>2, <3>1, TrimCases
  <2>6. a = 1 /\ b \in 1 .. Len(k) /\ k[b] \notin Blank
    <3>1. a \in Nat /\ a >= 1 /\ (a > 1 => 1 \in 1 .. a - 1)
      BY <2>5 DEF InkFrom
    <3>2. ~ (a > 1)
      BY <2>4, <2>5, <3>1 DEF InkFrom
    <3>. QED BY <2>5, <3>1, <3>2 DEF InkFrom
  <2> DEFINE t == SubSeq(k, 1, b)
  <2>7. t \in Seq(KeyChar) /\ Len(t) = b /\ \A i \in 1 .. b : t[i] = k[i]
    <3>1. b \in 0 .. Len(k)
      BY <2>6
    <3>. HIDE DEF KeyChar
    <3>. QED BY <2>3, <3>1, Beginning
  <2>. HIDE DEF t
  <2>8. t \in Text
    BY <2>7, SeqMonotonic DEF Text
  <2>9. Fits(t)
    <3>1. t # <<>> /\ t[1] = k[1] /\ t[Len(t)] = k[b] /\ DOMAIN t = 1 .. b
      BY <2>6, <2>7
    <3>2. \A i \in 1 .. b : t[i] \notin {Equals, Newline}
      BY <2>7
    <3>. QED BY <2>4, <2>6, <3>1, <3>2 DEF Fits
  <2>. QED BY <2>5, <2>6, <2>8, <2>9 DEF t, k
<1>5. Unquote(Trim(SubSeq(x, at + 1, Len(x)))) \in Seq(Char \ {Return})
  <2>1. at + 1 \in Int /\ n \in Int
    BY <1>0, <1>2
  <2>2. \A i \in at + 1 .. n : x[i] \in Char \ {Return}
    <3> TAKE i \in at + 1 .. n
    <3>1. i \in 1 .. n /\ ~ (i < at)
      BY <1>0, <1>2
    <3>2. x[i] \in Char
      BY <1>0, <3>1 DEF LineText
    <3>. QED BY <1>3, <3>1, <3>2
  <2>3. SubSeq(x, at + 1, n) \in Seq(Char \ {Return})
    BY <2>1, <2>2, SubSeqProperties
  <2> DEFINE V == Char \ {Return}
  <2>4. Quote \in V /\ Newline \in V
    BY CharsIn
  <2>5. SubSeq(x, at + 1, n) \in Seq(V)
    BY <2>3
  <2>. HIDE DEF V
  <2>6. Unquote(Trim(SubSeq(x, at + 1, n))) \in Seq(V)
    BY <2>4, <2>5, TrimType, UnquoteType
  <2>. QED BY <2>6 DEF V
<1>. QED BY <1>4, <1>5 DEF Readable, Assignment, at

-----------------------------------------------------------------------------
(* A file is read line by line *)

\* What is read from the lines of a text
Reads(lines) == FlattenSeq([i \in DOMAIN lines |-> ReadLine(lines[i])])

\* What is read from lines are credentials that an import can give.
LEMMA ReadsIs ==
  ASSUME NEW a \in Seq(LineText)
  PROVE  /\ [i \in DOMAIN a |-> ReadLine(a[i])] \in Seq(Seq(Readable))
         /\ Len([i \in DOMAIN a |-> ReadLine(a[i])]) = Len(a)
         /\ Reads(a) \in Seq(Readable)
<1> DEFINE p == [i \in DOMAIN a |-> ReadLine(a[i])]
<1>1. Len(a) \in Nat /\ DOMAIN a = 1 .. Len(a) /\ \A i \in 1 .. Len(a) : a[i] \in LineText
  OBVIOUS
<1>2. \A i \in 1 .. Len(a) : ReadLine(a[i]) \in Seq(Readable)
  BY <1>1, ReadLineType
<1>3. p \in Seq(Seq(Readable)) /\ Len(p) = Len(a)
  BY <1>1, <1>2
<1>4. FlattenSeq(p) \in Seq(Readable)
  <2>. HIDE DEF p
  <2>. QED BY <1>3, FlattenType
<1>. QED BY <1>3, <1>4 DEF Reads

\* Lines are read each for itself.
LEMMA ReadsConcat ==
  ASSUME NEW a \in Seq(LineText), NEW b \in Seq(LineText)
  PROVE  Reads(a \o b) = Reads(a) \o Reads(b)
<1> DEFINE c == a \o b
           p == [i \in DOMAIN a |-> ReadLine(a[i])]
           q == [i \in DOMAIN b |-> ReadLine(b[i])]
           r == [i \in DOMAIN c |-> ReadLine(c[i])]
<1>1. /\ c \in Seq(LineText) /\ Len(a) \in Nat /\ Len(b) \in Nat
      /\ Len(c) = Len(a) + Len(b)
      /\ \A i \in 1 .. Len(a) : c[i] = a[i]
      /\ \A i \in 1 .. Len(b) : c[Len(a) + i] = b[i]
  BY ConcatAt
<1>. HIDE DEF c
<1>2. /\ p \in Seq(Seq(Readable)) /\ Len(p) = Len(a)
      /\ q \in Seq(Seq(Readable)) /\ Len(q) = Len(b)
      /\ r \in Seq(Seq(Readable)) /\ Len(r) = Len(c)
  BY <1>1, ReadsIs
<1>3. \A i \in 1 .. Len(a) : r[i] = p[i]
  BY <1>1
<1>4. \A i \in 1 .. Len(b) : r[Len(a) + i] = q[i]
  BY <1>1
<1>5. Reads(a) = FlattenSeq(p) /\ Reads(b) = FlattenSeq(q) /\ Reads(c) = FlattenSeq(r)
  BY DEF Reads
<1>. HIDE DEF p, q, r
<1>6. r = p \o q
  <2> DEFINE M == Seq(Readable)
  <2>1. p \in Seq(M) /\ q \in Seq(M) /\ r \in Seq(M)
    BY <1>2
  <2>. HIDE DEF M
  <2>2. /\ Len(r) = Len(p) + Len(q)
        /\ \A i \in 1 .. Len(p) : r[i] = p[i]
        /\ \A i \in 1 .. Len(q) : r[Len(p) + i] = q[i]
    BY <1>1, <1>2, <1>3, <1>4
  <2>. QED BY <2>1, <2>2, ConcatIs
<1>. QED BY <1>2, <1>5, <1>6, FlattenConcat DEF c

\* One line alone.
LEMMA ReadsOne ==
  ASSUME NEW b \in LineText
  PROVE  Reads(<<b>>) = ReadLine(b)
<1>1. [i \in DOMAIN <<b>> |-> ReadLine(<<b>>[i])] = <<ReadLine(b)>>
  OBVIOUS
<1>2. ReadLine(b) \in Seq(Readable)
  BY ReadLineType
<1>3. /\ <<>> \in Seq(Seq(Readable))
      /\ Append(<<>>, ReadLine(b)) = <<ReadLine(b)>>
      /\ <<>> \o ReadLine(b) = ReadLine(b)
  BY <1>2, EmptySeq, ConcatEmptySeq
<1>4. FlattenSeq(Append(<<>>, ReadLine(b))) = FlattenSeq(<<>>) \o ReadLine(b)
  BY <1>2, <1>3, FlattenAppend
<1>. QED BY <1>1, <1>3, <1>4, FlattenEmpty DEF Reads

\* An import reads the lines of its text.
LEMMA LinesType ==
  ASSUME NEW text \in Text
  PROVE  /\ Lines(text) \in Seq(LineText)
         /\ Import(text) = Reads(Lines(text))
         /\ Import(text) \in Seq(Readable)
<1>1. Append(text, Newline) \in Seq(Char)
  BY CharsIn, AppendProperties DEF Text
<1>2. Lines(text) \in Seq(LineText)
  BY <1>1, EndedIs DEF Lines, LineText
<1>3. Import(text) = Reads(Lines(text))
  BY DEF Import, Reads
<1>. QED BY <1>2, <1>3, ReadsIs

\* A line that has ended is read first, and then the rest of the text.
LEMMA ImportOfLine ==
  ASSUME NEW b \in LineText, NEW r \in Text
  PROVE  Import(Append(b, Newline) \o r) = ReadLine(b) \o Import(r)
<1> DEFINE h == Append(b, Newline)
           e == Append(r, Newline)
<1>1. b \in Seq(Char) /\ Newline \in Char
  BY CharsIn, SeqMonotonic DEF LineText
<1>2. /\ h \in Seq(Char) /\ h # <<>> /\ h[Len(h)] = Newline
      /\ e \in Seq(Char) /\ r \in Seq(Char)
  BY <1>1, AppendProperties DEF Text
<1>3. Ended(h) = <<b>>
  BY EndedLine DEF LineText
<1>4. Append(h \o r, Newline) = h \o e
  <2>. HIDE DEF h
  <2>1. <<Newline>> \in Seq(Char) /\ h \o r \in Seq(Char)
    BY <1>1, <1>2, ConcatProperties
  <2>2. (h \o r) \o <<Newline>> = h \o (r \o <<Newline>>)
    BY <1>2, <2>1, ConcatAssociative
  <2>3. /\ Append(h \o r, Newline) = (h \o r) \o <<Newline>>
        /\ e = r \o <<Newline>>
    BY <1>1, <1>2, <2>1, AppendIsConcat
  <2>. QED BY <2>2, <2>3
<1>. HIDE DEF h, e
<1>5. Lines(h \o r) = <<b>> \o Lines(r)
  <2>1. Ended(h \o e) = Ended(h) \o Ended(e)
    BY <1>2, EndedConcat
  <2>. QED BY <1>3, <1>4, <2>1 DEF Lines, e
<1>6. Lines(r) \in Seq(LineText) /\ Import(r) = Reads(Lines(r))
  BY LinesType
<1>7. h \o r \in Text
  BY <1>2, ConcatProperties DEF Text
<1>8. Import(h \o r) = Reads(<<b>> \o Lines(r))
  BY <1>5, <1>7, LinesType
<1>9. Reads(<<b>> \o Lines(r)) = Reads(<<b>>) \o Reads(Lines(r))
  <2>1. <<b>> \in Seq(LineText)
    OBVIOUS
  <2>. QED BY <1>6, <2>1, ReadsConcat
<1>. QED BY <1>6, <1>8, <1>9, ReadsOne DEF h

\* An empty file adds nothing.
LEMMA ImportEmpty == Import(<<>>) = <<>>
<1>1. <<>> \in Text /\ <<>> \in LineText
  BY EmptySeq DEF Text, LineText
<1>2. Lines(<<>>) = << <<>> >>
  <2>1. <<>> \in Seq(Char \ {Newline})
    BY EmptySeq
  <2>2. Ended(Append(<<>>, Newline)) = << <<>> >>
    BY <2>1, EndedLine
  <2>. QED BY <2>2 DEF Lines
<1>3. Import(<<>>) = ReadLine(<<>>)
  BY <1>1, <1>2, LinesType, ReadsOne
<1>4. Trim(<<>>) = <<>>
  <2>1. \A a, b : ~ InkFrom(<<>>, a, b)
    BY DEF InkFrom
  <2>. QED BY <2>1, <1>1, TrimCases DEF Text
<1>. QED BY <1>3, <1>4 DEF ReadLine, IsAssignment

-----------------------------------------------------------------------------
(* What is written *)

\* What is written between the "=" and the line end for a value
Quoted(v) == (<<Quote>> \o Escape(v)) \o <<Quote>>

\* Writing brings no characters but the backslash and the quote.
LEMMA EscapeType ==
  ASSUME NEW S, NEW v \in Seq(S), Backslash \in S, Quote \in S
  PROVE  Escape(v) \in Seq(S)
<1>1. v \in Seq(S \union {Quote})
  BY SeqMonotonic
<1>. QED BY EscapeAppend

\* A value is written character by character.
LEMMA EscapeConcat ==
  ASSUME NEW S, NEW v \in Seq(S), NEW u \in Seq(S), Backslash \in S, Quote \in S
  PROVE  Escape(v \o u) = Escape(v) \o Escape(u)
<1> DEFINE c == v \o u
           p == [i \in DOMAIN v |-> Escaped(v[i])]
           q == [i \in DOMAIN u |-> Escaped(u[i])]
           r == [i \in DOMAIN c |-> Escaped(c[i])]
<1>1. /\ c \in Seq(S) /\ Len(v) \in Nat /\ Len(u) \in Nat
      /\ Len(c) = Len(v) + Len(u)
      /\ \A i \in 1 .. Len(v) : c[i] = v[i]
      /\ \A i \in 1 .. Len(u) : c[Len(v) + i] = u[i]
  BY ConcatAt
<1>. HIDE DEF c
<1>2. ASSUME NEW x \in Seq(S)
      PROVE  /\ [i \in DOMAIN x |-> Escaped(x[i])] \in Seq(Seq(S))
             /\ Len([i \in DOMAIN x |-> Escaped(x[i])]) = Len(x)
  <2>1. \A i \in 1 .. Len(x) : Escaped(x[i]) \in Seq(S)
    BY DEF Escaped
  <2>2. DOMAIN x = 1 .. Len(x) /\ Len(x) \in Nat
    OBVIOUS
  <2>. QED BY <2>1, <2>2
<1>3. /\ p \in Seq(Seq(S)) /\ Len(p) = Len(v)
      /\ q \in Seq(Seq(S)) /\ Len(q) = Len(u)
      /\ r \in Seq(Seq(S)) /\ Len(r) = Len(c)
  BY <1>1, <1>2
<1>4. \A i \in 1 .. Len(v) : r[i] = p[i]
  BY <1>1
<1>5. \A i \in 1 .. Len(u) : r[Len(v) + i] = q[i]
  BY <1>1
<1>6. Escape(v) = FlattenSeq(p) /\ Escape(u) = FlattenSeq(q) /\ Escape(c) = FlattenSeq(r)
  BY DEF Escape
<1>. HIDE DEF p, q, r
<1>7. r = p \o q
  <2> DEFINE M == Seq(S)
  <2>1. p \in Seq(M) /\ q \in Seq(M) /\ r \in Seq(M)
    BY <1>3
  <2>. HIDE DEF M
  <2>2. /\ Len(r) = Len(p) + Len(q)
        /\ \A i \in 1 .. Len(p) : r[i] = p[i]
        /\ \A i \in 1 .. Len(q) : r[Len(p) + i] = q[i]
    BY <1>1, <1>3, <1>4, <1>5
  <2>. QED BY <2>1, <2>2, ConcatIs
<1>8. FlattenSeq(p \o q) = FlattenSeq(p) \o FlattenSeq(q)
  <2>1. p \in Seq(Seq(S)) /\ q \in Seq(Seq(S))
    BY <1>3
  <2>. QED BY <2>1, FlattenConcat
<1>. QED BY <1>6, <1>7, <1>8 DEF c

\* A line of the file: the key, the "=", the quoted value and the line end
LEMMA ExportLineIs ==
  ASSUME NEW key \in Text, NEW v \in Text
  PROVE  /\ Quoted(v) \in Text
         /\ ExportLine(key, v) = Append((key \o <<Equals>>) \o Quoted(v), Newline)
         /\ ExportLine(key, v) \in Text
<1> DEFINE e == Escape(v)
           k == key \o <<Equals>>
<1>1. /\ key \in Seq(Char) /\ e \in Seq(Char) /\ <<Equals>> \in Seq(Char)
      /\ <<Quote>> \in Seq(Char) /\ <<Newline>> \in Seq(Char) /\ Newline \in Char
  BY CharsIn, EscapeType DEF Text
<1>2. <<Equals, Quote>> = <<Equals>> \o <<Quote>> /\ <<Quote, Newline>> = <<Quote>> \o <<Newline>>
  OBVIOUS
<1>3. ExportLine(key, v) = ((key \o <<Equals, Quote>>) \o e) \o <<Quote, Newline>>
  BY DEF ExportLine
<1>. HIDE DEF e
<1>4. key \o <<Equals, Quote>> = k \o <<Quote>> /\ k \in Seq(Char)
  BY <1>1, <1>2, ConcatAssociative, ConcatProperties
<1>. HIDE DEF k
<1> DEFINE q == <<Quote>> \o e
<1>5. (k \o <<Quote>>) \o e = k \o q /\ q \in Seq(Char)
  BY <1>1, <1>4, ConcatAssociative, ConcatProperties
<1>6. Quoted(v) = q \o <<Quote>>
  BY DEF Quoted, e
<1>. HIDE DEF q
<1>7. k \o q \in Seq(Char) /\ q \o <<Quote>> \in Seq(Char)
  BY <1>1, <1>4, <1>5, ConcatProperties
<1>8. (k \o q) \o (<<Quote>> \o <<Newline>>) = ((k \o q) \o <<Quote>>) \o <<Newline>>
  BY <1>1, <1>7, ConcatAssociative
<1>9. (k \o q) \o <<Quote>> = k \o (q \o <<Quote>>)
  <2>1. k \in Seq(Char) /\ q \in Seq(Char) /\ <<Quote>> \in Seq(Char)
    BY <1>1, <1>4, <1>5
  <2>. QED BY <2>1, ConcatAssociative
<1>10. k \o (q \o <<Quote>>) \in Seq(Char)
  BY <1>4, <1>7, ConcatProperties
<1>11. /\ Append(k \o (q \o <<Quote>>), Newline) = (k \o (q \o <<Quote>>)) \o <<Newline>>
       /\ Append(k \o (q \o <<Quote>>), Newline) \in Seq(Char)
  BY <1>1, <1>10, AppendIsConcat, AppendProperties
<1>. QED BY <1>2, <1>3, <1>4, <1>5, <1>6, <1>7, <1>8, <1>9, <1>11 DEF Text, k

\* The file
Written(pairs) == [i \in DOMAIN pairs |-> ExportLine(pairs[i][1], pairs[i][2])]

\* A file is its lines, joined.
LEMMA ExportIs ==
  ASSUME NEW a \in Seq(Text \X Text)
  PROVE  /\ Written(a) \in Seq(Text) /\ Len(Written(a)) = Len(a)
         /\ Export(a) = FlattenSeq(Written(a))
         /\ Export(a) \in Text
<1>1. Len(a) \in Nat /\ DOMAIN a = 1 .. Len(a) /\ \A i \in 1 .. Len(a) : a[i] \in Text \X Text
  OBVIOUS
<1>2. \A i \in 1 .. Len(a) : ExportLine(a[i][1], a[i][2]) \in Text
  BY <1>1, ExportLineIs
<1>3. Written(a) \in Seq(Text) /\ Len(Written(a)) = Len(a)
  BY <1>1, <1>2 DEF Written
<1>4. Export(a) = FlattenSeq(Written(a))
  BY DEF Export, Written
<1>. QED BY <1>3, <1>4, FlattenType DEF Text

\* The credentials are written each for itself.
LEMMA ExportConcat ==
  ASSUME NEW a \in Seq(Text \X Text), NEW b \in Seq(Text \X Text)
  PROVE  Export(a \o b) = Export(a) \o Export(b)
<1> DEFINE c == a \o b
           p == Written(a)
           q == Written(b)
           r == Written(c)
<1>1. /\ c \in Seq(Text \X Text) /\ Len(a) \in Nat /\ Len(b) \in Nat
      /\ Len(c) = Len(a) + Len(b)
      /\ \A i \in 1 .. Len(a) : c[i] = a[i]
      /\ \A i \in 1 .. Len(b) : c[Len(a) + i] = b[i]
  BY ConcatAt
<1>. HIDE DEF c
<1>2. /\ p \in Seq(Text) /\ Len(p) = Len(a) /\ Export(a) = FlattenSeq(p)
      /\ q \in Seq(Text) /\ Len(q) = Len(b) /\ Export(b) = FlattenSeq(q)
      /\ r \in Seq(Text) /\ Len(r) = Len(c) /\ Export(c) = FlattenSeq(r)
  BY <1>1, ExportIs
<1>3. \A i \in 1 .. Len(a) : r[i] = p[i]
  BY <1>1 DEF Written
<1>4. \A i \in 1 .. Len(b) : r[Len(a) + i] = q[i]
  BY <1>1 DEF Written
<1>. HIDE DEF p, q, r
<1>5. r = p \o q
  <2>1. /\ Len(r) = Len(p) + Len(q)
        /\ \A i \in 1 .. Len(p) : r[i] = p[i]
        /\ \A i \in 1 .. Len(q) : r[Len(p) + i] = q[i]
    BY <1>1, <1>2, <1>3, <1>4
  <2>. QED BY <1>2, <2>1, ConcatIs
<1>6. FlattenSeq(p \o q) = FlattenSeq(p) \o FlattenSeq(q)
  <2>1. p \in Seq(Seq(Char)) /\ q \in Seq(Seq(Char))
    BY <1>2 DEF Text
  <2>. QED BY <2>1, FlattenConcat
<1>. QED BY <1>2, <1>5, <1>6 DEF c

\* One credential alone is one line.
LEMMA ExportOne ==
  ASSUME NEW g \in Text \X Text
  PROVE  Export(<<g>>) = ExportLine(g[1], g[2])
<1> DEFINE l == ExportLine(g[1], g[2])
<1>1. Written(<<g>>) = <<l>>
  BY DEF Written
<1>2. l \in Seq(Char) /\ <<g>> \in Seq(Text \X Text)
  BY ExportLineIs DEF Text
<1>. HIDE DEF l
<1>3. /\ <<>> \in Seq(Seq(Char)) /\ Append(<<>>, l) = <<l>> /\ <<>> \o l = l
  BY <1>2, EmptySeq, ConcatEmptySeq
<1>4. FlattenSeq(Append(<<>>, l)) = FlattenSeq(<<>>) \o l
  BY <1>2, <1>3, FlattenAppend
<1>. QED BY <1>1, <1>2, <1>3, <1>4, FlattenEmpty, ExportIs DEF l

-----------------------------------------------------------------------------
(* A credential that fits is read back *)

\* What is written for a value is read as the value, but for the escape of a
\* line end.
LEMMA QuotedIs ==
  ASSUME NEW S, NEW v \in Seq(S), Backslash \in S, Quote \in S
  PROVE  LET w == Quoted(v)
         IN  /\ w \in Seq(S) /\ w # <<>> /\ w[1] = Quote /\ w[Len(w)] = Quote
             /\ Inner(w) = Escape(v)
             /\ Unquote(w) = ReplaceEscape(v, LetterN, Newline)
<1> DEFINE e == Escape(v)
           q == <<Quote>> \o e
           w == Quoted(v)
           n == Len(e)
<1>1. e \in Seq(S) /\ <<Quote>> \in Seq(S) /\ n \in Nat /\ Len(<<Quote>>) = 1
  <2>1. e \in Seq(S)
    BY EscapeType
  <2>. HIDE DEF e
  <2>. QED BY <2>1
<1>2. w = q \o <<Quote>>
  BY DEF Quoted
<1>. HIDE DEF e
<1>3. /\ q \in Seq(S) /\ Len(q) = 1 + n /\ q[1] = Quote
      /\ \A i \in 1 .. n : q[1 + i] = e[i]
  <2>1. /\ q \in Seq(S) /\ Len(q) = Len(<<Quote>>) + Len(e)
    BY <1>1, ConcatAt
  <2>2. \A i \in 1 .. Len(<<Quote>>) : q[i] = <<Quote>>[i]
    BY <1>1, ConcatAt
  <2>3. \A i \in 1 .. Len(e) : q[Len(<<Quote>>) + i] = e[i]
    BY <1>1, ConcatAt
  <2>. HIDE DEF q
  <2>. QED BY <1>1, <2>1, <2>2, <2>3
<1>. HIDE DEF q, w
<1>4. /\ w \in Seq(S) /\ Len(w) = n + 2 /\ w[n + 2] = Quote
      /\ \A i \in 1 .. n + 1 : w[i] = q[i]
  <2>1. w \in Seq(S) /\ Len(w) = Len(q) + Len(<<Quote>>)
    BY <1>1, <1>2, <1>3, ConcatAt
  <2>2. \A i \in 1 .. Len(q) : w[i] = q[i]
    BY <1>1, <1>2, <1>3, ConcatAt
  <2>3. \A i \in 1 .. Len(<<Quote>>) : w[Len(q) + i] = <<Quote>>[i]
    BY <1>1, <1>2, <1>3, ConcatAt
  <2>4. Len(q) + 1 = n + 2
    BY <1>1, <1>3
  <2>. QED BY <1>1, <1>3, <2>1, <2>2, <2>3, <2>4
<1>5. w # <<>> /\ w[1] = Quote /\ w[Len(w)] = Quote
  BY <1>1, <1>3, <1>4
<1>6. Inner(w) = e
  <2>1. 2 \in Nat /\ n + 1 \in Nat /\ 1 <= 2 /\ 2 <= (n + 1) + 1 /\ n + 1 <= Len(w)
        /\ (n + 1) - 2 + 1 = n /\ Len(w) - 1 = n + 1
    BY <1>1, <1>4
  <2> DEFINE z == SubSeq(w, 2, n + 1)
  <2>2. z \in Seq(S) /\ Len(z) = (n + 1) - 2 + 1
        /\ \A i \in 1 .. (n + 1) - 2 + 1 : z[i] = w[2 + i - 1]
    BY <1>4, <2>1, SubSeqIs
  <2>. HIDE DEF z
  <2>3. \A i \in 1 .. n : z[i] = e[i]
    <3> TAKE i \in 1 .. n
    <3>1. 2 + i - 1 = 1 + i /\ 1 + i \in 1 .. n + 1
      BY <1>1
    <3>. QED BY <1>3, <1>4, <2>1, <2>2, <3>1
  <2>4. z = e
    BY <1>1, <2>1, <2>2, <2>3, SeqEqual
  <2>. QED BY <2>1, <2>4 DEF Inner, z
<1>7. Unquote(w) = ReplaceEscape(v, LetterN, Newline)
  <2>1. Between(w, Quote)
    BY <1>5 DEF Between
  <2>2. Unquote(w) = ReplaceEscape(ReplaceEscape(e, Quote, Quote), LetterN, Newline)
    BY <1>6, <2>1 DEF Unquote
  <2>. QED BY <2>2, QuotesComeBack DEF e
<1>. QED BY <1>4, <1>5, <1>6, <1>7 DEF w, e

\* The credentials that survive: a key that fits and a Plain value.
Exportable == {k \in Text : Fits(k)} \X {v \in Text : Plain(v)}

\* Plain, in terms of the set of the characters.
LEMMA PlainIs ==
  ASSUME NEW v \in Text
  PROVE  Plain(v) <=> /\ v \in Seq(Char \ {Newline, Return})
                      /\ \A i \in 1 .. Len(v) : ~ EscapeAt(v, i, LetterN)
<1> DEFINE C == Char \ {Newline, Return}
<1>1. v \in Seq(Char) /\ DOMAIN v = 1 .. Len(v) /\ \A i \in 1 .. Len(v) : v[i] \in Char
  BY DEF Text
<1>2. v \in Seq(C) <=> \A i \in 1 .. Len(v) : v[i] \in C
  <2>. HIDE DEF C
  <2>. QED BY <1>1
<1>3. (\A i \in 1 .. Len(v) : v[i] \in C) <=> \A i \in DOMAIN v : v[i] \notin {Newline, Return}
  BY <1>1
<1>. QED BY <1>1, <1>2, <1>3 DEF Plain

\* The whole line of a value of one line
LEMMA ReadWhole ==
  ASSUME NEW key \in Text, Fits(key), NEW v \in Seq(Char \ {Newline, Return}), NEW r \in Text
  PROVE  Import(ExportLine(key, v) \o r)
           = << <<key, ReplaceEscape(v, LetterN, Newline)>> >> \o Import(r)
<1> DEFINE C == Char \ {Newline, Return}
           w == Quoted(v)
           b == (key \o <<Equals>>) \o w
<1>1. Backslash \in C /\ Quote \in C /\ C \subseteq Char
  BY CharsIn, Chars
<1>2. v \in Text
  BY SeqMonotonic DEF Text
<1>3. /\ w \in Seq(C) /\ w # <<>> /\ w[1] = Quote /\ w[Len(w)] = Quote
      /\ Unquote(w) = ReplaceEscape(v, LetterN, Newline)
  <2>1. v \in Seq(C)
    OBVIOUS
  <2>. HIDE DEF C
  <2>. QED BY <1>1, <2>1, QuotedIs
<1>4. w \in Seq(Char) /\ Len(w) \in Nat /\ Len(w) > 0 /\ \A i \in 1 .. Len(w) : w[i] \in C
  <2>1. w \in Seq(Char)
    BY <1>1, <1>3, SeqMonotonic
  <2>. HIDE DEF w, C
  <2>. QED BY <1>3, <2>1
<1>5. ExportLine(key, v) = Append(b, Newline)
  BY <1>2, ExportLineIs
<1>. HIDE DEF w
<1>6. b \in LineText
  <2>1. key \in Seq(Char \ {Newline})
    <3>1. key \in Seq(Char) /\ \A i \in 1 .. Len(key) : key[i] \in Char \ {Newline}
      BY DEF Fits, Text
    <3>. QED BY <3>1
  <2>2. <<Equals>> \in Seq(Char \ {Newline}) /\ w \in Seq(Char \ {Newline})
    <3>1. C \subseteq Char \ {Newline}
      OBVIOUS
    <3>. QED BY <1>3, <3>1, CharsIn, SeqMonotonic
  <2>. QED BY <2>1, <2>2, ConcatProperties DEF LineText
<1>7. ReadLine(b) = << <<key, Unquote(w)>> >>
  <2> DEFINE m == Len(w)
  <2>1. /\ m \in 1 .. Len(w) /\ w[m] \notin Blank
        /\ \A i \in m + 1 .. Len(w) : w[i] \in Blank
        /\ \A i \in 1 .. m : w[i] # Return
    BY <1>3, <1>4, CharsIn
  <2>2. key \in Seq(Char) /\ Equals \in Char
    BY CharsIn DEF Text
  <2>. HIDE DEF m
  <2>3. ReadLine(b) = << <<key, Unquote(SubSeq(w, 1, m))>> >>
    BY <1>3, <1>4, <2>1, <2>2, ReadWritten
  <2>4. SubSeq(w, 1, m) = w
    BY <1>4, SubSeqFull DEF m
  <2>. QED BY <2>3, <2>4
<1>8. Import(Append(b, Newline) \o r) = ReadLine(b) \o Import(r)
  BY <1>6, ImportOfLine
<1>. QED BY <1>3, <1>5, <1>7, <1>8

\* The line of an exportable credential gives it back.
LEMMA ReadExportable ==
  ASSUME NEW g \in Exportable, NEW r \in Text
  PROVE  Import(ExportLine(g[1], g[2]) \o r) = <<g>> \o Import(r)
<1>1. /\ g[1] \in Text /\ Fits(g[1]) /\ g[2] \in Text /\ Plain(g[2])
      /\ g = <<g[1], g[2]>>
  BY DEF Exportable
<1>2. /\ g[2] \in Seq(Char \ {Newline, Return})
      /\ \A i \in 1 .. Len(g[2]) : ~ EscapeAt(g[2], i, LetterN)
  BY <1>1, PlainIs
<1>3. ReplaceEscape(g[2], LetterN, Newline) = g[2]
  BY <1>1, <1>2, CharsIn, ReplaceKeeps DEF Text
<1>. QED BY <1>1, <1>2, <1>3, ReadWhole

\* What comes first in a file is read first.
LEMMA ReadExportables ==
  ASSUME NEW q \in Seq(Exportable), NEW r \in Text
  PROVE  Import(Export(q) \o r) = q \o Import(r)
<1> DEFINE T == {s \in Seq(Exportable) : \A t \in Text : Import(Export(s) \o t) = s \o Import(t)}
<1>0. Exportable \subseteq Text \X Text /\ Readable \subseteq Text \X Text
  <2>1. Seq(Char \ {Return}) \subseteq Seq(Char)
    BY SeqMonotonic
  <2>. QED BY <2>1 DEF Exportable, Readable, Text
<1>1. <<>> \in T
  <2>1. Export(<<>>) = <<>>
    <3>1. [i \in DOMAIN <<>> |-> ExportLine(<<>>[i][1], <<>>[i][2])] = <<>>
      OBVIOUS
    <3>. QED BY <3>1, FlattenEmpty DEF Export
  <2>2. ASSUME NEW t \in Text PROVE Import(<<>> \o t) = <<>> \o Import(t)
    <3>1. <<>> \o t = t
      BY ConcatEmptySeq DEF Text
    <3>2. <<>> \o Import(t) = Import(t)
      BY LinesType, ConcatEmptySeq
    <3>. QED BY <3>1, <3>2
  <2>. QED BY <2>1, <2>2, EmptySeq
<1>2. ASSUME NEW s \in Seq(Exportable), NEW g \in Exportable, s \in T
      PROVE  Append(s, g) \in T
  <2> SUFFICES ASSUME NEW t \in Text
               PROVE  Import(Export(Append(s, g)) \o t) = Append(s, g) \o Import(t)
    BY AppendProperties
  <2> DEFINE l == ExportLine(g[1], g[2])
  <2>1. /\ s \in Seq(Text \X Text) /\ g \in Text \X Text /\ <<g>> \in Seq(Text \X Text)
        /\ Append(s, g) = s \o <<g>>
    <3>1. s \in Seq(Text \X Text)
      BY <1>0, SeqMonotonic
    <3>2. g \in Text \X Text
      BY <1>0
    <3>3. Append(s, g) = s \o <<g>>
      BY AppendIsConcat
    <3>. QED BY <3>1, <3>2, <3>3
  <2>2. Export(Append(s, g)) = Export(s) \o l
    BY <2>1, ExportConcat, ExportOne
  <2>3. Export(s) \in Seq(Char) /\ l \in Seq(Char) /\ t \in Seq(Char)
    BY <2>1, ExportIs, ExportLineIs DEF Text
  <2>. HIDE DEF l
  <2>4. (Export(s) \o l) \o t = Export(s) \o (l \o t) /\ l \o t \in Text
    BY <2>3, ConcatAssociative, ConcatProperties DEF Text
  <2>5. Import(Export(s) \o (l \o t)) = s \o Import(l \o t)
    BY <1>2, <2>4
  <2>6. Import(l \o t) = <<g>> \o Import(t)
    BY ReadExportable DEF l
  <2>7. Import(t) \in Seq(Text \X Text)
    BY <1>0, LinesType, SeqMonotonic
  <2>8. s \o (<<g>> \o Import(t)) = (s \o <<g>>) \o Import(t)
    BY <2>1, <2>7, ConcatAssociative
  <2>. QED BY <2>1, <2>2, <2>4, <2>5, <2>6, <2>8
<1>3. Seq(Exportable) \subseteq T
  <2>. HIDE DEF T
  <2>. QED BY <1>1, <1>2, SequenceInduction
<1>. QED BY <1>3

\* Exportable credentials are read back: export_credentials and
\* processBulkEnv undo each other on them.
THEOREM ExportIsRead ==
  ASSUME NEW pairs \in Seq(Exportable)
  PROVE  Import(Export(pairs)) = pairs
<1>1. <<>> \in Text /\ pairs \o <<>> = pairs
  BY EmptySeq, ConcatEmptySeq DEF Text
<1>2. Export(pairs) \in Seq(Char)
  <2>1. pairs \in Seq(Text \X Text)
    BY SeqMonotonic DEF Exportable
  <2>. QED BY <2>1, ExportIs DEF Text
<1>3. Export(pairs) \o <<>> = Export(pairs)
  BY <1>2, ConcatEmptySeq
<1>. QED BY <1>1, <1>3, ReadExportables, ImportEmpty

-----------------------------------------------------------------------------
(* A value that is not Plain is read as another one *)

\* Two ways to bracket three texts give the same text.
Associates(s, t, u) == (s \o t) \o u = s \o (t \o u)

\* Texts are closed under concatenation, which is associative.
LEMMA TextConcat ==
  /\ \A s, t \in Text : s \o t \in Text
  /\ \A s, t, u \in Text : Associates(s, t, u)
<1>1. ASSUME NEW s \in Text, NEW t \in Text, NEW u \in Text
      PROVE  s \o t \in Text /\ Associates(s, t, u)
  BY ConcatAssociative, ConcatProperties DEF Text, Associates
<1>. QED BY <1>1

\* The text of a line in a file, bracketed for what is one line of it
Regroups(k, p, n, z, q, r) ==
  ((k \o (p \o (n \o z))) \o q) \o r = ((k \o p) \o n) \o ((z \o q) \o r)

\* The line end in the middle can be made the one between two texts.
LEMMA Regroup ==
  ASSUME NEW k \in Text, NEW p \in Text, NEW n \in Text, NEW z \in Text,
         NEW q \in Text, NEW r \in Text
  PROVE  Regroups(k, p, n, z, q, r)
<1>1. n \o z \in Text /\ k \o p \in Text /\ z \o q \in Text
  BY TextConcat
<1>2. (k \o p) \o n \in Text
  BY <1>1, TextConcat
<1>3. \A s, t, u \in Text : Associates(s, t, u)
  BY TextConcat
<1>4. Associates(k, p, n \o z)
  BY <1>1, <1>3
<1>5. Associates(k \o p, n, z)
  BY <1>1, <1>3
<1>6. Associates((k \o p) \o n, z, q)
  BY <1>2, <1>3
<1>7. Associates((k \o p) \o n, z \o q, r)
  BY <1>1, <1>2, <1>3
<1>. QED BY <1>4, <1>5, <1>6, <1>7 DEF Associates, Regroups

\* The value of a text that the end of a line has cut off is not the whole
\* text: it is too short, or has no line end.
LEMMA CutValueDiffers ==
  ASSUME NEW v \in Seq(Char), NEW p \in Seq(Char \ {Newline, Return}),
         Len(p) < Len(v), NEW j \in 1 .. Len(v), v[j] = Newline,
         NEW m \in 1 .. Len(<<Quote>> \o Escape(p))
  PROVE  Unquote(SubSeq(<<Quote>> \o Escape(p), 1, m)) # v
<1> DEFINE C == Char \ {Newline, Return}
           e == Escape(p)
           w == <<Quote>> \o e
           y == SubSeq(w, 1, m)
           n == Len(e)
<1>0. Backslash \in C /\ Quote \in C /\ C \subseteq Char /\ Newline \in Char
  BY CharsIn, Chars
<1>1. e \in Seq(C) /\ n \in Nat
  <2>1. e \in Seq(C)
    <3>. HIDE DEF C
    <3>1. p \in Seq(C)
      BY DEF C
    <3>. QED BY <1>0, <3>1, EscapeType
  <2>. HIDE DEF e, C
  <2>. QED BY <2>1
<1>2. ReplaceEscape(e, Quote, Quote) = p
  <2>1. p \in Seq(C)
    OBVIOUS
  <2>. HIDE DEF C
  <2>. QED BY <1>0, <2>1, QuotesComeBack
<1>. HIDE DEF e, C
<1>3. /\ w \in Seq(C) /\ Len(w) = 1 + n /\ w[1] = Quote
      /\ \A i \in 1 .. n : w[1 + i] = e[i]
  <2>1. <<Quote>> \in Seq(C) /\ Len(<<Quote>>) = 1
    BY <1>0
  <2>2. w \in Seq(C) /\ Len(w) = Len(<<Quote>>) + Len(e)
    BY <1>1, <2>1, ConcatAt
  <2>3. \A i \in 1 .. Len(<<Quote>>) : w[i] = <<Quote>>[i]
    BY <1>1, <2>1, ConcatAt
  <2>4. \A i \in 1 .. Len(e) : w[Len(<<Quote>>) + i] = e[i]
    BY <1>1, <2>1, ConcatAt
  <2>. HIDE DEF w
  <2>. QED BY <2>1, <2>2, <2>3, <2>4
<1>4. m \in 1 .. Len(w) /\ m \in Nat
  BY <1>1, <1>3 DEF e
<1>. HIDE DEF w
<1>5. y \in Seq(C) /\ Len(y) = m /\ \A i \in 1 .. m : y[i] = w[i]
  <2>1. m \in 0 .. Len(w)
    BY <1>1, <1>3, <1>4
  <2>. QED BY <1>3, <2>1, Beginning
<1>. HIDE DEF y
<1>6. y # <<>> /\ y[1] = Quote
  BY <1>3, <1>4, <1>5
<1>7. CASE Between(y, Quote)
  <2> DEFINE x == Inner(y)
             R(s) == ReplaceEscape(s, Quote, Quote)
  <2>1. \E t \in Seq(C) : x \in Seq(C) /\ e = x \o t
    <3>1. CASE m = 1
      <4>1. x = <<>>
        BY <1>5, <3>1, SubSeqEmpty DEF Inner
      <4>2. <<>> \in Seq(C) /\ e = <<>> \o e
        BY <1>1, EmptySeq, ConcatEmptySeq
      <4>. QED BY <1>1, <4>1, <4>2
    <3>2. CASE m > 1
      <4>1. 2 \in Nat /\ m - 1 \in Nat /\ 1 <= 2 /\ 2 <= (m - 1) + 1 /\ m - 1 <= Len(y)
            /\ (m - 1) - 2 + 1 = m - 2 /\ m - 2 \in 0 .. n
        BY <1>1, <1>3, <1>4, <1>5, <3>2
      <4>2. x = SubSeq(y, 2, m - 1)
        BY <1>5 DEF Inner
      <4>3. /\ x \in Seq(C) /\ Len(x) = (m - 1) - 2 + 1
            /\ \A i \in 1 .. (m - 1) - 2 + 1 : x[i] = y[2 + i - 1]
        BY <1>5, <4>1, <4>2, SubSeqIs
      <4>. HIDE DEF x
      <4>4. \A i \in 1 .. m - 2 : x[i] = e[i]
        <5> TAKE i \in 1 .. m - 2
        <5>1. 2 + i - 1 = 1 + i /\ 1 + i \in 1 .. m /\ i \in 1 .. n
          BY <1>1, <1>4, <4>1
        <5>. QED BY <1>3, <1>5, <4>1, <4>3, <5>1
      <4>5. /\ SubSeq(e, 1, m - 2) \in Seq(C) /\ Len(SubSeq(e, 1, m - 2)) = m - 2
            /\ \A i \in 1 .. m - 2 : SubSeq(e, 1, m - 2)[i] = e[i]
        BY <1>1, <4>1, Beginning
      <4>6. x = SubSeq(e, 1, m - 2)
        BY <4>1, <4>3, <4>4, <4>5, SeqEqual
      <4> DEFINE t == SubSeq(e, (m - 2) + 1, n)
      <4>7. t \in Seq(C)
        <5>1. (m - 2) + 1 \in Nat /\ 1 <= (m - 2) + 1 /\ (m - 2) + 1 <= n + 1 /\ n <= Len(e)
          BY <1>1, <4>1
        <5>. QED BY <1>1, <5>1, SubSeqIs
      <4>8. SubSeq(e, 1, m - 2) \o t = SubSeq(e, 1, n)
        <5>1. 1 \in 1 .. Len(e) + 1 /\ m - 2 \in 1 - 1 .. Len(e) /\ n \in m - 2 .. Len(e)
          BY <1>1, <4>1
        <5>. QED BY <1>1, <5>1, ConcatAdjacentSubSeq
      <4>9. SubSeq(e, 1, n) = e
        BY <1>1, SubSeqFull
      <4>10. x \in Seq(C) /\ e = x \o t
        BY <4>3, <4>6, <4>8, <4>9, Zenon
      <4>. QED BY <4>7, <4>10, Zenon
    <3>3. m = 1 \/ m > 1
      BY <1>4
    <3>. QED BY <3>1, <3>2, <3>3, Zenon
  <2>2. PICK t \in Seq(C) : x \in Seq(C) /\ e = x \o t
    BY <2>1
  <2>3. Len(R(x)) <= Len(p)
    <3>. HIDE DEF x
    <3>1. Len(R(x)) <= Len(R(x \o t))
      BY <1>0, <2>2, Chars, ReplaceGrows
    <3>. QED BY <1>2, <2>2, <3>1
  <2>4. R(x) \in Seq(Char) /\ Len(ReplaceEscape(R(x), LetterN, Newline)) <= Len(R(x))
        /\ ReplaceEscape(R(x), LetterN, Newline) \in Seq(Char)
    <3>. HIDE DEF x
    <3>1. R(x) \in Seq(Char)
      <4>1. R(x) \in Seq(C)
        BY <1>0, <2>2, ReplaceShortens
      <4>. QED BY <1>0, <4>1, SeqMonotonic
    <3>. HIDE DEF R
    <3>. QED BY <1>0, <3>1, ReplaceShortens
  <2>5. Unquote(y) = ReplaceEscape(R(x), LetterN, Newline)
    BY <1>7 DEF Unquote
  <2> DEFINE u == Unquote(y)
  <2>6. u \in Seq(Char) /\ Len(u) <= Len(R(x)) /\ Len(R(x)) \in Nat /\ Len(u) \in Nat
    <3>1. u \in Seq(Char) /\ Len(u) <= Len(R(x)) /\ R(x) \in Seq(Char)
      BY <2>4, <2>5
    <3>. HIDE DEF u, R, x
    <3>. QED BY <3>1
  <2>7. Len(p) \in Nat /\ Len(v) \in Nat
    OBVIOUS
  <2>. HIDE DEF u, R, x
  <2>8. u # v
    BY <2>3, <2>6, <2>7
  <2>. QED BY <2>8 DEF u, y, w, e
<1>8. CASE ~ Between(y, Quote)
  <2>1. ~ Between(y, Apostrophe)
    BY <1>6, Chars DEF Between
  <2>2. Unquote(y) = y
    BY <1>8, <2>1 DEF Unquote
  <2>3. \A i \in 1 .. Len(y) : y[i] # Newline
    BY <1>5 DEF C
  <2>4. y # v
    BY <2>3
  <2>. QED BY <2>2, <2>4 DEF y, w, e
<1>. QED BY <1>7, <1>8

\* The lines of a value that goes on with z after p and a line end
Breaks(key, p, z, r) ==
  \E t \in Text :
    ExportLine(key, p \o (<<Newline>> \o z)) \o r
      = Append((key \o <<Equals>>) \o (<<Quote>> \o Escape(p)), Newline) \o t

\* A line end in a value is written as it is, and ends the line.
LEMMA BrokenLine ==
  ASSUME NEW key \in Text, NEW p \in Text, NEW z \in Text, NEW r \in Text
  PROVE  Breaks(key, p, z, r)
<1> DEFINE e == Escape(p)
           f == Escape(z)
           n == <<Newline>>
           v == p \o (n \o z)
           k == key \o <<Equals, Quote>>
           q == <<Quote, Newline>>
           t == (f \o q) \o r
           b == (key \o <<Equals>>) \o (<<Quote>> \o e)
<1>1. /\ Newline \in Char /\ Quote \in Char /\ Backslash \in Char
      /\ n \in Text /\ q \in Text /\ <<Equals>> \in Text /\ <<Quote>> \in Text
      /\ <<Equals, Quote>> \in Text
  BY CharsIn DEF Text
<1>2. e \in Text /\ f \in Text
  BY <1>1, EscapeType DEF Text
<1>3. Escape(v) = e \o (n \o f)
  <2>1. Escape(n) = n
    <3>1. n = Append(<<>>, Newline) /\ <<>> \in Seq(Char) /\ Escaped(Newline) = n
      BY <1>1, Chars, EmptySeq DEF Escaped
    <3>2. Escape(n) = Escape(<<>>) \o Escaped(Newline)
      BY <1>1, <3>1, EscapeAppend
    <3>3. <<>> \o n = n
      OBVIOUS
    <3>. QED BY <3>1, <3>2, <3>3, EscapeEmpty
  <2> DEFINE y == n \o z
  <2>2. y \in Text
    BY <1>1, TextConcat
  <2>3. Escape(y) = Escape(n) \o f
    BY <1>1, EscapeConcat DEF Text
  <2>. HIDE DEF y
  <2>4. Escape(p \o y) = e \o Escape(y)
    BY <1>1, <2>2, EscapeConcat DEF Text
  <2>. QED BY <2>1, <2>3, <2>4 DEF y
<1>4. ExportLine(key, v) = (k \o (e \o (n \o f))) \o q
  BY <1>3 DEF ExportLine
<1>. HIDE DEF e, f
<1>5. k \in Text /\ f \o q \in Text
  BY <1>1, <1>2, TextConcat
<1>6. t \in Text
  BY <1>5, TextConcat
<1>7. k \o e = b
  <2>1. <<Equals, Quote>> = <<Equals>> \o <<Quote>>
    OBVIOUS
  <2>2. Associates(key, <<Equals>>, <<Quote>>)
    BY <1>1, TextConcat
  <2>3. key \o <<Equals>> \in Text
    BY <1>1, TextConcat
  <2>4. Associates(key \o <<Equals>>, <<Quote>>, e)
    BY <1>1, <1>2, <2>3, TextConcat
  <2>. QED BY <2>1, <2>2, <2>4 DEF Associates
<1>. HIDE DEF k
<1>8. k \o e \in Text
  BY <1>2, <1>5, TextConcat
<1>9. Append(k \o e, Newline) = (k \o e) \o n
  BY <1>1, <1>8, AppendIsConcat DEF Text
<1>. HIDE DEF n, q, t
<1>10. ((k \o (e \o (n \o f))) \o q) \o r = ((k \o e) \o n) \o t
  <2>1. Regroups(k, e, n, f, q, r)
    BY <1>1, <1>2, <1>5, Regroup
  <2>. QED BY <2>1 DEF Regroups, t
<1>11. ExportLine(key, v) \o r = Append(b, Newline) \o t
  BY <1>4, <1>7, <1>9, <1>10
<1>. HIDE DEF b
<1>12. \E u \in Text : ExportLine(key, v) \o r = Append(b, Newline) \o u
  BY <1>6, <1>11
<1>. QED BY <1>12 DEF Breaks, b, e, n

\* The first line of such a value is read as another value.
LEMMA ReadCut ==
  ASSUME NEW key \in Text, Fits(key),
         NEW v \in Seq(Char), NEW p \in Seq(Char \ {Newline, Return}),
         Len(p) < Len(v), NEW j \in 1 .. Len(v), v[j] = Newline
  PROVE  LET b == (key \o <<Equals>>) \o (<<Quote>> \o Escape(p))
         IN  b \in LineText /\ \E u : u # v /\ ReadLine(b) = << <<key, u>> >>
<1> DEFINE C == Char \ {Newline, Return}
           e == Escape(p)
           w == <<Quote>> \o e
           b == (key \o <<Equals>>) \o w
<1>0. /\ Backslash \in C /\ Quote \in C /\ C \subseteq Char /\ C \subseteq Char \ {Newline}
      /\ Equals \in Char \ {Newline} /\ Equals \in Char /\ Quote \notin Blank
  BY CharsIn, Chars
<1>1. e \in Seq(C)
  <2>1. p \in Seq(C)
    OBVIOUS
  <2>. HIDE DEF C
  <2>. QED BY <1>0, <2>1, EscapeType
<1>2. w \in Seq(C) /\ w[1] = Quote /\ Len(w) >= 1 /\ Len(w) \in Nat
  <2>1. <<Quote>> \in Seq(C) /\ Len(<<Quote>>) = 1 /\ <<Quote>>[1] = Quote
    BY <1>0
  <2>. HIDE DEF e, C
  <2>2. /\ w \in Seq(C) /\ Len(w) = Len(<<Quote>>) + Len(e) /\ Len(e) \in Nat
        /\ \A i \in 1 .. Len(<<Quote>>) : w[i] = <<Quote>>[i]
    BY <1>1, <2>1, ConcatAt
  <2>. HIDE DEF w
  <2>. QED BY <2>1, <2>2
<1>3. ASSUME NEW m \in 1 .. Len(w) PROVE Unquote(SubSeq(w, 1, m)) # v
  BY <1>3, CutValueDiffers
<1>. HIDE DEF w, e
<1>4. w \in Seq(Char) /\ w # <<>> /\ \A i \in 1 .. Len(w) : w[i] # Return
  <2>1. w \in Seq(Char)
    BY <1>0, <1>2, SeqMonotonic
  <2>2. \A i \in 1 .. Len(w) : w[i] \in C
    <3>. HIDE DEF C
    <3>. QED BY <1>2
  <2>3. w # <<>>
    BY <1>2
  <2>. QED BY <2>1, <2>2, <2>3
<1>5. PICK m \in 1 .. Len(w) : w[m] \notin Blank /\ \A i \in m + 1 .. Len(w) : w[i] \in Blank
  <2>1. ~ \A i \in 1 .. Len(w) : w[i] \in Blank
    <3>1. 1 \in 1 .. Len(w)
      BY <1>2
    <3>. QED BY <1>0, <1>2, <3>1
  <2>2. \E a, c : InkFrom(w, a, c)
    BY <1>4, <2>1, TrimCases
  <2>3. PICK a, c : InkFrom(w, a, c)
    BY <2>2
  <2>4. /\ a \in 1 .. Len(w) /\ c \in a .. Len(w) /\ w[c] \notin Blank
        /\ \A i \in c + 1 .. Len(w) : w[i] \in Blank
    BY <2>3 DEF InkFrom
  <2>5. c \in 1 .. Len(w)
    BY <1>2, <2>4
  <2>. QED BY <2>4, <2>5
<1>6. ReadLine(b) = << <<key, Unquote(SubSeq(w, 1, m))>> >>
  <2>1. \A i \in 1 .. m : w[i] # Return
    <3> TAKE i \in 1 .. m
    <3>1. i \in 1 .. Len(w)
      BY <1>2, <1>5
    <3>. QED BY <1>4, <3>1
  <2>2. key \in Seq(Char)
    BY DEF Text
  <2>3. w \in Seq(Char) /\ w # <<>> /\ w[1] = Quote /\ Equals \in Char
    BY <1>0, <1>2, <1>4
  <2>4. w[m] \notin Blank /\ \A i \in m + 1 .. Len(w) : w[i] \in Blank
    BY <1>5
  <2>. HIDE DEF C
  <2>. QED BY <2>1, <2>2, <2>3, <2>4, ReadWritten
<1>7. b \in LineText
  <2>1. key \in Seq(Char \ {Newline})
    <3>1. key \in Seq(Char) /\ \A i \in 1 .. Len(key) : key[i] \in Char \ {Newline}
      BY DEF Fits, Text
    <3>. QED BY <3>1
  <2>2. <<Equals>> \in Seq(Char \ {Newline})
    BY <1>0
  <2>3. w \in Seq(Char \ {Newline})
    BY <1>0, <1>2, SeqMonotonic
  <2>. HIDE DEF C
  <2>. QED BY <2>1, <2>2, <2>3, ConcatProperties DEF LineText
<1>8. \E u : u # v /\ ReadLine(b) = << <<key, u>> >>
  BY <1>3, <1>6
<1>. QED BY <1>7, <1>8 DEF b, w, e

\* A value with a line end is what stands before the first one, the line
\* end, and the rest.
LEMMA FirstLineEnd ==
  ASSUME NEW v \in Seq(Char \ {Return}), \E i \in 1 .. Len(v) : v[i] = Newline
  PROVE  \E p \in Seq(Char \ {Newline, Return}), z \in Text :
           Len(p) < Len(v) /\ v = p \o (<<Newline>> \o z)
<1> DEFINE D == Char \ {Return}
           C == Char \ {Newline, Return}
           A == {i \in 1 .. Len(v) : v[i] = Newline}
<1>1. v \in Seq(D) /\ A \subseteq Nat /\ A # {} /\ D \subseteq Char
  OBVIOUS
<1>2. PICK j \in A : \A i \in A : j <= i
  <2>. HIDE DEF A
  <2>. QED BY <1>1, LeastNumber
<1> DEFINE p == SubSeq(v, 1, j - 1)
           z == SubSeq(v, j + 1, Len(v))
<1>. HIDE DEF D
<1>3. j \in 1 .. Len(v) /\ v[j] = Newline
  BY <1>2
<1>4. /\ p \in Seq(D) /\ Len(p) = j - 1 /\ \A i \in 1 .. j - 1 : p[i] = v[i]
      /\ z \in Seq(D) /\ v = p \o (<<v[j]>> \o z)
  BY <1>1, <1>3, SplitAt
<1>. HIDE DEF p, z
<1>5. p \in Seq(Char) /\ z \in Text
  BY <1>1, <1>4, SeqMonotonic DEF Text
<1>6. p \in Seq(C)
  <2>1. ASSUME NEW i \in 1 .. Len(p) PROVE p[i] \in C
    <3>1. i \in 1 .. j - 1 /\ i \in 1 .. Len(v) /\ ~ (j <= i)
      BY <1>3, <1>4
    <3>2. i \notin A
      BY <1>2, <3>1
    <3>3. p[i] # Newline
      BY <1>4, <3>1, <3>2
    <3>4. p[i] \in D
      BY <1>4
    <3>. QED BY <3>3, <3>4 DEF D
  <2>. HIDE DEF C
  <2>. QED BY <1>5, <2>1
<1>7. v = p \o (<<Newline>> \o z)
  BY <1>3, <1>4
<1>8. Len(p) < Len(v)
  BY <1>3, <1>4
<1>. QED BY <1>5, <1>6, <1>7, <1>8

\* A value that is not Plain is read as another one.
LEMMA ReadBroken ==
  ASSUME NEW key \in Text, Fits(key), NEW v \in Seq(Char \ {Return}), ~ Plain(v),
         NEW r \in Text
  PROVE  \E u, t : /\ u # v /\ t \in Text
                   /\ Import(ExportLine(key, v) \o r) = << <<key, u>> >> \o Import(t)
<1> DEFINE C == Char \ {Newline, Return}
<1>0. v \in Seq(Char) /\ v \in Text /\ Newline \in Char /\ LetterN # Backslash
  BY CharsIn, Chars, SeqMonotonic DEF Text
<1>1. CASE \E i \in 1 .. Len(v) : v[i] = Newline
  <2>1. PICK p \in Seq(C), z \in Text : Len(p) < Len(v) /\ v = p \o (<<Newline>> \o z)
    BY <1>1, FirstLineEnd
  <2>2. p \in Text
    BY SeqMonotonic DEF Text
  <2> DEFINE b == (key \o <<Equals>>) \o (<<Quote>> \o Escape(p))
  <2>0. Breaks(key, p, z, r)
    BY <2>2, BrokenLine
  <2>3. PICK t \in Text : ExportLine(key, v) \o r = Append(b, Newline) \o t
    BY <2>0, <2>1 DEF Breaks
  <2>4. b \in LineText /\ \E u : u # v /\ ReadLine(b) = << <<key, u>> >>
    BY <1>0, <1>1, <2>1, ReadCut
  <2>. HIDE DEF b
  <2>5. PICK u : u # v /\ ReadLine(b) = << <<key, u>> >>
    BY <2>4
  <2>6. Import(Append(b, Newline) \o t) = ReadLine(b) \o Import(t)
    BY <2>4, ImportOfLine
  <2>. QED BY <2>3, <2>5, <2>6
<1>2. CASE ~ \E i \in 1 .. Len(v) : v[i] = Newline
  <2>1. v \in Seq(C)
    <3>1. \A i \in 1 .. Len(v) : v[i] \in Char \ {Return}
      OBVIOUS
    <3>2. \A i \in 1 .. Len(v) : v[i] \in C
      BY <1>2, <3>1
    <3>. HIDE DEF C
    <3>. QED BY <1>0, <3>2
  <2>2. PICK i \in 1 .. Len(v) : EscapeAt(v, i, LetterN)
    BY <1>0, <2>1, PlainIs
  <2> DEFINE u == ReplaceEscape(v, LetterN, Newline)
  <2>3. PICK k \in 1 .. Len(u) : u[k] = Newline
    BY <1>0, <2>2, ReplaceBrings
  <2>4. Import(ExportLine(key, v) \o r) = << <<key, u>> >> \o Import(r)
    BY <2>1, ReadWhole
  <2>. HIDE DEF u
  <2>5. u # v
    BY <1>2, <2>3
  <2>. QED BY <2>4, <2>5
<1>. QED BY <1>1, <1>2

-----------------------------------------------------------------------------
(* What the two conversions promise together *)

\* An export is read back as the credentials it was written from exactly when
\* every key fits on a line and every value is Plain.
THEOREM ExportIsReadExactly ==
  ASSUME NEW pairs \in Seq(Text \X Text)
  PROVE  Import(Export(pairs)) = pairs
           <=> \A i \in 1 .. Len(pairs) : Fits(pairs[i][1]) /\ Plain(pairs[i][2])
<1> DEFINE P == Text \X Text
           n == Len(pairs)
<1>1. /\ pairs \in Seq(P) /\ n \in Nat
      /\ \A i \in 1 .. n : /\ pairs[i] \in P /\ pairs[i] = <<pairs[i][1], pairs[i][2]>>
                           /\ pairs[i][1] \in Text /\ pairs[i][2] \in Text
  <2>1. pairs \in Seq(P) /\ n \in Nat /\ \A i \in 1 .. n : pairs[i] \in P
    <3>1. pairs \in Seq(P)
      OBVIOUS
    <3>. HIDE DEF P
    <3>. QED BY <3>1
  <2>. QED BY <2>1
<1>. HIDE DEF P
<1>2. ASSUME \A i \in 1 .. n : Fits(pairs[i][1]) /\ Plain(pairs[i][2])
      PROVE  Import(Export(pairs)) = pairs
  <2>1. \A i \in 1 .. n : pairs[i] \in Exportable
    BY <1>1, <1>2 DEF Exportable
  <2>2. pairs \in Seq(Exportable)
    BY <1>1, <2>1
  <2>. QED BY <2>2, ExportIsRead
<1>3. ASSUME NEW k \in 1 .. n, ~ (Fits(pairs[k][1]) /\ Plain(pairs[k][2])),
             Import(Export(pairs)) = pairs
      PROVE  FALSE
  <2>1. \A i \in 1 .. n : Fits(pairs[i][1]) /\ pairs[i][2] \in Seq(Char \ {Return})
    <3>1. Export(pairs) \in Text
      BY ExportIs
    <3>2. pairs \in Seq(Readable)
      BY <1>3, <3>1, LinesType
    <3>3. \A i \in 1 .. n : pairs[i] \in Readable
      BY <3>2
    <3>. QED BY <3>3 DEF Readable
  <2> DEFINE A == {i \in 1 .. n : ~ Plain(pairs[i][2])}
  <2>2. PICK j \in A : \A i \in A : j <= i
    <3>1. A \subseteq Nat /\ A # {}
      BY <1>3, <2>1
    <3>. HIDE DEF A
    <3>. QED BY <3>1, LeastNumber
  <2>3. j \in 1 .. n /\ j \in 1 .. Len(pairs) /\ ~ Plain(pairs[j][2])
    BY <2>2
  <2> DEFINE q == SubSeq(pairs, 1, j - 1)
             z == SubSeq(pairs, j + 1, Len(pairs))
             g == pairs[j]
  <2>4. /\ q \in Seq(P) /\ Len(q) = j - 1 /\ \A i \in 1 .. j - 1 : q[i] = pairs[i]
        /\ z \in Seq(P) /\ pairs = q \o (<<g>> \o z)
    BY <1>1, <2>3, SplitAt
  <2>5. /\ g \in P /\ g = <<g[1], g[2]>> /\ g[1] \in Text /\ Fits(g[1])
        /\ g[2] \in Seq(Char \ {Return}) /\ ~ Plain(g[2])
    BY <1>1, <2>1, <2>3
  <2>. HIDE DEF q, z, g
  <2>6. q \in Seq(Exportable)
    <3>1. ASSUME NEW i \in 1 .. Len(q) PROVE q[i] \in Exportable
      <4>1. i \in 1 .. j - 1 /\ i \in 1 .. n /\ ~ (j <= i)
        BY <1>1, <2>3, <2>4
      <4>2. i \notin A
        BY <2>2, <4>1
      <4>3. q[i] = pairs[i] /\ Fits(pairs[i][1]) /\ Plain(pairs[i][2])
        BY <2>1, <2>4, <4>1, <4>2
      <4>. QED BY <1>1, <4>1, <4>3 DEF Exportable
    <3>. QED BY <2>4, <3>1
  <2> DEFINE l == ExportLine(g[1], g[2])
             r == Export(z)
  <2>7. Export(pairs) = Export(q) \o (l \o r) /\ r \in Text /\ l \o r \in Text
    <3>1. <<g>> \in Seq(P) /\ <<g>> \o z \in Seq(P)
      BY <2>4, <2>5, ConcatProperties
    <3>2. Export(<<g>> \o z) = Export(<<g>>) \o r
      BY <2>4, <3>1, ExportConcat DEF P
    <3>3. Export(<<g>>) = l
      BY <2>5, ExportOne DEF P
    <3> DEFINE y == <<g>> \o z
    <3>4. y \in Seq(P)
      BY <3>1
    <3>5. r \in Text /\ Export(y) \in Text
      BY <2>4, <3>4, ExportIs DEF P
    <3>. HIDE DEF y, l, r
    <3>6. Export(q \o y) = Export(q) \o Export(y)
      BY <2>4, <3>4, ExportConcat DEF P
    <3>. QED BY <2>4, <3>2, <3>3, <3>5, <3>6 DEF y
  <2>8. PICK u, t : u # g[2] /\ t \in Text /\ Import(l \o r) = << <<g[1], u>> >> \o Import(t)
    <3>. HIDE DEF r
    <3>. QED BY <2>5, <2>7, ReadBroken
  <2>. HIDE DEF l, r
  <2>9. pairs = q \o (<< <<g[1], u>> >> \o Import(t))
    BY <1>3, <2>6, <2>7, <2>8, ReadExportables
  <2> DEFINE h == <<g[1], u>>
             x == <<h>> \o Import(t)
  <2>10. x \in Seq(Readable) /\ Len(x) >= 1 /\ x[1] = h
    <3>1. l \o r \in Text /\ x = Import(l \o r)
      BY <2>7, <2>8
    <3>2. x \in Seq(Readable) /\ Import(t) \in Seq(Readable)
      BY <2>8, <3>1, LinesType
    <3>. HIDE DEF h
    <3>3. \A y \in Seq(Readable) : Len(<<h>> \o y) >= 1 /\ (<<h>> \o y)[1] = h
      OBVIOUS
    <3>. QED BY <3>2, <3>3
  <2>11. pairs[j] = h
    <3>1. pairs = q \o x
      BY <2>9
    <3>. HIDE DEF x, h
    <3>2. Len(q) + 1 = j /\ 1 \in 1 .. Len(x)
      BY <2>3, <2>4, <2>10
    <3>3. (q \o x)[Len(q) + 1] = x[1]
      <4>1. Exportable \subseteq Text \X Text /\ Readable \subseteq Text \X Text
        <5>1. Seq(Char \ {Return}) \subseteq Seq(Char)
          BY SeqMonotonic
        <5>. QED BY <5>1 DEF Exportable, Readable, Text
      <4>2. q \in Seq(P) /\ x \in Seq(P)
        BY <2>4, <2>10, <4>1, SeqMonotonic DEF P
      <4>. QED BY <3>2, <4>2, ConcatAt
    <3>. QED BY <2>10, <3>1, <3>2, <3>3
  <2>. QED BY <2>5, <2>8, <2>11 DEF g, h
<1>. QED BY <1>2, <1>3
=============================================================================
