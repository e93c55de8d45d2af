------------------------------ MODULE EnvFile ------------------------------
(***************************************************************************)
(* The two conversions between credentials and the text of a .env file:    *)
(* what export_credentials (commands.rs) writes and what processBulkEnv    *)
(* (app.js) reads.  A text is a sequence of characters; only the           *)
(* characters that one of the two treats in a way of its own are told      *)
(* apart, every other one behaves like a letter.  What depends on the      *)
(* length of a text is written with FlattenSeq: each character, or each    *)
(* line, gives a piece, and the pieces are joined.                         *)
(***************************************************************************)
EXTENDS Naturals, Sequences, SequencesExt

Quote      == "\""
Apostrophe == "'"
Backslash  == "\\"
LetterN    == "n"
Newline    == "newline"
Return     == "return"
Equals     == "="
Hash       == "#"
Space      == " "
Other      == "x"

\* Return stands for the ends of line at which no text is split and which "."
\* does not match, the carriage return first of all.
Char == {Quote, Apostrophe, Backslash, LetterN, Newline, Return, Equals,
         Hash, Space, Other}
Blank == {Space, Newline, Return}
Text  == Seq(Char)

-----------------------------------------------------------------------------
(* Writing *)

\* Slip: nothing is escaped.
EscapeNothing(v) == v

\* decrypted.replace('"', "\\\""): nothing but the quotes is escaped.
Escaped(c) == IF c = Quote THEN <<Backslash, Quote>> ELSE <<c>>
Escape(v)  == FlattenSeq([i \in DOMAIN v |-> Escaped(v[i])])

\* One line of the file, with the line end that writeln! adds.
ExportLine(key, v) ==
  key \o <<Equals, Quote>> \o Escape(v) \o <<Quote, Newline>>

\* The file for a sequence of <<key, value>>.
Export(pairs) ==
  FlattenSeq([i \in DOMAIN pairs |-> ExportLine(pairs[i][1], pairs[i][2])])

-----------------------------------------------------------------------------
(* Reading *)

\* The line that ends before position i
LineBefore(text, i) ==
  SubSeq(text, Max({0} \union {j \in 1 .. i - 1 : text[j] = Newline}) + 1, i - 1)

\* The lines of a text that a line end follows
Ended(text) ==
  FlattenSeq([i \in DOMAIN text |->
                IF text[i] = Newline THEN <<LineBefore(text, i)>> ELSE <<>>])

\* split('\n'): what follows the last line end is a line as well.
Lines(text) == Ended(Append(text, Newline))

Trim(s) ==
  LET ink == {i \in DOMAIN s : s[i] \notin Blank}
  IN  IF ink = {} THEN <<>> ELSE SubSeq(s, Min(ink), Max(ink))

EscapeAt(s, i, second) ==
  i \in 1 .. Len(s) - 1 /\ s[i] = Backslash /\ s[i + 1] = second

\* replace(/\\<second>/g, by): the two characters differ, so that no two
\* matches overlap.
Replaced(s, i, second, by) ==
  IF EscapeAt(s, i, second)          THEN <<>>
  ELSE IF EscapeAt(s, i - 1, second) THEN <<by>>
  ELSE <<s[i]>>

ReplaceEscape(s, second, by) ==
  FlattenSeq([i \in DOMAIN s |-> Replaced(s, i, second, by)])

\* slice(1, -1), which gives "" for a text of one character
Inner(s) == SubSeq(s, 2, Len(s) - 1)

Between(s, c) == s # <<>> /\ s[1] = c /\ s[Len(s)] = c

\* The value of a line: quotes are taken off, and the escapes of a double
\* quoted value are replaced, \" first and \n after it.
Unquote(s) ==
  CASE Between(s, Quote) ->
         ReplaceEscape(ReplaceEscape(Inner(s), Quote, Quote), LetterN, Newline)
    [] ~Between(s, Quote) /\ Between(s, Apostrophe) -> Inner(s)
    [] OTHER -> s

FirstEquals(line) == Min({i \in DOMAIN line : line[i] = Equals})

\* A line counts when it is no comment, has an "=" after its first character
\* and nothing after the first "=" that "." does not match; every other line
\* is passed over in silence.
IsAssignment(line) ==
  /\ line # <<>>
  /\ line[1] \notin {Hash, Equals}
  /\ \E i \in DOMAIN line : line[i] = Equals
  /\ \A i \in DOMAIN line : line[i] = Return => i < FirstEquals(line)

Assignment(line) ==
  LET at == FirstEquals(line)
  IN  <<Trim(SubSeq(line, 1, at - 1)), Unquote(Trim(SubSeq(line, at + 1, Len(line))))>>

\* What the loop adds for one line, if anything
ReadLine(line) ==
  IF IsAssignment(Trim(line)) THEN <<Assignment(Trim(line))>> ELSE <<>>

\* The <<key, value>> pairs that an import adds, in the order of the lines.
Import(text) ==
  LET lines == Lines(text)
  IN  FlattenSeq([i \in DOMAIN lines |-> ReadLine(lines[i])])

-----------------------------------------------------------------------------
\* The keys that a line of a file can have, and the values for which reading
\* undoes writing: one line, and no backslash before an n.
Fits(key) ==
  /\ key # <<>>
  /\ key[1] \notin Blank \union {Hash}
  /\ key[Len(key)] \notin Blank
  /\ \A i \in DOMAIN key : key[i] \notin {Equals, Newline}

Plain(v) ==
  /\ \A i \in DOMAIN v : v[i] \notin {Newline, Return}
  /\ \A i \in DOMAIN v : ~EscapeAt(v, i, LetterN)
=============================================================================
