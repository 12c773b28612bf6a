------------------------------ MODULE SqlLexer ------------------------------
(***************************************************************************)
(* The pooler's SQL lexer, sql/lexer.rs, over sequences of characters.     *)
(* Keywords matter to the parser only, so one letter stands for all; words *)
(* are folded to lower case there, and so are literals.                    *)
(***************************************************************************)
EXTENDS Naturals, Sequences, FiniteSetsExt

Letters == {"k"}
Digits == {"1"}
Spaces == {" ", "newline"}

Token(kind, text) == [kind |-> kind, text |-> text]

\* The first position from i on whose character is in S, or the end.
FirstIn(s, i, S) == Min({j \in i .. Len(s) : s[j] \in S} \cup {Len(s) + 1})

\* The first whose character is not, or the end.
FirstOut(s, i, S) == Min({j \in i .. Len(s) : s[j] \notin S} \cup {Len(s) + 1})

Begins(s, i, x, y) == i < Len(s) /\ s[i] = x /\ s[i + 1] = y

\* Mutant: the first closing delimiter ends the comment.
BlockEndFlat(s, i) ==
  LET End[j \in Nat] ==
        IF j > Len(s) THEN Len(s) + 1 ELSE IF Begins(s, j, "*", "/") THEN j + 2 ELSE End[j + 1]
  IN  End[i]

\* block_comment: where the comment ends whose opening ended before i.
BlockEnd(s, i) ==
  LET End[j \in Nat, depth \in Nat] ==
        IF depth = 0 THEN j
        ELSE IF j > Len(s) THEN Len(s) + 1
        ELSE IF Begins(s, j, "/", "*") THEN End[j + 2, depth + 1]
        ELSE IF Begins(s, j, "*", "/") THEN End[j + 2, depth - 1]
        ELSE End[j + 1, depth]
  IN  End[i, 1]

\* noise: whitespace and comments; a line comment leaves its newline.
NoiseEnd(s, i) ==
  LET End[j \in Nat] ==
        IF j > Len(s) THEN j
        ELSE IF s[j] \in Spaces THEN End[j + 1]
        ELSE IF Begins(s, j, "-", "-") THEN End[FirstIn(s, j + 2, {"newline"})]
        ELSE IF Begins(s, j, "/", "*") THEN End[BlockEnd(s, j + 2)]
        ELSE j
  IN  End[i]

\* single_quoted_string, double_quoted_ident: what the quotes hold from i on,
\* a doubled quote being one, and where they end.
Quoted(s, i, quote) ==
  LET Body[j \in Nat] ==
        IF j > Len(s) THEN [text |-> <<>>, end |-> j]
        ELSE IF s[j] # quote THEN [Body[j + 1] EXCEPT !.text = <<s[j]>> \o @]
        ELSE IF Begins(s, j, quote, quote) THEN [Body[j + 2] EXCEPT !.text = <<quote>> \o @]
        ELSE [text |-> <<>>, end |-> j + 1]
  IN  Body[i]

\* The scan for a closing tag, which keeps no more than how much of it matches.
TagEnd(s, i, tag) ==
  LET End[j \in Nat, matched \in Nat] ==
        LET kept == IF j <= Len(s) /\ s[j] = tag[matched + 1] THEN matched ELSE 0
            now == IF j <= Len(s) /\ s[j] = tag[kept + 1] THEN kept + 1 ELSE kept
        IN  IF j > Len(s) THEN j ELSE IF now = Len(tag) THEN j + 1 ELSE End[j + 1, now]
  IN  End[i, 0]

\* dollar_quoted_string after the first dollar: where it ends.  What is no tag is
\* punctuation, together with the characters read to find that out.
DollarEnd(s, i) ==
  LET stop == FirstOut(s, i, Letters \cup Digits)
  IN  IF stop > Len(s) THEN stop
      ELSE IF s[stop] # "$" THEN stop + 1
      ELSE TagEnd(s, stop + 1, <<"$">> \o SubSeq(s, i, stop))

\* One token at i, and where it ends.
TokenAt(s, i) ==
  LET run(kind, S) ==
        LET end == FirstOut(s, i, S) IN [token |-> Token(kind, SubSeq(s, i, end - 1)), end |-> end]
      quoted(kind) ==
        LET q == Quoted(s, i + 1, s[i]) IN [token |-> Token(kind, q.text), end |-> q.end]
  IN  CASE s[i] \in Letters -> run("word", Letters \cup Digits)
        [] s[i] \in Digits -> run("number", Digits)
        [] s[i] = "\"" -> quoted("quoted")
        [] s[i] = "'" -> quoted("literal")
        [] s[i] \in {"*", "(", ")"} -> [token |-> Token(s[i], <<>>), end |-> i + 1]
        [] s[i] = "$" -> [token |-> Token("other", <<>>), end |-> DollarEnd(s, i + 1)]
        [] OTHER -> [token |-> Token("other", <<>>), end |-> i + 1]

\* lex.
Lex(s) ==
  LET From[i \in Nat] ==
        IF i > Len(s) THEN <<>>
        ELSE LET t == TokenAt(s, i) IN <<t.token>> \o From[NoiseEnd(s, t.end)]
  IN  From[NoiseEnd(s, 1)]
=============================================================================
