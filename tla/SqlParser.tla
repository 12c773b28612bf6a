----------------------------- MODULE SqlParser -----------------------------
(***************************************************************************)
(* The pooler's statement parser, sql/parser.rs, over sequences of tokens, *)
(* and what it makes of a statement, sql/ast.rs.  A token's text is a      *)
(* string here: a word or a name is compared as a whole.                   *)
(***************************************************************************)
EXTENDS Naturals, Sequences, FiniteSetsExt

NoText == ""
Word(w) == [kind |-> "word", text |-> w]
QuotedIdent(w) == [kind |-> "quoted", text |-> w]
Literal(v) == [kind |-> "literal", text |-> v]
Number(v) == [kind |-> "number", text |-> v]
Symbol(c) == [kind |-> c, text |-> NoText]
Punctuation == Symbol("other")
NoToken == Symbol("none")

Peek(ts, i) == IF i <= Len(ts) THEN ts[i] ELSE NoToken
IsIdentifier(t) == t.kind \in {"word", "quoted"}

\* What the pooler distinguishes: the kind of statement, the name it is about
\* and the token of its value.
Statement(kind, name, value) == [kind |-> kind, name |-> name, value |-> value]
Bare(kind) == Statement(kind, NoText, NoToken)
Named(kind, name) == Statement(kind, name, NoToken)
Other == Bare("other")

ParseListen(ts) ==
  IF IsIdentifier(Peek(ts, 2)) THEN Named("listen", ts[2].text) ELSE Other

\* The quoted name "*" is a channel.
ParseUnlisten(ts) ==
  LET t == Peek(ts, 2)
  IN  CASE t.kind = "*" -> Bare("unlisten all")
        [] IsIdentifier(t) -> Named("unlisten", t.text)
        [] OTHER -> Other

\* parse_transaction_options: the ONLY or WRITE of the last READ ONLY or READ
\* WRITE from i on.  Every other READ belongs to an isolation level.
TransactionOptions(ts, i) ==
  LET is(j) == ts[j - 1] = Word("read") /\ ts[j] \in {Word("only"), Word("write")}
      modes == {j \in i + 1 .. Len(ts) : is(j)}
  IN  IF modes = {} THEN NoToken ELSE ts[Max(modes)]

\* Mutant: a sign before a number is not looked past.
SetValueUnsigned(ts, i) ==
  IF Peek(ts, i).kind \in {"word", "literal", "number"} THEN Peek(ts, i) ELSE NoToken

\* The value of a SET; a sign is passed over.
SetValue(ts, i) ==
  LET t == Peek(ts, i)
  IN  CASE t.kind \in {"word", "literal", "number"} -> t
        [] t = Punctuation /\ Peek(ts, i + 1).kind = "number" -> ts[i + 1]
        [] OTHER -> NoToken

\* The assignment of a SET from i on.
Assignment(ts, i, kind) ==
  IF /\ IsIdentifier(Peek(ts, i))
     /\ Peek(ts, i + 1) \in {Word("to"), Punctuation}
     /\ SetValue(ts, i + 2) # NoToken
  THEN Statement(kind, ts[i].text, SetValue(ts, i + 2))
  ELSE Other

ParseSet(ts) ==
  CASE Peek(ts, 2) = Word("transaction") ->
         Statement("set transaction", NoText, TransactionOptions(ts, 3))
    [] Peek(ts, 2) = Word("local") -> Assignment(ts, 3, "set local")
    [] Peek(ts, 2) = Word("session") /\ Peek(ts, 3) = Word("characteristics") ->
         IF Peek(ts, 4) = Word("as") /\ Peek(ts, 5) = Word("transaction")
         THEN Statement("set transaction", NoText, TransactionOptions(ts, 6)) ELSE Other
    [] Peek(ts, 2) = Word("session") /\ Peek(ts, 3) # Word("characteristics") ->
         Assignment(ts, 3, "set")
    [] OTHER -> Assignment(ts, 2, "set")

ParseReset(ts) ==
  LET t == Peek(ts, 2)
  IN  CASE t = Word("all") -> Bare("reset all")
        [] IsIdentifier(t) /\ t # Word("all") -> Named("reset", t.text)
        [] OTHER -> Other

ParseDiscard(ts) ==
  CASE Peek(ts, 2) = Word("all") -> Bare("discard all")
    [] Peek(ts, 2) \in {Word(w) : w \in {"plans", "sequences", "temporary", "temp"}} ->
         Named("discard", Peek(ts, 2).text)
    [] OTHER -> Other

\* DEALLOCATE [PREPARE] (ALL | name).
ParseDeallocate(ts) ==
  LET t == Peek(ts, IF Peek(ts, 2) = Word("prepare") THEN 3 ELSE 2)
  IN  CASE t = Word("all") -> Bare("deallocate all")
        [] IsIdentifier(t) /\ t # Word("all") -> Named("deallocate", t.text)
        [] OTHER -> Other

\* BEGIN may be followed by a noise word, START must be.
ParseBegin(ts) ==
  IF ts[1] = Word("start") /\ Peek(ts, 2) # Word("transaction") THEN Other
  ELSE Statement("begin", NoText, TransactionOptions(ts, 2))

Dml == [w \in {"select", "table", "values", "insert", "update", "delete", "truncate"} |->
          CASE w \in {"select", "table", "values"} -> "select"
            [] w \in {"delete", "truncate"} -> "delete"
            [] OTHER -> w]

\* Mutant: the first keyword, in whatever parentheses.
ParseWithFlat(ts) ==
  LET found == {i \in DOMAIN ts : ts[i].kind = "word" /\ ts[i].text \in DOMAIN Dml}
  IN  IF found = {} THEN Other ELSE Bare(Dml[ts[Min(found)].text])

\* How many parentheses are open after each token; one that closes none is passed over.
Depth(ts) ==
  LET after[i \in 0 .. Len(ts)] ==
        IF i = 0 THEN 0
        ELSE CASE ts[i] = Symbol("(") -> after[i - 1] + 1
               [] ts[i] = Symbol(")") /\ after[i - 1] > 0 -> after[i - 1] - 1
               [] OTHER -> after[i - 1]
  IN  after

\* parse_cte_wrapped: the first keyword outside parentheses.
ParseWith(ts) ==
  LET outside == {i \in DOMAIN ts : /\ ts[i].kind = "word" /\ ts[i].text \in DOMAIN Dml
                                     /\ Depth(ts)[i] = 0}
  IN  IF outside = {} THEN Other ELSE Bare(Dml[ts[Min(outside)].text])

\* parse, of the tokens of one statement.
Parse(ts) ==
  LET first == IF Peek(ts, 1).kind = "word" THEN ts[1].text ELSE NoText
  IN  CASE first = "listen" -> ParseListen(ts)
        [] first = "unlisten" -> ParseUnlisten(ts)
        [] first = "set" -> ParseSet(ts)
        [] first = "reset" -> ParseReset(ts)
        [] first = "discard" -> ParseDiscard(ts)
        [] first = "deallocate" -> ParseDeallocate(ts)
        [] first \in {"begin", "start"} -> ParseBegin(ts)
        [] first \in {"commit", "end"} -> Bare("commit")
        [] first \in {"rollback", "abort"} -> Bare("rollback")
        [] first \in DOMAIN Dml -> Bare(Dml[first])
        [] first = "copy" -> Bare("copy")
        [] first = "with" -> ParseWith(ts)
        [] OTHER -> Other

\* as_boolean, for what is false.
FalseValues == {"f", "fa", "fal", "fals", "false", "n", "no", "of", "off", "0"}

ReadOnlyDefault == "default_transaction_read_only"

\* Mutant: RESET ALL is not looked at.
OverridesButAll(stmt) ==
  \/ stmt.kind \in {"begin", "set transaction"} /\ stmt.value = Word("write")
  \/ /\ stmt.kind \in {"set", "set local"} /\ stmt.name = ReadOnlyDefault
     /\ stmt.value = Word("default") \/ stmt.value.text \in FalseValues
  \/ stmt.kind = "reset" /\ stmt.name = ReadOnlyDefault

\* is_read_write_override.
Overrides(stmt) ==
  \/ stmt.kind \in {"begin", "set transaction"} /\ stmt.value = Word("write")
  \/ /\ stmt.kind \in {"set", "set local"} /\ stmt.name = ReadOnlyDefault
     /\ stmt.value = Word("default") \/ stmt.value.text \in FalseValues
  \/ stmt.kind = "reset" /\ stmt.name = ReadOnlyDefault
  \/ stmt.kind = "reset all"
=============================================================================
