----------------------------- MODULE SqlServer -----------------------------
(***************************************************************************)
(* What PostgreSQL makes of SQL text, as far as the pooler has a view of   *)
(* it: the lexical rules, as a scanner that reads one character at a time, *)
(* and the grammar and meaning of the statements that the pooler acts on.  *)
(* It is outside the repository, and the reference for SqlLexer and        *)
(* SqlParser: nothing here is written the way they are.                    *)
(***************************************************************************)
EXTENDS SqlLexer, SqlParser

CONSTANTS
  Settings,  \* session settings other than default_transaction_read_only
  Forms      \* forms of statements included: "characteristics", "discard"

\* These words stand for something else where a setting's name may be written.
ASSUME SettingsAssumption ==
  Settings \cap {"local", "session", "transaction", "characteristics", "all"} = {}

Vars == Settings \cup {ReadOnlyDefault}

-----------------------------------------------------------------------------
(* The scanner *)

\* `shown` is what is outside quotes, comments and dollar quotes, and quoted
\* identifiers; `part` the token that may still grow; `tag` that of a dollar quote.
\* `stray`: a dollar that begins no dollar quote has been read.
Fresh == [mode |-> "code", depth |-> 0, part |-> <<>>, tag |-> <<>>, shown |-> <<>>,
          stray |-> FALSE]

In(sc, mode) == [sc EXCEPT !.mode = mode, !.part = <<>>]
Show(sc, token) == [sc EXCEPT !.shown = Append(@, token)]

\* The end of the token being read, if there is one.
Flush(sc) ==
  CASE sc.mode \in {"word", "number"} -> In(Show(sc, Token(sc.mode, sc.part)), "code")
    [] sc.mode \in {"quoted", "quoted end"} -> In(Show(sc, Token("quoted", sc.part)), "code")
    [] OTHER -> In(sc, "code")

\* A character that begins something, outside everything.
Begin(sc, c) ==
  CASE c \in Letters -> [sc EXCEPT !.mode = "word", !.part = <<c>>]
    [] c \in Digits -> [sc EXCEPT !.mode = "number", !.part = <<c>>]
    [] c = "-" -> In(sc, "dash")
    [] c = "/" -> In(sc, "slash")
    [] c = "'" -> In(sc, "literal")
    [] c = "\"" -> In(sc, "quoted")
    [] c = "$" -> [sc EXCEPT !.mode = "tag", !.tag = <<"$">>]
    [] c \in {"*", "(", ")"} -> Show(sc, Token(c, <<>>))
    [] OTHER -> sc

EndsWith(seq, tail) ==
  Len(seq) >= Len(tail) /\ SubSeq(seq, Len(seq) - Len(tail) + 1, Len(seq)) = tail

\* The scanner reads c.
Scan(sc, c) ==
  LET grown == [sc EXCEPT !.part = Append(@, c)]
      again == Begin(Flush(sc), c)
  IN  CASE sc.mode = "code" -> Begin(sc, c)
        [] sc.mode = "word" ->
             IF c \in Letters \cup Digits THEN grown
             ELSE IF c = "$" THEN [sc EXCEPT !.stray = TRUE] ELSE again
        [] sc.mode = "number" -> IF c \in Digits THEN grown ELSE again
        [] sc.mode = "dash" -> IF c = "-" THEN In(sc, "line") ELSE again
        [] sc.mode = "slash" -> IF c = "*" THEN [In(sc, "block") EXCEPT !.depth = 1] ELSE again
        [] sc.mode = "line" -> IF c = "newline" THEN In(sc, "code") ELSE sc
        [] sc.mode = "block" ->
             CASE EndsWith(grown.part, <<"/", "*">>) -> [In(sc, "block") EXCEPT !.depth = @ + 1]
               [] EndsWith(grown.part, <<"*", "/">>) ->
                    [In(sc, IF sc.depth = 1 THEN "code" ELSE "block") EXCEPT !.depth = @ - 1]
               [] OTHER -> [sc EXCEPT !.part = <<c>>]
        [] sc.mode = "literal" -> IF c = "'" THEN In(sc, "literal end") ELSE sc
        [] sc.mode = "literal end" -> IF c = "'" THEN In(sc, "literal") ELSE again
        [] sc.mode = "quoted" -> IF c = "\"" THEN [sc EXCEPT !.mode = "quoted end"] ELSE grown
        [] sc.mode = "quoted end" -> IF c = "\"" THEN [grown EXCEPT !.mode = "quoted"] ELSE again
        [] sc.mode = "tag" ->
             CASE c \in Letters \/ (c \in Digits /\ sc.tag # <<"$">>) -> [sc EXCEPT !.tag = Append(@, c)]
               [] c = "$" -> [In(sc, "dollar") EXCEPT !.tag = Append(@, c)]
               [] OTHER -> [sc EXCEPT !.stray = TRUE]
        [] sc.mode = "dollar" -> IF EndsWith(grown.part, sc.tag) THEN In(sc, "code") ELSE grown

\* What the server has to parse.
Shown(sc) == Flush(sc).shown

-----------------------------------------------------------------------------
(* The grammar *)

Concat(L, M) == {a \o b : a \in L, b \in M}
Words(text) == <<Word(text)>>
Optional(w) == {<<>>, Words(w)}

\* Two ways to write a name.
Written(name) == {<<Word(name)>>, <<QuotedIdent(name)>>}

Access == {"only", "write"}
Isolation == <<Word("isolation"), Word("level"), Word("read"), Word("committed")>>

\* Transaction modes: whether they say READ ONLY, READ WRITE or neither.
ModesSaying(access) ==
  LET said == IF access = "neither" THEN <<>> ELSE <<Word("read"), Word(access)>>
  IN  CASE access = "neither" -> {<<>>, Isolation}
        [] OTHER -> {said, Isolation \o said, said \o <<Punctuation>> \o Isolation}

\* A statement: its tokens, what it is, the settings it sets and resets, whether
\* only for its transaction, and whether it asks for a transaction that writes.
Meaning(tokens, kind, sets, resets, access) ==
  [tokens |-> tokens, kind |-> kind, sets |-> sets, resets |-> resets, access |-> access]

Values == {<<Word("on")>>, <<Word("off")>>, <<Literal("off")>>, <<Number("0")>>, <<Literal(NoText)>>,
           <<Punctuation, Number("1")>>, <<Word("default")>>}
AccessOf(v, value) ==
  IF v = ReadOnlyDefault /\ value \in {<<Word("off")>>, <<Literal("off")>>, <<Number("0")>>, <<Word("default")>>}
  THEN "write" ELSE "neither"

\* SET of v: to its default, it resets v.
Assigning(v, scope, name, equals, value) ==
  Meaning(Words("set") \o scope \o name \o equals \o value,
          IF scope = Words("local") THEN "set local" ELSE "set",
          IF scope = Words("local") \/ value = Words("default") THEN {} ELSE {v},
          IF scope # Words("local") /\ value = Words("default") THEN {v} ELSE {},
          AccessOf(v, value))

AssignmentsOf(v) ==
  {Assigning(v, scope, name, equals, value) :
     scope \in {<<>>, Words("session"), Words("local")}, name \in Written(v),
     equals \in {<<Word("to")>>, <<Punctuation>>}, value \in Values}

Assignments == UNION {AssignmentsOf(v) : v \in Vars}

Resets ==
  {Meaning(Words("reset") \o Words("all"), "reset all", {}, Vars, "write")}
    \cup UNION {{Meaning(Words("reset") \o name, "reset", {}, {v}, AccessOf(v, <<Word("default")>>)) :
                   name \in Written(v)} : v \in Vars}

BeginsSaying(access) ==
  {Meaning(head \o modes, "begin", {}, {}, access) :
     head \in {Words("begin"), Words("begin") \o Words("work"), Words("start") \o Words("transaction")},
     modes \in ModesSaying(access)}

SetTransactionsSaying(access) ==
  {Meaning(<<Word("set"), Word("transaction")>> \o modes, "set transaction", {}, {}, access) :
     modes \in ModesSaying(access) \ {<<>>}}

Transactions ==
  UNION {BeginsSaying(access) \cup SetTransactionsSaying(access) : access \in Access \cup {"neither"}}

\* READ ONLY for the transactions to come is a setting that stays.
Characteristics ==
  {Meaning(<<Word("set"), Word("session"), Word("characteristics"), Word("as"), Word("transaction"),
             Word("read"), Word(access)>>,
           "set transaction", IF access = "only" THEN {ReadOnlyDefault} ELSE {}, {}, access) :
     access \in IF "characteristics" \in Forms THEN Access ELSE {"write"}}

Plain(kind, sentences) == {Meaning(s, kind, {}, {}, "neither") : s \in sentences}
Body == <<Symbol("(")>> \o Words("delete") \o <<Symbol(")")>>

\* A name that is a keyword is one when it is quoted, and not otherwise.
OtherStatements ==
  {Meaning(Words("discard") \o Words("all"), "discard all", {}, Vars,
           IF "discard" \in Forms THEN "write" ELSE "neither")}
    \cup Plain("discard", Concat({Words("discard")}, {Words("plans"), Words("temp")}))
    \cup Plain("listen", Concat({Words("listen")}, Written("a")))
    \cup Plain("unlisten", Concat({Words("unlisten")}, Written("a") \cup {<<QuotedIdent("*")>>}))
    \cup Plain("unlisten all", {Words("unlisten") \o <<Symbol("*")>>})
    \cup Plain("deallocate", Concat(Concat({Words("deallocate")}, Optional("prepare")),
                                    Written("a") \cup {<<QuotedIdent("all")>>}))
    \cup Plain("deallocate all", Concat(Concat({Words("deallocate")}, Optional("prepare")), {Words("all")}))
    \cup Plain("commit", {Words("commit"), Words("end")})
    \cup Plain("rollback", {Words("rollback"), Words("abort")})
    \cup Plain("select", {Words("select"), Words("values"),
                          Words("with") \o Words("a") \o Words("as") \o Body \o Words("select")})
    \cup Plain("update", {Words("update"),
                          Words("with") \o Words("a") \o Words("as") \o Body \o Words("update")})
    \cup Plain("copy", {Words("copy")})
    \cup Plain("other", {Words("create")})

Sentences ==
  Assignments \cup Resets \cup Transactions \cup Characteristics \cup OtherStatements
=============================================================================
