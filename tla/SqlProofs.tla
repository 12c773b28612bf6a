----------------------------- MODULE SqlProofs -----------------------------
(***************************************************************************)
(* Proofs about SqlSession: that the pooler's parser understands every     *)
(* sentence of the server's grammar, for every set of settings, and what   *)
(* follows from it for the sessions that are made of them.                 *)
(*                                                                         *)
(* A sentence is written out as a sequence of tokens (SetTokens, WithIs,   *)
(* HeadForms), parsed (SetParsed, BeginParsed, WithParsed, ...), and what  *)
(* the parser makes of it compared with its meaning (Understood).          *)
(***************************************************************************)
EXTENDS SqlSession, TLAPS

-----------------------------------------------------------------------------
(* Sentences as sequences *)

\* What is written in the sentences of the grammar.
Lexicon ==
  {"set", "session", "local", "to", "on", "off", "default", "0", "1", NoText, "reset", "all",
   "begin", "work", "start", "transaction", "read", "write", "only", "isolation", "level",
   "committed", "characteristics", "as", "discard", "plans", "temp", "listen", "unlisten",
   "a", "*", "deallocate", "prepare", "commit", "end", "rollback", "abort", "select",
   "values", "with", "delete", "update", "copy", "create"} \cup Vars

TokenOf ==
  [kind : {"word", "quoted", "literal", "number", "other", "none", "*", "(", ")"},
   text : Lexicon]

LEMMA Typed ==
  /\ \A w \in Lexicon : /\ Word(w) \in TokenOf /\ QuotedIdent(w) \in TokenOf
                         /\ Literal(w) \in TokenOf /\ Number(w) \in TokenOf
  /\ \A c \in {"other", "none", "*", "(", ")"} : Symbol(c) \in TokenOf
  /\ Punctuation \in TokenOf /\ NoToken \in TokenOf
<1>1. NoText \in Lexicon
  BY DEF Lexicon
<1> QED
  BY <1>1 DEF TokenOf, Word, QuotedIdent, Literal, Number, Symbol, Punctuation, NoToken

\* Short sequences, one after the other.
LEMMA Join11 ==
  ASSUME NEW a \in TokenOf, NEW p \in TokenOf
  PROVE  <<a>> \o <<p>> = <<a, p>>
<1> DEFINE j == <<a>> \o <<p>>
<1>1. <<a>> \in Seq(TokenOf) /\ <<p>> \in Seq(TokenOf)
  OBVIOUS
<1>2. /\ j \in Seq(TokenOf) /\ Len(j) = 2
      /\ j[1] = a /\ j[2] = p
  BY <1>1
<1> HIDE DEF j
<1>3. j = <<a, p>>
  BY <1>2
<1> QED  BY <1>3 DEF j

LEMMA Join21 ==
  ASSUME NEW a \in TokenOf, NEW b \in TokenOf, NEW p \in TokenOf
  PROVE  <<a, b>> \o <<p>> = <<a, b, p>>
<1> DEFINE j == <<a, b>> \o <<p>>
<1>1. <<a, b>> \in Seq(TokenOf) /\ <<p>> \in Seq(TokenOf)
  OBVIOUS
<1>2. /\ j \in Seq(TokenOf) /\ Len(j) = 3
      /\ j[1] = a /\ j[2] = b /\ j[3] = p
  BY <1>1
<1> HIDE DEF j
<1>3. j = <<a, b, p>>
  BY <1>2
<1> QED  BY <1>3 DEF j

LEMMA Join31 ==
  ASSUME NEW a \in TokenOf, NEW b \in TokenOf, NEW c \in TokenOf, NEW p \in
         TokenOf
  PROVE  <<a, b, c>> \o <<p>> = <<a, b, c, p>>
<1> DEFINE j == <<a, b, c>> \o <<p>>
<1>1. <<a, b, c>> \in Seq(TokenOf) /\ <<p>> \in Seq(TokenOf)
  OBVIOUS
<1>2. /\ j \in Seq(TokenOf) /\ Len(j) = 4
      /\ j[1] = a /\ j[2] = b /\ j[3] = c /\ j[4] = p
  BY <1>1
<1> HIDE DEF j
<1>3. j = <<a, b, c, p>>
  BY <1>2
<1> QED  BY <1>3 DEF j

LEMMA Join42 ==
  ASSUME NEW a \in TokenOf, NEW b \in TokenOf, NEW c \in TokenOf, NEW d \in
         TokenOf, NEW p \in TokenOf, NEW q \in TokenOf
  PROVE  <<a, b, c, d>> \o <<p, q>> = <<a, b, c, d, p, q>>
<1> DEFINE j == <<a, b, c, d>> \o <<p, q>>
<1>1. <<a, b, c, d>> \in Seq(TokenOf) /\ <<p, q>> \in Seq(TokenOf)
  OBVIOUS
<1>2. /\ j \in Seq(TokenOf) /\ Len(j) = 6
      /\ j[1] = a /\ j[2] = b /\ j[3] = c /\ j[4] = d /\ j[5] = p /\ j[6] = q
  BY <1>1
<1> HIDE DEF j
<1>3. j = <<a, b, c, d, p, q>>
  BY <1>2
<1> QED  BY <1>3 DEF j

LEMMA Join34 ==
  ASSUME NEW a \in TokenOf, NEW b \in TokenOf, NEW c \in TokenOf, NEW p \in
         TokenOf, NEW q \in TokenOf, NEW r \in TokenOf, NEW s \in TokenOf
  PROVE  <<a, b, c>> \o <<p, q, r, s>> = <<a, b, c, p, q, r, s>>
<1> DEFINE j == <<a, b, c>> \o <<p, q, r, s>>
<1>1. <<a, b, c>> \in Seq(TokenOf) /\ <<p, q, r, s>> \in Seq(TokenOf)
  OBVIOUS
<1>2. /\ j \in Seq(TokenOf) /\ Len(j) = 7
      /\ j[1] = a /\ j[2] = b /\ j[3] = c /\ j[4] = p /\ j[5] = q /\ j[6] = r /\ j[7] = s
  BY <1>1
<1> HIDE DEF j
<1>3. j = <<a, b, c, p, q, r, s>>
  BY <1>2
<1> QED  BY <1>3 DEF j

LEMMA Join33 ==
  ASSUME NEW a \in TokenOf, NEW b \in TokenOf, NEW c \in TokenOf, NEW p \in
         TokenOf, NEW q \in TokenOf, NEW r \in TokenOf
  PROVE  <<a, b, c>> \o <<p, q, r>> = <<a, b, c, p, q, r>>
<1> DEFINE j == <<a, b, c>> \o <<p, q, r>>
<1>1. <<a, b, c>> \in Seq(TokenOf) /\ <<p, q, r>> \in Seq(TokenOf)
  OBVIOUS
<1>2. /\ j \in Seq(TokenOf) /\ Len(j) = 6
      /\ j[1] = a /\ j[2] = b /\ j[3] = c /\ j[4] = p /\ j[5] = q /\ j[6] = r
  BY <1>1
<1> HIDE DEF j
<1>3. j = <<a, b, c, p, q, r>>
  BY <1>2
<1> QED  BY <1>3 DEF j

LEMMA Join61 ==
  ASSUME NEW a \in TokenOf, NEW b \in TokenOf, NEW c \in TokenOf, NEW d \in
         TokenOf, NEW e \in TokenOf, NEW f \in TokenOf, NEW p \in TokenOf
  PROVE  <<a, b, c, d, e, f>> \o <<p>> = <<a, b, c, d, e, f, p>>
<1> DEFINE j == <<a, b, c, d, e, f>> \o <<p>>
<1>1. <<a, b, c, d, e, f>> \in Seq(TokenOf) /\ <<p>> \in Seq(TokenOf)
  OBVIOUS
<1>2. /\ j \in Seq(TokenOf) /\ Len(j) = 7
      /\ j[1] = a /\ j[2] = b /\ j[3] = c /\ j[4] = d /\ j[5] = e /\ j[6] = f /\ j[7] = p
  BY <1>1
<1> HIDE DEF j
<1>3. j = <<a, b, c, d, e, f, p>>
  BY <1>2
<1> QED  BY <1>3 DEF j

LEMMA Tail3 ==
  ASSUME NEW a \in TokenOf, NEW b \in TokenOf, NEW c \in TokenOf,
         NEW value \in Seq(TokenOf), Len(value) \in 1 .. 2
  PROVE  /\ <<a, b, c>> \o value \in Seq(TokenOf) /\ Len(<<a, b, c>> \o value) = 3 + Len(value)
         /\ (<<a, b, c>> \o value)[1] = a
         /\ (<<a, b, c>> \o value)[2] = b
         /\ (<<a, b, c>> \o value)[3] = c
         /\ (<<a, b, c>> \o value)[4] = value[1]
         /\ Len(value) = 2 => (<<a, b, c>> \o value)[5] = value[2]
<1>1. <<a, b, c>> \in Seq(TokenOf) /\ Len(<<a, b, c>>) = 3
  OBVIOUS
<1> QED  BY <1>1

LEMMA Tail4 ==
  ASSUME NEW a \in TokenOf, NEW b \in TokenOf, NEW c \in TokenOf, NEW d \in TokenOf,
         NEW value \in Seq(TokenOf), Len(value) \in 1 .. 2
  PROVE  /\ <<a, b, c, d>> \o value \in Seq(TokenOf) /\ Len(<<a, b, c, d>> \o value) = 4 + Len(value)
         /\ (<<a, b, c, d>> \o value)[1] = a
         /\ (<<a, b, c, d>> \o value)[2] = b
         /\ (<<a, b, c, d>> \o value)[3] = c
         /\ (<<a, b, c, d>> \o value)[4] = d
         /\ (<<a, b, c, d>> \o value)[5] = value[1]
         /\ Len(value) = 2 => (<<a, b, c, d>> \o value)[6] = value[2]
<1>1. <<a, b, c, d>> \in Seq(TokenOf) /\ Len(<<a, b, c, d>>) = 4
  OBVIOUS
<1> QED  BY <1>1

LEMMA ValueForms ==
  ASSUME NEW value \in Values
  PROVE  /\ value \in Seq(TokenOf)
         /\ \/ Len(value) = 1 /\ value[1].kind \in {"word", "literal", "number"}
            \/ Len(value) = 2 /\ value[1] = Punctuation /\ value[2] = Number("1")
<1>1. CASE value = <<Punctuation, Number("1")>>
  <2>1. Number("1") \in TokenOf /\ Punctuation \in TokenOf
    BY Typed DEF Lexicon
  <2> QED  BY <1>1, <2>1
<1>2. ASSUME NEW t \in {Word("on"), Word("off"), Literal("off"), Number("0"), Literal(NoText), Word("default")},
             value = <<t>>
      PROVE  /\ value \in Seq(TokenOf)
             /\ Len(value) = 1 /\ value[1].kind \in {"word", "literal", "number"}
  <2>1. t \in TokenOf
    BY <1>2, Typed DEF Lexicon
  <2>2. t.kind \in {"word", "literal", "number"}
    BY <1>2 DEF Word, Literal, Number
  <2> QED  BY <1>2, <2>1, <2>2
<1> QED  BY <1>1, <1>2 DEF Values

\* The tokens of an assignment to n from the i-th on.
Assigns(ts, i, n, e, value) ==
  /\ ts \in Seq(TokenOf) /\ Len(ts) = i + 1 + Len(value)
  /\ ts[1] = Word("set") /\ ts[i] = n /\ ts[i + 1] = e /\ ts[i + 2] = value[1]
  /\ Len(value) = 2 => ts[i + 3] = value[2]

LEMMA SetTokens ==
  ASSUME NEW n \in TokenOf, NEW e \in TokenOf, NEW value \in Values,
         NEW scope \in {<<>>, Words("session"), Words("local")},
         NEW ts, ts = Words("set") \o scope \o <<n>> \o <<e>> \o value
  PROVE  \/ scope = <<>> /\ Assigns(ts, 2, n, e, value)
         \/ \E w \in {"session", "local"} :
              scope = Words(w) /\ ts[2] = Word(w) /\ Assigns(ts, 3, n, e, value)
<1> DEFINE words == Words("set") \o scope \o <<n>> \o <<e>>
<1>1. value \in Seq(TokenOf) /\ Len(value) \in 1 .. 2
  BY ValueForms
<1>2. Word("set") \in TokenOf
  BY Typed DEF Lexicon
<1>3. CASE scope = <<>>
  <2>1. words = <<Word("set"), n, e>>
    <3>1. Words("set") \o scope = <<Word("set")>>
      BY <1>2, <1>3 DEF Words
    <3>2. <<Word("set")>> \o <<n>> = <<Word("set"), n>>
      BY <1>2, Join11
    <3>3. <<Word("set"), n>> \o <<e>> = <<Word("set"), n, e>>
      BY <1>2, Join21
    <3> QED  BY <3>1, <3>2, <3>3, Zenon
  <2>3. ts = <<Word("set"), n, e>> \o value
    BY <2>1
  <2>4. /\ ts \in Seq(TokenOf) /\ Len(ts) = 3 + Len(value)
        /\ ts[1] = Word("set") /\ ts[2] = n /\ ts[3] = e /\ ts[4] = value[1]
        /\ Len(value) = 2 => ts[5] = value[2]
    <3>1. /\ (<<Word("set"), n, e>> \o value) \in Seq(TokenOf)
          /\ Len(<<Word("set"), n, e>> \o value) = 3 + Len(value)
          /\ (<<Word("set"), n, e>> \o value)[1] = Word("set")
          /\ (<<Word("set"), n, e>> \o value)[2] = n
          /\ (<<Word("set"), n, e>> \o value)[3] = e
          /\ (<<Word("set"), n, e>> \o value)[4] = value[1]
          /\ Len(value) = 2 => (<<Word("set"), n, e>> \o value)[5] = value[2]
      BY <1>1, <1>2, Tail3
    <3> QED  BY <2>3, <3>1, Zenon
  <2>5. Assigns(ts, 2, n, e, value)
    <3>1. 2 + 1 + Len(value) = 3 + Len(value) /\ 2 + 1 = 3 /\ 2 + 2 = 4 /\ 2 + 3 = 5
      BY <1>1
    <3> QED  BY <2>4, <3>1, Zenon DEF Assigns
  <2> QED  BY <1>3, <2>5
<1>4. ASSUME NEW w \in {"session", "local"}, scope = Words(w)
      PROVE  ts[2] = Word(w) /\ Assigns(ts, 3, n, e, value)
  <2>1. Word(w) \in TokenOf
    BY Typed DEF Lexicon
  <2>2. words = <<Word("set"), Word(w), n, e>>
    <3>1. Words("set") \o scope = <<Word("set"), Word(w)>>
      BY <1>2, <1>4, <2>1, Join11 DEF Words
    <3>2. <<Word("set"), Word(w)>> \o <<n>> = <<Word("set"), Word(w), n>>
      BY <1>2, <2>1, Join21
    <3>3. <<Word("set"), Word(w), n>> \o <<e>> = <<Word("set"), Word(w), n, e>>
      BY <1>2, <2>1, Join31
    <3> QED  BY <3>1, <3>2, <3>3, Zenon
  <2>5. ts = <<Word("set"), Word(w), n, e>> \o value
    BY <2>2
  <2>6. /\ ts \in Seq(TokenOf) /\ Len(ts) = 4 + Len(value)
        /\ ts[1] = Word("set") /\ ts[2] = Word(w) /\ ts[3] = n /\ ts[4] = e /\ ts[5] = value[1]
        /\ Len(value) = 2 => ts[6] = value[2]
    <3>1. /\ (<<Word("set"), Word(w), n, e>> \o value) \in Seq(TokenOf)
          /\ Len(<<Word("set"), Word(w), n, e>> \o value) = 4 + Len(value)
          /\ (<<Word("set"), Word(w), n, e>> \o value)[1] = Word("set")
          /\ (<<Word("set"), Word(w), n, e>> \o value)[2] = Word(w)
          /\ (<<Word("set"), Word(w), n, e>> \o value)[3] = n
          /\ (<<Word("set"), Word(w), n, e>> \o value)[4] = e
          /\ (<<Word("set"), Word(w), n, e>> \o value)[5] = value[1]
          /\ Len(value) = 2 => (<<Word("set"), Word(w), n, e>> \o value)[6] = value[2]
      BY <1>1, <1>2, <2>1, Tail4
    <3> QED  BY <2>5, <3>1, Zenon
  <2>7. Assigns(ts, 3, n, e, value)
    <3>1. 3 + 1 + Len(value) = 4 + Len(value) /\ 3 + 1 = 4 /\ 3 + 2 = 5 /\ 3 + 3 = 6
      BY <1>1
    <3> QED  BY <2>6, <3>1, Zenon DEF Assigns
  <2> QED  BY <2>6, <2>7
<1> QED  BY <1>3, <1>4

-----------------------------------------------------------------------------
(* What the parser makes of each form of a statement *)

\* What the value of an assignment says.
Said(value) == IF Len(value) = 1 THEN value[1] ELSE value[2]

Names(v) == {Word(v), QuotedIdent(v)}
Equals == {Word("to"), Punctuation}

LEMMA AssignmentParsed ==
  ASSUME NEW v, NEW n \in Names(v), NEW e \in Equals, NEW value \in Values,
         NEW i \in 2 .. 3, NEW ts, Assigns(ts, i, n, e, value), NEW kind
  PROVE  Assignment(ts, i, kind) = Statement(kind, v, Said(value))
<1>1. /\ Peek(ts, i) = n /\ Peek(ts, i + 1) = e /\ Peek(ts, i + 2) = value[1]
      /\ Len(value) = 2 => Peek(ts, i + 3) = value[2]
  BY ValueForms DEF Assigns, Peek
<1>2. IsIdentifier(n) /\ n.text = v
  BY DEF Names, IsIdentifier, Word, QuotedIdent
<1>3. SetValue(ts, i + 2) = Said(value) /\ Said(value) # NoToken
  <2>1. CASE Len(value) = 1
    <3>1. value[1].kind \in {"word", "literal", "number"}
      BY <2>1, ValueForms
    <3>2. SetValue(ts, i + 2) = value[1]
      BY <1>1, <3>1 DEF SetValue, Punctuation, Symbol
    <3>3. Said(value) = value[1]
      BY <2>1 DEF Said
    <3>4. NoToken.kind = "none"
      BY DEF NoToken, Symbol
    <3> QED  BY <3>1, <3>2, <3>3, <3>4
  <2>2. CASE Len(value) = 2
    <3>1. value[1] = Punctuation /\ value[2] = Number("1")
      BY <2>2, ValueForms
    <3>2. SetValue(ts, i + 2) = ts[i + 3]
      BY <1>1, <2>2, <3>1 DEF SetValue, Punctuation, Symbol, Number
    <3> QED  BY <1>1, <2>2, <3>1, <3>2 DEF Said, NoToken, Symbol, Number, Assigns
  <2> QED  BY <2>1, <2>2, ValueForms
<1>4. ts[i] = n
  BY DEF Assigns
<1> QED  BY <1>1, <1>2, <1>3, <1>4 DEF Assignment, Equals

LEMMA PeekIs ==
  ASSUME NEW ts, NEW i \in 1 .. Len(ts)
  PROVE  Peek(ts, i) = ts[i]
BY DEF Peek

DmlWords == {"select", "table", "values", "insert", "update", "delete", "truncate"}

\* The first word tells which parser is asked.
LEMMA ParseBranch ==
  ASSUME NEW ts, NEW w, Peek(ts, 1) = Word(w), ts[1] = Word(w)
  PROVE  /\ w = "listen" => Parse(ts) = ParseListen(ts)
         /\ w = "unlisten" => Parse(ts) = ParseUnlisten(ts)
         /\ w = "set" => Parse(ts) = ParseSet(ts)
         /\ w = "reset" => Parse(ts) = ParseReset(ts)
         /\ w = "discard" => Parse(ts) = ParseDiscard(ts)
         /\ w = "deallocate" => Parse(ts) = ParseDeallocate(ts)
         /\ w \in {"begin", "start"} => Parse(ts) = ParseBegin(ts)
         /\ w \in {"commit", "end"} => Parse(ts) = Bare("commit")
         /\ w \in {"rollback", "abort"} => Parse(ts) = Bare("rollback")
         /\ w \in DmlWords => Parse(ts) = Bare(Dml[w])
         /\ w = "copy" => Parse(ts) = Bare("copy")
         /\ w = "with" => Parse(ts) = ParseWith(ts)
         /\ w = "create" => Parse(ts) = Other
<1>1. Peek(ts, 1).kind = "word" /\ ts[1].text = w
  BY DEF Word
<1>2. DOMAIN Dml = DmlWords
  BY DEF Dml, DmlWords
<1> DEFINE P == CASE w = "listen" -> ParseListen(ts)
                  [] w = "unlisten" -> ParseUnlisten(ts)
                  [] w = "set" -> ParseSet(ts)
                  [] w = "reset" -> ParseReset(ts)
                  [] w = "discard" -> ParseDiscard(ts)
                  [] w = "deallocate" -> ParseDeallocate(ts)
                  [] w \in {"begin", "start"} -> ParseBegin(ts)
                  [] w \in {"commit", "end"} -> Bare("commit")
                  [] w \in {"rollback", "abort"} -> Bare("rollback")
                  [] w \in DmlWords -> Bare(Dml[w])
                  [] w = "copy" -> Bare("copy")
                  [] w = "with" -> ParseWith(ts)
                  [] OTHER -> Other
<1>3. Parse(ts) = P
  BY <1>1, <1>2, Zenon DEF Parse
<1> QED  BY <1>3 DEF DmlWords

\* A name that is no keyword of SET is taken for the name it is.
LEMMA SetParsed ==
  ASSUME NEW v \in Vars, NEW n \in Names(v), NEW e \in Equals, NEW value \in Values, NEW ts
  PROVE  /\ Assigns(ts, 2, n, e, value) => Parse(ts) = Statement("set", v, Said(value))
         /\ Assigns(ts, 3, n, e, value) =>
              /\ ts[2] = Word("session") => Parse(ts) = Statement("set", v, Said(value))
              /\ ts[2] = Word("local") => Parse(ts) = Statement("set local", v, Said(value))
<1>1. v \notin {"local", "session", "transaction", "characteristics", "all"}
  BY SettingsAssumption DEF Vars, ReadOnlyDefault
<1>2. n \notin {Word(w) : w \in {"local", "session", "transaction", "characteristics"}}
  BY <1>1 DEF Names, Word, QuotedIdent
<1>3. Len(value) \in 1 .. 2
  BY ValueForms
<1>4. ASSUME Assigns(ts, 2, n, e, value)  PROVE Parse(ts) = Statement("set", v, Said(value))
  <2>1. ts[1] = Word("set") /\ ts[2] = n /\ Len(ts) = 3 + Len(value)
    BY <1>3, <1>4 DEF Assigns
  <2>2. Peek(ts, 1) = Word("set") /\ Peek(ts, 2) = n
    BY <1>3, <2>1, PeekIs
  <2>3. ParseSet(ts) = Assignment(ts, 2, "set")
    BY <1>2, <2>2 DEF ParseSet
  <2>4. Assignment(ts, 2, "set") = Statement("set", v, Said(value))
    BY <1>4, AssignmentParsed
  <2> QED  BY <2>1, <2>2, <2>3, <2>4, ParseBranch
<1>5. ASSUME NEW w \in {"session", "local"}, ts[2] = Word(w), Assigns(ts, 3, n, e, value)
      PROVE  Parse(ts) = Statement(IF w = "local" THEN "set local" ELSE "set", v, Said(value))
  <2>1. ts[1] = Word("set") /\ ts[3] = n /\ Len(ts) = 4 + Len(value)
    BY <1>3, <1>5 DEF Assigns
  <2>2. Peek(ts, 1) = Word("set") /\ Peek(ts, 2) = Word(w) /\ Peek(ts, 3) = n
    BY <1>3, <1>5, <2>1, PeekIs
  <2>3. ParseSet(ts) = Assignment(ts, 3, IF w = "local" THEN "set local" ELSE "set")
    <3>1. n # Word("characteristics")
      BY <1>2
    <3>2. Word("local") # Word("session") /\ Word("transaction") \notin {Word("local"), Word("session")}
      BY DEF Word
    <3>3. CASE w = "local"
      BY <2>2, <3>2, <3>3 DEF ParseSet
    <3>4. CASE w = "session"
      BY <2>2, <3>1, <3>2, <3>4 DEF ParseSet
    <3> QED  BY <3>3, <3>4
  <2>4. \A kind : Assignment(ts, 3, kind) = Statement(kind, v, Said(value))
    BY <1>5, AssignmentParsed
  <2> QED  BY <2>1, <2>2, <2>3, <2>4, ParseBranch
<1> QED  BY <1>4, <1>5

-----------------------------------------------------------------------------
(* Transaction modes *)

Mode(access) == IF access = "neither" THEN NoToken ELSE Word(access)
Modal == {Word("only"), Word("write")}

\* Where the tokens of ts say that a transaction only reads, or writes.
SaysOnceAt(ts, p, access) ==
  /\ p \in 2 .. Len(ts) /\ ts[p - 1] = Word("read") /\ ts[p] = Word(access)
  /\ \A j \in 1 .. Len(ts) : j # p => ts[j] \notin Modal

Says(ts, access) ==
  /\ ts \in Seq(TokenOf)
  /\ access = "neither" => \A j \in 1 .. Len(ts) : ts[j] \notin Modal
  /\ access \in Access => \E p \in 2 .. Len(ts) : SaysOnceAt(ts, p, access)

LEMMA OneMode ==
  ASSUME NEW ts, Len(ts) \in Nat, NEW i \in Nat, NEW access \in Access,
         NEW p \in i + 1 .. Len(ts), ts[p - 1] = Word("read"), ts[p] = Word(access),
         \A j \in i + 1 .. Len(ts) : j # p => ts[j] \notin Modal
  PROVE  TransactionOptions(ts, i) = Word(access)
<1> DEFINE modes == {j \in i + 1 .. Len(ts) :
                       ts[j - 1] = Word("read") /\ ts[j] \in {Word("only"), Word("write")}}
<1>1. modes = {p}
  BY DEF Modal, Access
<1>2. Max({p}) = p
  BY DEF Max
<1>3. modes # {} /\ Max(modes) = p
  BY <1>1, <1>2
<1>4. TransactionOptions(ts, i) = IF modes = {} THEN NoToken ELSE ts[Max(modes)]
  BY Zenon DEF TransactionOptions
<1> QED  BY <1>3, <1>4, Zenon

LEMMA NoMode ==
  ASSUME NEW ts, NEW i, \A j \in i + 1 .. Len(ts) : ts[j] \notin Modal
  PROVE  TransactionOptions(ts, i) = NoToken
BY DEF TransactionOptions, Modal

\* Whatever words they come after.
LEMMA ModesAfter ==
  ASSUME NEW head \in Seq(TokenOf), Len(head) \in 1 .. 2, NEW modes,
         NEW access \in Access \cup {"neither"}, Says(modes, access),
         NEW i \in 2 .. Len(head) + 1
  PROVE  TransactionOptions(head \o modes, i) = Mode(access)
<1> DEFINE ts == head \o modes
<1>1. modes \in Seq(TokenOf) /\ Len(modes) \in Nat
  BY DEF Says
<1>2. /\ Len(ts) = Len(head) + Len(modes)
      /\ \A j \in 1 .. Len(modes) : ts[Len(head) + j] = modes[j]
  BY <1>1
<1> HIDE DEF ts
<1>3. \A j \in i + 1 .. Len(ts) : j - Len(head) \in 1 .. Len(modes) /\ ts[j] = modes[j - Len(head)]
  <2> TAKE j \in i + 1 .. Len(ts)
  <2> DEFINE k == j - Len(head)
  <2>1. k \in 1 .. Len(modes) /\ j = Len(head) + k
    <3>1. Len(head) \in 1 .. 2 /\ Len(modes) \in Nat /\ i \in Int /\ i >= 2
      BY <1>1
    <3>2. Len(ts) = Len(head) + Len(modes)
      BY <1>2
    <3>3. \A a \in 1 .. 2, b \in Nat, c \in Int : \A d \in c + 1 .. a + b :
             c >= 2 => d - a \in 1 .. b /\ d = a + (d - a)
      OBVIOUS
    <3>4. j \in i + 1 .. Len(head) + Len(modes)
      BY <3>2, Zenon
    <3> QED  BY <3>1, <3>3, <3>4, Zenon
  <2> HIDE DEF k
  <2>2. ts[j] = modes[k]
    BY <1>2, <2>1
  <2> QED  BY <2>1, <2>2 DEF k
<1>4. CASE access = "neither"
  <2>1. \A j \in i + 1 .. Len(ts) : ts[j] \notin Modal
    BY <1>3, <1>4 DEF Says
  <2> QED  BY <1>4, <2>1, NoMode DEF Mode, ts
<1>5. CASE access \in Access
  <2>1. PICK p \in 2 .. Len(modes) : SaysOnceAt(modes, p, access)
    BY <1>5 DEF Says
  <2>2. Len(head) + p \in i + 1 .. Len(ts) /\ Len(ts) \in Nat /\ i \in Nat
    BY <1>1, <1>2
  <2>3. ts[Len(head) + p] = Word(access)
    BY <1>2, <2>1 DEF SaysOnceAt
  <2>4. ts[Len(head) + p - 1] = Word("read")
    <3>1. p - 1 \in 1 .. Len(modes) /\ Len(head) + p - 1 = Len(head) + (p - 1)
      BY <1>1
    <3> QED  BY <1>2, <2>1, <3>1 DEF SaysOnceAt
  <2>5. \A j \in i + 1 .. Len(ts) : j # Len(head) + p => ts[j] \notin Modal
    <3>1. \A j \in i + 1 .. Len(ts) : j # Len(head) + p => j - Len(head) # p
      BY <1>1, <1>2
    <3> QED  BY <1>3, <2>1, <3>1 DEF SaysOnceAt
  <2>6. TransactionOptions(ts, i) = Word(access)
    BY <1>5, <2>2, <2>3, <2>4, <2>5, OneMode
  <2>7. access # "neither"
    BY <1>5 DEF Access
  <2> QED  BY <2>6, <2>7 DEF Mode, ts
<1> QED  BY <1>4, <1>5

\* The grammar's transaction modes say it once, or not at all.
LEMMA ModesSay ==
  ASSUME NEW access \in Access \cup {"neither"}, NEW modes \in ModesSaying(access)
  PROVE  Says(modes, access)
<1> DEFINE said == <<Word("read"), Word(access)>>
<1>1. /\ Word("isolation") \in TokenOf /\ Word("level") \in TokenOf /\ Word("read") \in TokenOf
      /\ Word("committed") \in TokenOf /\ Word("only") \in TokenOf /\ Word("write") \in TokenOf
      /\ Punctuation \in TokenOf
  BY Typed DEF Lexicon
<1>2. /\ Isolation \in Seq(TokenOf) /\ Len(Isolation) = 4 /\ \A j \in 1 .. 4 : Isolation[j] \notin Modal
      /\ Isolation[3] = Word("read")
  BY <1>1 DEF Isolation, Modal, Word
<1>3. Word("read") \notin Modal /\ Punctuation \notin Modal
  BY DEF Modal, Word, Punctuation, Symbol
<1>4. CASE access = "neither"
  <2>1. modes \in {<<>>, Isolation}
    BY <1>4 DEF ModesSaying
  <2>2. modes \in Seq(TokenOf) /\ \A j \in 1 .. Len(modes) : modes[j] \notin Modal
    <3>1. CASE modes = <<>>
      BY <3>1
    <3>2. CASE modes = Isolation
      BY <1>2, <3>2
    <3> QED  BY <2>1, <3>1, <3>2
  <2>3. access \notin Access
    BY <1>4 DEF Access
  <2> QED  BY <2>2, <2>3 DEF Says
<1>5. CASE access \in Access
  <2>1. modes \in {said, Isolation \o said, said \o <<Punctuation>> \o Isolation}
    BY <1>5 DEF ModesSaying, Access
  <2>2. Word(access) \in TokenOf
    BY <1>1, <1>5 DEF Access
  <2>3. CASE modes = said
    <3>1. modes \in Seq(TokenOf) /\ SaysOnceAt(modes, 2, access)
      BY <1>1, <1>3, <2>2, <2>3 DEF SaysOnceAt
    <3>2. 2 \in 2 .. Len(modes)
      BY <2>3
    <3> QED  BY <1>5, <3>1, <3>2 DEF Says, Access
  <2>4. CASE modes = Isolation \o said
    <3>1. modes = <<Word("isolation"), Word("level"), Word("read"), Word("committed"),
                    Word("read"), Word(access)>>
      <4>1. <<Word("isolation"), Word("level"), Word("read"), Word("committed")>> \o said
              = <<Word("isolation"), Word("level"), Word("read"), Word("committed"),
                  Word("read"), Word(access)>>
        BY <1>1, <2>2, Join42
      <4> QED  BY <2>4, <4>1, Zenon DEF Isolation
    <3>2. Word("isolation") \notin Modal /\ Word("level") \notin Modal /\ Word("committed") \notin Modal
      BY DEF Modal, Word
    <3>3. modes \in Seq(TokenOf) /\ SaysOnceAt(modes, 6, access) /\ 6 \in 2 .. Len(modes)
      BY <1>1, <1>3, <2>2, <3>1, <3>2 DEF SaysOnceAt
    <3> QED  BY <1>5, <3>3 DEF Says, Access
  <2>5. CASE modes = said \o <<Punctuation>> \o Isolation
    <3>1. modes = <<Word("read"), Word(access), Punctuation, Word("isolation"), Word("level"),
                    Word("read"), Word("committed")>>
      <4>1. said \o <<Punctuation>> = <<Word("read"), Word(access), Punctuation>>
        BY <1>1, <2>2, Join21
      <4>2. modes = <<Word("read"), Word(access), Punctuation>> \o Isolation
        BY <2>5, <4>1, Zenon
      <4>3. <<Word("read"), Word(access), Punctuation>>
              \o <<Word("isolation"), Word("level"), Word("read"), Word("committed")>>
              = <<Word("read"), Word(access), Punctuation, Word("isolation"), Word("level"),
                  Word("read"), Word("committed")>>
        BY <1>1, <2>2, Join34
      <4> QED  BY <4>2, <4>3, Zenon DEF Isolation
    <3>2. Word("isolation") \notin Modal /\ Word("level") \notin Modal /\ Word("committed") \notin Modal
      BY DEF Modal, Word
    <3>3. modes \in Seq(TokenOf) /\ SaysOnceAt(modes, 2, access) /\ 2 \in 2 .. Len(modes)
      BY <1>1, <1>3, <2>2, <3>1, <3>2 DEF SaysOnceAt
    <3> QED  BY <1>5, <3>3 DEF Says, Access
  <2> QED  BY <2>1, <2>3, <2>4, <2>5
<1> QED  BY <1>4, <1>5

Heads == {Words("begin"), Words("begin") \o Words("work"), Words("start") \o Words("transaction")}

LEMMA HeadForms ==
  ASSUME NEW head \in Heads
  PROVE  /\ head \in Seq(TokenOf) /\ Len(head) \in 1 .. 2
         /\ \/ head[1] = Word("begin")
            \/ Len(head) = 2 /\ head[1] = Word("start") /\ head[2] = Word("transaction")
<1>1. /\ Word("begin") \in TokenOf /\ Word("work") \in TokenOf
      /\ Word("start") \in TokenOf /\ Word("transaction") \in TokenOf
  BY Typed DEF Lexicon
<1>2. CASE head = Words("begin")
  BY <1>1, <1>2 DEF Words
<1>3. CASE head = Words("begin") \o Words("work")
  <2>1. head = <<Word("begin"), Word("work")>>
    BY <1>1, <1>3, Join11 DEF Words
  <2> QED  BY <1>1, <2>1
<1>4. CASE head = Words("start") \o Words("transaction")
  <2>1. head = <<Word("start"), Word("transaction")>>
    BY <1>1, <1>4, Join11 DEF Words
  <2> QED  BY <1>1, <2>1
<1> QED  BY <1>2, <1>3, <1>4 DEF Heads

\* The words that modes follow are the first of the statement.
LEMMA HeadFirst ==
  ASSUME NEW head \in Seq(TokenOf), Len(head) \in 1 .. 2, NEW modes \in Seq(TokenOf)
  PROVE  /\ (head \o modes)[1] = head[1] /\ Peek(head \o modes, 1) = head[1]
         /\ Len(head) = 2 => Peek(head \o modes, 2) = head[2]
<1>1. Len(head \o modes) = Len(head) + Len(modes) /\ Len(modes) \in Nat
  OBVIOUS
<1>2. (head \o modes)[1] = head[1] /\ (Len(head) = 2 => (head \o modes)[2] = head[2])
  OBVIOUS
<1> QED  BY <1>1, <1>2 DEF Peek

LEMMA BeginParsed ==
  ASSUME NEW head \in Heads, NEW access \in Access \cup {"neither"}, NEW modes \in ModesSaying(access)
  PROVE  Parse(head \o modes) = Statement("begin", NoText, Mode(access))
<1>1. Says(modes, access) /\ modes \in Seq(TokenOf)
  BY ModesSay DEF Says
<1>2. head \in Seq(TokenOf) /\ Len(head) \in 1 .. 2
  BY HeadForms
<1>3. TransactionOptions(head \o modes, 2) = Mode(access)
  <2>1. 2 \in 2 .. Len(head) + 1 /\ Len(head) \in 1 .. 2
    BY <1>2
  <2> QED  BY <1>1, <1>2, <2>1, ModesAfter
<1>4. /\ (head \o modes)[1] = head[1] /\ Peek(head \o modes, 1) = head[1]
      /\ Len(head) = 2 => Peek(head \o modes, 2) = head[2]
  BY <1>1, <1>2, HeadFirst
<1>5. ParseBegin(head \o modes) = Statement("begin", NoText, Mode(access))
  <2>1. Word("begin") # Word("start")
    BY DEF Word
  <2> QED  BY <1>3, <1>4, <2>1, HeadForms DEF ParseBegin
<1>6. Parse(head \o modes) = ParseBegin(head \o modes)
  <2>1. PICK w \in {"begin", "start"} : head[1] = Word(w)
    BY HeadForms
  <2> QED  BY <1>4, <2>1, ParseBranch
<1> QED  BY <1>5, <1>6

LEMMA SetTransactionParsed ==
  ASSUME NEW access \in Access \cup {"neither"}, NEW modes \in ModesSaying(access)
  PROVE  Parse(<<Word("set"), Word("transaction")>> \o modes)
           = Statement("set transaction", NoText, Mode(access))
<1> DEFINE head == <<Word("set"), Word("transaction")>>
<1>1. Says(modes, access) /\ modes \in Seq(TokenOf)
  BY ModesSay DEF Says
<1>2. /\ head \in Seq(TokenOf) /\ Len(head) = 2
      /\ head[1] = Word("set") /\ head[2] = Word("transaction")
  BY Typed DEF Lexicon
<1> HIDE DEF head
<1>3. TransactionOptions(head \o modes, 3) = Mode(access)
  <2>1. 3 \in 2 .. Len(head) + 1 /\ Len(head) \in 1 .. 2
    BY <1>2
  <2> QED  BY <1>1, <1>2, <2>1, ModesAfter
<1>4. /\ (head \o modes)[1] = Word("set") /\ Peek(head \o modes, 1) = Word("set")
      /\ Peek(head \o modes, 2) = Word("transaction")
  BY <1>1, <1>2, HeadFirst
<1>5. ParseSet(head \o modes) = Statement("set transaction", NoText, Mode(access))
  <2>1. Word("transaction") \notin {Word("local"), Word("session")}
    BY DEF Word
  <2> QED  BY <1>3, <1>4, <2>1 DEF ParseSet
<1>6. Parse(head \o modes) = ParseSet(head \o modes)
  BY <1>4, ParseBranch
<1> QED  BY <1>5, <1>6 DEF head

CharacteristicsTokens(access) ==
  <<Word("set"), Word("session"), Word("characteristics"), Word("as"), Word("transaction"),
    Word("read"), Word(access)>>

LEMMA CharacteristicsParsed ==
  ASSUME NEW access \in Access
  PROVE  Parse(CharacteristicsTokens(access)) = Statement("set transaction", NoText, Word(access))
<1> DEFINE ts == CharacteristicsTokens(access)
<1>1. /\ Len(ts) = 7 /\ ts[6] = Word("read") /\ ts[7] = Word(access)
      /\ ts[1] = Word("set") /\ Peek(ts, 1) = Word("set") /\ Peek(ts, 2) = Word("session")
      /\ Peek(ts, 3) = Word("characteristics") /\ Peek(ts, 4) = Word("as")
      /\ Peek(ts, 5) = Word("transaction")
  BY DEF CharacteristicsTokens, Peek
<1> HIDE DEF ts
<1>2. TransactionOptions(ts, 6) = Word(access)
  <2>1. Len(ts) \in Nat /\ 6 \in Nat /\ 7 \in 6 + 1 .. Len(ts) /\ ts[7 - 1] = Word("read")
    BY <1>1
  <2>2. \A j \in 6 + 1 .. Len(ts) : j # 7 => ts[j] \notin Modal
    BY <1>1
  <2> QED  BY <1>1, <2>1, <2>2, OneMode
<1>3. ParseSet(ts) = Statement("set transaction", NoText, Word(access))
  <2>1. Word("session") \notin {Word("local"), Word("transaction")}
    BY DEF Word
  <2> QED  BY <1>1, <1>2, <2>1 DEF ParseSet
<1> QED  BY <1>1, <1>3, ParseBranch DEF ts

LEMMA ResetParsed ==
  /\ Parse(Words("reset") \o Words("all")) = Bare("reset all")
  /\ \A v \in Vars : \A n \in Names(v) : Parse(Words("reset") \o <<n>>) = Named("reset", v)
<1>1. Word("reset") \in TokenOf /\ Word("all") \in TokenOf
  BY Typed DEF Lexicon
<1>2. \A n \in TokenOf : LET ts == Words("reset") \o <<n>> IN
        Parse(ts) = ParseReset(ts) /\ Peek(ts, 2) = n
  <2> SUFFICES ASSUME NEW n \in TokenOf
               PROVE  LET ts == <<Word("reset"), n>> IN Parse(ts) = ParseReset(ts) /\ Peek(ts, 2) = n
    BY <1>1, Join11 DEF Words
  <2> DEFINE ts == <<Word("reset"), n>>
  <2>1. Peek(ts, 1) = Word("reset") /\ ts[1] = Word("reset") /\ Peek(ts, 2) = n
    BY DEF Peek
  <2> HIDE DEF ts
  <2>2. Parse(ts) = ParseReset(ts)
    BY <2>1, ParseBranch
  <2> QED  BY <2>1, <2>2 DEF ts
<1>3. Parse(Words("reset") \o Words("all")) = Bare("reset all")
  <2>1. LET ts == Words("reset") \o Words("all") IN Parse(ts) = ParseReset(ts) /\ Peek(ts, 2) = Word("all")
    BY <1>1, <1>2, Zenon DEF Words
  <2> QED  BY <2>1 DEF ParseReset
<1>4. ASSUME NEW v \in Vars, NEW n \in Names(v)
      PROVE  Parse(Words("reset") \o <<n>>) = Named("reset", v)
  <2>1. n \in TokenOf
    BY Typed DEF Names, Lexicon
  <2>2. n # Word("all") /\ IsIdentifier(n) /\ n.text = v
    <3>1. v # "all"
      BY SettingsAssumption DEF Vars, ReadOnlyDefault
    <3> QED  BY <3>1 DEF Names, Word, QuotedIdent, IsIdentifier
  <2>3. LET ts == Words("reset") \o <<n>> IN Parse(ts) = ParseReset(ts) /\ Peek(ts, 2) = n
    BY <1>2, <2>1
  <2> QED  BY <2>2, <2>3 DEF ParseReset
<1> QED  BY <1>3, <1>4

LEMMA TwoTokens ==
  ASSUME NEW w, Word(w) \in TokenOf, NEW n \in TokenOf
  PROVE  LET ts == Words(w) \o <<n>>
         IN  ts[1] = Word(w) /\ Peek(ts, 1) = Word(w) /\ ts[2] = n /\ Peek(ts, 2) = n
<1> DEFINE ts == <<Word(w), n>>
<1>1. Words(w) \o <<n>> = ts
  BY Join11 DEF Words
<1>2. ts[1] = Word(w) /\ Peek(ts, 1) = Word(w) /\ ts[2] = n /\ Peek(ts, 2) = n
  BY DEF Peek
<1> HIDE DEF ts
<1> QED  BY <1>1, <1>2, Zenon

LEMMA ThreeTokens ==
  ASSUME NEW w, Word(w) \in TokenOf, NEW x, Word(x) \in TokenOf, NEW n \in TokenOf
  PROVE  LET ts == Words(w) \o Words(x) \o <<n>>
         IN  /\ ts[1] = Word(w) /\ Peek(ts, 1) = Word(w)
             /\ Peek(ts, 2) = Word(x) /\ Peek(ts, 3) = n
<1> DEFINE ts == <<Word(w), Word(x), n>>
<1>1. Words(w) \o Words(x) \o <<n>> = ts
  <2>1. Words(w) \o Words(x) = <<Word(w), Word(x)>>
    BY Join11, Zenon DEF Words
  <2>2. <<Word(w), Word(x)>> \o <<n>> = ts
    BY Join21, Zenon
  <2> QED  BY <2>1, <2>2, Zenon
<1>2. ts[1] = Word(w) /\ Peek(ts, 1) = Word(w) /\ Peek(ts, 2) = Word(x) /\ Peek(ts, 3) = n
  BY DEF Peek
<1> HIDE DEF ts
<1> QED  BY <1>1, <1>2, Zenon

LEMMA OneWord ==
  ASSUME NEW w
  PROVE  Words(w)[1] = Word(w) /\ Peek(Words(w), 1) = Word(w)
BY DEF Words, Peek

\* A subquery's keyword is inside parentheses, and the statement's after them.
WithTokens(w) ==
  <<Word("with"), Word("a"), Word("as"), Symbol("("), Word("delete"), Symbol(")"), Word(w)>>

LEMMA WithIs ==
  ASSUME NEW w \in {"select", "update"}
  PROVE  Words("with") \o Words("a") \o Words("as") \o Body \o Words(w) = WithTokens(w)
<1>1. /\ Word("with") \in TokenOf /\ Word("a") \in TokenOf /\ Word("as") \in TokenOf
      /\ Word("delete") \in TokenOf /\ Word(w) \in TokenOf
      /\ Symbol("(") \in TokenOf /\ Symbol(")") \in TokenOf
  BY Typed DEF Lexicon
<1>2. Body = <<Symbol("("), Word("delete"), Symbol(")")>>
  <2>1. <<Symbol("(")>> \o Words("delete") = <<Symbol("("), Word("delete")>>
    BY <1>1, Join11, Zenon DEF Words
  <2>2. <<Symbol("("), Word("delete")>> \o <<Symbol(")")>> = <<Symbol("("), Word("delete"), Symbol(")")>>
    BY <1>1, Join21, Zenon
  <2> QED  BY <2>1, <2>2, Zenon DEF Body
<1>3. Words("with") \o Words("a") = <<Word("with"), Word("a")>>
  BY <1>1, Join11, Zenon DEF Words
<1>4. <<Word("with"), Word("a")>> \o Words("as") = <<Word("with"), Word("a"), Word("as")>>
  BY <1>1, Join21, Zenon DEF Words
<1>5. <<Word("with"), Word("a"), Word("as")>> \o <<Symbol("("), Word("delete"), Symbol(")")>>
        = <<Word("with"), Word("a"), Word("as"), Symbol("("), Word("delete"), Symbol(")")>>
  BY <1>1, Join33
<1>6. <<Word("with"), Word("a"), Word("as"), Symbol("("), Word("delete"), Symbol(")")>> \o Words(w)
        = WithTokens(w)
  <2>1. <<Word("with"), Word("a"), Word("as"), Symbol("("), Word("delete"), Symbol(")")>> \o <<Word(w)>>
          = <<Word("with"), Word("a"), Word("as"), Symbol("("), Word("delete"), Symbol(")"), Word(w)>>
    BY <1>1, Join61, SMTT(20)
  <2> QED  BY <2>1, Zenon DEF Words, WithTokens
<1> QED  BY <1>2, <1>3, <1>4, <1>5, <1>6, Zenon

LEMMA DepthUnrolled ==
  ASSUME NEW w \in {"select", "update"}
  PROVE  LET d == Depth(WithTokens(w))
         IN  d[1] = 0 /\ d[2] = 0 /\ d[3] = 0 /\ d[5] = 1 /\ d[7] = 0
<1> DEFINE ts == WithTokens(w)
           Next1(f, i) == IF i = 0 THEN 0
                          ELSE CASE ts[i] = Symbol("(") -> f[i - 1] + 1
                                 [] ts[i] = Symbol(")") /\ f[i - 1] > 0 -> f[i - 1] - 1
                                 [] OTHER -> f[i - 1]
           Step(f) == [i \in 0 .. Len(ts) |-> Next1(f, i)]
           g == [i \in 0 .. Len(ts) |-> IF i \in {4, 5} THEN 1 ELSE 0]
<1>1. /\ Len(ts) = 7
      /\ ts[4] = Symbol("(") /\ ts[6] = Symbol(")")
      /\ \A i \in {1, 2, 3, 5, 7} : ts[i] \notin {Symbol("("), Symbol(")")}
  BY DEF WithTokens, Symbol, Word
<1>2. Symbol("(") # Symbol(")")
  BY DEF Symbol
<1> DEFINE Counts(f) == f = Step(f)
<1>3. Depth(ts) = CHOOSE f : Counts(f)
  BY Zenon DEF Depth
<1> HIDE DEF ts
<1>4. Counts(g)
  <2>1. \A i \in 0 .. 7 : g[i] = Next1(g, i)
    BY <1>1, <1>2
  <2> QED  BY <1>1, <2>1
<1> HIDE DEF g
<1> DEFINE d == Depth(ts)
<1>5. Counts(d)
  <2> HIDE DEF Counts
  <2> QED  BY <1>3, <1>4, Zenon
<1> HIDE DEF d
<1>6. \A i \in 0 .. 7 : d[i] = Next1(d, i)
  BY <1>1, <1>5
<1>7. d[0] = 0 /\ d[1] = d[0] /\ d[2] = d[1] /\ d[3] = d[2]
  BY <1>1, <1>6
<1>8. d[4] = 1 /\ d[5] = d[4]
  BY <1>1, <1>6, <1>7
<1>9. d[6] = 0 /\ d[7] = d[6]
  BY <1>1, <1>2, <1>6, <1>8
<1> QED  BY <1>7, <1>8, <1>9 DEF d, ts

LEMMA WithParsed ==
  ASSUME NEW w \in {"select", "update"}
  PROVE  Parse(WithTokens(w)) = Bare(w)
<1> DEFINE ts == WithTokens(w)
           outside == {i \in DOMAIN ts : /\ ts[i].kind = "word" /\ ts[i].text \in DOMAIN Dml
                                          /\ Depth(ts)[i] = 0}
<1>1. DOMAIN Dml = DmlWords /\ Dml[w] = w
  BY DEF Dml, DmlWords
<1>2. /\ DOMAIN ts = 1 .. 7 /\ ts[7] = Word(w) /\ ts[1] = Word("with") /\ Peek(ts, 1) = Word("with")
      /\ \A i \in 1 .. 7 : ts[i].kind = "word" /\ ts[i].text \in DmlWords => i \in {5, 7}
  BY DEF WithTokens, Word, Symbol, DmlWords, Peek
<1>3. Depth(ts)[5] = 1 /\ Depth(ts)[7] = 0
  BY DepthUnrolled
<1> HIDE DEF ts
<1>4. outside = {7}
  BY <1>1, <1>2, <1>3 DEF Word, DmlWords
<1>5. Min({7}) = 7
  BY DEF Min
<1>6. ParseWith(ts) = IF outside = {} THEN Other ELSE Bare(Dml[ts[Min(outside)].text])
  BY Zenon DEF ParseWith
<1>7. ParseWith(ts) = Bare(w)
  <2>1. outside # {} /\ Min(outside) = 7
    BY <1>4, <1>5
  <2>2. ts[7].text = w
    BY <1>2 DEF Word
  <2> QED  BY <1>1, <1>6, <2>1, <2>2, Zenon
<1> QED  BY <1>2, <1>7, ParseBranch DEF ts

-----------------------------------------------------------------------------
(* The parser and the grammar *)

\* What the pooler relies on: that a statement is of the kind that it is, that a setting
\* it changes is the one named, that all are reset when it says so, and that it asks
\* for a transaction that writes only when the pooler sees that it does.
Understood(s) ==
  LET stmt == Parse(s.tokens)
  IN  /\ stmt.kind = s.kind
      /\ s.sets \subseteq Vars
      /\ s.kind = "set" => s.sets \subseteq {stmt.name}
      /\ s.kind # "set" => s.sets = {} \/ "characteristics" \in Forms
      /\ s.kind = "reset" => stmt.name \in s.resets
      /\ s.kind \in {"reset all", "discard all"} => s.resets = Vars
      /\ s.access = "write" => Overrides(stmt) \/ "discard" \in Forms
      /\ s.kind = "begin" /\ stmt.value = Word("only") => s.access # "write"

LEMMA AssignmentsUnderstood ==
  ASSUME NEW s \in Assignments
  PROVE  Understood(s)
<1>0. PICK v \in Vars : s \in AssignmentsOf(v)
  BY DEF Assignments
<1>1. PICK scope \in {<<>>, Words("session"), Words("local")}, name \in Written(v),
           equals \in {<<Word("to")>>, <<Punctuation>>}, value \in Values :
        s = Assigning(v, scope, name, equals, value)
  BY <1>0 DEF AssignmentsOf
<1>2. PICK n \in Names(v) : name = <<n>>
  BY DEF Written, Names
<1>3. PICK e \in Equals : equals = <<e>>
  BY DEF Equals
<1>4. n \in TokenOf /\ e \in TokenOf
  BY Typed DEF Names, Equals, Lexicon
<1> DEFINE ts == Words("set") \o scope \o <<n>> \o <<e>> \o value
           kind == IF scope = Words("local") THEN "set local" ELSE "set"
<1>5. Parse(ts) = Statement(kind, v, Said(value))
  <2>1. Words("session") # Words("local") /\ Words("local") # <<>>
    BY DEF Words, Word
  <2>2. \/ scope = <<>> /\ Assigns(ts, 2, n, e, value)
        \/ \E w \in {"session", "local"} :
             scope = Words(w) /\ ts[2] = Word(w) /\ Assigns(ts, 3, n, e, value)
    <3>1. \A t : t = Words("set") \o scope \o <<n>> \o <<e>> \o value
             => \/ scope = <<>> /\ Assigns(t, 2, n, e, value)
                \/ \E w \in {"session", "local"} :
                     scope = Words(w) /\ t[2] = Word(w) /\ Assigns(t, 3, n, e, value)
      BY <1>4, SetTokens, Zenon
    <3> QED  BY <3>1, Zenon
  <2> HIDE DEF ts
  <2>3. CASE scope = <<>> /\ Assigns(ts, 2, n, e, value)
    BY <2>1, <2>3, SetParsed
  <2>4. CASE scope = Words("session") /\ ts[2] = Word("session") /\ Assigns(ts, 3, n, e, value)
    BY <2>1, <2>4, SetParsed
  <2>5. CASE scope = Words("local") /\ ts[2] = Word("local") /\ Assigns(ts, 3, n, e, value)
    BY <2>5, SetParsed
  <2> QED  BY <2>2, <2>3, <2>4, <2>5
<1>6. /\ s.tokens = ts /\ s.kind = kind /\ s.access = AccessOf(v, value)
      /\ s.sets \subseteq {v} /\ (kind = "set local" => s.sets = {})
  BY <1>1, <1>2, <1>3 DEF Assigning, Meaning
<1>7. kind \in {"set", "set local"}
  OBVIOUS
<1> HIDE DEF ts, kind
<1>8. ASSUME s.access = "write"  PROVE Overrides(Statement(kind, v, Said(value)))
  <2>1. /\ v = ReadOnlyDefault
        /\ value \in {<<Word("off")>>, <<Literal("off")>>, <<Number("0")>>, <<Word("default")>>}
    BY <1>6, <1>8 DEF AccessOf
  <2>2. Said(value) \in {Word("off"), Literal("off"), Number("0"), Word("default")}
    BY <2>1 DEF Said
  <2>3. Said(value) = Word("default") \/ Said(value).text \in FalseValues
    BY <2>2 DEF FalseValues, Word, Literal, Number
  <2> QED  BY <1>7, <2>1, <2>3 DEF Overrides, Statement
<1>9. Parse(s.tokens).kind = kind /\ Parse(s.tokens).name = v
  <2>1. Parse(s.tokens) = Statement(kind, v, Said(value))
    BY <1>5, <1>6, Zenon
  <2> QED  BY <2>1 DEF Statement
<1>10. Overrides(Parse(s.tokens)) \/ s.access # "write"
  BY <1>5, <1>6, <1>8, Zenon
<1> QED  BY <1>6, <1>7, <1>9, <1>10 DEF Understood

LEMMA ResetsUnderstood ==
  ASSUME NEW s \in Resets
  PROVE  Understood(s)
<1>1. CASE s = Meaning(Words("reset") \o Words("all"), "reset all", {}, Vars, "write")
  <2>1. Parse(s.tokens) = Bare("reset all")
    BY <1>1, ResetParsed DEF Meaning
  <2>2. Parse(s.tokens).kind = "reset all"
    <3>1. Bare("reset all").kind = "reset all"
      BY DEF Bare, Statement
    <3> QED  BY <2>1, <3>1, Zenon
  <2>3. s.kind = "reset all" /\ s.sets = {} /\ s.resets = Vars
    BY <1>1 DEF Meaning
  <2> QED  BY <2>2, <2>3 DEF Understood, Overrides
<1>2. ASSUME NEW v \in Vars, NEW name \in Written(v),
             s = Meaning(Words("reset") \o name, "reset", {}, {v}, AccessOf(v, <<Word("default")>>))
      PROVE  Understood(s)
  <2>1. PICK n \in Names(v) : name = <<n>>
    BY DEF Written, Names
  <2>2. Parse(s.tokens) = Named("reset", v)
    BY <1>2, <2>1, ResetParsed DEF Meaning
  <2>3. s.access = "write" => v = ReadOnlyDefault
    BY <1>2 DEF Meaning, AccessOf
  <2>4. s.access = "write" => Overrides(Parse(s.tokens))
    <3>1. Overrides(Parse(s.tokens)) <=> Overrides(Named("reset", v))
      BY <2>2, Zenon
    <3> QED  BY <2>3, <3>1 DEF Overrides, Named, Statement
  <2>5. s.kind = "reset" /\ s.sets = {} /\ s.resets = {v}
    BY <1>2 DEF Meaning
  <2>6. Parse(s.tokens).kind = "reset" /\ Parse(s.tokens).name = v
    <3>1. Named("reset", v).kind = "reset" /\ Named("reset", v).name = v
      BY DEF Named, Statement
    <3> QED  BY <2>2, <3>1, Zenon
  <2> QED  BY <2>4, <2>5, <2>6 DEF Understood
<1> QED  BY <1>1, <1>2 DEF Resets

LEMMA TransactionsUnderstood ==
  ASSUME NEW s \in Transactions
  PROVE  Understood(s)
<1>1. PICK access \in Access \cup {"neither"} : s \in BeginsSaying(access) \cup SetTransactionsSaying(access)
  BY DEF Transactions
<1>2. PICK kind \in {"begin", "set transaction"} :
        /\ Parse(s.tokens) = Statement(kind, NoText, Mode(access))
        /\ s.kind = kind /\ s.sets = {} /\ s.access = access
  <2>1. ASSUME s \in BeginsSaying(access)
        PROVE  /\ Parse(s.tokens) = Statement("begin", NoText, Mode(access))
               /\ s.kind = "begin" /\ s.sets = {} /\ s.access = access
    <3>1. PICK head \in Heads, modes \in ModesSaying(access) :
            s = Meaning(head \o modes, "begin", {}, {}, access)
      BY <2>1 DEF BeginsSaying, Heads
    <3> QED  BY <3>1, BeginParsed, Zenon DEF Meaning
  <2>2. ASSUME s \in SetTransactionsSaying(access)
        PROVE  /\ Parse(s.tokens) = Statement("set transaction", NoText, Mode(access))
               /\ s.kind = "set transaction" /\ s.sets = {} /\ s.access = access
    <3>1. PICK modes \in ModesSaying(access) :
            s = Meaning(<<Word("set"), Word("transaction")>> \o modes, "set transaction", {}, {}, access)
      BY <2>2 DEF SetTransactionsSaying
    <3> QED  BY <3>1, SetTransactionParsed, Zenon DEF Meaning
  <2> QED  BY <1>1, <2>1, <2>2
<1>3. access = "write" => Overrides(Statement(kind, NoText, Mode(access)))
  BY DEF Overrides, Statement, Mode
<1>4. Mode(access) = Word("only") => access # "write"
  BY DEF Mode, Word
<1>5. Parse(s.tokens).kind = kind /\ Parse(s.tokens).value = Mode(access)
  <2>1. /\ Statement(kind, NoText, Mode(access)).kind = kind
        /\ Statement(kind, NoText, Mode(access)).value = Mode(access)
    BY DEF Statement
  <2> QED  BY <1>2, <2>1, Zenon
<1>6. access = "write" => Overrides(Parse(s.tokens))
  BY <1>2, <1>3, Zenon
<1> QED  BY <1>2, <1>4, <1>5, <1>6 DEF Understood

LEMMA CharacteristicsUnderstood ==
  ASSUME NEW s \in Characteristics
  PROVE  Understood(s)
<1> DEFINE ts(access) == CharacteristicsTokens(access)
<1>1. PICK access \in Access :
        /\ s = Meaning(ts(access), "set transaction",
                       IF access = "only" THEN {ReadOnlyDefault} ELSE {}, {}, access)
        /\ access = "write" \/ "characteristics" \in Forms
  BY DEF Characteristics, CharacteristicsTokens, Access
<1>2. Parse(ts(access)) = Statement("set transaction", NoText, Word(access))
  BY CharacteristicsParsed
<1> HIDE DEF ts
<1>3. access = "write" => Overrides(Statement("set transaction", NoText, Word(access)))
  BY DEF Overrides, Statement
<1>4. ReadOnlyDefault \in Vars
  BY DEF Vars
<1>5. /\ s.tokens = ts(access) /\ s.kind = "set transaction" /\ s.access = access
      /\ s.sets = IF access = "only" THEN {ReadOnlyDefault} ELSE {}
  BY <1>1 DEF Meaning
<1>6. Parse(s.tokens).kind = "set transaction"
  <2>1. Statement("set transaction", NoText, Word(access)).kind = "set transaction"
    BY DEF Statement
  <2> QED  BY <1>2, <1>5, <2>1, Zenon
<1>7. access = "write" => Overrides(Parse(s.tokens))
  BY <1>2, <1>3, <1>5, Zenon
<1> QED  BY <1>1, <1>4, <1>5, <1>6, <1>7 DEF Understood, Access

\* What changes no setting has only to be recognised.
LEMMA PlainUnderstood ==
  ASSUME NEW kind, NEW sentences, NEW s \in Plain(kind, sentences),
         kind \notin {"reset", "reset all", "discard all"},
         \A tokens \in sentences : Parse(tokens).kind = kind
  PROVE  Understood(s)
<1>1. PICK tokens \in sentences : s = Meaning(tokens, kind, {}, {}, "neither")
  BY DEF Plain
<1>2. s.tokens = tokens /\ s.kind = kind /\ s.sets = {} /\ s.access = "neither"
  BY <1>1 DEF Meaning
<1>3. Parse(s.tokens).kind = kind
  BY <1>2
<1> QED  BY <1>2, <1>3 DEF Understood

LEMMA KindOf ==
  ASSUME NEW kind, NEW name
  PROVE  Bare(kind).kind = kind /\ Named(kind, name).kind = kind
BY DEF Bare, Named, Statement

LEMMA Concatenated ==
  \A L, M : \A tokens \in Concat(L, M) : \E a \in L : \E b \in M : tokens = a \o b
BY DEF Concat

LEMMA DiscardKinds ==
  /\ Parse(Words("discard") \o Words("all")) = Bare("discard all")
  /\ \A tokens \in Concat({Words("discard")}, {Words("plans"), Words("temp")}) :
       Parse(tokens).kind = "discard"
<1>1. /\ Word("discard") \in TokenOf /\ Word("all") \in TokenOf
      /\ Word("plans") \in TokenOf /\ Word("temp") \in TokenOf
  BY Typed DEF Lexicon
<1>2. ASSUME NEW w, Word(w) \in TokenOf, NEW ts, ts = Words("discard") \o Words(w)
      PROVE  Parse(ts) = ParseDiscard(ts) /\ Peek(ts, 2) = Word(w)
  <2>1. ts[1] = Word("discard") /\ Peek(ts, 1) = Word("discard") /\ Peek(ts, 2) = Word(w)
    BY <1>1, <1>2, TwoTokens, Zenon DEF Words
  <2> QED  BY <2>1, ParseBranch
<1>3. ASSUME NEW ts, ts = Words("discard") \o Words("all")
      PROVE  Parse(ts) = Bare("discard all")
  <2>1. Parse(ts) = ParseDiscard(ts) /\ Peek(ts, 2) = Word("all")
    BY <1>1, <1>2, <1>3, Zenon
  <2>2. Word("all") \notin {Word(w) : w \in {"plans", "sequences", "temporary", "temp"}}
    BY DEF Word
  <2> QED  BY <2>1, <2>2 DEF ParseDiscard
<1>4. ASSUME NEW w \in {"plans", "temp"}, NEW ts, ts = Words("discard") \o Words(w)
      PROVE  Parse(ts).kind = "discard"
  <2>1. Word(w) \in TokenOf
    BY <1>1
  <2>2. Parse(ts) = ParseDiscard(ts) /\ Peek(ts, 2) = Word(w)
    BY <1>2, <1>4, <2>1, Zenon
  <2>3. Word(w) # Word("all") /\ Word(w) \in {Word(x) : x \in {"plans", "sequences", "temporary", "temp"}}
    BY DEF Word
  <2>4. ParseDiscard(ts) = Named("discard", Peek(ts, 2).text)
    BY <2>2, <2>3 DEF ParseDiscard
  <2> QED  BY <2>2, <2>4, KindOf, Zenon
<1>5. \A tokens \in Concat({Words("discard")}, {Words("plans"), Words("temp")}) :
        \E w \in {"plans", "temp"} : tokens = Words("discard") \o Words(w)
  <2> DEFINE L == {Words("discard")}
             M == {Words("plans"), Words("temp")}
  <2> TAKE tokens \in Concat(L, M)
  <2> HIDE DEF L, M
  <2>1. PICK a \in L, b \in M : tokens = a \o b
    BY Concatenated
  <2>2. PICK w \in {"plans", "temp"} : b = Words(w)
    BY DEF M
  <2>3. a = Words("discard")
    BY DEF L
  <2> QED  BY <2>1, <2>2, <2>3, Zenon
<1> QED  BY <1>3, <1>4, <1>5, Zenon

LEMMA ListenKinds ==
  /\ \A tokens \in Concat({Words("listen")}, Written("a")) : Parse(tokens).kind = "listen"
  /\ \A tokens \in Concat({Words("unlisten")}, Written("a") \cup {<<QuotedIdent("*")>>}) :
       Parse(tokens).kind = "unlisten"
  /\ Parse(Words("unlisten") \o <<Symbol("*")>>).kind = "unlisten all"
<1> DEFINE Channels == {Word("a"), QuotedIdent("a"), QuotedIdent("*")}
<1>1. /\ Word("listen") \in TokenOf /\ Word("unlisten") \in TokenOf
      /\ Symbol("*") \in TokenOf /\ \A n \in Channels : n \in TokenOf
  BY Typed DEF Lexicon
<1>2. \A n \in Channels : IsIdentifier(n) /\ n.kind # "*"
  BY DEF IsIdentifier, Word, QuotedIdent
<1>3. ASSUME NEW n \in Channels, NEW ts, ts = Words("listen") \o <<n>>
      PROVE  Parse(ts).kind = "listen"
  <2>1. ts[1] = Word("listen") /\ Peek(ts, 1) = Word("listen") /\ Peek(ts, 2) = n
    BY <1>1, <1>3, TwoTokens, Zenon
  <2>2. Parse(ts) = ParseListen(ts) /\ ParseListen(ts) = Named("listen", ts[2].text)
    BY <1>2, <2>1, ParseBranch DEF ParseListen
  <2> QED  BY <2>2, KindOf, Zenon
<1>4. ASSUME NEW n \in Channels, NEW ts, ts = Words("unlisten") \o <<n>>
      PROVE  Parse(ts).kind = "unlisten"
  <2>1. ts[1] = Word("unlisten") /\ Peek(ts, 1) = Word("unlisten") /\ Peek(ts, 2) = n
    BY <1>1, <1>4, TwoTokens, Zenon
  <2>2. Parse(ts) = ParseUnlisten(ts) /\ ParseUnlisten(ts) = Named("unlisten", n.text)
    BY <1>2, <2>1, ParseBranch DEF ParseUnlisten
  <2> QED  BY <2>2, KindOf, Zenon
<1>5. ASSUME NEW ts, ts = Words("unlisten") \o <<Symbol("*")>>
      PROVE  Parse(ts).kind = "unlisten all"
  <2>1. ts[1] = Word("unlisten") /\ Peek(ts, 1) = Word("unlisten") /\ Peek(ts, 2) = Symbol("*")
    BY <1>1, <1>5, TwoTokens, Zenon
  <2>2. Symbol("*").kind = "*" /\ ~IsIdentifier(Symbol("*"))
    BY DEF Symbol, IsIdentifier
  <2>3. Parse(ts) = ParseUnlisten(ts) /\ ParseUnlisten(ts) = Bare("unlisten all")
    BY <2>1, <2>2, ParseBranch DEF ParseUnlisten
  <2> QED  BY <2>3, KindOf, Zenon
<1>6. /\ \A tokens \in Concat({Words("listen")}, Written("a")) :
           \E n \in Channels : tokens = Words("listen") \o <<n>>
      /\ \A tokens \in Concat({Words("unlisten")}, Written("a") \cup {<<QuotedIdent("*")>>}) :
           \E n \in Channels : tokens = Words("unlisten") \o <<n>>
  <2>1. ASSUME NEW w, NEW tokens \in Concat({Words(w)}, {<<n>> : n \in Channels})
        PROVE  \E n \in Channels : tokens = Words(w) \o <<n>>
    <3>1. PICK a \in {Words(w)}, b \in {<<n>> : n \in Channels} : tokens = a \o b
      BY Concatenated
    <3>2. PICK n \in Channels : b = <<n>>
      OBVIOUS
    <3> QED  BY <3>1, <3>2, Zenon
  <2>2. Written("a") \subseteq {<<n>> : n \in Channels}
    BY DEF Written
  <2>3. Written("a") \cup {<<QuotedIdent("*")>>} \subseteq {<<n>> : n \in Channels}
    BY DEF Written
  <2>4. ASSUME NEW L, NEW M, NEW N, M \subseteq N  PROVE Concat(L, M) \subseteq Concat(L, N)
    BY <2>4 DEF Concat
  <2> HIDE DEF Channels
  <2> QED  BY <2>1, <2>2, <2>3, <2>4, Zenon
<1> QED  BY <1>3, <1>4, <1>5, <1>6, Zenon

LEMMA DeallocateKinds ==
  /\ \A tokens \in Concat(Concat({Words("deallocate")}, Optional("prepare")),
                          Written("a") \cup {<<QuotedIdent("all")>>}) :
       Parse(tokens).kind = "deallocate"
  /\ \A tokens \in Concat(Concat({Words("deallocate")}, Optional("prepare")), {Words("all")}) :
       Parse(tokens).kind = "deallocate all"
<1> DEFINE Named1 == {Word("a"), QuotedIdent("a"), QuotedIdent("all")}
           From(n) == {Words("deallocate") \o <<n>>, Words("deallocate") \o Words("prepare") \o <<n>>}
<1>1. /\ Word("deallocate") \in TokenOf /\ Word("prepare") \in TokenOf
      /\ \A n \in Named1 \cup {Word("all")} : n \in TokenOf
  BY Typed DEF Lexicon
<1>2. /\ \A n \in Named1 : IsIdentifier(n) /\ n # Word("all")
      /\ Word("prepare") \notin Named1 \cup {Word("all")}
  BY DEF IsIdentifier, Word, QuotedIdent
<1>3. ASSUME NEW n \in Named1 \cup {Word("all")}, NEW ts \in From(n)
      PROVE  Parse(ts) = IF n = Word("all") THEN Bare("deallocate all") ELSE Named("deallocate", n.text)
  <2>1. /\ ts[1] = Word("deallocate") /\ Peek(ts, 1) = Word("deallocate")
        /\ Peek(ts, IF Peek(ts, 2) = Word("prepare") THEN 3 ELSE 2) = n
    <3>1. CASE ts = Words("deallocate") \o <<n>>
      <4>1. ts[1] = Word("deallocate") /\ Peek(ts, 1) = Word("deallocate") /\ Peek(ts, 2) = n
        BY <1>1, <3>1, TwoTokens, Zenon
      <4> QED  BY <1>2, <4>1
    <3>2. CASE ts = Words("deallocate") \o Words("prepare") \o <<n>>
      <4>1. LET t == Words("deallocate") \o Words("prepare") \o <<n>>
            IN  /\ t[1] = Word("deallocate") /\ Peek(t, 1) = Word("deallocate")
                /\ Peek(t, 2) = Word("prepare") /\ Peek(t, 3) = n
        BY <1>1, ThreeTokens
      <4>2. /\ ts[1] = Word("deallocate") /\ Peek(ts, 1) = Word("deallocate")
            /\ Peek(ts, 2) = Word("prepare") /\ Peek(ts, 3) = n
        BY <3>2, <4>1, Zenon
      <4> QED  BY <4>2
    <3> QED  BY <1>3, <3>1, <3>2, Zenon
  <2>2. Parse(ts) = ParseDeallocate(ts)
    BY <2>1, ParseBranch
  <2>3. CASE n = Word("all")
    BY <2>1, <2>2, <2>3 DEF ParseDeallocate
  <2>4. CASE n \in Named1
    BY <1>2, <2>1, <2>2, <2>4 DEF ParseDeallocate
  <2> QED  BY <2>3, <2>4
<1>4. /\ \A n \in Named1 : \A ts \in From(n) : Parse(ts).kind = "deallocate"
      /\ \A ts \in From(Word("all")) : Parse(ts).kind = "deallocate all"
  <2> HIDE DEF From
  <2>1. ASSUME NEW n \in Named1, NEW ts \in From(n)  PROVE Parse(ts).kind = "deallocate"
    <3>1. Parse(ts) = Named("deallocate", n.text)
      BY <1>2, <1>3
    <3> QED  BY <3>1, KindOf, Zenon
  <2>2. ASSUME NEW ts \in From(Word("all"))  PROVE Parse(ts).kind = "deallocate all"
    <3>1. Parse(ts) = Bare("deallocate all")
      BY <1>3
    <3> QED  BY <3>1, KindOf, Zenon
  <2> QED  BY <2>1, <2>2
<1>5. Concat({Words("deallocate")}, Optional("prepare"))
        \subseteq {Words("deallocate"), Words("deallocate") \o Words("prepare")}
  <2>1. Words("deallocate") \o <<>> = Words("deallocate")
    BY <1>1 DEF Words
  <2>2. ASSUME NEW tokens \in Concat({Words("deallocate")}, Optional("prepare"))
        PROVE  tokens \in {Words("deallocate"), Words("deallocate") \o Words("prepare")}
    <3> DEFINE L == {Words("deallocate")}
    <3>0. tokens \in Concat(L, Optional("prepare"))
      OBVIOUS
    <3> HIDE DEF L
    <3>1. PICK a \in L, b \in Optional("prepare") : tokens = a \o b
      BY <3>0, Concatenated
    <3>2. b = <<>> \/ b = Words("prepare")
      BY DEF Optional
    <3>3. a = Words("deallocate")
      BY DEF L
    <3> QED  BY <2>1, <3>1, <3>2, <3>3, Zenon
  <2> QED  BY <2>2, Zenon
<1>6. /\ \A tokens \in Concat(Concat({Words("deallocate")}, Optional("prepare")),
                              Written("a") \cup {<<QuotedIdent("all")>>}) :
           \E n \in Named1 : tokens \in From(n)
      /\ \A tokens \in Concat(Concat({Words("deallocate")}, Optional("prepare")), {Words("all")}) :
           tokens \in From(Word("all"))
  <2>1. ASSUME NEW M, NEW tokens \in Concat(Concat({Words("deallocate")}, Optional("prepare")), M)
        PROVE  \E b \in M : \/ tokens = Words("deallocate") \o b
                            \/ tokens = Words("deallocate") \o Words("prepare") \o b
    <3>1. PICK a \in Concat({Words("deallocate")}, Optional("prepare")), b \in M : tokens = a \o b
      BY Concatenated
    <3>2. a = Words("deallocate") \/ a = Words("deallocate") \o Words("prepare")
      BY <1>5, Zenon
    <3> QED  BY <3>1, <3>2, Zenon
  <2>2. \A b \in Written("a") \cup {<<QuotedIdent("all")>>} : \E n \in Named1 : b = <<n>>
    BY DEF Written
  <2>3. \A b \in {Words("all")} : b = <<Word("all")>>
    BY DEF Words
  <2>4. ASSUME NEW tokens \in Concat(Concat({Words("deallocate")}, Optional("prepare")),
                                      Written("a") \cup {<<QuotedIdent("all")>>})
        PROVE  \E n \in Named1 : tokens \in From(n)
    <3>1. PICK b \in Written("a") \cup {<<QuotedIdent("all")>>} :
                 \/ tokens = Words("deallocate") \o b
                 \/ tokens = Words("deallocate") \o Words("prepare") \o b
      BY <2>1, Zenon
    <3>2. PICK n \in Named1 : b = <<n>>
      BY <2>2
    <3> HIDE DEF Named1
    <3>3. tokens \in From(n)
      BY <3>1, <3>2, Zenon
    <3> QED  BY <3>3
  <2>5. ASSUME NEW tokens \in Concat(Concat({Words("deallocate")}, Optional("prepare")), {Words("all")})
        PROVE  tokens \in From(Word("all"))
    <3> DEFINE M == {Words("all")}
    <3>1. tokens \in Concat(Concat({Words("deallocate")}, Optional("prepare")), M)
      OBVIOUS
    <3> HIDE DEF M
    <3>2. PICK b \in M : \/ tokens = Words("deallocate") \o b
                         \/ tokens = Words("deallocate") \o Words("prepare") \o b
      BY <2>1, <3>1, Zenon
    <3>3. b = <<Word("all")>>
      BY <2>3 DEF M
    <3> QED  BY <3>2, <3>3, Zenon
  <2> QED  BY <2>4, <2>5
<1> QED  BY <1>4, <1>6, Zenon

LEMMA WordKinds ==
  /\ \A tokens \in {Words("commit"), Words("end")} : Parse(tokens).kind = "commit"
  /\ \A tokens \in {Words("rollback"), Words("abort")} : Parse(tokens).kind = "rollback"
  /\ Parse(Words("select")).kind = "select" /\ Parse(Words("values")).kind = "select"
  /\ Parse(Words("update")).kind = "update" /\ Parse(Words("copy")).kind = "copy"
  /\ Parse(Words("create")).kind = "other"
<1>1. \A w : Words(w)[1] = Word(w) /\ Peek(Words(w), 1) = Word(w)
  BY OneWord
<1>2. \A w \in {"commit", "end"} : Parse(Words(w)) = Bare("commit")
  BY <1>1, ParseBranch
<1>3. \A w \in {"rollback", "abort"} : Parse(Words(w)) = Bare("rollback")
  BY <1>1, ParseBranch
<1>4. Dml["select"] = "select" /\ Dml["values"] = "select" /\ Dml["update"] = "update"
  BY DEF Dml
<1>5. \A w \in {"select", "values", "update"} : Parse(Words(w)) = Bare(Dml[w])
  BY <1>1, ParseBranch DEF DmlWords
<1>6. Parse(Words("copy")) = Bare("copy") /\ Parse(Words("create")) = Bare("other")
  BY <1>1, ParseBranch DEF Other
<1>7. \A kind : Bare(kind).kind = kind
  BY KindOf
<1> QED  BY <1>2, <1>3, <1>4, <1>5, <1>6, <1>7, Zenon

LEMMA OthersUnderstood ==
  ASSUME NEW s \in OtherStatements
  PROVE  Understood(s)
<1>1. CASE s = Meaning(Words("discard") \o Words("all"), "discard all", {}, Vars,
                       IF "discard" \in Forms THEN "write" ELSE "neither")
  <2>1. /\ s.tokens = Words("discard") \o Words("all") /\ s.kind = "discard all" /\ s.sets = {}
        /\ s.resets = Vars /\ s.access = IF "discard" \in Forms THEN "write" ELSE "neither"
    BY <1>1 DEF Meaning
  <2>2. Parse(s.tokens).kind = "discard all"
    BY <2>1, DiscardKinds, KindOf, Zenon
  <2>3. s.kind = "discard all" /\ s.sets = {} /\ s.resets = Vars /\ (s.access = "write" => "discard" \in Forms)
    BY <2>1
  <2> QED  BY <2>2, <2>3 DEF Understood
<1>2. CASE \/ s \in Plain("discard", Concat({Words("discard")}, {Words("plans"), Words("temp")}))
           \/ s \in Plain("listen", Concat({Words("listen")}, Written("a")))
           \/ s \in Plain("unlisten", Concat({Words("unlisten")}, Written("a") \cup {<<QuotedIdent("*")>>}))
  <2> DEFINE L == Concat({Words("discard")}, {Words("plans"), Words("temp")})
             M == Concat({Words("listen")}, Written("a"))
             N == Concat({Words("unlisten")}, Written("a") \cup {<<QuotedIdent("*")>>})
  <2>1. /\ \A tokens \in L : Parse(tokens).kind = "discard"
        /\ \A tokens \in M : Parse(tokens).kind = "listen"
        /\ \A tokens \in N : Parse(tokens).kind = "unlisten"
    BY DiscardKinds, ListenKinds, Zenon
  <2>2. s \in Plain("discard", L) \/ s \in Plain("listen", M) \/ s \in Plain("unlisten", N)
    BY <1>2
  <2> HIDE DEF L, M, N
  <2> QED  BY <2>1, <2>2, PlainUnderstood
<1>3. CASE s \in Plain("unlisten all", {Words("unlisten") \o <<Symbol("*")>>})
  <2> DEFINE L == {Words("unlisten") \o <<Symbol("*")>>}
  <2>1. \A tokens \in L : Parse(tokens).kind = "unlisten all"
    BY ListenKinds, Zenon
  <2>2. s \in Plain("unlisten all", L)
    BY <1>3
  <2> HIDE DEF L
  <2> QED  BY <2>1, <2>2, PlainUnderstood
<1>4. CASE \/ s \in Plain("deallocate", Concat(Concat({Words("deallocate")}, Optional("prepare")),
                                               Written("a") \cup {<<QuotedIdent("all")>>}))
           \/ s \in Plain("deallocate all",
                          Concat(Concat({Words("deallocate")}, Optional("prepare")), {Words("all")}))
  BY <1>4, DeallocateKinds, PlainUnderstood
<1>5. CASE \/ s \in Plain("commit", {Words("commit"), Words("end")})
           \/ s \in Plain("rollback", {Words("rollback"), Words("abort")})
           \/ s \in Plain("copy", {Words("copy")})
           \/ s \in Plain("other", {Words("create")})
  <2> DEFINE L == {Words("commit"), Words("end")}
             M == {Words("rollback"), Words("abort")}
             N == {Words("copy")}
             O == {Words("create")}
  <2>1. /\ \A tokens \in L : Parse(tokens).kind = "commit"
        /\ \A tokens \in M : Parse(tokens).kind = "rollback"
        /\ \A tokens \in N : Parse(tokens).kind = "copy"
        /\ \A tokens \in O : Parse(tokens).kind = "other"
    BY WordKinds, Zenon
  <2>2. \/ s \in Plain("commit", L) \/ s \in Plain("rollback", M)
        \/ s \in Plain("copy", N) \/ s \in Plain("other", O)
    BY <1>5
  <2> HIDE DEF L, M, N, O
  <2> QED  BY <2>1, <2>2, PlainUnderstood
<1>6. CASE \/ s \in Plain("select", {Words("select"), Words("values"),
                                     Words("with") \o Words("a") \o Words("as") \o Body \o Words("select")})
           \/ s \in Plain("update", {Words("update"),
                                     Words("with") \o Words("a") \o Words("as") \o Body \o Words("update")})
  <2> DEFINE L == {Words("select"), Words("values"),
                   Words("with") \o Words("a") \o Words("as") \o Body \o Words("select")}
             M == {Words("update"),
                   Words("with") \o Words("a") \o Words("as") \o Body \o Words("update")}
  <2>1. \A w \in {"select", "update"} :
          Parse(Words("with") \o Words("a") \o Words("as") \o Body \o Words(w)).kind = w
    BY WithIs, WithParsed, KindOf, Zenon
  <2>2. (\A tokens \in L : Parse(tokens).kind = "select") /\ (\A tokens \in M : Parse(tokens).kind = "update")
    BY <2>1, WordKinds, Zenon
  <2>3. s \in Plain("select", L) \/ s \in Plain("update", M)
    BY <1>6
  <2> HIDE DEF L, M
  <2> QED  BY <2>2, <2>3, PlainUnderstood
<1> QED  BY <1>1, <1>2, <1>4, <1>5, <1>6, <1>3, Zenon DEF OtherStatements

\* The parser understands every sentence of the grammar, whatever the settings are.
LEMMA SentencesUnderstood ==
  ASSUME NEW s \in Sentences
  PROVE  Understood(s)
BY AssignmentsUnderstood, ResetsUnderstood, TransactionsUnderstood, CharacteristicsUnderstood,
   OthersUnderstood, Zenon DEF Sentences

-----------------------------------------------------------------------------
(* Sessions *)

LEMMA NothingIsOther ==
  Parse(NothingAsked.tokens).kind = "other"
<1>1. NothingAsked.tokens = <<>> /\ Peek(<<>>, 1).kind # "word"
  BY DEF NothingAsked, Meaning, Peek, NoToken, Symbol
<1>2. NoText \notin {"listen", "unlisten", "set", "reset", "discard", "deallocate", "begin", "start",
                     "commit", "end", "rollback", "abort", "copy", "with"} \cup DmlWords
  BY Zenon DEF NoText, DmlWords
<1>3. DOMAIN Dml = DmlWords
  BY DEF Dml, DmlWords
<1>4. Parse(<<>>) = Other
  BY <1>1, <1>2, <1>3 DEF Parse
<1> QED  BY <1>1, <1>4, KindOf, Zenon DEF Other

\* Every way the grammar has to write a statement is parsed as the statement it means
\* (sql/parser.rs), whatever the names of the settings and the order of the statements.
THEOREM ParserCorrect ==
  Spec => []ParserAgrees
<1> DEFINE Inv == asked \in Sentences \cup {NothingAsked}
<1>1. Init => Inv
  BY DEF Init
<1>2. Inv /\ [Next]_vars => Inv'
  <2> SUFFICES ASSUME Inv, [Next]_vars  PROVE Inv'
    OBVIOUS
  <2>1. ASSUME NEW c \in UNION Alphabets, Type(c)  PROVE Inv'
    BY <2>1 DEF Type, sessionVars
  <2>2. ASSUME NEW s \in Sentences, Ask(s)  PROVE Inv'
    BY <2>2 DEF Ask
  <2>3. CASE UNCHANGED vars
    BY <2>3 DEF vars, sessionVars
  <2> QED  BY <2>1, <2>2, <2>3 DEF Next
<1>3. Inv => ParserAgrees
  <2>1. ASSUME asked \in Sentences  PROVE Parse(asked.tokens).kind = asked.kind
    BY <2>1, SentencesUnderstood DEF Understood
  <2>2. ASSUME asked = NothingAsked  PROVE Parse(asked.tokens).kind = asked.kind
    <3>1. NothingAsked.kind = "other"
      BY DEF NothingAsked, Meaning
    <3> QED  BY <2>2, <3>1, NothingIsOther, Zenon
  <2> QED  BY <2>1, <2>2 DEF ParserAgrees
<1> QED  BY <1>1, <1>2, <1>3, PTL DEF Spec

\* A setting that differs from the default is one the pooler has recorded, unless the
\* transaction has failed, and with its rollback nothing differs any more.
Tracked ==
  /\ changed \subseteq Vars
  /\ tx = "none" => changed = {} /\ ~failed
  /\ ~failed => changed \subseteq dirty

LEMMA RouteIs ==
  ASSUME NEW stmt
  PROVE  Route(stmt) # "none"
BY DEF Route

LEMMA TrackedStep ==
  ASSUME "characteristics" \notin Forms, Tracked, NEW s \in Sentences, Forward(s, Parse(s.tokens))
  PROVE  Tracked'
<1> DEFINE stmt == Parse(s.tokens)
<1>1. /\ stmt.kind = s.kind /\ s.sets \subseteq Vars
      /\ s.kind = "set" => s.sets \subseteq {stmt.name}
      /\ s.kind # "set" => s.sets = {}
      /\ s.kind = "reset" => stmt.name \in s.resets
      /\ s.kind \in {"reset all", "discard all"} => s.resets = Vars
  BY SentencesUnderstood DEF Understood
<1>2. ChangedBy(s) \subseteq Vars
  BY <1>1 DEF ChangedBy, Tracked
<1>3. ~Fails(s) => ChangedBy(s) \subseteq Track(stmt)
  <2> SUFFICES ASSUME ~Fails(s)  PROVE (changed \cup s.sets) \ s.resets \subseteq Track(stmt)
    BY DEF ChangedBy
  <2>1. changed \subseteq dirty /\ changed \subseteq Vars
    BY DEF Fails, Tracked
  <2>2. CASE s.kind = "set"
    <3>1. Track(stmt) = dirty \cup {stmt.name}
      BY <1>1, <2>2 DEF Track
    <3> QED  BY <1>1, <2>1, <2>2, <3>1
  <2>3. CASE s.kind = "reset"
    <3>1. Track(stmt) = dirty \ {stmt.name}
      BY <1>1, <2>3 DEF Track
    <3> QED  BY <1>1, <2>1, <2>3, <3>1
  <2>4. CASE s.kind \in {"reset all", "discard all"}
    BY <1>1, <2>1, <2>4
  <2>5. CASE s.kind \notin {"set", "reset", "reset all", "discard all"}
    <3>1. Track(stmt) = dirty
      BY <1>1, <2>5 DEF Track
    <3> QED  BY <1>1, <2>1, <2>5, <3>1
  <2> QED  BY <2>2, <2>3, <2>4, <2>5
<1> HIDE DEF stmt
<1>4. CASE Ends(s)
  <2>1. /\ changed' = (IF failed \/ s.kind = "rollback" THEN {} ELSE ChangedBy(s)) \ Track(stmt)
        /\ failed' = FALSE
    BY <1>4 DEF Forward, stmt
  <2>2. Fails(s) => failed
    BY <1>4 DEF Fails, Ends
  <2>3. changed' = {}
    BY <1>3, <2>1, <2>2
  <2> QED  BY <2>1, <2>3 DEF Tracked
<1>5. CASE ~Ends(s)
  <2>1. /\ tx' = Route(stmt) /\ failed' = Fails(s)
        /\ changed' = ChangedBy(s) /\ dirty' = Track(stmt)
    BY <1>5 DEF Forward, stmt
  <2>2. tx' # "none"
    BY <2>1, RouteIs
  <2> QED  BY <1>2, <1>3, <2>1, <2>2 DEF Tracked
<1> QED  BY <1>4, <1>5

\* No setting of one client is left on a connection that another borrows
\* (proxy/transaction.rs, track_set_reset), as far as the pooler's parser knows what a
\* setting is: READ ONLY for the transactions to come it does not record.
THEOREM SettingsTrackedAlways ==
  ASSUME "characteristics" \notin Forms
  PROVE  Spec => []SettingsTracked
<1>1. Init => Tracked
  BY DEF Init, Tracked
<1>2. Tracked /\ [Next]_vars => Tracked'
  <2> SUFFICES ASSUME Tracked, [Next]_vars  PROVE Tracked'
    OBVIOUS
  <2>1. ASSUME NEW c \in UNION Alphabets, Type(c)  PROVE Tracked'
    BY <2>1 DEF Type, sessionVars, Tracked
  <2>2. ASSUME NEW s \in Sentences, Ask(s)  PROVE Tracked'
    <3>1. CASE Rejected(Parse(s.tokens)) \/ Intercepted(Parse(s.tokens))
      BY <2>2, <3>1 DEF Ask, Tracked
    <3>2. CASE ~(Rejected(Parse(s.tokens)) \/ Intercepted(Parse(s.tokens)))
      <4>1. Forward(s, Parse(s.tokens))
        BY <2>2, <3>2 DEF Ask
      <4> QED  BY <4>1, TrackedStep
    <3> QED  BY <3>1, <3>2
  <2>3. CASE UNCHANGED vars
    BY <2>3 DEF vars, sessionVars, Tracked
  <2> QED  BY <2>1, <2>2, <2>3 DEF Next
<1>3. Tracked => SettingsTracked
  BY DEF Tracked, SettingsTracked
<1> QED  BY <1>1, <1>2, <1>3, PTL DEF Spec

\* What makes a transaction write never gets to a replica: not in a session whose
\* transactions go there, nor in a transaction that asked for one (sql/ast.rs,
\* is_read_write_override), unless DISCARD ALL, which is not recognised as that.
THEOREM StaysReadOnlyAlways ==
  ASSUME "discard" \notin Forms
  PROVE  Spec => []StaysReadOnly
<1>1. Init => StaysReadOnly
  BY DEF Init, StaysReadOnly
<1>2. StaysReadOnly /\ [Next]_vars => StaysReadOnly'
  <2> SUFFICES ASSUME StaysReadOnly, [Next]_vars  PROVE StaysReadOnly'
    OBVIOUS
  <2>1. ASSUME NEW c \in UNION Alphabets, Type(c)  PROVE StaysReadOnly'
    BY <2>1 DEF Type, sessionVars, StaysReadOnly
  <2>2. ASSUME NEW s \in Sentences, Ask(s)  PROVE StaysReadOnly'
    <3> DEFINE stmt == Parse(s.tokens)
    <3>1. /\ stmt.kind = s.kind
          /\ s.access = "write" => Overrides(stmt)
          /\ s.kind = "begin" /\ stmt.value = Word("only") => s.access # "write"
      BY SentencesUnderstood DEF Understood
    <3> HIDE DEF stmt
    <3>2. CASE Rejected(stmt) \/ Intercepted(stmt)
      BY <2>2, <3>2 DEF Ask, StaysReadOnly, stmt
    <3>3. CASE ~Rejected(stmt) /\ Forward(s, stmt)
      <4>1. ~(Route(stmt) = "replica" /\ s.access = "write")
        BY <3>1, <3>3 DEF Rejected, Route
      <4> QED  BY <3>3, <4>1 DEF Forward, StaysReadOnly
    <3> QED  BY <2>2, <3>2, <3>3 DEF Ask, stmt
  <2>3. CASE UNCHANGED vars
    BY <2>3 DEF vars, sessionVars, StaysReadOnly
  <2> QED  BY <2>1, <2>2, <2>3 DEF Next
<1> QED  BY <1>1, <1>2, PTL DEF Spec
=============================================================================
