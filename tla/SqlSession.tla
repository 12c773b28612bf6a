----------------------------- MODULE SqlSession -----------------------------
(***************************************************************************)
(* What the pooler decides from the text of a simple query, and what the   *)
(* server makes of the same text: track_set_reset, the routing of a        *)
(* transaction and the rejections of proxy/transaction.rs.  A client types *)
(* a text character by character, or sends statements that the server      *)
(* accepts, one after the other.                                           *)
(*                                                                         *)
(* A connection is lent for a transaction, or for one statement outside    *)
(* one, and the settings the pooler knows of are reset when it comes back. *)
(***************************************************************************)
EXTENDS SqlServer

CONSTANTS
  Alphabets,  \* sets of characters; a text is of one of them, and {} is for statements
  MaxLength   \* bound on the length of a text

VARIABLES
  alphabet,
  text,
  scan,      \* the server's scanner
  readOnly,  \* the session is read-only: its transactions go to a replica
  tx,        \* where the transaction runs: "none", "primary" or "replica"
  failed,    \* the server has failed the transaction
  asked,     \* the last statement
  changed,   \* (server) settings of the connection that differ from its defaults
  dirty,     \* ServerConn.dirty_vars
  switched   \* (history) a replica has been asked for a transaction that writes

textVars == <<alphabet, text, scan>>
sessionVars == <<readOnly, tx, failed, asked, changed, dirty, switched>>
vars == <<textVars, sessionVars>>

NothingAsked == Meaning(<<>>, "other", {}, {}, "neither")

Init ==
  /\ alphabet \in Alphabets
  /\ text = <<>>
  /\ scan = Fresh
  /\ readOnly \in IF alphabet = {} THEN BOOLEAN ELSE {FALSE}
  /\ tx = "none"
  /\ failed = FALSE
  /\ asked = NothingAsked
  /\ changed = {}
  /\ dirty = {}
  /\ switched = FALSE

Type(c) ==
  /\ c \in alphabet
  /\ Len(text) < MaxLength
  /\ text' = Append(text, c)
  /\ scan' = Scan(scan, c)
  /\ UNCHANGED <<alphabet, sessionVars>>

-----------------------------------------------------------------------------

\* track_set_reset; SET LOCAL ends with its transaction.
Track(stmt) ==
  CASE stmt.kind = "set" -> dirty \cup {stmt.name}
    [] stmt.kind = "reset" -> dirty \ {stmt.name}
    [] stmt.kind \in {"reset all", "discard all"} -> {}
    [] OTHER -> dirty

\* Where a statement goes: to the transaction's connection, or where one that it
\* begins is routed.
Route(stmt) ==
  IF tx # "none" THEN tx
  ELSE IF readOnly \/ (stmt.kind = "begin" /\ stmt.value = Word("only")) THEN "replica"
  ELSE "primary"

\* What is refused before the server sees it.  Outside a transaction only a
\* read-only session is checked.
Rejected(stmt) ==
  Overrides(stmt) /\ IF tx = "none" THEN readOnly ELSE tx = "replica"

\* Answered by the pooler itself, which needs no connection for it.
Intercepted(stmt) == stmt.kind \in {"deallocate", "deallocate all"}

\* The server runs the statement: whether it fails, and the settings after it.
\* DISCARD ALL is no statement for a transaction.
Fails(s) == failed \/ (s.kind = "discard all" /\ tx # "none")
ChangedBy(s) == IF Fails(s) THEN changed ELSE (changed \cup s.sets) \ s.resets

\* The statement ends what the connection was lent for.
Ends(s) == s.kind \in {"commit", "rollback"} \/ (tx = "none" /\ s.kind # "begin")

Forward(s, stmt) ==
  /\ switched' = (switched \/ (Route(stmt) = "replica" /\ s.access = "write"))
  /\ IF Ends(s)
     THEN /\ tx' = "none"
          /\ failed' = FALSE
          /\ changed' = (IF failed \/ s.kind = "rollback" THEN {} ELSE ChangedBy(s)) \ Track(stmt)
          /\ dirty' = {}
     ELSE /\ tx' = Route(stmt)
          /\ failed' = Fails(s)
          /\ changed' = ChangedBy(s)
          /\ dirty' = Track(stmt)

Ask(s) ==
  LET stmt == Parse(s.tokens)
  IN  /\ alphabet = {}
      /\ asked' = s
      /\ IF Rejected(stmt) \/ Intercepted(stmt)
         THEN UNCHANGED <<tx, failed, changed, dirty, switched>>
         ELSE Forward(s, stmt)
      /\ UNCHANGED <<textVars, readOnly>>

Next ==
  \/ \E c \in UNION Alphabets : Type(c)
  \/ \E s \in Sentences : Ask(s)

Spec == Init /\ [][Next]_vars

-----------------------------------------------------------------------------

\* Comments, nested or not, literals, quoted identifiers and dollar quotes never
\* lend a keyword to the parser, and never swallow one that follows them: the
\* lexer shows what the server's scanner shows, in any prefix of a text.
LexerAgrees ==
  scan.stray \/
    SelectSeq(Lex(text), LAMBDA t : t.kind \notin {"literal", "other"}) = Shown(scan)

\* Every way the grammar has to write a statement is the statement it means.
ParserAgrees == Parse(asked.tokens).kind = asked.kind

\* No setting outlives the connection's loan, whatever statements set, reset and
\* discard it, in transactions that commit, fail or roll back.
SettingsTracked == tx = "none" => changed = {}

\* No statement that would make a transaction on a replica write gets there, in
\* read-only sessions and in read-only transactions of others (ast.rs:100-117).
StaysReadOnly == ~switched
=============================================================================
