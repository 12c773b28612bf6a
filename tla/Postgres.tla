------------------------------ MODULE Postgres ------------------------------
(***************************************************************************)
(* A PostgreSQL session as the pooler uses one: external code, modelled    *)
(* from the protocol the proxy, reset_connection and the mock server of    *)
(* the tests rely on.  It answers its messages in order; after an error in *)
(* the extended protocol it ignores everything up to the next Sync; a      *)
(* setting changed in a transaction that fails is put back.                *)
(*                                                                         *)
(* Bind stands for Bind and Execute, "done" for the rows and the           *)
(* CommandComplete of a statement.                                         *)
(***************************************************************************)
EXTENDS FiniteSets, Sequences, StatementNames

CONSTANTS
  BadQueries,  \* statements whose Parse is rejected
  SetQueries,  \* statements that change a setting when they are executed
  Vars,        \* settings
  Mishaps      \* may also fail: "bind", an execution; "work", a simple query

Tx == {"idle", "open", "failed"}

Server == [stmts : SUBSET Queries, tx : Tx, skip : BOOLEAN,
           vars : SUBSET Vars,     \* settings that differ from the startup values
           saved : SUBSET Vars]    \* ... when the last transaction ended

NewServer == [stmts |-> {}, tx |-> "idle", skip |-> FALSE, vars |-> {}, saved |-> {}]

\* Whose fault an error is: the client's, or the pooler's if a statement it
\* should have prepared is missing or one it prepares is already there.
Error(cause) == [kind |-> "error", arg |-> cause]
Answer(kind) == [kind |-> kind, arg |-> "none"]
Ready(srv) == [kind |-> "ready", arg |-> srv.tx]

Aborted(srv) == [srv EXCEPT !.tx = IF @ = "idle" THEN "idle" ELSE "failed",
                            !.vars = srv.saved]
Ended(srv) == IF srv.tx = "idle" THEN [srv EXCEPT !.saved = srv.vars] ELSE srv

Outcome(srv, replies) == [srv |-> srv, replies |-> replies]

Fails(srv, cause) ==
  {Outcome([Aborted(srv) EXCEPT !.skip = TRUE], <<Error(cause)>>)}

ParseOutcomes(srv, q) ==
  IF srv.tx = "failed" \/ q \in BadQueries THEN Fails(srv, "client")
  ELSE IF q \in srv.stmts THEN Fails(srv, "pooler")
  ELSE {Outcome([srv EXCEPT !.stmts = @ \cup {q}], <<Answer("parsed")>>)}

BindOutcomes(srv, q) ==
  IF srv.tx = "failed" \/ q = NoQuery THEN Fails(srv, "client")
  ELSE IF q \notin srv.stmts THEN Fails(srv, "pooler")
  ELSE {Outcome([srv EXCEPT !.vars = @ \cup (IF q \in SetQueries THEN Vars ELSE {})],
                <<Answer("bound")>>)}
       \cup (IF "bind" \in Mishaps THEN Fails(srv, "client") ELSE {})

Extended(srv, m) ==
  CASE m.kind = "parse" -> ParseOutcomes(srv, m.arg)
    [] m.kind = "bind" -> BindOutcomes(srv, m.arg)
    [] m.kind = "close" -> {Outcome([srv EXCEPT !.stmts = @ \ {m.arg}], <<Answer("closed")>>)}
    [] m.kind = "portal" -> {Outcome(srv, <<Answer("closed")>>)}

RolledBack(srv) ==
  [srv EXCEPT !.tx = "idle", !.vars = IF srv.tx = "idle" THEN srv.vars ELSE srv.saved]
Cleaned(srv, vs) == IF srv.tx = "failed" THEN {} ELSE {[srv EXCEPT !.vars = @ \ vs]}

\* What a statement that a failed transaction refuses makes of the session.
Changed(srv, m) ==
  CASE m.kind = "begin" -> [srv EXCEPT !.tx = "open"]
    [] m.kind = "set" -> [srv EXCEPT !.vars = @ \cup m.arg]
    [] m.kind = "reset" -> [srv EXCEPT !.vars = @ \ m.arg]
    [] OTHER -> srv

\* What a simple query makes of the session; {} if it is an error there.
Effects(srv, m) ==
  CASE m.kind = "commit" -> {IF srv.tx = "failed" THEN RolledBack(srv) ELSE [srv EXCEPT !.tx = "idle"]}
    [] m.kind = "rollback" -> {RolledBack(srv)}
    [] m.kind = "rollback and clean" -> Cleaned(RolledBack(srv), m.arg)
    [] m.kind = "clean" -> Cleaned(srv, m.arg)
    [] m.kind = "discard" ->
         IF srv.tx = "idle" THEN {[srv EXCEPT !.stmts = {}, !.vars = {}]} ELSE {}
    [] OTHER -> IF srv.tx = "failed" THEN {} ELSE {Changed(srv, m)}

Simple(srv, m) ==
  LET ok == {Outcome(Ended(s), <<Answer("done"), Ready(s)>>) : s \in Effects(srv, m)}
      err == Outcome(Aborted(srv), <<Error("client"), Ready(Aborted(srv))>>)
  IN  IF ok = {} \/ (m.kind = "work" /\ "work" \in Mishaps) THEN ok \cup {err} ELSE ok

ExtendedKinds == {"parse", "bind", "close", "portal"}

\* What the server may make of one message: its new state and its replies.
Outcomes(srv, m) ==
  IF m.kind = "sync"
  THEN LET s == Ended([srv EXCEPT !.skip = FALSE]) IN {Outcome(s, <<Ready(s)>>)}
  ELSE IF srv.skip THEN {Outcome(srv, <<>>)}
  ELSE IF m.kind \in ExtendedKinds THEN Extended(srv, m)
  ELSE Simple(srv, m)
=============================================================================
