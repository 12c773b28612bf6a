------------------------------- MODULE Proxy -------------------------------
(***************************************************************************)
(* Client sessions, server connections and what the proxy does between     *)
(* them: proxy/transaction.rs, proxy/session.rs, proxy/prepared.rs and     *)
(* proxy/intercept.rs, with the reset a connection goes through before it  *)
(* is lent again (connections/reset.rs).                                   *)
(*                                                                         *)
(* A client's message is one step with its handling by the proxy: the     *)
(* proxy reads one message at a time, and a client that sends before it    *)
(* has read the replies to earlier messages is a client that overlaps      *)
(* them.  Between the proxy and a server both directions are queues.  How  *)
(* connections are limited, waited for and opened is Pool's subject.       *)
(***************************************************************************)
EXTENDS StatementStore, PreparedStatements, Postgres, Driver

CONSTANTS
  Conns,      \* server connections
  NoConn,     \* a session without one
  NoSession,  \* the sender of a reset
  PoolModes,  \* the pool modes of this instance: "transaction", "session"
  Requests,   \* what the clients of this instance ask for
  Habits,     \* what its drivers do, see MayAsk and what follows it
  Events,     \* what happens to its connections: "break"
  MaxOwed     \* bound: a client stops asking when it is owed this many replies

ASSUME ProxyAssumption ==
  /\ NoConn \notin Conns
  /\ NoSession \notin Sessions
  /\ PoolModes \subseteq {"transaction", "session"}
  /\ MaxOwed \in Nat

VARIABLES
  mode,      \* PoolConfig.mode, the same for the whole run
  conn,      \* the connection a session holds
  pinned,    \* sessions that LISTEN has pinned to theirs
  driver,    \* the client's side of each session
  phase,     \* "closed", "idle", "lent" or "resetting"
  st,        \* ServerConn.statements
  lastTx,    \* ServerConn.last_tx_status
  dirty,     \* ServerConn.dirty_vars
  toServer,  \* messages the server has not read
  toProxy,   \* replies the pooler has not read
  srv        \* the server's side of each connection

sessionVars == <<conn, pinned, driver>>
linkVars == <<phase, st, lastTx, dirty>>
wireVars == <<toServer, toProxy, srv>>
vars == <<mode, storeVars, sessionVars, linkVars, wireVars>>

Init ==
  /\ StoreInit
  /\ mode \in PoolModes
  /\ conn = [c \in Sessions |-> NoConn]
  /\ pinned = {}
  /\ driver = [c \in Sessions |-> NewDriver]
  /\ phase = [x \in Conns |-> "closed"]
  /\ st = [x \in Conns |-> NoStatements]
  /\ lastTx = [x \in Conns |-> "idle"]
  /\ dirty = [x \in Conns |-> {}]
  /\ toServer = [x \in Conns |-> <<>>]
  /\ toProxy = [x \in Conns |-> <<>>]
  /\ srv = [x \in Conns |-> NewServer]

Message(kind, arg, from) == [kind |-> kind, arg |-> arg, from |-> from]
To(reply, client) == [kind |-> reply.kind, arg |-> reply.arg, to |-> client]

-----------------------------------------------------------------------------
(* What a driver may do next *)

Overlaps(c) == "ready" \in Range(driver[c].owed)
Trails(c) == driver[c].batch = "aborted"
Interjects(c) == driver[c].owed # <<>> \/ Trails(c)

InTransaction(c) == conn[c] # NoConn /\ lastTx[conn[c]] # "idle"
Undoes(c, kind) ==
  InTransaction(c) /\ (kind = "discard" \/ (kind = "reset" /\ srv[conn[c]].saved # {}))

\* May the client send a message of this kind?  "overlap": a new batch or
\* simple query before the replies to the last have come.  "trail": the rest of
\* a batch reaches the proxy after the proxy has relayed the batch's error.
\* "interject": what the proxy answers itself, while earlier replies are owed.
\* "undo": in a transaction, DISCARD ALL, which the server refuses, or RESET of what
\* was set before it, which a rollback undoes.
MayAsk(c, kind) ==
  /\ kind \in Requests
  /\ Len(driver[c].owed) < MaxOwed
  /\ Overlaps(c) => "overlap" \in Habits
MayExtend(c, kind) == MayAsk(c, kind) /\ (Trails(c) => "trail" \in Habits)
MayInterject(c, kind) == MayAsk(c, kind) /\ (Interjects(c) => "interject" \in Habits)
MayQuery(c, kind) ==
  /\ MayAsk(c, kind) /\ driver[c].batch = "closed"
  /\ Undoes(c, kind) => "undo" \in Habits
MaySync(c) == MayAsk(c, "sync") /\ driver[c].batch # "closed"

\* "unknown": bind a statement that was never prepared.
MayName(c, s) == names[c][s] = NoQuery => "unknown" \in Habits

\* "leave": go before the replies have come or the batch is closed.
MayLeave(c) == driver[c].owed # <<>> \/ driver[c].batch # "closed" => "leave" \in Habits

-----------------------------------------------------------------------------
(* From the client to the server *)

\* Mutant: any open connection will do.
CarriersOpen(c) == IF conn[c] # NoConn THEN {conn[c]} ELSE {x \in Conns : phase[x] # "closed"}

\* The connection a message goes to.  In transaction mode the first message
\* checks one out; in session mode the session has had one since it began.
Carriers(c) ==
  IF conn[c] # NoConn THEN {conn[c]}
  ELSE IF mode = "transaction" THEN {x \in Conns : phase[x] = "idle"}
  ELSE {}

\* A connection that has just been checked out forgets the replies it owed.
StatementsOf(c, x) == IF conn[c] = x THEN st[x] ELSE ResetPending(st[x])

\* The session holds x, its statements are now s, and messages are on the wire.
Send(c, x, s, messages) ==
  /\ conn' = [conn EXCEPT ![c] = x]
  /\ phase' = [phase EXCEPT ![x] = "lent"]
  /\ st' = [st EXCEPT ![x] = s]
  /\ toServer' = [toServer EXCEPT ![x] = @ \o messages]
  /\ UNCHANGED <<lastTx, toProxy, srv>>

\* send_eviction, and the Parse if the statement is not there.
Preparation(c, q, prep) ==
  (IF prep.evicted = NoQuery THEN <<>> ELSE <<Message("close", prep.evicted, c)>>)
  \o (IF prep.hit THEN <<>> ELSE <<Message("parse", q, c)>>)

\* rewrite_outbound, Parse: register the name; a statement the connection has
\* is answered at once.
Parse(c, s, q) ==
  /\ MayExtend(c, "parse")
  /\ Register(c, s, q)
  /\ \E x \in Carriers(c) :
       LET prep == Prepare(StatementsOf(c, x), q, "forward")
           asked == AsksExtended(driver[c], "parsed")
       IN  /\ prep.hit => MayInterject(c, "parse")
           /\ Send(c, x, prep.st, Preparation(c, q, prep))
           /\ driver' = [driver EXCEPT ![c] = IF prep.hit THEN Gets(asked, "parsed") ELSE asked]
  /\ UNCHANGED <<pinned, dirty>>

\* Bind (or Describe): ensure_prepared under the canonical name; a name that
\* is not tracked goes out as it is.  The bail for a Parse missing in the store is
\* left out: BindFindsParse says it is never reached.
Bind(c, s) ==
  /\ MayExtend(c, "bind") /\ MayName(c, s)
  /\ \E x \in Carriers(c) :
       LET q == names[c][s]
           held == StatementsOf(c, x)
           prep == Prepare(held, q, "suppress")
       IN  IF q = NoQuery
           THEN Send(c, x, held, <<Message("bind", q, c)>>)
           ELSE Send(c, x, prep.st, Append(Preparation(c, q, prep), Message("bind", q, c)))
  /\ driver' = [driver EXCEPT ![c] = AsksExtended(@, "bound")]
  /\ UNCHANGED <<names, refs, pinned, dirty>>

\* Close of a portal is the client's own.
ClosePortal(c) ==
  /\ MayExtend(c, "portal")
  /\ \E x \in Carriers(c) :
       Send(c, x, NotePortalClose(StatementsOf(c, x)), <<Message("portal", NoQuery, c)>>)
  /\ driver' = [driver EXCEPT ![c] = AsksExtended(@, "closed")]
  /\ UNCHANGED <<names, refs, pinned, dirty>>

\* Mutant: a Sync is absorbed when no Parse is under way.
SyncUnlessPending(c) ==
  /\ MaySync(c)
  /\ \E x \in Carriers(c) :
       Send(c, x, StatementsOf(c, x),
            IF StatementsOf(c, x).parses = <<>> THEN <<>> ELSE <<Message("sync", NoQuery, c)>>)
  /\ driver' = [driver EXCEPT ![c] = AsksSync(@)]
  /\ UNCHANGED <<names, refs, pinned, dirty>>

Sync(c) ==
  /\ MaySync(c)
  /\ \E x \in Carriers(c) : Send(c, x, StatementsOf(c, x), <<Message("sync", NoQuery, c)>>)
  /\ driver' = [driver EXCEPT ![c] = AsksSync(@)]
  /\ UNCHANGED <<names, refs, pinned, dirty>>

\* In session mode a message needs the session's connection, though the
\* intercepts do not touch it.
Listening(c) == mode = "transaction" \/ conn[c] # NoConn

\* handle_close_intercept: a statement's Close never reaches the server.
CloseStatement(c, s) ==
  /\ MayInterject(c, "close") /\ Listening(c)
  /\ RemoveName(c, s)
  /\ driver' = [driver EXCEPT ![c] = Gets(AsksExtended(@, "closed"), "closed")]
  /\ UNCHANGED <<conn, pinned, linkVars, wireVars>>

\* handle_deallocate_intercept: nor does DEALLOCATE.
Deallocate(c) ==
  /\ MayInterject(c, "deallocate") /\ MayQuery(c, "deallocate") /\ Listening(c)
  /\ (\E s \in Names : RemoveName(c, s)) \/ ReleaseAll(c)
  /\ driver' = [driver EXCEPT ![c] = Gets(Gets(AsksSimple(@), "done"), "ready")]
  /\ UNCHANGED <<conn, pinned, linkVars, wireVars>>

Tracks == mode = "transaction"

\* Mutant: only the first message of a checkout is looked at.
DirtyAfterFirst(x, m) ==
  IF phase[x] = "idle" /\ m.kind = "set" THEN dirty[x] \cup m.arg ELSE dirty[x]

\* Mutant: the statements survive DISCARD ALL.
StatementsKept(s, m) == s

\* track_set_reset, before the server has seen the statement.
DirtyAfter(x, m) ==
  CASE ~Tracks -> dirty[x]
    [] Tracks /\ m.kind = "set" -> dirty[x] \cup m.arg
    [] Tracks /\ m.kind = "reset" -> dirty[x] \ m.arg
    [] Tracks /\ m.kind = "discard" -> {}
    [] OTHER -> dirty[x]

StatementsAfter(s, m) == IF Tracks /\ m.kind = "discard" THEN DiscardAll(s) ELSE s

\* LISTEN pins the session to its connection and UNLISTEN * frees it, before
\* the server has seen either.
PinnedAfter(c, m) ==
  CASE Tracks /\ m.kind = "listen" -> pinned \cup {c}
    [] Tracks /\ m.kind = "unlisten" /\ conn[c] # NoConn -> pinned \ {c}
    [] OTHER -> pinned

\* What a simple query may be: RESET of one setting or of all.
Query ==
  LET plain == {"work", "begin", "commit", "rollback", "discard", "listen", "unlisten"}
      ask(kinds, args) == [kind : kinds, arg : args]
  IN  ask(plain, {{}}) \cup ask({"set"}, {{v} : v \in Vars})
        \cup ask({"reset"}, {{v} : v \in Vars} \cup {Vars})

SimpleQuery(c, query) ==
  /\ MayQuery(c, query.kind)
  /\ \E x \in Carriers(c) :
       /\ Send(c, x, StatementsAfter(StatementsOf(c, x), query),
               <<Message(query.kind, query.arg, c)>>)
       /\ dirty' = [dirty EXCEPT ![x] = DirtyAfter(x, query)]
  /\ pinned' = PinnedAfter(c, query)
  /\ driver' = [driver EXCEPT ![c] = AsksSimple(@)]
  /\ UNCHANGED <<names, refs>>

\* The server reads a message and answers it.
Serve(x) ==
  /\ phase[x] \in {"lent", "resetting"}
  /\ toServer[x] # <<>>
  /\ LET m == Head(toServer[x])
     IN  \E o \in Outcomes(srv[x], m) :
           /\ srv' = [srv EXCEPT ![x] = o.srv]
           /\ toProxy' = [toProxy EXCEPT ![x] =
                @ \o [i \in DOMAIN o.replies |-> To(o.replies[i], m.from)]]
  /\ toServer' = [toServer EXCEPT ![x] = Tail(@)]
  /\ UNCHANGED <<storeVars, sessionVars, linkVars>>

-----------------------------------------------------------------------------
(* From the server to the client *)

\* Mutant: the reset waits for the answer of a query it has not sent.
CheckinSilent(x, seen) ==
  /\ phase' = [phase EXCEPT ![x] = "resetting"]
  /\ UNCHANGED <<toServer, dirty>>

\* checkin, and reset_connection up to its first wait.  The ROLLBACK hangs on
\* the status the pooler has seen last.
Checkin(x, seen) ==
  LET kind == IF seen = "idle" THEN "clean" ELSE "rollback and clean"
  IN  /\ phase' = [phase EXCEPT ![x] = "resetting"]
      /\ toServer' = [toServer EXCEPT ![x] = Append(@, Message(kind, dirty[x], NoSession))]
      /\ dirty' = [dirty EXCEPT ![x] = {}]

\* Mutant: the next connection inherits the cache.
DiscardKeepsCache(x) ==
  /\ phase' = [phase EXCEPT ![x] = "closed"]
  /\ lastTx' = [lastTx EXCEPT ![x] = "idle"]
  /\ dirty' = [dirty EXCEPT ![x] = {}]
  /\ toServer' = [toServer EXCEPT ![x] = <<>>]
  /\ toProxy' = [toProxy EXCEPT ![x] = <<>>]
  /\ srv' = [srv EXCEPT ![x] = NewServer]
  /\ UNCHANGED st

\* Discard of a connection: it is closed, with all that is on its wires.
Discard(x) ==
  /\ phase' = [phase EXCEPT ![x] = "closed"]
  /\ st' = [st EXCEPT ![x] = NoStatements]
  /\ lastTx' = [lastTx EXCEPT ![x] = "idle"]
  /\ dirty' = [dirty EXCEPT ![x] = {}]
  /\ toServer' = [toServer EXCEPT ![x] = <<>>]
  /\ toProxy' = [toProxy EXCEPT ![x] = <<>>]
  /\ srv' = [srv EXCEPT ![x] = NewServer]

\* What the driver makes of a reply.  An error the pooler caused is its blame.
Deliver(d, c, reply) ==
  IF reply.to # c THEN [d EXCEPT !.misordered = TRUE]
  ELSE [Gets(d, reply.kind) EXCEPT !.blamed = @ \/ reply.arg = "pooler"]

\* Mutant: LISTEN does not keep the connection.
ReleasesPinned(c, reply) ==
  reply.kind = "ready" /\ reply.arg = "idle" /\ mode = "transaction"

Releases(c, reply) ==
  reply.kind = "ready" /\ reply.arg = "idle" /\ mode = "transaction" /\ c \notin pinned

Suppressed(s, reply) ==
  \/ reply.kind = "parsed" /\ NextParseReply(s) = "suppress"
  \/ reply.kind = "closed" /\ NextCloseReply(s) = "suppress"

AfterReply(s, reply) ==
  CASE reply.kind = "parsed" -> AfterParseReply(s)
    [] reply.kind = "closed" -> AfterCloseReply(s)
    [] reply.kind = "error" -> RollBackAfterError(s)
    [] OTHER -> s

\* The proxy reads one reply of the session's connection.
Relay(c) ==
  LET x == conn[c]
      reply == Head(toProxy[x])
  IN  /\ x # NoConn /\ toProxy[x] # <<>>
      /\ toProxy' = [toProxy EXCEPT ![x] = Tail(@)]
      /\ st' = [st EXCEPT ![x] = AfterReply(@, reply)]
      /\ driver' = [driver EXCEPT ![c] = IF Suppressed(st[x], reply) THEN @ ELSE Deliver(@, c, reply)]
      /\ lastTx' = [lastTx EXCEPT ![x] = IF reply.kind = "ready" THEN reply.arg ELSE @]
      /\ IF Releases(c, reply)
         THEN Checkin(x, reply.arg) /\ conn' = [conn EXCEPT ![c] = NoConn]
         ELSE UNCHANGED <<phase, toServer, dirty, conn>>
      /\ UNCHANGED <<names, refs, pinned, srv>>

\* Mutant: the first reply of any kind ends the reset.
ResetReadsAny(x) ==
  /\ phase[x] = "resetting" /\ toProxy[x] # <<>>
  /\ toProxy' = [toProxy EXCEPT ![x] = Tail(@)]
  /\ phase' = [phase EXCEPT ![x] = "idle"]
  /\ lastTx' = [lastTx EXCEPT ![x] = "idle"]
  /\ UNCHANGED <<st, dirty, toServer, srv, storeVars, sessionVars>>

\* reset_connection reads one reply: the first "ready" or error decides.
ResetReads(x) ==
  LET reply == Head(toProxy[x])
  IN  /\ phase[x] = "resetting" /\ toProxy[x] # <<>>
      /\ IF reply.kind = "error" \/ (reply.kind = "ready" /\ reply.arg # "idle")
         THEN Discard(x)
         ELSE /\ toProxy' = [toProxy EXCEPT ![x] = Tail(@)]
              /\ phase' = [phase EXCEPT ![x] = IF reply.kind = "ready" THEN "idle" ELSE @]
              /\ lastTx' = [lastTx EXCEPT ![x] = IF reply.kind = "ready" THEN "idle" ELSE @]
              /\ UNCHANGED <<st, dirty, toServer, srv>>
      /\ UNCHANGED <<storeVars, sessionVars>>

-----------------------------------------------------------------------------
(* Sessions and connections come and go *)

\* A session that ends: PreparedGuard releases its names, the driver is gone.
EndSession(c) ==
  /\ ReleaseAll(c)
  /\ conn' = [conn EXCEPT ![c] = NoConn]
  /\ pinned' = pinned \ {c}
  /\ driver' = [driver EXCEPT ![c] = NewDriver]

\* The client terminates or disconnects: the connection goes back as it is.
Leave(c) ==
  /\ MayLeave(c)
  /\ EndSession(c)
  /\ IF conn[c] = NoConn
     THEN UNCHANGED <<linkVars, wireVars>>
     ELSE Checkin(conn[c], lastTx[conn[c]]) /\ UNCHANGED <<st, lastTx, toProxy, srv>>

\* A session of session mode takes its connection before its first message.
StartSession(c, x) ==
  /\ mode = "session" /\ conn[c] = NoConn /\ phase[x] = "idle"
  /\ Send(c, x, ResetPending(st[x]), <<>>)
  /\ UNCHANGED <<names, refs, pinned, driver, dirty>>

\* The server closes the connection: the session on it fails, and the reset.
Break(x) ==
  /\ "break" \in Events /\ phase[x] \in {"lent", "resetting"}
  /\ Discard(x)
  /\ \/ \E c \in Sessions : conn[c] = x /\ EndSession(c)
     \/ phase[x] = "resetting" /\ UNCHANGED <<storeVars, sessionVars>>

\* connect_tcp: the pool opens a connection.
Open(x) ==
  /\ phase[x] = "closed"
  /\ phase' = [phase EXCEPT ![x] = "idle"]
  /\ UNCHANGED <<storeVars, sessionVars, st, lastTx, dirty, wireVars>>

Ask(c) ==
  \/ \E s \in Names : \/ \E q \in Queries : Parse(c, s, q)
                      \/ Bind(c, s)
                      \/ CloseStatement(c, s)
  \/ ClosePortal(c)
  \/ Sync(c)
  \/ Deallocate(c)
  \/ \E query \in Query : SimpleQuery(c, query)

Next ==
  /\ \/ \E c \in Sessions : Ask(c) \/ Relay(c) \/ Leave(c)
     \/ \E c \in Sessions, x \in Conns : StartSession(c, x)
     \/ \E x \in Conns : Serve(x) \/ ResetReads(x) \/ Break(x) \/ Open(x)
  /\ UNCHANGED mode

\* The proxy and the reset read what has come, a server answers what it reads.
\* Clients need not ask, and nothing need break.
Fairness ==
  /\ \A c \in Sessions : WF_vars(Relay(c) /\ UNCHANGED mode)
  /\ \A x \in Conns : /\ WF_vars(Serve(x) /\ UNCHANGED mode)
                      /\ WF_vars(ResetReads(x) /\ UNCHANGED mode)

Spec == Init /\ [][Next]_vars
FairSpec == Spec /\ Fairness

-----------------------------------------------------------------------------
(* Properties *)

\* Type invariant.
TypeOK ==
  /\ StoreTypeOK
  /\ mode \in PoolModes
  /\ conn \in [Sessions -> Conns \cup {NoConn}]
  /\ pinned \subseteq Sessions
  /\ phase \in [Conns -> {"closed", "idle", "lent", "resetting"}]
  /\ \A x \in Conns :
       /\ DOMAIN st[x] = {"cache", "parses", "closes"}
       /\ Cached(st[x]) \subseteq Queries
       /\ Range(st[x].closes) \subseteq Disposition
       /\ lastTx[x] \in Tx /\ dirty[x] \subseteq Vars
       /\ srv[x].stmts \subseteq Queries /\ srv[x].vars \subseteq Vars
  /\ \A c \in Sessions : /\ driver[c].batch \in {"closed", "open", "aborted"}
                         /\ driver[c].misordered \in BOOLEAN /\ driver[c].blamed \in BOOLEAN

\* The filtering of replies (next_parse_reply, next_close_reply, the synthetic
\* answers) leaves every client with exactly the replies its own messages call
\* for, in the order it sent them, across re-prepares, evictions, errors,
\* shared connections and clients that come and go.
InOrder == \A c \in Sessions : ~driver[c].misordered

\* No client sees an error that the renaming, the sharing of statements or the
\* cache is the cause of: "already exists" for a Parse, "does not exist" for a
\* Bind whose name the client has registered.
NoPoolerError == \A c \in Sessions : ~driver[c].blamed

\* A connection that waits to be lent owes nothing to anybody: nothing is on
\* its wires, and the server is outside a transaction and listens.
IdleIsQuiet ==
  \A x \in Conns : phase[x] = "idle" =>
    /\ toServer[x] = <<>> /\ toProxy[x] = <<>>
    /\ srv[x].tx = "idle" /\ ~srv[x].skip

\* The cache of a connection that waits to be lent is what its server holds.
CacheMatches ==
  \A x \in Conns : phase[x] = "idle" =>
    /\ Cached(st[x]) = srv[x].stmts
    /\ MaxPrepared > 0 => Cardinality(srv[x].stmts) <= MaxPrepared

\* No setting of an earlier client is on a connection that waits to be lent.
IdleIsClean == \A x \in Conns : phase[x] = "idle" => srv[x].vars = {}

\* One session at most is served by a connection, and it is lent.
OneSession ==
  \A c \in Sessions : conn[c] # NoConn =>
    /\ phase[conn[c]] = "lent"
    /\ \A d \in Sessions \ {c} : conn[d] # conn[c]

\* LISTEN keeps the session on its connection until UNLISTEN * or its end, over
\* every ReadyForQuery that would have released it.
PinKeepsConnection ==
  [][\A c \in Sessions : c \in pinned /\ c \in pinned' => conn'[c] = conn[c]]_vars

\* A client that has closed its batch gets its ReadyForQuery.
Answered == \A c \in Sessions : Overlaps(c) ~> ~Overlaps(c)

\* Every reset ends.
ResetEnds == \A x \in Conns : (phase[x] = "resetting") ~> (phase[x] # "resetting")
=============================================================================
