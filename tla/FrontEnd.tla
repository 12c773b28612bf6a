------------------------------ MODULE FrontEnd ------------------------------
(***************************************************************************)
(* Clients from accept to close: main.rs, proxy/frontend.rs, auth/mod.rs   *)
(* and the registry of clients/mod.rs.  Every client has one task, which   *)
(* the main loop spawns and a shutdown drains or aborts.  The pool is only *)
(* a set of connections here, and a transaction one step to begin and one  *)
(* to end: they are Pool's and Proxy's subjects.                           *)
(*                                                                         *)
(* A step is what a task does between two waits; the registry is locked    *)
(* once for each field such a step changes.                                *)
(***************************************************************************)
EXTENDS Verifiers

CONSTANTS
  Conns, NoConn,
  Configs,  \* configurations: the pool's mode, and whether the user is in it
  Backlog   \* accepted sockets that wait for the main loop

Config == [mode : {"transaction", "session"}, allowed : BOOLEAN]

ASSUME FrontEndAssumption ==
  NoConn \notin Conns /\ Configs \subseteq Config /\ Backlog \in Nat \ {0}

VARIABLES
  phase,     \* main: "running", "draining" or "stopped"
  config,    \* the live configuration
  task,      \* where each client's task is
  snapshot,  \* the configuration its session was accepted under
  conn,      \* the server connection it holds
  greeted,   \* whether its setup is over
  entry      \* ClientRegistry.entries: its state, or "none"

mainVars == <<phase, config>>
clientVars == <<task, snapshot, conn, greeted, entry>>
vars == <<mainVars, clientVars, verifierVars>>

\* Where a spawned task can be.  It checks a connection out once in its setup, and
\* in transaction mode again for every transaction.
Spawned ==
  {"negotiating", "fetching", "proving", "checkout", "waiting", "connecting", "greeting",
   "idle", "busy", "session"}

States == {"negotiating", "authenticating", "idle", "in_transaction", "waiting"}

Init ==
  /\ VerifierInit
  /\ phase = "running"
  /\ config \in Configs
  /\ task = [c \in Clients |-> "out"]
  /\ snapshot = [c \in Clients |-> config]
  /\ conn = [c \in Clients |-> NoConn]
  /\ greeted = [c \in Clients |-> FALSE]
  /\ entry = [c \in Clients |-> "none"]

In(stage) == {c \in Clients : task[c] = stage}
Unused == Conns \ {conn[c] : c \in Clients}

\* The tasks in gone end: their guards give the connections back and remove the
\* registry's entries.
End(gone) ==
  /\ task' = [c \in Clients |-> IF c \in gone THEN "out" ELSE task[c]]
  /\ conn' = [c \in Clients |-> IF c \in gone THEN NoConn ELSE conn[c]]
  /\ greeted' = [c \in Clients |-> greeted[c] /\ c \notin gone]
  /\ entry' = [c \in Clients |-> IF c \in gone THEN "none" ELSE entry[c]]
  /\ snapshot' = [c \in Clients |-> IF c \in gone THEN config ELSE snapshot[c]]
  /\ Abandon(gone)

\* A task goes on, shown as state s.
Goes(c, stage, s) ==
  /\ task' = [task EXCEPT ![c] = stage]
  /\ entry' = [entry EXCEPT ![c] = s]
  /\ UNCHANGED snapshot

-----------------------------------------------------------------------------
(* The main loop *)

\* An accept task passes a socket on.  Nothing stops it before the process ends.
Accept(c) ==
  /\ phase # "stopped" /\ task[c] = "out"
  /\ Cardinality(In("accepted")) < Backlog
  /\ task' = [task EXCEPT ![c] = "accepted"]
  /\ UNCHANGED <<mainVars, snapshot, conn, greeted, entry, verifierVars>>

\* The main loop spawns the client's task, with the configuration of the moment.
Spawn(c) ==
  /\ phase = "running" /\ task[c] = "accepted"
  /\ task' = [task EXCEPT ![c] = "negotiating"]
  /\ snapshot' = [snapshot EXCEPT ![c] = config]
  /\ entry' = [entry EXCEPT ![c] = "negotiating"]
  /\ UNCHANGED <<mainVars, conn, greeted, verifierVars>>

\* SIGHUP, when the reload succeeds; see TopologyRefresh for the rest of it.
Reload ==
  /\ phase = "running"
  /\ config' \in Configs \ {config}
  /\ UNCHANGED <<phase, clientVars, verifierVars>>

\* SIGTERM or SIGINT: pools.shutdown() ends every wait.
Terminate ==
  /\ phase = "running"
  /\ phase' = "draining"
  /\ End(In("waiting"))
  /\ UNCHANGED config

\* The drain ends when no task is left, or at its deadline with abort_all; then
\* the process does, and takes the sockets no task was spawned for with it.
Stop ==
  /\ phase = "draining"
  /\ phase' = "stopped"
  /\ End(Clients)
  /\ UNCHANGED config

-----------------------------------------------------------------------------
(* Startup and authentication *)

\* The client goes, or breaks the protocol; so does one that asks for a cancel,
\* once it has been passed to every node.
Leave(c) ==
  /\ task[c] \in Spawned
  /\ End({c})
  /\ UNCHANGED mainVars

\* The startup message: an unknown database, a cluster without a primary, or a
\* user that is not in the pool ends the session.
Startup(c) ==
  /\ task[c] = "negotiating"
  /\ \/ snapshot[c].allowed /\ Goes(c, "fetching", "authenticating")
        /\ UNCHANGED <<conn, greeted, verifierVars>>
     \/ End({c})
  /\ UNCHANGED mainVars

\* VerifierCache::get.
Look(c) ==
  /\ task[c] = "fetching"
  /\ \/ Hit(c) /\ Goes(c, "proving", entry[c])
     \/ BeginFetch(c) /\ UNCHANGED <<task, snapshot, entry>>
  /\ UNCHANGED <<mainVars, conn, greeted>>

\* The upstream side of a fetch.
Fetching ==
  \/ ReadVerifier /\ UNCHANGED <<mainVars, clientVars>>
  \/ /\ Store(In("fetching"))
     /\ task' = [c \in Clients |-> IF task[c] = "fetching" THEN "proving" ELSE task[c]]
     /\ UNCHANGED <<mainVars, snapshot, conn, greeted, entry>>

\* A fetch that fails fails everybody who waits for it.
FetchFails ==
  /\ fetch # NoFetch
  /\ End(In("fetching"))
  /\ UNCHANGED mainVars

\* Mutant: no limit on the fetch.
TimesOutNever(c) == FALSE

\* timeout(connect_timeout, cache.get(..)).
TimesOut(c) ==
  /\ task[c] = "fetching" /\ waited[c] = Timeout
  /\ End({c})
  /\ UNCHANGED mainVars

\* scram::server::authenticate: the client proves that it knows password p.
Prove(c, p) ==
  /\ task[c] = "proving" /\ p <= password
  /\ IF p = verifier[c]
     THEN /\ Goes(c, "checkout", entry[c])
          /\ verifier' = [verifier EXCEPT ![c] = NoPassword]
          /\ UNCHANGED <<conn, greeted, cached, fetch, waited, password, old>>
     ELSE End({c})
  /\ UNCHANGED mainVars

-----------------------------------------------------------------------------
(* Checkouts and transactions *)

\* A connection is claimed, found idle or to be opened; without one the task joins
\* the queue.  Who the pool serves is looked up in the live configuration.
Checkout(c) ==
  /\ task[c] = "checkout"
  /\ \/ /\ config.allowed
        /\ \/ \E x \in Unused :
                /\ conn' = [conn EXCEPT ![c] = x]
                /\ Goes(c, "connecting", entry[c])
           \/ /\ Unused = {}
              /\ Goes(c, "waiting", "waiting")
              /\ UNCHANGED conn
        /\ UNCHANGED <<greeted, verifierVars>>
     \/ ~config.allowed /\ End({c})
  /\ UNCHANGED mainVars

\* A freed connection wakes one that waits; it looks again, but not in a shutdown.
Wake(c) ==
  /\ task[c] = "waiting" /\ Unused # {}
  /\ IF phase = "running"
     THEN Goes(c, "checkout", "idle") /\ UNCHANGED <<conn, greeted, verifierVars>>
     ELSE End({c})
  /\ UNCHANGED mainVars

\* checkout_timeout, counted from the first attempt.
GiveUp(c) ==
  /\ task[c] = "waiting"
  /\ End({c})
  /\ UNCHANGED mainVars

\* Mutant: a transaction that begins is not shown.
ConnectedSilent(c) ==
  /\ task[c] = "connecting"
  /\ \/ /\ Goes(c, IF greeted[c] THEN "busy" ELSE "greeting", entry[c])
        /\ UNCHANGED <<conn, greeted, verifierVars>>
     \/ End({c})
  /\ UNCHANGED mainVars

\* The connection is there, or cannot be opened.
Connected(c) ==
  /\ task[c] = "connecting"
  /\ \/ /\ IF greeted[c] THEN Goes(c, "busy", "in_transaction") ELSE Goes(c, "greeting", entry[c])
        /\ UNCHANGED <<conn, greeted, verifierVars>>
     \/ End({c})
  /\ UNCHANGED mainVars

\* send_post_auth_startup, and on to the mode the session was accepted under: in
\* transaction mode the connection goes back.
Greet(c) ==
  /\ task[c] = "greeting"
  /\ greeted' = [greeted EXCEPT ![c] = TRUE]
  /\ IF snapshot[c].mode = "session"
     THEN Goes(c, "session", "in_transaction") /\ UNCHANGED conn
     ELSE Goes(c, "idle", "idle") /\ conn' = [conn EXCEPT ![c] = NoConn]
  /\ UNCHANGED <<mainVars, verifierVars>>

\* The client's first message, and the end of its transaction.
Begin(c) ==
  /\ task[c] = "idle"
  /\ Goes(c, "checkout", entry[c])
  /\ UNCHANGED <<mainVars, conn, greeted, verifierVars>>

Finish(c) ==
  /\ task[c] = "busy"
  /\ conn' = [conn EXCEPT ![c] = NoConn]
  /\ Goes(c, "idle", "idle")
  /\ UNCHANGED <<mainVars, greeted, verifierVars>>

-----------------------------------------------------------------------------

\* What c's task does when it has not to wait for its client.
Own(c) ==
  Look(c) \/ TimesOut(c) \/ Checkout(c) \/ Wake(c) \/ GiveUp(c) \/ Connected(c) \/ Greet(c)

Time == Tick(In("fetching")) /\ UNCHANGED <<mainVars, clientVars>>
Changed == ChangePassword /\ UNCHANGED <<mainVars, clientVars>>

Next ==
  \/ \E c \in Clients :
       \/ Accept(c) \/ Spawn(c) \/ Leave(c) \/ Startup(c) \/ Own(c)
       \/ \E p \in Passwords : Prove(c, p)
       \/ Begin(c) \/ Finish(c)
  \/ Reload \/ Terminate \/ Stop \/ Fetching \/ FetchFails \/ Time \/ Changed

\* Ready tasks are polled, time passes, and the drain has a deadline.  A client that
\* is woken and loses the connection to another queues again with what is left of its
\* timeout.  A server that is connected to answers the startup, which no timeout
\* bounds; nothing is assumed of clients or of the server that auth_query asks.
Spec ==
  /\ Init /\ [][Next]_vars
  /\ \A c \in Clients : WF_vars(Spawn(c)) /\ WF_vars(Own(c)) /\ SF_vars(GiveUp(c))
  /\ WF_vars(Time) /\ WF_vars(Stop)

-----------------------------------------------------------------------------

TypeOK ==
  /\ VerifierTypeOK
  /\ phase \in {"running", "draining", "stopped"} /\ config \in Configs
  /\ task \in [Clients -> Spawned \cup {"out", "accepted"}]
  /\ snapshot \in [Clients -> Configs]
  /\ conn \in [Clients -> Conns \cup {NoConn}] /\ greeted \in [Clients -> BOOLEAN]
  /\ entry \in [Clients -> States \cup {"none"}]

\* The registry lists the clients that have a task, as what they are: waiting
\* while they queue for a connection, in a transaction while they hold one for
\* their client, whatever way a wait or a session ends.
RegistryTrue ==
  \A c \in Clients :
    /\ entry[c] # "none" <=> task[c] \in Spawned
    /\ entry[c] = "waiting" <=> task[c] = "waiting"
    /\ entry[c] = "in_transaction" <=> task[c] \in {"busy", "session"}

\* The pooler has to act: on an accepted socket, in a setup that does not wait for
\* the client, in a checkout, or because it shuts down.
Owes(c) ==
  \/ task[c] \in {"accepted", "fetching", "checkout", "waiting", "connecting", "greeting"}
  \/ phase = "draining" /\ task[c] # "out"

\* No client waits for the pooler for ever: a fetch that hangs, an owner of a
\* shared fetch that goes, an empty pool and a shutdown all let go of it.
NobodyHangs == \A c \in Clients : Owes(c) ~> ~Owes(c)
=============================================================================
