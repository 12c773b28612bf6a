------------------------------ MODULE Listener ------------------------------
(***************************************************************************)
(* Multiplexed LISTEN/NOTIFY of one (database, user): ListenerManager and  *)
(* the background tasks it spawns, crates/halephant-core/src/listener.     *)
(*                                                                         *)
(* The manager's entry for the key, `current`, is replaced only when the   *)
(* task behind it has given up.  A client keeps the pool it subscribed to  *)
(* for its whole session, so several ListenerPools of the key may exist;   *)
(* one that no client and no task uses is free to be made anew.  The       *)
(* actors are the client tasks, one listener task per pool, and the        *)
(* server, which runs one command at a time and may send notifications at  *)
(* any moment.                                                             *)
(***************************************************************************)
EXTENDS Naturals, Sequences, FiniteSets

CONSTANTS
  Clients, Channels,
  Pools,         \* ListenerPools, of which at most one is not given up
  NoPool,
  MaxFailures,   \* MAX_CONSECUTIVE_FAILURES
  MaxQueue,      \* bound on the commands queued (the channel is unbounded)
  MaxWire,       \* bound on the notifications in flight from the server
  Capacity,      \* capacity of the broadcast channel
  Slow           \* a connect, or restoring the channels, may take over 5 s

ASSUME ListenerAssumption ==
  /\ NoPool \notin Pools
  /\ MaxFailures \in Nat \ {0}
  /\ MaxQueue \in Nat /\ MaxWire \in Nat /\ Capacity \in Nat \ {0}
  /\ Slow \in BOOLEAN

Cmd == [op : {"listen", "unlisten"}, channel : Channels]
NoCmd == [op |-> "none"]
Listens(ch) == [op |-> "listen", channel |-> ch]
Unlistens(ch) == [op |-> "unlisten", channel |-> ch]

\* What the server sends: a notification, ReadyForQuery, or an error.
Note == [kind : {"note"}, channel : Channels]
Ready == [kind |-> "ready"]
Rejected == [kind |-> "error"]

\* Where a listener task is: not spawned; about to try (also while it sleeps
\* between tries); connecting; sending the LISTENs of a new connection, and
\* waiting for the reply to one; in its main loop, and waiting for the reply to
\* a command; returned.
Draining == {"awaiting", "draining"}
Restored == {"listening", "draining"}
Connected == {"restoring", "awaiting"} \cup Restored
Stage == {"none", "start", "connecting", "gone"} \cup Connected

VARIABLES
  current,   \* ListenerManager.pools: the entry's pool, or NoPool
  at,        \* ClientNotifications.pool of each client, or NoPool
  channels,  \* ClientNotifications.channels
  inbox,     \* ClientNotifications.rx: notifications broadcast and not read
  lagged,    \* the broadcast channel has overrun this receiver
  refs,      \* ListenerPool.refs of each pool; 0 stands for an absent key
  queue,     \* the commands between cmd_tx and cmd_rx
  stage,     \* program counter of each pool's task
  failures,  \* consecutive_failures
  todo,      \* channels_to_restore not sent yet
  sent,      \* the command the server has still to run
  subs,      \* (server) channels the connection is subscribed to
  wire,      \* (server) messages it has sent and the task has not read
  heard      \* (history) channels with nothing sent since c last heard them

clientVars == <<at, channels>>
taskVars == <<stage, failures, todo>>
serverVars == <<sent, subs, wire>>
noteVars == <<inbox, lagged, heard>>
vars == <<current, clientVars, refs, queue, taskVars, serverVars, noteVars>>

TypeOK ==
  /\ current \in Pools \cup {NoPool}
  /\ at \in [Clients -> Pools \cup {NoPool}]
  /\ channels \in [Clients -> SUBSET Channels]
  /\ inbox \in [Clients -> Seq(Channels)]
  /\ lagged \in [Clients -> BOOLEAN]
  /\ refs \in [Pools -> [Channels -> Nat]]
  /\ queue \in [Pools -> Seq(Cmd)]
  /\ stage \in [Pools -> Stage]
  /\ failures \in [Pools -> Nat]
  /\ todo \in [Pools -> SUBSET Channels]
  /\ sent \in [Pools -> Cmd \cup {NoCmd}]
  /\ subs \in [Pools -> SUBSET Channels]
  /\ wire \in [Pools -> Seq(Note \cup {Ready, Rejected})]
  /\ heard \in [Clients -> SUBSET Channels]

Init ==
  /\ current = NoPool
  /\ at = [c \in Clients |-> NoPool]
  /\ channels = [c \in Clients |-> {}]
  /\ inbox = [c \in Clients |-> <<>>]
  /\ lagged = [c \in Clients |-> FALSE]
  /\ refs = [p \in Pools |-> [ch \in Channels |-> 0]]
  /\ queue = [p \in Pools |-> <<>>]
  /\ stage = [p \in Pools |-> "none"]
  /\ failures = [p \in Pools |-> 0]
  /\ todo = [p \in Pools |-> {}]
  /\ sent = [p \in Pools |-> NoCmd]
  /\ subs = [p \in Pools |-> {}]
  /\ wire = [p \in Pools |-> <<>>]
  /\ heard = [c \in Clients |-> {}]

Referenced(p) == {ch \in Channels : refs[p][ch] > 0}

-----------------------------------------------------------------------------
(* Clients                                                                 *)

Closed(p) == stage[p] = "gone"

\* Mutant: the entry is never looked up.
HasTaskNever(p) == FALSE

HasTask(p) == p \in Pools /\ stage[p] # "gone"

\* ListenerManager::subscribe: the entry, or a new pool and task when there is
\* none or its task has returned.
Subscribe(c) ==
  /\ at[c] = NoPool
  /\ \/ /\ HasTask(current)
        /\ at' = [at EXCEPT ![c] = current]
        /\ UNCHANGED <<current, stage, failures>>
     \/ /\ ~HasTask(current)
        /\ \E p \in Pools :
             /\ \A d \in Clients : at[d] # p
             /\ current' = p
             /\ at' = [at EXCEPT ![c] = p]
             /\ stage' = [stage EXCEPT ![p] = "start"]
             /\ failures' = [failures EXCEPT ![p] = 0]
  /\ inbox' = [inbox EXCEPT ![c] = <<>>]
  /\ lagged' = [lagged EXCEPT ![c] = FALSE]
  /\ heard' = [heard EXCEPT ![c] = {}]
  /\ UNCHANGED <<channels, refs, queue, todo, serverVars>>

\* cmd_tx.send: lost when the receiver is gone, else queued.
Send(p, cmd) ==
  IF Closed(p) THEN queue' = queue
  ELSE /\ Len(queue[p]) < MaxQueue
       /\ queue' = [queue EXCEPT ![p] = Append(@, cmd)]

\* Mutant: every reference but the first sends LISTEN.
AddRefLate(p, ch) ==
  /\ refs' = [refs EXCEPT ![p][ch] = @ + 1]
  /\ IF refs[p][ch] # 0 THEN Send(p, Listens(ch)) ELSE queue' = queue

\* The first reference to a channel sends LISTEN, under the lock of refs.
AddRef(p, ch) ==
  /\ refs' = [refs EXCEPT ![p][ch] = @ + 1]
  /\ IF refs[p][ch] = 0 THEN Send(p, Listens(ch)) ELSE queue' = queue

\* The last one sends UNLISTEN.
RemoveRef(p, ch) ==
  IF refs[p][ch] = 0 THEN UNCHANGED <<refs, queue>>
  ELSE /\ refs' = [refs EXCEPT ![p][ch] = @ - 1]
       /\ IF refs[p][ch] = 1 THEN Send(p, Unlistens(ch)) ELSE queue' = queue

\* A LISTEN the proxy intercepts, answered at once.
Listen(c, ch) ==
  /\ at[c] # NoPool
  /\ ch \notin channels[c]
  /\ channels' = [channels EXCEPT ![c] = @ \cup {ch}]
  /\ AddRef(at[c], ch)
  /\ UNCHANGED <<current, at, taskVars, serverVars, noteVars>>

\* An UNLISTEN, or one round of unlisten_all.
Unlisten(c, ch) ==
  /\ at[c] # NoPool
  /\ ch \in channels[c]
  /\ channels' = [channels EXCEPT ![c] = @ \ {ch}]
  /\ RemoveRef(at[c], ch)
  /\ UNCHANGED <<current, at, taskVars, serverVars, noteVars>>

\* The end of ClientNotifications::drop, once every channel has been removed.
Leave(c) ==
  /\ at[c] # NoPool
  /\ channels[c] = {}
  /\ at' = [at EXCEPT ![c] = NoPool]
  /\ UNCHANGED <<current, channels, refs, queue, taskVars, serverVars, noteVars>>

\* ClientNotifications::recv: skip what this client does not listen to.
Recv(c) ==
  /\ at[c] # NoPool
  /\ inbox[c] # <<>>
  /\ inbox' = [inbox EXCEPT ![c] = Tail(@)]
  /\ lagged' = [lagged EXCEPT ![c] = FALSE]
  /\ heard' = [heard EXCEPT
       ![c] = IF Head(inbox[c]) \in channels[c] THEN @ \cup {Head(inbox[c])} ELSE @]
  /\ UNCHANGED <<current, clientVars, refs, queue, taskVars, serverVars>>

-----------------------------------------------------------------------------
(* The listener task                                                       *)

\* The end of an iteration of listener_task that failed.  `lasted`: the
\* attempt took more than five seconds, so the count starts again.
Failed(p, count, lasted) ==
  LET n == IF lasted THEN 0 ELSE count
  IN /\ failures' = [failures EXCEPT ![p] = n]
     /\ IF n >= MaxFailures
        THEN /\ stage' = [stage EXCEPT ![p] = "gone"]
             /\ queue' = [queue EXCEPT ![p] = <<>>]
        ELSE /\ stage' = [stage EXCEPT ![p] = "start"]
             /\ queue' = queue
     /\ todo' = [todo EXCEPT ![p] = {}]
     /\ sent' = [sent EXCEPT ![p] = NoCmd]
     /\ subs' = [subs EXCEPT ![p] = {}]
     /\ wire' = [wire EXCEPT ![p] = <<>>]
     /\ UNCHANGED <<current, clientVars, refs, noteVars>>

\* An iteration finds the pool's cluster and its primary, or fails at once.
Attempt(p) ==
  /\ stage[p] = "start"
  /\ \/ /\ failures' = [failures EXCEPT ![p] = @ + 1]
        /\ stage' = [stage EXCEPT ![p] = "connecting"]
        /\ UNCHANGED <<current, clientVars, refs, queue, todo,
                       serverVars, noteVars>>
     \/ Failed(p, failures[p] + 1, FALSE)

ConnectFail(p) ==
  /\ stage[p] = "connecting"
  /\ \E lasted \in {FALSE, Slow} : Failed(p, failures[p], lasted)

\* Mutant: a new connection starts with no channels.
ConnectOkBare(p) ==
  /\ stage[p] = "connecting"
  /\ todo' = todo
  /\ stage' = [stage EXCEPT ![p] = "listening"]
  /\ UNCHANGED <<current, clientVars, refs, queue, failures, serverVars, noteVars>>

\* connect_server returns; the channels to restore are read under the lock.
ConnectOk(p) ==
  /\ stage[p] = "connecting"
  /\ todo' = [todo EXCEPT ![p] = Referenced(p)]
  /\ stage' = [stage EXCEPT ![p] = IF Referenced(p) = {} THEN "listening"
                                   ELSE "restoring"]
  /\ UNCHANGED <<current, clientVars, refs, queue, failures, serverVars, noteVars>>

\* One round of the loop that subscribes a new connection.
Restore(p) ==
  /\ stage[p] = "restoring"
  /\ \E ch \in todo[p] :
       /\ todo' = [todo EXCEPT ![p] = @ \ {ch}]
       /\ sent' = [sent EXCEPT ![p] = Listens(ch)]
  /\ stage' = [stage EXCEPT ![p] = "awaiting"]
  /\ UNCHANGED <<current, clientVars, refs, queue, failures, subs, wire,
                 noteVars>>

\* The main loop takes a command.
TakeCommand(p) ==
  /\ stage[p] = "listening"
  /\ queue[p] # <<>>
  /\ sent' = [sent EXCEPT ![p] = Head(queue[p])]
  /\ queue' = [queue EXCEPT ![p] = Tail(@)]
  /\ stage' = [stage EXCEPT ![p] = "draining"]
  /\ UNCHANGED <<current, clientVars, refs, failures, todo, subs, wire,
                 noteVars>>

\* broadcast::Sender::send: every receiver of the pool gets it; one that has
\* Capacity unread loses its oldest.
Broadcast(p, ch) ==
  LET to == {c \in Clients : at[c] = p}
      full == {c \in to : Len(inbox[c]) >= Capacity}
  IN /\ inbox' = [c \in Clients |->
           IF c \in full THEN Append(Tail(inbox[c]), ch)
           ELSE IF c \in to THEN Append(inbox[c], ch) ELSE inbox[c]]
     /\ lagged' = [c \in Clients |-> lagged[c] \/ c \in full]

\* Mutant: what comes before a ReadyForQuery is not relayed.
RelayIdle(p) ==
  /\ wire[p] # <<>>
  /\ Head(wire[p]).kind = "note"
  /\ stage[p] \in Draining \/ (stage[p] = "listening" /\ queue[p] = <<>>)
  /\ IF stage[p] \in Draining THEN UNCHANGED <<inbox, lagged>>
     ELSE Broadcast(p, Head(wire[p]).channel)
  /\ wire' = [wire EXCEPT ![p] = Tail(@)]
  /\ UNCHANGED <<current, clientVars, refs, queue, taskVars, sent, subs, heard>>

\* A notification is read, by the main loop when no command is queued (the
\* select is biased) or by drain_response.
Relay(p) ==
  /\ wire[p] # <<>>
  /\ Head(wire[p]).kind = "note"
  /\ stage[p] \in Draining \/ (stage[p] = "listening" /\ queue[p] = <<>>)
  /\ Broadcast(p, Head(wire[p]).channel)
  /\ wire' = [wire EXCEPT ![p] = Tail(@)]
  /\ UNCHANGED <<current, clientVars, refs, queue, taskVars, sent, subs, heard>>

\* drain_response reaches ReadyForQuery.
Drained(p) ==
  /\ stage[p] \in Draining
  /\ wire[p] # <<>>
  /\ Head(wire[p]) = Ready
  /\ wire' = [wire EXCEPT ![p] = Tail(@)]
  /\ stage' = [stage EXCEPT ![p] = IF todo[p] = {} THEN "listening"
                                   ELSE "restoring"]
  /\ UNCHANGED <<current, clientVars, refs, queue, failures, todo, sent,
                 subs, noteVars>>

\* drain_response reads an error; run_listener returns it.
DrainError(p) ==
  /\ stage[p] \in Draining
  /\ wire[p] # <<>>
  /\ Head(wire[p]) = Rejected
  /\ \E lasted \in {FALSE, stage[p] \in Restored \/ Slow} : Failed(p, failures[p], lasted)

\* The connection breaks; a write or a read of the task reports it.
Break(p) ==
  /\ stage[p] \in Connected
  /\ \E lasted \in {FALSE, stage[p] \in Restored \/ Slow} :
       Failed(p, failures[p], lasted)

-----------------------------------------------------------------------------
(* The server                                                              *)

\* It runs the command, or rejects it (a demoted primary refuses LISTEN).
Serve(p) ==
  /\ sent[p] # NoCmd
  /\ sent' = [sent EXCEPT ![p] = NoCmd]
  /\ \/ /\ subs' = [subs EXCEPT ![p] = IF sent[p].op = "listen"
                                       THEN @ \cup {sent[p].channel}
                                       ELSE @ \ {sent[p].channel}]
        /\ wire' = [wire EXCEPT ![p] = Append(@, Ready)]
     \/ /\ subs' = subs
        /\ wire' = [wire EXCEPT ![p] = Append(@, Rejected)]
  /\ UNCHANGED <<current, clientVars, refs, queue, taskVars, noteVars>>

\* Someone notifies a channel this connection is subscribed to.
Notify(p, ch) ==
  /\ ch \in subs[p]
  /\ Len(wire[p]) < MaxWire
  /\ wire' = [wire EXCEPT ![p] = Append(@, [kind |-> "note", channel |-> ch])]
  /\ heard' = [c \in Clients |-> IF at[c] = p THEN heard[c] \ {ch} ELSE heard[c]]
  /\ UNCHANGED <<current, clientVars, refs, queue, taskVars, sent, subs, inbox,
                 lagged>>

-----------------------------------------------------------------------------

ClientStep(c) ==
  \/ Subscribe(c) \/ Leave(c) \/ Recv(c)
  \/ \E ch \in Channels : Listen(c, ch) \/ Unlisten(c, ch)

TaskStep(p) ==
  \/ Attempt(p) \/ ConnectOk(p) \/ ConnectFail(p) \/ Restore(p)
  \/ TakeCommand(p) \/ Relay(p) \/ Drained(p) \/ DrainError(p)

Next ==
  \/ \E c \in Clients : ClientStep(c)
  \/ \E p \in Pools :
       \/ TaskStep(p) \/ Break(p) \/ Serve(p)
       \/ \E ch \in Channels : Notify(p, ch)

Spec == Init /\ [][Next]_vars

\* The runtime polls a task that can go on, connect_server returns within its
\* timeouts, the server answers, and a client reads its notifications.
FairSpec ==
  /\ Spec
  /\ \A p \in Pools : WF_vars(TaskStep(p)) /\ WF_vars(Serve(p))
  /\ \A c \in Clients : WF_vars(Recv(c))

-----------------------------------------------------------------------------
(* Properties                                                              *)

\* A pool's reference counts are the number of its clients that listen to each
\* channel, after any sequence of LISTEN, UNLISTEN and disconnects.
RefsMatchClients ==
  \A p \in Pools, ch \in Channels :
    refs[p][ch] = Cardinality({c \in Clients : at[c] = p /\ ch \in channels[c]})

\* Whatever order the restored channels, the commands queued before a reconnect
\* and the new ones are worked off in, once they are the server is subscribed to
\* exactly the channels that are referenced: comment at listener/mod.rs:51-58.
SettledMatches ==
  \A p \in Pools :
    stage[p] = "listening" /\ queue[p] = <<>> => subs[p] = Referenced(p)

\* There is one shared listener connection per (database, user): a pool that
\* has been replaced has no task and no connection.
OneListener ==
  \A p \in Pools : p # current => stage[p] \in {"none", "gone"} /\ subs[p] = {}

Listening(c, ch) == at[c] # NoPool /\ ch \in channels[c]

\* A channel a client listens to is subscribed on the server in the end, across
\* reconnects, unless the client stops or the task gives up.
ListenTakesEffect ==
  \A c \in Clients, ch \in Channels :
    Listening(c, ch) ~>
      (~Listening(c, ch) \/ Closed(at[c]) \/ ch \in subs[at[c]])

\* A notification the server has sent reaches every client that listens to its
\* channel, however busy the command queue, unless the connection breaks first
\* or the client lags or stops listening.
NoticeReaches ==
  \A c \in Clients, ch \in Channels :
    (Listening(c, ch) /\ [kind |-> "note", channel |-> ch] \in
       {wire[at[c]][i] : i \in DOMAIN wire[at[c]]}) ~>
      (~Listening(c, ch) \/ stage[at[c]] \notin Connected \/ lagged[c]
        \/ ch \in heard[c])
=============================================================================
