# TLA+ models of halephant

halephant (`src/crates/halephant-core`, with the binary in `src/crates/halephant`)
is a connection pooler and proxy for PostgreSQL.  Clients connect to it as if it
were a server; it lends each of them one of a limited number of server
connections, for a transaction or a session, on the node that plays the role the
client's traffic needs.  This directory models the parts of it whose correctness
depends on the order in which tasks run, or on what another program makes of the
same bytes; TLC checks them on small instances, and TLAPS proves the main
safety properties of the pool, the statement store, the proxy, the topology and
reloads, the listener, the client registry and the statement parser for every instance.

Paths below are relative to `src/crates/halephant-core/src/`.

## 1. Inventory

| Component | State | Operations | What must be right |
|---|---|---|---|
| connection pool (`pool/`) | `Inner.pools`: per (node, database, user) the idle queue, the active and the resetting ids; `Inner.waits`: a queue of oneshot senders per (database, role); the shutdown flag | `checkout`, `ConnGuard::checkin` and its `Drop`, `reset_and_return`, `wake_one_for_node`, `wake_all_waiters`, scavenger tick, `warm_up`/`spawn_connections`, `drain_node`, `shutdown`, `drain_all` | a connection is in one place and lent to one client; it is reset between two clients; the limits hold; a freed slot finds a waiter; a checkout ends |
| topology (`topology/`) | per cluster: primary, replicas, unreachable | `refresh` (probe all, commit, prune), `run_loop`, the reload's refresh | a demoted node stops being lent; old findings do not overwrite newer ones |
| prepared statements (`pool/prepared.rs`, `proxy/prepared.rs`, `connections/server.rs`) | a store of `Parse` messages with reference counts; per client a map of names; per server connection an LRU of the statements it holds and two queues of reply dispositions | `register`, `remove`, `release_all`, `rewrite_outbound`, `ensure_prepared`, the `ParseComplete`/`CloseComplete`/`ErrorResponse` arms of the proxy | the LRU says what the server really holds, also after errors; the client sees the replies to what it sent and no others; reference counts match the maps |
| transaction proxy (`proxy/transaction.rs`, `intercept.rs`) | the lent connection, the pin flag, the last transaction status, the tracked settings | the idle loop, routing, forwarding, intercepted LISTEN/CLOSE/DEALLOCATE, release | a connection is released between transactions only, with no reply outstanding |
| session proxy (`proxy/session.rs`) | one lent connection | forwarding | the same rewriting as transaction mode |
| front end (`proxy/frontend.rs`) and client registry (`clients/`) | a map of clients with state and counts; cancel keys | startup, authentication, `register`, `set_state`, drop, cancel requests | states and counts follow the client's life; a cancel reaches the server the client uses |
| upstream connections (`connections/`) | socket, transaction status, dirty variables | connect with startup handshake, `reset_connection`, liveness test | what one client set is gone for the next |
| LISTEN multiplexing (`listener/`) | per (database, user): reference counts per channel, a command queue, a task with one server connection, a broadcast channel | subscribe, listen, unlisten, drop, reconnect | the server is subscribed to exactly the referenced channels once the commands are worked off |
| configuration (`config/`, `reload.rs`) | an `ArcSwap` of the parsed file | load, validate, `reload_config` | restart-only fields do not change under a running process |
| authentication (`auth/`) | the verifier cache, `.pgpass` | `authenticate`, `VerifierCache::get`, `Pgpass::lookup` | a verifier is fetched once and not served stale past its time |
| SQL classifier (`sql/`) | none | `lex`, `parse`, the questions the proxy asks of a statement | what the pooler takes a text for is what the server takes it for |
| wire protocol, SCRAM, admin, observability | none that the others depend on | encoders, cryptography, read-only views | not modelled, see section 7 |
| process (`halephant/src/main.rs`) | the set of client tasks | accept, SIGHUP, SIGTERM | shutdown ends within its deadline |

How they interact.  A client task (`proxy/`) calls `PoolManager::checkout`, which
reads the topology and then takes the pool mutex several times; it holds the
`ConnGuard` until the transaction ends and `checkin` spawns a task that resets the
connection and puts it back.  Every task that frees a slot calls
`wake_one_for_node`, which sends on the oneshot of a queued client task.  The
topology loop drains nodes whose role changed; SIGHUP swaps the configuration,
refreshes the topology, drains and warms up; SIGTERM calls `shutdown`.  All of
these run as tokio tasks on several threads: between two lock acquisitions, and
at each await, anything may happen.

What is hard here: a step of one task between two locks of another (a wake
between "all full" and joining the queue); a timer against a wake; a candidate
list that is stale when it is tried; connects and resets that fail, hang or are
aborted half-way; counts that must include what is in flight; refreshes that
commit old findings; a command queue that outlives its connection.  `PROJECT.json`
lists each hazard at its line.

## 2. Plan

The order of the work, the most important behaviour first:

1. `ClusterTopology`, `Pool`: the pool of one database under every task that
   touches it; `ConnLease`, the abstract promise; `PoolLease`, the refinement;
   `PoolProofs` on both.
2. `StatementStore`: names and reference counts; `PreparedStatements`: the cache and
   the reply queues of a connection.
3. `Proxy`: both proxies over these, with the settings, the transaction status and
   the reset of a connection, a model of the server (`Postgres`) and of a client
   driver (`Driver`); `ProxyProofs`, `ExchangeProofs` on what is under way between the
   three, `CacheProofs` on the statements a server holds.
4. `Config`, `TopologyRefresh`: reloads, refreshers side by side, commit order,
   pruning, drains; `RefreshProofs`.
5. `Listener`: reference counts, commands, reconnection, a task that gives up and
   its successor; `ListenerProofs`.
6. `SqlLexer`, `SqlParser` against `SqlServer`; `SqlSession`, what the proxy makes
   of a session's statements; `SqlProofs`.
7. `Verifiers`, `FrontEnd`: a client from accept to close, the verifier cache, the
   registry, the drain of a shutdown; `FrontEndProofs`.

All of it is done.  Left, in this order: `TopologyRefresh` over `Pool`, which would show a reload's drain and warm-up with the connections they act on;
several databases behind one pool mutex.

## 3. Modules

| Module | Models |
|---|---|
| `ClusterTopology` | constant operators: what a probe round discovers, which nodes a refresh drains, the role of a node |
| `Pool` | the pool of one database and every task that touches it |
| `ConnLease` | abstract specification: leased, cleaning, available, closed |
| `PoolLease` | the refinement mapping from `Pool` to `ConnLease` |
| `StatementNames` | the constants the modules on statements share |
| `StatementStore` | the reference-counted store and each session's map of names |
| `PreparedStatements` | constant operators: a connection's cache and its queues of reply dispositions |
| `Postgres` | external: a server session, one message at a time |
| `Driver` | external: a client that knows which replies it is owed |
| `Proxy` | sessions, connections, the two proxies, the reset; composes the five above |
| `Config` | constant operators: what `reload_config` accepts |
| `TopologyRefresh` | the topology under its loop, reloads and failovers; composes `ClusterTopology` and `Config` |
| `Listener` | multiplexed LISTEN and NOTIFY of one (database, user): clients, tasks, servers |
| `SqlLexer`, `SqlParser` | pure operators: the tokens of a text, the statement of a list of tokens |
| `SqlServer` | external: PostgreSQL's scanner, and the grammar and meaning of the statements the pooler acts on |
| `SqlSession` | what the proxy decides from a session's statements, beside what the server does with them |
| `Verifiers` | the verifier cache with its shared fetch |
| `FrontEnd` | clients from accept to close, the registry, the main loop; composes `Verifiers` |
| `MCPool`, `MCProxy`, `MCRefresh`, `MCListener`, `MCSql`, `MCFrontEnd` | the constants of the instances TLC checks |
| `PoolProofs`, `ProxyProofs`, `ExchangeProofs`, `CacheProofs`, `RefreshProofs`, `ListenerProofs`, `FrontEndProofs`, `SqlProofs` | lemmas and theorems |

### Pool and the code

A step is what one task does while it holds the pool mutex, or one await of it.

`checkout` (`pool/checkout.rs`) becomes a program counter `stage[c]` per client:
`Begin` and `Resolve`/`ResolveError` (the candidates, read from the topology),
`TryCandidates` (one lock: pop an idle connection, else claim a slot within both
limits, evicting an idle connection of another user if only the node limit is in
the way, else all full), `ConnectOk`/`ConnectFail`, `DiscardWake` (the second
lock of `discard_internal`), `Enqueue` (the lock under which the waiter is
pushed), `Await`, `Bail`, `Timeout`, `Proceed`.  `Deadline(c)` is the clock: it
sets `late[c]`, which `Bail` and `Timeout` look at.

`ConnGuard::checkin` is `Checkin`; dropping a guard is `DropGuard` and then
`DiscardWake`; a reset task ends by `ResetOk`, `ResetFail` or (its guard's
`Drop`) `ResetPanic`.  Background tasks that freed a slot owe a call of
`wake_one_for_node`, which is a second lock: the debt is `wakes[n]` and `Wake(n)`
pays it.  The scavenger is `Scavenge` and `Refill`, `warm_up` is `WarmUp`, and
each connect they have in flight ends by `SpawnOk` or `SpawnFail`.  `Refresh`,
`DrainNode` and `DrainWake` are the topology loop, `ShutdownFlag` and
`ShutdownWake` are `PoolManager::shutdown`.

Simplifications, all of data or of what no other task can observe:

- one database.  Pools of different databases share the mutex but no slot; only
  `drain_node` and the wake-all cross them, and both are modelled as they act on
  this one;
- the idle queue is a set, so `pop_idle` takes any member.  Every behaviour of the
  code is one of the model's;
- `ConnId::next` is an unused member of `Conns`;
- `Resolve` reads the primary and the replicas at once, the code in two reads for
  read-only traffic;
- the candidates' order is any order by active count, ties in any order
  (`TriedBefore`): the round-robin counter is shared by all checkouts and may have
  any value;
- `wake_one_for_node` looks up the node's role and pops under one step;
- a client that queues again replaces the dead waiter it left (`Forget`), which
  bounds the queue; no one can tell a dead waiter from none;
- a refresh that finds no node at all keeps the previous topology and drains
  nothing, which is no step; clusters that a reload removes are not modelled;
- `warm_up` and the scavenger each run one round at a time.

### Proxy and the code

A step of `Proxy` is the handling of one message by one branch of a proxy's
`select!`: a client's message (`Parse`, `Bind`, `ClosePortal`, `Sync`,
`CloseStatement`, `Deallocate`, `SimpleQuery`) or a server's reply (`Relay`); the
server's handling of a message (`Serve`); one reply read by `reset_connection`
(`ResetReads`).  `Leave` is a client that terminates or disconnects, `Break` a
server that closes its connection and so also a session whose connection is
dropped on an error, `Open` a connect.

- `rewrite_outbound` and what it calls are `Parse`, `Bind` and `ClosePortal`, over
  `Prepare` and `NotePortalClose` of `PreparedStatements`; `ensure_prepared` and
  `send_eviction` put the messages of `Preparation` in front of the client's.
- The first message of a transaction checks out an idle connection
  (`Carriers`, `StatementsOf`); the next ones go to the connection held.
  In session mode `StartSession` takes it once.
- `track_set_reset` is `DirtyAfter` and `StatementsAfter`, pinning `PinnedAfter`,
  the interceptors `CloseStatement` and `Deallocate`.
- The arms of the server branch are `Suppressed`, `AfterReply` and `Releases`; a reply
  that is not suppressed is forwarded (`Deliver`), with the session it answers on it (`To`);
  release and `Leave` both end in `Checkin`, which is `ConnGuard::checkin` and
  `reset_connection` up to its first wait.

The client and the server are external and written to be strict.  `Driver` keeps
the kinds of the replies a client is owed, in order, and turns `misordered` at the
first reply that is not the next one or not for it, and `blamed` at an error that
only the pooler's rewriting can have caused.  `Postgres` answers in order, skips to
the Sync after an extended-protocol error (a simple query included), keeps prepared
statements over a rollback and puts settings back.  That a server may answer before
a Sync is more than PostgreSQL does without a Flush: the model has more
interleavings than the code.

The constants `Requests` and `Habits` say what an instance's clients do.  Each habit
is a legal way to use the protocol that the passing runs leave out because a
property fails under it (section 4): `overlap` (a new batch or query before the last
is answered), `interject` (a message the proxy answers itself while replies are
owed), `trail` (the rest of a batch comes after its error was relayed), `leave` (a
client goes with replies on their way), `undo` (in a transaction, DISCARD ALL, or
RESET of what was set before it).  `unknown` (a Bind of a name never prepared) is
harmless unless statements are evicted.  `mode` is the pool's mode, one of `PoolModes`,
chosen at the start.

Simplifications: Bind stands for Bind, Describe and Execute; canonical names do not
collide; the startup checkout of a session is left out (it is `FrontEnd`'s); how
connections are limited and waited for is `Pool`'s, what a statement's text means
`SqlSession`'s, what an intercepted LISTEN does `Listener`'s; the status in a
synthetic ReadyForQuery is not modelled; settings are a set of names that differ
from the startup values.

### The abstract promise of the pool

`ConnLease` is the promise: four phases per connection and a holder.
`PoolLease` maps an id in `active` to leased, in `resetting` to cleaning, in
`idle` to available, nowhere to closed.

### TopologyRefresh, Config and the code

`topology` is the map of `topology/mod.rs`, `config` the `ArcSwap`, `file` what is on
disk (`Broken` if it does not load or validate).  Every task that refreshes is a
refresher with its own program counter: `Tick` starts the loop's, `Sighup` is
`reload_config` and, when it succeeds, the task it spawns.  A refresh reads the
configuration once (`snapshot`), spawns the probes of one cluster after another
(`Discover`), each of which reads the role its node plays at that moment (`Probe`),
commits each cluster under the lock (`Commit`), drops the entries of clusters it does
not know (`Prune`), and drains one node after another (`DrainNode`, `EndDrains`); a
reload goes on to `WarmUp`.  `Change` is the world: a failover or an edited file.
`Outcome` and `Reloaded` are `reload_config` with `requires_restart`.  What a drain
and a warm-up do to connections is `Pool`'s.  `former` remembers which nodes lost a
role and have not been drained since.

### Listener and the code

`current` is the manager's entry for the key.  A client keeps the pool it
subscribed to (`at`) for its whole session, so after a task has given up two pools of
one key exist.  `Subscribe`, `Listen`, `Unlisten`, `Leave` and `Recv` are
`subscribe`, `listen`, `unlisten`, the end of `Drop` and `recv`; `AddRef` and `RemoveRef`
change a count and queue the command under one lock.  The task is `Attempt`,
`ConnectOk`/`ConnectFail`, `Restore`, `TakeCommand`, `Relay`, `Drained`, `DrainError`
and `Break`; `Failed` is the end of an iteration of `listener_task` with its count of
consecutive failures.  `Serve` and `Notify` are the server.

### The SQL modules and the code

`Lex` and `Parse` are `sql/lexer.rs` and `sql/parser.rs` over characters and tokens,
`Overrides` and what else the proxy asks of a statement are `sql/ast.rs`.  `SqlServer`
is the reference, and written differently: a scanner that reads one character at a
time and remembers a mode, and a grammar that generates sentences together with
what they mean.  `SqlSession` has two kinds of behaviour: a text typed character by
character, after each of which lexer and scanner are compared, and statements sent
one after another, with `Track` (`track_set_reset`), `Route`, `Rejected` and
`Intercepted` of `proxy/transaction.rs` on one side and the server's effect on the
other.  What the lexer computes for every text is an induction over data, out of the
prover's reach, and only checked.  What the parser makes of the grammar's sentences is
proved for any names of settings (`SqlProofs`): the sentences are of bounded length, and
the one loop that counts, `Depth`, is unrolled.

What the reference leaves out: E'' strings and their escapes, adjacent literals, a
carriage return that ends a line comment, texts of several statements (the pooler
classifies the first), `SET TIME ZONE`, `SET ROLE`, `SET SESSION AUTHORIZATION` and `SET
NAMES` (which the pooler does not track), and dotted settings.  After a `$` that begins
no dollar quote the lexer skips characters although its comment says otherwise
(`sql/lexer.rs:226-228`); `LexerAgrees` leaves such texts out.

### FrontEnd, Verifiers and the code

`task` is the program counter of a client's task: accepted, negotiating (startup),
fetching a verifier, proving the password (SCRAM), checking out, waiting, connecting,
greeting (`send_post_auth_startup`), then idle and busy in transaction mode, or in
session.  `entry` is what the registry shows, changed where the code changes it; the
code takes the registry's lock once per field, the model once per step, so that the
wait target it also shows (`clients/mod.rs`) is not modelled.
`Spawn` is the main loop, `Reload` a successful SIGHUP, `Terminate` the shutdown and
`Stop` the end of its drain.  In `Verifiers`, `Hit` and `BeginFetch` are a caller of
`try_get_with`, `ReadVerifier` and `Store` the fetch, `Abandon` a caller that stops to
wait and so takes the fetch along if it drove it, and `Tick` the clock.  A password is
a number, its verifier the same number.

What the code makes the model do: sockets accepted during a shutdown hang until the
process ends (the comment at `main.rs:421` says the listeners are dropped above);
idle sessions are not told to end, so a drain lasts to its deadline; nothing limits
how long a client may take in its handshake; a user who is taken out of the pool
fails at the next checkout of a session that is under way.

## 4. Runs

| Run | Instance | Shows |
|---|---|---|
| `checkout` | 1 node, max_connections 2, users u1 (2 clients) and u2 (1 client, limit 1), 3 connection ids; failing connects, dropped guards, timeouts | type, ownership of slots, both limits, soundness of the wait queue, no wake swallowed |
| `upkeep` | 1 node, max 2, min 1, 2 clients, 3 ids; every background event | no connection in two places, the scavenger's floor, the refinement of `ConnLease` |
| `failover` | 2 nodes that swap roles, lose one, lose the primary; 2 clients, read-only and read-write; expiring connections and failing connects | no checkout exceeds the limit of the node's present role; a drain releases every blocked client |
| `liveness` | 1 slot, 2 clients, timers, failing connects, shutdown; fair | every checkout ends |
| `lostwake` | 1 slot, 2 clients, no failures | *violated*: a client waits beside a free slot |
| `exchange` | both modes, 2 clients, 1 connection, 2 names, 2 statements of which the server rejects one, failing executions, a server that hangs up; fair | replies in order, no error of the pooler's making, cache and server agree, reference counts; batches are answered, resets end |
| `evict` | both modes, 2 clients, 1 connection with a cache of 1; transactions, nothing fails | evictions and re-prepares are invisible and complete |
| `settings` | 2 clients, 1 connection, 1 setting; transactions, failing queries, SET, RESET, DISCARD ALL, LISTEN and UNLISTEN | a connection comes back quiet, clean and with a true cache; one session per connection; a pinned session keeps it |
| `listen` | 2 clients, 1 channel, 2 generations of the listener, 2 failures in a row to give up; fair | one listener, subscribed to what is referenced once settled; a LISTEN takes effect, a notification arrives |
| `reload` | 2 nodes in one cluster or two, 3 files and a broken one, the loop and one reload; 2 changes of the world or the file; fair | who loses a role is drained, startup fields stay, the topology ends up right |
| `sql` | texts of up to 7 characters over three alphabets; sequences of the grammar's sentences | lexer and parser agree with the server's; settings are known; a replica never gets a transaction that writes |
| `clients` | 2 clients, 1 connection, 2 passwords, 3 configurations, a shutdown; fair | the registry is true, verifiers are fresh, nobody hangs |

Why the bounds are enough for the cases to happen.

- Pool: two clients and one slot give contention; a third client, of another user,
  gives eviction and the two limits at once; three ids let a connection be reset
  and another opened while a third is lent; two nodes give a stale candidate, a
  change of role and both batches of a read-only checkout; `MaxWakes = 2` lets a
  scavenger free two slots before either wake.  With three ids and max_connections
  2, running out of ids keeps no claim from happening that the limits allow.
- Proxy: two clients take turns on one connection, so each meets what the other
  left; two statements and two names give every hit, miss, shared statement and
  renamed statement; `MaxOwed` (3 or 4 replies) lets a whole Parse-Bind-Sync batch and
  the Parse of another statement be under way at once.
- Listener: two pools give a task that gave up with a client still on it, and its
  successor; a queue of two holds a LISTEN and the UNLISTEN that undoes it across a
  reconnect; a broadcast capacity of one makes a slow client lag.  Two channels with
  one client also pass.
- Topology: two nodes give a swap of roles, and probes that straddle one, which see two
  primaries or none; one reload beside the loop gives two refreshers, two changes give a
  failover while an edited file is read.
- SQL: seven characters close and reopen every kind of quote, nest a comment in a
  comment and end with a keyword.  Statements need no bound: the state they leave is
  finite.
- Front end: two clients give an owner and a joiner of a fetch and a waiter on the one
  connection; `Ttl = 2` and `Timeout = 1` let a fetch outlive its caller and an entry
  a password.

What the one violation says of the code, `lostwake`: `try_candidates` and the push on
the wait queue are two locks.  A connection given back in between wakes no one, and
the client waits for the next return or its timeout (`pool/checkout.rs:111-197`).

Other properties fail when an instance is opened up; each line was seen with TLC.
They are limits of the design rather than departures from what the repository
promises:

| Change to a run | Fails | Why |
|---|---|---|
| `lostwake`, min_connections 1, max_connections 1 and a warm-up | `NodeWithinMax` | `spawn_connections` reserves nothing (`pool/refill.rs:269`) |
| `liveness` with event `mute` | `CheckoutEnds` | no timeout on the startup handshake (`connections/server.rs:326-340`) |
| `exchange` with habit `interject` | `InOrder` | a synthetic ParseComplete or CloseComplete overtakes replies owed (`proxy/prepared.rs:176`) |
| `exchange` with habit `overlap`, simple queries | `InOrder` | the first ReadyForQuery(Idle) releases the connection (`proxy/transaction.rs:409`); the second query's replies are read by the reset, whose own reach the next client |
| `exchange` with habit `trail` | `CacheMatches` | after the relayed error the rest of the batch is still recorded as prepared (`proxy/prepared.rs:168`) though the server skips it |
| `evict` in session mode with habits `trail`, `unknown` | `InOrder` | the disposition of such a skipped Parse stays in the queue and is taken for that of a later re-Parse (`connections/server.rs:201`) |
| `exchange` with habit `leave` | `ResetEnds`, `IdleIsQuiet` | the reset's Query is skipped by a server that waits for a Sync (`connections/reset.rs:57`); the reset takes the first ReadyForQuery(Idle) for its own (`connections/reset.rs:72`) |
| `evict` with habit `unknown`, with mishap `bind` or with mishap `work` | `CacheMatches` | the eviction of a skipped Parse is not restored (`connections/server.rs:217`) |
| `evict` with a cache of 2 and four statements, one of them bad | `CacheMatches`, `NoPoolerError` | the same; with a cache of 1 only the bad statement itself can be evicted behind it |
| `settings` with habit `undo` | `CacheMatches`, `IdleIsClean` | DISCARD ALL and RESET are taken as done (`proxy/transaction.rs:62-68`) |
| `settings` with `SetQueries = {q1}` | `IdleIsClean` | settings changed through the extended protocol are not tracked (`proxy/transaction.rs:47-70`) |
| `settings` in session mode | `IdleIsClean`, `NoPoolerError` | session mode tracks neither SET nor DISCARD ALL (`proxy/session.rs:86`) |
| `exchange` in session mode with habit `overlap` | `CacheMatches` | the roll-back takes Parses of later batches with it (`connections/server.rs:217`) |
| `listen` with `Slow = TRUE` | `ListenTakesEffect` | a task whose attempts last over 5 s each never counts to its limit (`listener/mod.rs:319`) |
| `sql` with form `characteristics` | `SettingsTracked` | SET SESSION CHARACTERISTICS is not tracked (`proxy/transaction.rs:47-70`) |
| `sql` with form `discard` | `StaysReadOnly` | DISCARD ALL is not among the overrides (`sql/ast.rs:117-135`) |

Fairness.

- `Pool`: the tokio runtime polls every ready task, so the steps of a checkout that
  depend on nothing else (`PromptStep`), a due wake, the drain's and the shutdown's
  wake-all are weakly fair; the timer fires (`Deadline`); a connect ends, unless the
  instance has mute servers.  Nothing is assumed of clients that hold a connection, of
  resets (they have no timeout) or of the scavenger.
- `Proxy`: `Relay`, `ResetReads` and `Serve` are weakly fair: both sockets of a session
  are polled in one `select!`, a reset task reads until it ends, and a live server
  answers what it has read.  Nothing is assumed of clients: `Answered` speaks only of
  batches they have closed.
- `Listener`: a task that can go on does, its server runs the command it was sent,
  and a client task reads its notifications.  Connections may break for ever.
- `TopologyRefresh`: the loop's timer fires and each refresh goes on, since each probe
  has a timeout.
- `FrontEnd`: the main loop spawns what was accepted, a client's task takes the steps that
  do not wait for its client, time passes and the drain's deadline comes.  `GiveUp` is
  strongly fair: a client that is woken and loses the connection queues again with
  what is left of its time, so its timer is interrupted but not restarted.  Nothing is
  assumed of clients or of the server that auth_query asks.
- `SqlSession` has no fairness: it is about safety only, as `CHECK_DEADLOCK FALSE` in its
  configuration says of texts at their bound.  `FrontEnd` really stops, after a
  shutdown.

## 5. Proofs

All theorems hold for every value of the constants that the named assumptions of
the modules allow; `TLC` evaluates these assumptions in the runs.

`PoolProofs` assumes `PoolAssumption` and `NoNodeIsNoNode` (the types of the constants,
and that connection ids in use are finitely many):

- `TypeCorrect`: `Spec => []TypeOK`.
- `OwnershipHolds`: `Spec => [](OnePlace /\ ActiveIsHeld)`, of which `SlotsHeld` is the
  second half, that no slot is counted for a client that has gone.  The inductive
  invariant is `TypeOK /\ OnePlace /\ ActiveIsHeld`.  Neither half is inductive:
  a checkin moves the id its guard names from active to resetting, which keeps
  `OnePlace` only because a holder's id is active (`ActiveIsHeld`), and takes the
  id from every other client only because two holders' guards differ; a claim
  keeps `ActiveIsHeld` only because its id is fresh, in no collection at all.
- `CheckoutLimit`: `Spec => CheckoutGrowsWithinLimit`, an action property: a
  client's step adds at most one connection to one node, and `NodeHasRoom` or an
  eviction makes room for it; no other step but a refill's adds any.
- `NodeLimit`: if no refresh changes the topology (`Reports = {}`) and no
  `min_connections` is set, `Spec => []NodeWithinMax`.  Both hypotheses are
  needed: a warm-up beside a checkout breaks the second (section 4), and a demoted
  node may carry more connections than its new role allows.
- `UserLimitHolds`: under the same hypotheses, `Spec => []UserWithinMax`; only a claim
  adds to a key, and it looks at the user's limit in the step that takes the slot.
- `FloorHolds`: if connections do not age out (`"aged" \notin Events`),
  `Spec => ScavengeKeepsFloor`: the scavenger's step, and no other step that looks like it,
  leaves each pool as it was or with `min_connections` idle.  Those that are dead or past
  their lifetime go whatever is left, so the hypothesis is needed.

The proofs go by action: `CheckoutType`, `ClientType`, `BackgroundType` and
`ControlType` for types; `LendOwnership`, `GiveOwnership`, `ClientOwnership` and
`BackgroundOwnership` for ownership; `ClaimWithinLimit`, `ClientGains` and
`BackgroundGains` for the limit, over lemmas about each operator of the model.

The last part of `PoolProofs` is about the wait queues:

- `WaitersHold`: `Spec => []WaitersSound`.  The inductive `WaitInv` says that the clients
  with a live entry in a queue are the blocked ones of its routing, that none has two, and
  that only a client in a wait is told.  Lemmas on one queue (`PopOne`, `PopDead`,
  `DropOne`, `ForgetDead`, `AppendOne`) say what each operation does to its live entries;
  `WakeOneWaits` and `WakeAllWaits` that whoever a wake tells leaves the queues and no one
  else does.
- `WakesReach`: `Spec => WakeReachesFirst`, and `DrainReleases`:
  `Spec => DrainReleasesWaiters`; both need the invariant, since a wake that meets an entry
  of a client that has gone would be spent on it.

Its end (also `LeaseAssumption`) proves the refinement, `PoolRefinesLease`:
`Spec => CleanedBetweenClients`.  `Mapping` reads ownership as the faithfulness of the
refinement mapping: without it an id could have two phases or two holders.  Then
each action is one of the abstract ones (`CandidateLends`, `GiveReturns`, `ResetCleans`,
`SpawnOpens`, `ShrinkCloses`) or changes neither phase nor holder.

`ProxyProofs` assumes `ProxyAssumption` and those of the modules it composes (sessions
and names are finite), and holds for every set of habits, requests and events and for
any behaviour of servers and drivers, since it uses nothing of `Outcomes` or of `Driver`:

- `RefsHold` (`StoreSpec => []RefsMatchNames`) and from it `BindHolds`
  (`StoreSpec => []BindFindsParse`).  With the types, `RefsMatchNames` is inductive:
  each operation changes the set of pairs `Holders(q)` by as many as it changes the
  count, which lemmas on cardinalities show operation by operation; the saturating
  subtraction never saturates because a name that is given up is counted.
- `StoreImplemented`: `Spec => StoreSpec`; every step of the proxy is a step of the
  store or leaves it alone.  So `ProxyRefs` (`RefsMatchNames`) and `ProxyBinds`
  (`BindFindsParse`) hold of the proxy, and the bail in `ensure_prepared` is dead code.
- `OneSessionHolds`: `Spec => []OneSession`, by the inductive `LeaseInv`, which adds
  types and `PinnedHold` (a pinned session has a connection).
- `PinHolds`: `Spec => PinKeepsConnection`, an action property that needs
  `PinnedHold`: without it a pinned session's next message could take a second
  connection.

`ExchangeProofs` uses both `Outcomes` and `Driver`.  Its theorems are about clients of
certain habits, for any sets of sessions, connections, names, statements and settings,
any cache size, any requests, statements that fail, mishaps and lost connections:

- `InOrderHolds`: `Tame => (Spec => []InOrder)` and `IdleQuietHolds`:
  `Tame => (Spec => []IdleIsQuiet)`, in both pool modes.  `Tame` leaves the clients the
  habits `unknown` and `undo`; under each of the other four one of the two properties fails
  (section 4), so the hypothesis is what the code needs and no more.
- `IdleCleanHolds`: `Modest => (Spec => []IdleIsClean)`.  `Modest` also rules out `undo`,
  session mode and `SetQueries`, statements that change a setting when a prepared
  statement is executed: nothing tracks those (`proxy/transaction.rs:47-70`).

The argument.  Nothing in the pooler says which replies are still to come: it has two
queues, one for Parses and one for Closes, the client has a third list, and the wires have
some of the replies and some of the messages that call for others.  The proof puts a
*plan* behind them, the one list of replies that the messages of a session call for and
that the proxy has not read, each marked forward or suppress and with its statement.
`Books` says that the Parse queue, the Close queue and what the client is owed are the
plan seen through three filters (`Lists`: an increasing enumeration of the places that
match).  `Exchange` adds where the wires are in it, in one of four phases: `Flowing`
(replies on the wire are its beginning, messages on the wire its end), `Failing` (the
k-th reply is an error; the server skips, or has read the Sync), `Skipping` (the proxy has
passed the error on, the Sync is not yet answered), `Querying` (a simple query).
`ExchangeInv` says that such a plan exists for every session with a connection, that
nothing is owed to one without, and that a connection in its reset has only the reset's
query or its answers on the wires (`Cleaning`).  It is inductive only with all of this:
the first reply of each kind must be the first of its queue (`BooksHead`), so that the
proxy keeps what it should; a suppressed reply must be followed by one of the same batch
(`Loose`, `Settled`), or the release at ReadyForQuery would leave its disposition behind; and an
error must find in the queues exactly what the rest of its batch put there (`ErrorRead`), since
the roll-back empties them.  Each step has a lemma on the values it changes
(`ExchangeExtends`, `ExchangeSyncs`, `ExchangeQueries` for the client, `ExchangeServed` for
the server, `ExchangeReads` for the proxy) and one on the state (`ParseFits` to `LeaveFits`);
`PrepareKept` and `WithoutKeeps` say what the cache's operators keep.  TLC found the same
invariant to hold on the instances of section 4, with the plan as an extra variable.

For `IdleIsClean` the invariant adds what the wires tell of settings (`CleanInv`).  A
setting that differs from its startup value, now or when the transaction began, is among
those the pooler tracks (`Tracked`); only a simple query on its way may be ahead of that
(`Bracing`), and none is when the connection is released, because `ExchangeInv` says that the
wires are empty then.  `saved` has to be in it: a rollback brings back what was set
before the transaction, which is why RESET in a transaction (habit `undo`) breaks the
property.

The theorems of `CacheProofs` are about the statements:

- `CacheMatchesHolds`: `Careful => (Spec => []CacheMatches)` and `NoPoolerErrorHolds`:
  `Careful => (Spec => []NoPoolerError)`, for any sets of sessions, connections, names,
  statements and settings, any requests and lost connections.  `Careful` leaves the clients
  the habit `unknown`; it keeps DISCARD ALL out of session mode; and when the cache has a
  limit, it has the clients' statements succeed (no `unknown`, no bad statement, no mishap).
  Without any one of these there is an instance that breaks `CacheMatches` (section 4).
  All three runs that check one of the two satisfy it.

While a connection is lent its cache runs ahead of its server, by what is on the wire, and
after an error it is wrong until the error is read.  `Ledger` is the relation that holds
all the same.  `Leads` says that the messages on the wire, one after the other, take the
server from the statements it holds to those the cache lists, and the number of answered
Parses from `g`, the ParseCompletes on the wire (`Acked`), to all the pooler recalls; on the
way no message prepares a statement that is there and each Bind finds its own (`Finds`),
which is why no error is the pooler's blame.  If a message has failed (`Failed`) this is
lost, and what the roll-back will do must be known instead: `Kept` says that the cache is
what the server holds and what is still unanswered, each once, so that taking away the
unanswered leaves what the server holds.  With evictions that is false, since the roll-back
restores none; hence the third part of `Careful`.  DISCARD ALL empties cache and server apart
from each other, so it must be alone on the wire and outside a transaction (`Calm`).
`Neat` (no statement twice, no more than the limit) is needed for the limit, and for a
touch or an eviction to mean one place of the cache.  Each step has a lemma on the ledger
(`LedgerHas`, `LedgerSends`, `LedgerAsks` for the client, `LedgerServed` for the server,
`LedgerReads` for the proxy, `LedgerEnds` for the release) and one on the state (`ExtendedLevel`
to `BreakLevel`); that the wires are empty when a connection is released comes from `ExchangeInv`.
TLC found the same invariant, with `Leads` computed from the wire, to hold on the
instances of section 4.

`RefreshProofs` (`ConfigAssumption`, `RefreshAssumption`):

- `DrainsHold`: `Spec => []FormerIsDrained`, with any number of refreshers.  The
  inductive `RefreshInv` adds that a topology is sound (no replica is also unreachable)
  and that a refresher that neither refreshes nor drains owes no drain; `LosersAreDue` is
  the heart, that `ChangedNodes` covers whoever loses a role in a commit over any
  previous topology, also one another refresh has committed meanwhile.
- `StartupHolds`: `Spec => []StartupFieldsKept`, over any chain of reloads: each is compared
  with the last accepted one, which is equal to the first.

`ListenerProofs` (`ListenerAssumption`):

- `OneListenerHolds`: `Spec => []OneListener`.
- `SettledHolds`: `Spec => []SettledMatches`.  The inductive `ListenerInv` says, per pool,
  that the last command queued for a channel agrees with whether it is referenced
  (`LastWords`), and that a channel no queued command speaks of is, on a live
  connection, either subscribed or still to be restored exactly if referenced
  (`Unspoken`).  The second needs the first: restoring subscribes what is referenced
  when the connection is made, and commands older than that are still to come.
- `CountsHold`: for finitely many clients, `Spec => []RefsMatchClients`.

`FrontEndProofs` (`VerifierAssumption`, `FrontEndAssumption`):

- `RegistryHolds`: `Spec => []RegistryTrue`; inductive with the types alone, one lemma for
  ends (`EndKeeps`) and one for steps (`GoesKeeps`).
- `FreshHolds`: `Spec => VerifierFresh`.  The inductive `FreshInv` bounds how long ago the
  password that a fetch has read, or that the cache holds, was replaced: by how long the
  fetch's owner has waited, and by that and the entry's age.

`SqlProofs` (`SettingsAssumption`: no setting has the name of a keyword of SET or RESET):

- `ParserCorrect`: `Spec => []ParserAgrees`, for any set of settings and any forms of
  statements.
- `SettingsTrackedAlways`: without the form `characteristics`, `Spec => []SettingsTracked`.
  The inductive `Tracked` adds that the settings that differ are among the recorded ones
  unless the transaction has failed.  A failed transaction has to be excepted: the pooler
  records the RESET or DISCARD ALL of a statement that the server refuses, and only the
  rollback that must follow makes up for it.
- `StaysReadOnlyAlways`: without the form `discard`, `Spec => []StaysReadOnly`.

Each hypothesis excludes one form of statement, with which the property fails (section 4).
All three rest on `SentencesUnderstood`: for every sentence of the grammar, what
`Parse` makes of it (kind, name, value) tells whatever `Track`, `Route` and `Rejected` ask.
Its proof writes the sentences of each form out as sequences of tokens (`SetTokens`,
`ModesSay`, `WithIs`), shows what the parser reads at each place (`SetParsed`,
`BeginParsed`, `CharacteristicsParsed`, `WithParsed`, `DeallocateKinds`, ...) and compares
it with the sentence's meaning (`AssignmentsUnderstood` to `OthersUnderstood`).
`ModesAfter` is the lemma on READ ONLY and READ WRITE: the READ of an isolation
level, before or after, never changes what was said.

Only model-checked:

- in `Pool`: `CheckoutEnds`;
- in `Proxy`: `Answered` and `ResetEnds`;
- in `Listener`: `ListenTakesEffect`, `NoticeReaches`; in `TopologyRefresh`: `Converges`; in
  `FrontEnd`: `NobodyHangs`;
- in `SqlSession`: `LexerAgrees`.

Liveness under fairness, and induction over data (what the lexer computes for a text of
any length), are out of the prover's reach.

## 6. Running

    tlc -config MCPool_checkout.cfg MCPool.tla
    tlc -config MCProxy_exchange.cfg MCProxy.tla
    tlc -config MCListener_listen.cfg MCListener.tla
    tlc -config MCRefresh_reload.cfg MCRefresh.tla
    tlc -config MCSql_sql.cfg MCSql.tla
    tlc -config MCFrontEnd_clients.cfg MCFrontEnd.tla
    tlapm PoolProofs.tla
    tlapm ProxyProofs.tla
    tlapm ExchangeProofs.tla
    tlapm CacheProofs.tla
    tlapm RefreshProofs.tla
    tlapm ListenerProofs.tla
    tlapm FrontEndProofs.tla
    tlapm SqlProofs.tla

and likewise the other configurations.  `PROJECT.json` names them
all, with a mutant of the code for every property that TLC must find it violated by.

## 7. Not modelled

- The wire protocol codecs and SCRAM are functions over bytes: no state of another
  component depends on how they work, and a model of them would be a transcription.
  The models take decoded messages as inputs, and the SCRAM exchange as one step that
  tells whether the client knows the password.
- The admin server, metrics, gauges and spans read state and change none of it.
- Address splitting and the `.pgpass` lookup are pure functions of short strings.
- Parsing, defaults and validation of the configuration file: its outcome is `Broken`
  or a file.
- Cancel requests are passed on with the key of the session's first server connection;
  in transaction mode such a request may miss, or strike another client.  Delivering
  one changes no state of the pooler.
- Notifications sent to a client between its replies, and the transaction status a
  synthetic ReadyForQuery carries.
- Several databases in one pool: they share the mutex, `drain_node` and the wake-all.
- `TopologyRefresh` and `Pool` are not composed: a reload's warm-up works from a snapshot
  whose cluster an older refresh may prune meanwhile, and a node that is dropped from
  a cluster's node list without a change of role is drained by no refresh.
