-------------------------------- MODULE Pool --------------------------------
(***************************************************************************)
(* The connection pool of one (cluster, database): PoolManager of          *)
(* crates/halephant-core/src/pool.  The actors are the client tasks (one   *)
(* checkout or one ConnGuard each), the reset tasks that checkin spawns,   *)
(* the scavenger, warm_up, the topology loop and shutdown.  A step is what *)
(* one actor does while it holds the pool mutex, or one await of it: the   *)
(* code releases the mutex between freeing a slot and waking a waiter, and *)
(* between finding every candidate full and joining the wait queue, so     *)
(* those are separate steps here.                                          *)
(*                                                                         *)
(* Databases share nothing but drain_node and wake_all_waiters, which are  *)
(* modelled as they act on this one.  The idle queue of a pool is a set:   *)
(* the code takes its front, the model any member.                         *)
(***************************************************************************)
EXTENDS ClusterTopology, Naturals, FiniteSets, Sequences

CONSTANTS
  Users,          \* pool users
  Clients,        \* client tasks
  UserOf,         \* the user each client authenticated as
  Traffic,        \* the routings clients ask for
  Conns,          \* connection ids; ConnId::next() never repeats one in use
  PoolMax,        \* max_connections of the pool, per role
  LimitedUsers,   \* users with a max_connections of their own ...
  UserMax,        \* ... and its value, per role
  MinConns,       \* min_connections, per user and role
  InitialReport,  \* the probe outcome at startup
  Reports,        \* the probe outcomes of later refreshes
  Events,         \* which environment events this instance includes
  MaxWakes,       \* bound on wake_one_for_node calls outstanding per node
  NoGuard         \* "this client holds no ConnGuard"

\* "stale": idle connections may pass idle_timeout; "aged": they may pass
\* max_lifetime or lose their socket; "scavenge": a scavenger tick; "warmup": a
\* reload calls warm_up; "connect": a connect may fail; "reset": a reset may
\* fail; "panic": a reset task may be aborted; "drop": a client may drop its
\* guard without checkin; "timeout": checkout_timeout may pass; "shutdown": the
\* process is told to stop; "mute": a server may accept a connection and never
\* finish the startup handshake.
AllEvents == {"stale", "aged", "scavenge", "warmup", "connect", "reset",
              "panic", "drop", "timeout", "shutdown", "mute"}

ASSUME PoolAssumption ==
  /\ UserOf \in [Clients -> Users]
  /\ Traffic \subseteq Routing
  /\ IsFiniteSet(Conns)
  /\ PoolMax \in [Routing -> Nat]
  /\ LimitedUsers \subseteq Users
  /\ UserMax \in [Users -> [Routing -> Nat]]
  /\ MinConns \in [Users -> [Routing -> Nat]]
  /\ InitialReport \in ProbeReport
  /\ Reports \subseteq ProbeReport
  /\ Events \subseteq AllEvents
  /\ MaxWakes \in Nat

\* PoolKey, for the one database.
Keys == [node : Nodes, user : Users]
KeyOf(n, u) == [node |-> n, user |-> u]

Guard == [key : Keys, conn : Conns]
Waiter == [client : Clients, live : BOOLEAN]

\* Where a client task is.  "resolve" .. "waiting" are inside checkout;
\* "failed" and "dropped" are inside discard_internal, between its two locks.
Stage == {"idle", "resolve", "first", "second", "connecting", "failed",
          "enqueue", "queued", "waiting", "holding", "dropped"}
WithGuard == {"connecting", "failed", "holding", "dropped"}
InCheckout == Stage \ {"idle", "holding", "dropped"}

NoBatches == [first |-> {}, second |-> {}]

Refillers == {"warm_up", "scavenger"}

VARIABLES
  topology,   \* TopologyManager.state of the cluster
  idle,       \* Pool.idle of each key
  active,     \* Pool.active of each key
  resetting,  \* Pool.resetting of each key
  waits,      \* Inner.waits: one queue per routing, shared by all users
  stage,      \* program counter of each client
  route,      \* the routing of its current checkout
  batches,    \* the candidate nodes its last resolve found
  guard,      \* its ConnGuard, or the slot it has claimed
  notified,   \* its oneshot has been sent to
  late,       \* checkout_timeout has elapsed since its checkout began
  wakes,      \* wake_one_for_node calls due, per node of the freed slot
  refills,    \* connects each refiller still has in flight, per key
  tick,       \* where run_scavenger is
  drains,     \* nodes the last refresh still has to drain
  drained,    \* drain_node has cleared a node and has its wake-all to do
  shutdown    \* PoolManager::shutdown: not called, flag set, waiters woken

poolVars == <<idle, active, resetting>>
clientVars == <<stage, route, batches, guard, late>>
queueVars == <<waits, notified>>
taskVars == <<wakes, refills, tick>>
controlVars == <<topology, drains, drained, shutdown>>
vars == <<poolVars, clientVars, queueVars, taskVars, controlVars>>

TypeOK ==
  /\ topology \in Topology
  /\ idle \in [Keys -> SUBSET Conns]
  /\ active \in [Keys -> SUBSET Conns]
  /\ resetting \in [Keys -> SUBSET Conns]
  /\ waits \in [Routing -> Seq(Waiter)]
  /\ stage \in [Clients -> Stage]
  /\ route \in [Clients -> Routing]
  /\ batches \in [Clients -> [first : SUBSET Nodes, second : SUBSET Nodes]]
  /\ guard \in [Clients -> Guard \cup {NoGuard}]
  /\ \A c \in Clients : stage[c] \in WithGuard => guard[c] \in Guard
  /\ notified \in [Clients -> BOOLEAN]
  /\ late \in [Clients -> BOOLEAN]
  /\ wakes \in [Nodes -> Nat]
  /\ refills \in [Refillers -> [Keys -> Nat]]
  /\ tick \in {"sleep", "scavenged"}
  /\ drains \subseteq Nodes
  /\ drained \in BOOLEAN
  /\ shutdown \in {"running", "flagged", "woken"}

Init ==
  /\ topology \in Discovered(InitialReport)
  /\ idle = [k \in Keys |-> {}]
  /\ active = [k \in Keys |-> {}]
  /\ resetting = [k \in Keys |-> {}]
  /\ waits = [r \in Routing |-> <<>>]
  /\ stage = [c \in Clients |-> "idle"]
  /\ route = [c \in Clients |-> "primary"]
  /\ batches = [c \in Clients |-> NoBatches]
  /\ guard = [c \in Clients |-> NoGuard]
  /\ notified = [c \in Clients |-> FALSE]
  /\ late = [c \in Clients |-> FALSE]
  /\ wakes = [n \in Nodes |-> 0]
  /\ refills = [f \in Refillers |-> [k \in Keys |-> 0]]
  /\ tick = "sleep"
  /\ drains = {}
  /\ drained = FALSE
  /\ shutdown = "running"

-----------------------------------------------------------------------------
(* Counting and limits *)

\* Pool::total and Inner::node_total.  Ids are unique, so the lengths the code
\* adds up are the cardinality of the union.
ConnsOf(k) == idle[k] \cup active[k] \cup resetting[k]
NodeConns(n) == UNION {ConnsOf(KeyOf(n, u)) : u \in Users}
AllConns == UNION {ConnsOf(k) : k \in Keys}
FreshIds == Conns \ AllConns

\* resolve_limits and Limits: a node of unknown role has limit 0.
PoolLimit(n) ==
  IF RoleOf(topology, n) \in Routing THEN PoolMax[RoleOf(topology, n)] ELSE 0
UserLimit(k) ==
  IF RoleOf(topology, k.node) \in Routing
  THEN UserMax[k.user][RoleOf(topology, k.node)] ELSE 0
UserHasCapacity(k, total) == k.user \in LimitedUsers => total < UserLimit(k)

\* Mutant: off by one.
PoolNotOver(n, total) == total <= PoolLimit(n)
PoolHasCapacity(n, total) == total < PoolLimit(n)

\* min_for_key.
MinFor(k) ==
  IF RoleOf(topology, k.node) \in Routing
  THEN MinConns[k.user][RoleOf(topology, k.node)] ELSE 0

-----------------------------------------------------------------------------
(* The wait queues *)

LivePositions(q) == {i \in DOMAIN q : q[i].live}
FirstLive(q) == CHOOSE i \in LivePositions(q) : \A j \in LivePositions(q) : i <= j

\* Popping until a send succeeds: dead waiters in front are dropped with it.
AfterPop(q) ==
  IF LivePositions(q) = {} THEN <<>> ELSE SubSeq(q, FirstLive(q) + 1, Len(q))

\* The queues wake_one_for_node tries, in its order.
ServedRoutings(n) ==
  CASE RoleOf(topology, n) = "primary" -> <<"primary", "replica">>
    [] RoleOf(topology, n) = "replica" -> <<"replica">>
    [] OTHER -> <<>>

\* Mutant: one pop instead of a loop, so a dead waiter in front swallows the wake.
WakeHeadOnly(n) ==
  LET served == ServedRoutings(n)
      hits == {i \in DOMAIN served : waits[served[i]] # <<>>}
      first == served[CHOOSE i \in hits : \A j \in hits : i <= j]
  IN  IF hits = {} THEN UNCHANGED queueVars
      ELSE /\ waits' = [waits EXCEPT ![first] = Tail(@)]
           /\ notified' = [c \in Clients |->
                 notified[c] \/ Head(waits[first]) = [client |-> c, live |-> TRUE]]

\* wake_one_for_node: the first queue with a live waiter gives one up, the
\* queues tried before it hold only dead waiters and end empty.
WakeOne(n) ==
  LET served == ServedRoutings(n)
      hits == {i \in DOMAIN served : LivePositions(waits[served[i]]) # {}}
      last == IF hits = {} THEN Len(served)
              ELSE CHOOSE i \in hits : \A j \in hits : i <= j
      popped == {served[i] : i \in 1..last}
  IN  /\ waits' = [r \in Routing |-> IF r \in popped THEN AfterPop(waits[r]) ELSE waits[r]]
      /\ notified' = [c \in Clients |->
           \/ notified[c]
           \/ \E i \in hits : /\ i = last
                              /\ LET q == waits[served[i]] IN q[FirstLive(q)].client = c]

\* Mutant: only the queue of the database's default routing.
WakeAllPrimary ==
  /\ waits' = [waits EXCEPT !["primary"] = <<>>]
  /\ notified' = [c \in Clients |->
       \/ notified[c]
       \/ \E i \in LivePositions(waits["primary"]) : waits["primary"][i].client = c]

\* wake_all_waiters.
WakeAll ==
  /\ waits' = [r \in Routing |-> <<>>]
  /\ notified' = [c \in Clients |->
       \/ notified[c]
       \/ \E r \in Routing : \E i \in LivePositions(waits[r]) : waits[r][i].client = c]

\* Mutant: the receiver outlives the wait.
KeepReceiver(c) == UNCHANGED waits

\* Dropping the receiver: a later send to this waiter fails.
DropReceiver(c) ==
  waits' = [r \in Routing |-> [i \in DOMAIN waits[r] |->
              IF waits[r][i].client = c THEN [waits[r][i] EXCEPT !.live = FALSE]
              ELSE waits[r][i]]]

\* The code leaves abandoned waiters in the queue until a pop meets them.  No
\* one can observe one, so when a client queues again its old one is dropped
\* here, which bounds the queue.
Forget(q, c) ==
  IF \E i \in DOMAIN q : q[i].client = c
  THEN LET i == CHOOSE j \in DOMAIN q : q[j].client = c
       IN  SubSeq(q, 1, i - 1) \o SubSeq(q, i + 1, Len(q))
  ELSE q

-----------------------------------------------------------------------------
(* checkout *)

\* checkout's locals are gone when it returns.
GoTo(c, s) ==
  /\ stage' = [stage EXCEPT ![c] = s]
  /\ IF s \in InCheckout
     THEN UNCHANGED <<route, batches, late>>
     ELSE /\ route' = [route EXCEPT ![c] = "primary"]
          /\ batches' = [batches EXCEPT ![c] = NoBatches]
          /\ late' = [late EXCEPT ![c] = FALSE]

\* A client asks for a connection; read-only traffic is routed to replicas.
Begin(c) ==
  /\ stage[c] = "idle"
  /\ stage' = [stage EXCEPT ![c] = "resolve"]
  /\ \E r \in Traffic : route' = [route EXCEPT ![c] = r]
  /\ UNCHANGED <<poolVars, batches, guard, late, queueVars, taskVars, controlVars>>

\* The clock of the one timeout budget of this checkout.
Deadline(c) ==
  /\ "timeout" \in Events
  /\ stage[c] \in InCheckout
  /\ ~late[c]
  /\ late' = [late EXCEPT ![c] = TRUE]
  /\ UNCHANGED <<poolVars, stage, route, batches, guard, queueVars, taskVars, controlVars>>

\* resolve_candidates, twice for read-only traffic.  It reads the topology
\* without the pool mutex, so the batches may be stale when they are tried.
PrimaryBatch == {topology.primary} \ {NoNode}
FirstBatch(c) == IF route[c] = "replica" THEN topology.replicas ELSE PrimaryBatch
SecondBatch(c) == IF route[c] = "replica" THEN PrimaryBatch ELSE {}

Resolve(c) ==
  /\ stage[c] = "resolve"
  /\ FirstBatch(c) \cup SecondBatch(c) # {}
  /\ batches' = [batches EXCEPT ![c] = [first |-> FirstBatch(c), second |-> SecondBatch(c)]]
  /\ stage' = [stage EXCEPT ![c] = IF FirstBatch(c) # {} THEN "first" ELSE "second"]
  /\ UNCHANGED <<poolVars, route, guard, late, queueVars, taskVars, controlVars>>

\* ResolveError::NoPrimary or NoReplica.
ResolveError(c) ==
  /\ stage[c] = "resolve"
  /\ FirstBatch(c) \cup SecondBatch(c) = {}
  /\ GoTo(c, "idle")
  /\ UNCHANGED <<poolVars, guard, queueVars, taskVars, controlVars>>

Batch(c) == IF stage[c] = "first" THEN batches[c].first ELSE batches[c].second

\* Which connections of a pool pop_idle may find expired.
ExpiredSets(k) ==
  IF {"stale", "aged"} \cap Events # {} THEN SUBSET idle[k] ELSE {{}}

\* What evict_idle_for_node may close for k once k's own queue is empty.
Victims(k) == UNION {idle[KeyOf(k.node, u)] : u \in Users \ {k.user}}

\* Mutants: connections being reset are not counted.
UserMayOpenBesideResets(k) == UserHasCapacity(k, Cardinality(active[k]))
NodeHasRoomBesideResets(k) ==
  PoolHasCapacity(k.node, Cardinality(NodeConns(k.node) \
                            (idle[k] \cup UNION {resetting[j] : j \in Keys})))

\* After pop_idle discarded all of k's idle connections: may k open another?
UserMayOpen(k) == UserHasCapacity(k, Cardinality(active[k] \cup resetting[k]))
NodeHasRoom(k) == PoolHasCapacity(k.node, Cardinality(NodeConns(k.node) \ idle[k]))
MayOpen(k) == UserMayOpen(k) /\ (NodeHasRoom(k) \/ Victims(k) # {})

\* try_candidates goes on to the next candidate.
FoundFull(k) == idle[k] \in ExpiredSets(k) /\ ~MayOpen(k)

\* The candidates tried before n: ranked by active count, ties in the order the
\* shared round-robin counter happens to give.
TriedBefore(c, n) ==
  LET load(m) == Cardinality(active[KeyOf(m, UserOf[c])])
  IN  {S \in SUBSET (Batch(c) \ {n}) :
         /\ \A m \in S : load(m) <= load(n)
         /\ \A m \in (Batch(c) \ {n}) \ S : load(m) >= load(n)}

Skip(c, S) == \A m \in S : FoundFull(KeyOf(m, UserOf[c]))
SkippedKeys(c, S) == {KeyOf(m, UserOf[c]) : m \in S}

\* CandidateResult::GotIdle.
GetIdle(c, n, S) ==
  LET k == KeyOf(n, UserOf[c])
  IN  /\ Skip(c, S)
      /\ \E expired \in ExpiredSets(k) : \E id \in idle[k] \ expired :
           /\ idle' = [j \in Keys |-> IF j = k THEN idle[k] \ (expired \cup {id})
                                      ELSE IF j \in SkippedKeys(c, S) THEN {} ELSE idle[j]]
           /\ active' = [active EXCEPT ![k] = @ \cup {id}]
           /\ guard' = [guard EXCEPT ![c] = [key |-> k, conn |-> id]]
      /\ GoTo(c, "holding")
      /\ UNCHANGED resetting

\* CandidateResult::Claimed: a slot, and nothing connected yet.
Claim(c, n, S) ==
  LET k == KeyOf(n, UserOf[c])
  IN  /\ Skip(c, S)
      /\ idle[k] \in ExpiredSets(k)
      /\ UserMayOpen(k)
      /\ \E evicted \in IF NodeHasRoom(k) THEN {{}} ELSE {{v} : v \in Victims(k)} :
         \E id \in FreshIds :
           /\ idle' = [j \in Keys |-> IF j = k \/ j \in SkippedKeys(c, S) THEN {}
                                      ELSE idle[j] \ evicted]
           /\ active' = [active EXCEPT ![k] = @ \cup {id}]
           /\ guard' = [guard EXCEPT ![c] = [key |-> k, conn |-> id]]
      /\ GoTo(c, "connecting")
      /\ UNCHANGED resetting

\* CandidateResult::AllFull: the fallback batch, then the queue.
AllFull(c) ==
  /\ Skip(c, Batch(c))
  /\ idle' = [j \in Keys |-> IF j \in SkippedKeys(c, Batch(c)) THEN {} ELSE idle[j]]
  /\ GoTo(c, IF stage[c] = "first" /\ batches[c].second # {} THEN "second" ELSE "enqueue")
  /\ UNCHANGED <<active, resetting, guard>>

TryCandidates(c) ==
  /\ stage[c] \in {"first", "second"}
  /\ \/ \E n \in Batch(c) : \E S \in TriedBefore(c, n) : GetIdle(c, n, S) \/ Claim(c, n, S)
     \/ AllFull(c)
  /\ UNCHANGED <<queueVars, taskVars, controlVars>>

ConnectOk(c) ==
  /\ stage[c] = "connecting"
  /\ GoTo(c, "holding")
  /\ UNCHANGED <<poolVars, guard, queueVars, taskVars, controlVars>>

\* The first lock of discard_internal.
Deactivate(c) == active' = [active EXCEPT ![guard[c].key] = @ \ {guard[c].conn}]

\* Mutant: the key is gone before the wake that needs it.
ConnectFailForgets(c) ==
  /\ "connect" \in Events
  /\ stage[c] = "connecting"
  /\ Deactivate(c)
  /\ guard' = [guard EXCEPT ![c] = NoGuard]
  /\ GoTo(c, "failed")
  /\ UNCHANGED <<idle, resetting, queueVars, taskVars, controlVars>>

ConnectFail(c) ==
  /\ "connect" \in Events
  /\ stage[c] = "connecting"
  /\ Deactivate(c)
  /\ GoTo(c, "failed")
  /\ UNCHANGED <<idle, resetting, guard, queueVars, taskVars, controlVars>>

\* The wake of discard_internal, and what the caller does next: a failed
\* connect is an error only if there was no other candidate.
DiscardWake(c) ==
  LET candidates == Cardinality(batches[c].first) + Cardinality(batches[c].second)
  IN  /\ stage[c] \in {"failed", "dropped"}
      /\ WakeOne(guard[c].key.node)
      /\ guard' = [guard EXCEPT ![c] = NoGuard]
      /\ GoTo(c, IF stage[c] = "failed" /\ candidates # 1 THEN "enqueue" ELSE "idle")
      /\ UNCHANGED <<poolVars, taskVars, controlVars>>

\* Joining the queue takes the mutex again.
Enqueue(c) ==
  /\ stage[c] = "enqueue"
  /\ waits' = [waits EXCEPT ![route[c]] = Append(Forget(@, c), [client |-> c, live |-> TRUE])]
  /\ GoTo(c, "queued")
  /\ UNCHANGED <<poolVars, guard, notified, taskVars, controlVars>>

\* No budget left: return without waiting.  A wake sent in the meantime is lost.
Bail(c) ==
  /\ stage[c] = "queued"
  /\ late[c]
  /\ DropReceiver(c)
  /\ notified' = [notified EXCEPT ![c] = FALSE]
  /\ GoTo(c, "idle")
  /\ UNCHANGED <<poolVars, guard, taskVars, controlVars>>

Await(c) ==
  /\ stage[c] = "queued"
  /\ ~late[c]
  /\ GoTo(c, "waiting")
  /\ UNCHANGED <<poolVars, guard, queueVars, taskVars, controlVars>>

\* tokio's timeout polls the receiver first, so a wake beats the timer.
Timeout(c) ==
  /\ stage[c] = "waiting"
  /\ late[c]
  /\ ~notified[c]
  /\ DropReceiver(c)
  /\ GoTo(c, "idle")
  /\ UNCHANGED <<poolVars, guard, notified, taskVars, controlVars>>

\* Mutant: each wait gets a fresh checkout_timeout.
ProceedFresh(c) ==
  /\ stage[c] = "waiting"
  /\ notified[c]
  /\ notified' = [notified EXCEPT ![c] = FALSE]
  /\ stage' = [stage EXCEPT ![c] = IF shutdown = "running" THEN "resolve" ELSE "idle"]
  /\ late' = [late EXCEPT ![c] = FALSE]
  /\ UNCHANGED <<poolVars, route, batches, guard, waits, taskVars, controlVars>>

\* Woken: an error if the pool is shutting down, else round the loop again.
Proceed(c) ==
  /\ stage[c] = "waiting"
  /\ notified[c]
  /\ notified' = [notified EXCEPT ![c] = FALSE]
  /\ GoTo(c, IF shutdown = "running" THEN "resolve" ELSE "idle")
  /\ UNCHANGED <<poolVars, guard, waits, taskVars, controlVars>>

-----------------------------------------------------------------------------
(* Giving a connection back *)

\* Mutant: the slot is not given up.
CheckinKeepsSlot(c) ==
  /\ stage[c] = "holding"
  /\ resetting' = [resetting EXCEPT ![guard[c].key] = @ \cup {guard[c].conn}]
  /\ guard' = [guard EXCEPT ![c] = NoGuard]
  /\ GoTo(c, "idle")
  /\ UNCHANGED <<idle, active, queueVars, taskVars, controlVars>>

\* Mutant: no reset.
CheckinUncleaned(c) ==
  /\ stage[c] = "holding"
  /\ Deactivate(c)
  /\ idle' = [idle EXCEPT ![guard[c].key] = @ \cup {guard[c].conn}]
  /\ guard' = [guard EXCEPT ![c] = NoGuard]
  /\ GoTo(c, "idle")
  /\ UNCHANGED <<resetting, queueVars, taskVars, controlVars>>

\* ConnGuard::checkin.
Checkin(c) ==
  LET k == guard[c].key
  IN  /\ stage[c] = "holding"
      /\ Deactivate(c)
      /\ resetting' = [resetting EXCEPT ![k] = @ \cup {guard[c].conn}]
      /\ guard' = [guard EXCEPT ![c] = NoGuard]
      /\ GoTo(c, "idle")
      /\ UNCHANGED <<idle, queueVars, taskVars, controlVars>>

\* Drop of a ConnGuard that was not checked in.
DropGuard(c) ==
  /\ "drop" \in Events
  /\ stage[c] = "holding"
  /\ Deactivate(c)
  /\ GoTo(c, "dropped")
  /\ UNCHANGED <<idle, resetting, guard, queueVars, taskVars, controlVars>>

\* A task has freed a slot of n and has yet to call wake_one_for_node.
OweWake(n) == wakes[n] < MaxWakes /\ wakes' = [wakes EXCEPT ![n] = @ + 1]

\* Mutant: the ResetGuard is disarmed and the entry it guards is left.
ResetOkLeavesEntry(k, id) ==
  /\ id \in resetting[k]
  /\ idle' = [idle EXCEPT ![k] = @ \cup {id}]
  /\ OweWake(k.node)
  /\ UNCHANGED <<active, resetting, clientVars, queueVars, refills, tick, controlVars>>

\* reset_and_return, clean.
ResetOk(k, id) ==
  /\ id \in resetting[k]
  /\ resetting' = [resetting EXCEPT ![k] = @ \ {id}]
  /\ idle' = [idle EXCEPT ![k] = @ \cup {id}]
  /\ OweWake(k.node)
  /\ UNCHANGED <<active, clientVars, queueVars, refills, tick, controlVars>>

\* reset_and_return, failed: the connection is closed.
ResetFail(k, id) ==
  /\ "reset" \in Events
  /\ id \in resetting[k]
  /\ resetting' = [resetting EXCEPT ![k] = @ \ {id}]
  /\ OweWake(k.node)
  /\ UNCHANGED <<idle, active, clientVars, queueVars, refills, tick, controlVars>>

\* ResetGuard::drop: the slot is freed and no one is woken.
ResetPanic(k, id) ==
  /\ "panic" \in Events
  /\ id \in resetting[k]
  /\ resetting' = [resetting EXCEPT ![k] = @ \ {id}]
  /\ UNCHANGED <<idle, active, clientVars, queueVars, taskVars, controlVars>>

\* A background task gets to its wake_one_for_node.
Wake(n) ==
  /\ wakes[n] > 0
  /\ wakes' = [wakes EXCEPT ![n] = @ - 1]
  /\ WakeOne(n)
  /\ UNCHANGED <<poolVars, clientVars, refills, tick, controlVars>>

-----------------------------------------------------------------------------
(* Background maintenance *)

Idling(f) == \A k \in Keys : refills[f][k] = 0

\* Mutant: the floor is compared with the count before the removal.
SurvivorsBelowFloor(k) ==
  {kept \in SUBSET idle[k] :
     \E healthy \in IF "aged" \in Events THEN SUBSET idle[k] ELSE {idle[k]} :
        /\ kept \subseteq healthy
        /\ \/ kept = healthy
           \/ "stale" \in Events /\ Cardinality(kept) + 1 >= MinFor(k)}

\* What scavenge_idle may leave of k's idle connections: the dead and the
\* over-age go first, then those past idle_timeout, but only down to the floor.
Survivors(k) ==
  {kept \in SUBSET idle[k] :
     \E healthy \in IF "aged" \in Events THEN SUBSET idle[k] ELSE {idle[k]} :
        /\ kept \subseteq healthy
        /\ \/ kept = healthy
           \/ "stale" \in Events /\ Cardinality(kept) >= MinFor(k)}

\* scavenge_idle: one lock over every pool, then one wake per connection.
Scavenge ==
  /\ "scavenge" \in Events
  /\ tick = "sleep"
  /\ Idling("scavenger")
  /\ \E gone \in SUBSET UNION {idle[k] : k \in Keys} :
       LET freed(n) == Cardinality(gone \cap NodeConns(n))
       IN  /\ \A k \in Keys : idle[k] \ gone \in Survivors(k)
           /\ \A n \in Nodes : freed(n) > 0 => wakes[n] + freed(n) <= MaxWakes
           /\ idle' = [k \in Keys |-> idle[k] \ gone]
           /\ wakes' = [n \in Nodes |-> wakes[n] + freed(n)]
  /\ tick' = "scavenged"
  /\ UNCHANGED <<active, resetting, clientVars, queueVars, refills, controlVars>>

\* shortfalls: a snapshot under the lock; nothing is reserved.
Shortfall(k) ==
  LET total == Cardinality(ConnsOf(k))
  IN  IF total < MinFor(k) THEN MinFor(k) - total ELSE 0

WarmUp ==
  /\ "warmup" \in Events
  /\ Idling("warm_up")
  /\ refills' = [refills EXCEPT !["warm_up"] = [k \in Keys |-> Shortfall(k)]]
  /\ UNCHANGED <<poolVars, clientVars, queueVars, wakes, tick, controlVars>>

Refill ==
  /\ tick = "scavenged"
  /\ tick' = "sleep"
  /\ refills' = [refills EXCEPT !["scavenger"] = [k \in Keys |-> Shortfall(k)]]
  /\ UNCHANGED <<poolVars, clientVars, queueVars, wakes, controlVars>>

\* One connect of spawn_connections ends; no limit is looked at.
SpawnOk(f, k) ==
  /\ refills[f][k] > 0
  /\ refills' = [refills EXCEPT ![f][k] = @ - 1]
  /\ \E id \in FreshIds : idle' = [idle EXCEPT ![k] = @ \cup {id}]
  /\ OweWake(k.node)
  /\ UNCHANGED <<active, resetting, clientVars, queueVars, tick, controlVars>>

SpawnFail(f, k) ==
  /\ "connect" \in Events
  /\ refills[f][k] > 0
  /\ refills' = [refills EXCEPT ![f][k] = @ - 1]
  /\ UNCHANGED <<poolVars, clientVars, queueVars, wakes, tick, controlVars>>

-----------------------------------------------------------------------------
(* Topology changes and shutdown *)

\* TopologyManager::refresh commits what the probes found.
Refresh ==
  /\ drains = {} /\ ~drained
  /\ \E report \in Reports : \E found \in Discovered(report) :
       /\ ~AllProbesFailed(found)
       /\ topology' = found
       /\ drains' = ChangedNodes(topology, found)
  /\ UNCHANGED <<poolVars, clientVars, queueVars, taskVars, drained, shutdown>>

\* drain_node: clear, then wake everyone under a second lock.
DrainNode(n) ==
  /\ n \in drains /\ ~drained
  /\ idle' = [k \in Keys |-> IF k.node = n THEN {} ELSE idle[k]]
  /\ drains' = drains \ {n}
  /\ drained' = TRUE
  /\ UNCHANGED <<active, resetting, clientVars, queueVars, taskVars, topology, shutdown>>

DrainWake ==
  /\ drained
  /\ WakeAll
  /\ drained' = FALSE
  /\ UNCHANGED <<poolVars, clientVars, taskVars, topology, drains, shutdown>>

\* PoolManager::shutdown.
ShutdownFlag ==
  /\ "shutdown" \in Events
  /\ shutdown = "running"
  /\ shutdown' = "flagged"
  /\ UNCHANGED <<poolVars, clientVars, queueVars, taskVars, topology, drains, drained>>

ShutdownWake ==
  /\ shutdown = "flagged"
  /\ WakeAll
  /\ shutdown' = "woken"
  /\ UNCHANGED <<poolVars, clientVars, taskVars, topology, drains, drained>>

-----------------------------------------------------------------------------
ConnectStep(c) == ConnectOk(c) \/ ConnectFail(c)

PromptStep(c) ==
  \/ Resolve(c) \/ ResolveError(c) \/ TryCandidates(c) \/ DiscardWake(c)
  \/ Enqueue(c) \/ Bail(c) \/ Await(c) \/ Timeout(c) \/ Proceed(c)

CheckoutStep(c) == PromptStep(c) \/ ConnectStep(c)

ClientStep(c) == Begin(c) \/ Deadline(c) \/ CheckoutStep(c) \/ Checkin(c) \/ DropGuard(c)

ResetStep(k, id) == ResetOk(k, id) \/ ResetFail(k, id) \/ ResetPanic(k, id)

RefillStep ==
  \/ WarmUp \/ Refill
  \/ \E f \in Refillers, k \in Keys : SpawnOk(f, k) \/ SpawnFail(f, k)

ControlStep ==
  \/ Refresh \/ (\E n \in Nodes : DrainNode(n)) \/ DrainWake
  \/ ShutdownFlag \/ ShutdownWake

Next ==
  \/ \E c \in Clients : ClientStep(c)
  \/ \E k \in Keys, id \in Conns : ResetStep(k, id)
  \/ \E n \in Nodes : Wake(n)
  \/ Scavenge \/ RefillStep \/ ControlStep

\* The runtime polls every ready task and the timer of a checkout fires.  Nothing
\* obliges a client to give its guard back or a server to answer a reset, which
\* has no timeout.  connect_timeout bounds the TCP connect but not the startup
\* handshake after it, so a connect ends only if the servers are not mute.
Fairness ==
  /\ \A c \in Clients : WF_vars(PromptStep(c)) /\ WF_vars(Deadline(c))
  /\ "mute" \in Events \/ \A c \in Clients : WF_vars(ConnectStep(c))
  /\ \A n \in Nodes : WF_vars(Wake(n))
  /\ WF_vars(DrainWake) /\ WF_vars(ShutdownWake)

Spec == Init /\ [][Next]_vars
FairSpec == Spec /\ Fairness

-----------------------------------------------------------------------------
(* Safety *)

Holds(c) == stage[c] \in {"connecting", "holding"}

\* A connection id is in one collection of one pool: a double return, or a
\* return after a discard, would put it in two and count it twice.
OnePlace ==
  /\ \A k \in Keys : /\ idle[k] \cap active[k] = {}
                     /\ idle[k] \cap resetting[k] = {}
                     /\ active[k] \cap resetting[k] = {}
  /\ \A j, k \in Keys : j # k => ConnsOf(j) \cap ConnsOf(k) = {}

\* Every active slot belongs to exactly one client that will give it back, and
\* every client's slot is counted: no slot leaks, none is lent twice, whatever
\* order connects, failures, checkins and drops come in.
ActiveIsHeld ==
  /\ \A c \in Clients :
       Holds(c) => guard[c].conn \in active[guard[c].key]
  /\ \A c, d \in Clients : Holds(c) /\ Holds(d) /\ c # d => guard[c] # guard[d]
  /\ \A k \in Keys : \A id \in active[k] :
       \E c \in Clients : Holds(c) /\ guard[c] = [key |-> k, conn |-> id]

\* While roles do not change and nothing is pre-opened, no node carries more
\* connections than max_connections, even with a checkout between its limit
\* check and its connect, resets under way and idle connections evicted.
NodeWithinMax == \A n \in Nodes : Cardinality(NodeConns(n)) <= PoolLimit(n)

\* The same for the per-user limit.
UserWithinMax ==
  \A k \in Keys : k.user \in LimitedUsers => Cardinality(ConnsOf(k)) <= UserLimit(k)

\* A waiter in a queue is live exactly while its client is blocked and has not
\* been woken, stands in the queue of that client's routing, and stands there
\* once: else a wake is spent on a client that is not there to use it.
WaitersSound ==
  /\ \A r \in Routing : \A i \in LivePositions(waits[r]) :
       LET c == waits[r][i].client
       IN  stage[c] \in {"queued", "waiting"} /\ ~notified[c] /\ route[c] = r
  /\ \A c \in Clients : stage[c] \in {"queued", "waiting"} /\ ~notified[c] =>
       Cardinality({i \in LivePositions(waits[route[c]]) : waits[route[c]][i].client = c}) = 1
  /\ \A c \in Clients : notified[c] => stage[c] \in {"queued", "waiting"}

\* The longest-waiting live client of the first queue a freed slot of n serves.
NextServed(n) ==
  LET served == ServedRoutings(n)
      hits == {i \in DOMAIN served : LivePositions(waits[served[i]]) # {}}
  IN  {c \in Clients : \E i \in hits : /\ \A j \in hits : i <= j
                                       /\ LET q == waits[served[i]] IN q[FirstLive(q)].client = c}

\* Every wake of a background task reaches a client that is still waiting, if
\* there is one the slot can serve: the first of its queue, and only that one.
\* Waiters that gave up and stand in front do not swallow it.
WakeReachesFirst ==
  [][\A n \in Nodes : wakes'[n] < wakes[n] =>
       {c \in Clients : notified'[c] /\ ~notified[c]} = NextServed(n)]_vars

\* A step that is not a refill's connect grows a node only within its limit at
\* that moment, whatever roles it had before.
CheckoutGrowsWithinLimit ==
  [][\A n \in Nodes :
       /\ Cardinality(NodeConns(n)') > Cardinality(NodeConns(n))
       /\ refills' = refills
       => Cardinality(NodeConns(n)') <= PoolLimit(n)]_vars

\* Past idle_timeout alone, the scavenger leaves min_connections of each pool.
ScavengeKeepsFloor ==
  [][tick = "sleep" /\ tick' = "scavenged" =>
       \A k \in Keys : idle'[k] = idle[k] \/ Cardinality(idle'[k]) >= MinFor(k)]_vars

\* A drained node keeps no idle connection, and every client that was blocked
\* when its drain finished gets to look at the new topology.
DrainReleasesWaiters ==
  [][drained /\ ~drained' =>
       \A c \in Clients : stage[c] \in {"queued", "waiting"} => notified'[c]]_vars

-----------------------------------------------------------------------------
(* Liveness *)

\* A checkout ends, with a connection or an error, however often it is woken
\* for a slot another client takes first: waking does not reset the clock.
\* docs/src/guide/backpressure.md: "Each checkout has a single timeout budget
\* (checkout_timeout)."  With mute servers it has none.
CheckoutEnds ==
  \A c \in Clients : stage[c] = "resolve" ~> stage[c] \in {"idle", "holding"}

-----------------------------------------------------------------------------
(* What the documentation says and the code does not do *)

Candidates(c) ==
  IF route[c] = "replica" THEN topology.replicas \cup PrimaryBatch ELSE PrimaryBatch
Servable(c) ==
  \E n \in Candidates(c) : LET k == KeyOf(n, UserOf[c]) IN idle[k] # {} \/ MayOpen(k)

\* No task has anything left to do but clients that hold a connection.
Settled ==
  /\ \A c \in Clients : stage[c] \in {"idle", "holding", "waiting"} /\ ~notified[c]
  /\ \A k \in Keys : resetting[k] = {}
  /\ \A n \in Nodes : wakes[n] = 0
  /\ \A f \in Refillers : Idling(f)
  /\ drains = {} /\ ~drained /\ shutdown # "flagged"

\* docs/src/guide/backpressure.md: "The client waits until capacity frees up or
\* checkout_timeout expires."  So no client is left waiting beside capacity it
\* could use once everything in flight has settled.
WaitsOnlyForCapacity ==
  Settled => \A c \in Clients : stage[c] = "waiting" => ~Servable(c)
=============================================================================
