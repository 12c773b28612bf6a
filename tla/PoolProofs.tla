----------------------------- MODULE PoolProofs -----------------------------
(***************************************************************************)
(* Proofs about Pool, for every set of nodes, users, clients and           *)
(* connections, every limit and every selection of environment events: its *)
(* types, its ownership of connections, its limits, its wait queues, and   *)
(* that it implements ConnLease.                                           *)
(***************************************************************************)
EXTENDS PoolLease, FiniteSetTheorems, SequenceTheorems, WellFoundedInduction, TLAPS

-----------------------------------------------------------------------------
(* Lemmas on the operators of the model *)

\* A topology found by a probe is a topology.
LEMMA DiscoveredType ==
  ASSUME NEW report \in ProbeReport, NEW found \in Discovered(report)
  PROVE  found \in Topology
BY DEF Discovered, Topology, Answering, ProbeReport

\* A refresh drains nodes of the cluster only.
LEMMA ChangedNodesType ==
  ASSUME NEW prev \in Topology, NEW new \in Topology
  PROVE  ChangedNodes(prev, new) \subseteq Nodes
BY DEF ChangedNodes, Topology

\* A non-empty set of naturals has a least element.
LEMMA LeastNat ==
  ASSUME NEW S, S \subseteq Nat, S # {}
  PROVE  \E i \in S : \A j \in S : i <= j
<1>1. PICK i \in S : \A j \in S : ~(<<j, i>> \in OpToRel(<, Nat))
  BY NatLessThanWellFounded, WFMin
<1>2. \A j \in S : ~(j < i)
  BY <1>1 DEF OpToRel
<1> QED  BY <1>2

\* The waiter a pop stops at is a live one of the queue.
LEMMA FirstLiveType ==
  ASSUME NEW q \in Seq(Waiter), LivePositions(q) # {}
  PROVE  FirstLive(q) \in 1..Len(q) /\ q[FirstLive(q)].live
<1>1. LivePositions(q) \subseteq 1..Len(q) /\ LivePositions(q) \subseteq Nat
  BY DEF LivePositions
<1>2. \E i \in LivePositions(q) : \A j \in LivePositions(q) : i <= j
  BY <1>1, LeastNat
<1>3. FirstLive(q) \in LivePositions(q)
  BY <1>2 DEF FirstLive
<1> QED  BY <1>1, <1>3 DEF LivePositions

\* Popping a wait queue leaves a wait queue.
LEMMA AfterPopType ==
  ASSUME NEW q \in Seq(Waiter)
  PROVE  AfterPop(q) \in Seq(Waiter)
<1>1. CASE LivePositions(q) = {}
  BY <1>1 DEF AfterPop
<1>2. CASE LivePositions(q) # {}
  <2>1. FirstLive(q) \in 1..Len(q)
    BY <1>2, FirstLiveType
  <2>2. \A i \in FirstLive(q) + 1 .. Len(q) : q[i] \in Waiter
    BY <2>1
  <2>3. SubSeq(q, FirstLive(q) + 1, Len(q)) \in Seq(Waiter)
    BY <2>1, <2>2, SubSeqProperties
  <2> QED  BY <1>2, <2>3 DEF AfterPop
<1> QED  BY <1>1, <1>2

\* So does dropping one client's abandoned waiter.
LEMMA ForgetType ==
  ASSUME NEW q \in Seq(Waiter), NEW c \in Clients
  PROVE  Forget(q, c) \in Seq(Waiter)
<1>1. CASE \E i \in DOMAIN q : q[i].client = c
  <2> DEFINE i == CHOOSE j \in DOMAIN q : q[j].client = c
  <2>1. i \in 1..Len(q)
    BY <1>1
  <2> HIDE DEF i
  <2>2. SubSeq(q, 1, i - 1) \in Seq(Waiter)
    BY <2>1, SubSeqProperties
  <2>3. SubSeq(q, i + 1, Len(q)) \in Seq(Waiter)
    BY <2>1, SubSeqProperties
  <2>4. SubSeq(q, 1, i - 1) \o SubSeq(q, i + 1, Len(q)) \in Seq(Waiter)
    BY <2>2, <2>3, ConcatProperties
  <2> QED  BY <1>1, <2>4 DEF Forget, i
<1>2. CASE ~\E i \in DOMAIN q : q[i].client = c
  BY <1>2 DEF Forget
<1> QED  BY <1>1, <1>2

\* What a key lacks to its minimum is a number of connections.
LEMMA ShortfallType ==
  ASSUME TypeOK, NEW k \in Keys
  PROVE  Shortfall(k) \in Nat
<1>1. MinFor(k) \in Nat
  BY PoolAssumption DEF MinFor, Keys
<1>2. Cardinality(ConnsOf(k)) \in Nat
  BY PoolAssumption, FS_Subset, FS_CardinalityType DEF ConnsOf, TypeOK
<1> QED  BY <1>1, <1>2 DEF Shortfall

\* A wake more is due.
LEMMA OweWakeType ==
  ASSUME TypeOK, NEW n \in Nodes, OweWake(n)
  PROVE  wakes' \in [Nodes -> Nat]
<1>1. wakes \in [Nodes -> Nat] /\ wakes[n] + 1 \in Nat
  BY DEF TypeOK
<1>2. wakes' = [wakes EXCEPT ![n] = wakes[n] + 1]
  BY DEF OweWake
<1> QED  BY <1>1, <1>2

\* Waking keeps the queues and the set of woken clients well formed.
LEMMA WakeOneType ==
  ASSUME TypeOK, NEW n, WakeOne(n)
  PROVE  /\ waits' \in [Routing -> Seq(Waiter)]
         /\ notified' \in [Clients -> BOOLEAN]
<1>1. \A r \in Routing : waits[r] \in Seq(Waiter) /\ AfterPop(waits[r]) \in Seq(Waiter)
  BY AfterPopType DEF TypeOK
<1>2. waits' \in [Routing -> Seq(Waiter)]
  BY <1>1 DEF WakeOne
<1>3. notified' \in [Clients -> BOOLEAN]
  BY DEF WakeOne, TypeOK
<1> QED  BY <1>2, <1>3

\* Waking everyone does too.
LEMMA WakeAllType ==
  ASSUME TypeOK, WakeAll
  PROVE  /\ waits' \in [Routing -> Seq(Waiter)]
         /\ notified' \in [Clients -> BOOLEAN]
BY EmptySeq DEF WakeAll, TypeOK

\* A waiter that gave up stays a waiter, a dead one.
LEMMA DropReceiverType ==
  ASSUME TypeOK, NEW c \in Clients, DropReceiver(c)
  PROVE  waits' \in [Routing -> Seq(Waiter)]
<1> SUFFICES ASSUME NEW r \in Routing
             PROVE  [i \in DOMAIN waits[r] |->
                       IF waits[r][i].client = c THEN [waits[r][i] EXCEPT !.live = FALSE]
                       ELSE waits[r][i]] \in Seq(Waiter)
  BY DEF DropReceiver
<1>1. waits[r] \in Seq(Waiter)
  BY DEF TypeOK
<1>2. DOMAIN waits[r] = 1..Len(waits[r]) /\ Len(waits[r]) \in Nat
  BY <1>1, LenProperties
<1>3. \A i \in 1..Len(waits[r]) : waits[r][i] \in Waiter
  BY <1>1, ElementOfSeq
<1>4. \A i \in 1..Len(waits[r]) :
        (IF waits[r][i].client = c THEN [waits[r][i] EXCEPT !.live = FALSE]
         ELSE waits[r][i]) \in Waiter
  BY <1>3 DEF Waiter
<1> QED  BY <1>2, <1>4, IsASeq

\* A client may enter a stage that has a guard with a guard only.
LEMMA GoToType ==
  ASSUME TypeOK, NEW c \in Clients, NEW s \in Stage, GoTo(c, s),
         guard' \in [Clients -> Guard \cup {NoGuard}],
         \A d \in Clients \ {c} : guard'[d] = guard[d],
         s \in WithGuard => guard'[c] \in Guard
  PROVE  /\ stage' \in [Clients -> Stage]
         /\ route' \in [Clients -> Routing]
         /\ batches' \in [Clients -> [first : SUBSET Nodes, second : SUBSET Nodes]]
         /\ late' \in [Clients -> BOOLEAN]
         /\ \A d \in Clients : stage'[d] \in WithGuard => guard'[d] \in Guard
<1>1. stage' \in [Clients -> Stage] /\ stage'[c] = s
  BY DEF GoTo, TypeOK
<1>2. \A d \in Clients \ {c} : stage'[d] = stage[d]
  BY DEF GoTo, TypeOK
<1>3. \A d \in Clients : stage'[d] \in WithGuard => guard'[d] \in Guard
  BY <1>1, <1>2 DEF TypeOK
<1>4. /\ route' \in [Clients -> Routing]
      /\ batches' \in [Clients -> [first : SUBSET Nodes, second : SUBSET Nodes]]
      /\ late' \in [Clients -> BOOLEAN]
  <2>1. /\ route \in [Clients -> Routing]
        /\ batches \in [Clients -> [first : SUBSET Nodes, second : SUBSET Nodes]]
        /\ late \in [Clients -> BOOLEAN]
    BY DEF TypeOK
  <2>2. "primary" \in Routing /\ NoBatches \in [first : SUBSET Nodes, second : SUBSET Nodes]
    BY DEF Routing, NoBatches
  <2> QED  BY <2>1, <2>2 DEF GoTo
<1> QED  BY <1>1, <1>3, <1>4

-----------------------------------------------------------------------------
(* Type correctness *)

\* The pool starts well typed.
LEMMA InitType == Init => TypeOK
<1> SUFFICES ASSUME Init PROVE TypeOK
  OBVIOUS
<1>1. topology \in Topology
  BY DiscoveredType, PoolAssumption DEF Init
<1>2. waits \in [Routing -> Seq(Waiter)]
  BY EmptySeq DEF Init
<1>3. \A c \in Clients : stage[c] \notin WithGuard
  BY DEF Init, WithGuard
<1>4. stage \in [Clients -> Stage]
  BY DEF Init, Stage
<1> QED  BY <1>1, <1>2, <1>3, <1>4 DEF Init, TypeOK, Routing, NoBatches

\* The steps of a checkout keep every variable in its type.
LEMMA CheckoutType ==
  ASSUME TypeOK, NEW c \in Clients, CheckoutStep(c)
  PROVE  TypeOK'
<1> USE DEF poolVars, clientVars, queueVars, taskVars, controlVars
<1>1. CASE Resolve(c)
  <2>1. /\ FirstBatch(c) \subseteq Nodes
        /\ SecondBatch(c) \subseteq Nodes
    BY DEF FirstBatch, SecondBatch, PrimaryBatch, TypeOK, Topology
  <2>2. batches' \in [Clients -> [first : SUBSET Nodes, second : SUBSET Nodes]]
    BY <1>1, <2>1 DEF Resolve, TypeOK
  <2>3. /\ stage' \in [Clients -> Stage]
        /\ \A d \in Clients : stage'[d] \in WithGuard => stage[d] \in WithGuard
    BY <1>1 DEF Resolve, TypeOK, Stage, WithGuard
  <2> QED  BY <1>1, <2>2, <2>3 DEF Resolve, TypeOK
<1>2. CASE ResolveError(c)
  BY <1>2, GoToType DEF ResolveError, TypeOK, Stage, WithGuard
<1>3. CASE TryCandidates(c)
  <2>1. Batch(c) \subseteq Nodes
    BY DEF Batch, TypeOK
  <2>2. ASSUME NEW n \in Batch(c), NEW S \in TriedBefore(c, n), GetIdle(c, n, S)
        PROVE  TypeOK'
    <3> DEFINE k == KeyOf(n, UserOf[c])
    <3>1. k \in Keys
      BY <2>1, PoolAssumption DEF KeyOf, Keys
    <3>2. PICK expired \in ExpiredSets(k) : \E id \in idle[k] \ expired :
           /\ idle' = [j \in Keys |-> IF j = k THEN idle[k] \ (expired \cup {id})
                                      ELSE IF j \in SkippedKeys(c, S) THEN {} ELSE idle[j]]
           /\ active' = [active EXCEPT ![k] = @ \cup {id}]
           /\ guard' = [guard EXCEPT ![c] = [key |-> k, conn |-> id]]
      BY <2>2 DEF GetIdle
    <3> HIDE DEF k
    <3>3. /\ idle' \in [Keys -> SUBSET Conns]
          /\ active' \in [Keys -> SUBSET Conns]
          /\ guard' \in [Clients -> Guard \cup {NoGuard}]
          /\ \A d \in Clients \ {c} : guard'[d] = guard[d]
          /\ guard'[c] \in Guard
      BY <3>1, <3>2 DEF TypeOK, Guard
    <3>4. GoTo(c, "holding") /\ UNCHANGED resetting
      BY <2>2 DEF GetIdle
    <3> QED  BY <1>3, <3>3, <3>4, GoToType DEF TryCandidates, TypeOK, Stage, WithGuard
  <2>3. ASSUME NEW n \in Batch(c), NEW S \in TriedBefore(c, n), Claim(c, n, S)
        PROVE  TypeOK'
    <3> DEFINE k == KeyOf(n, UserOf[c])
    <3>1. k \in Keys
      BY <2>1, PoolAssumption DEF KeyOf, Keys
    <3>2. PICK evicted \in IF NodeHasRoom(k) THEN {{}} ELSE {{v} : v \in Victims(k)} :
            \E id \in FreshIds :
             /\ idle' = [j \in Keys |-> IF j = k \/ j \in SkippedKeys(c, S) THEN {}
                                        ELSE idle[j] \ evicted]
             /\ active' = [active EXCEPT ![k] = @ \cup {id}]
             /\ guard' = [guard EXCEPT ![c] = [key |-> k, conn |-> id]]
      BY <2>3 DEF Claim
    <3> HIDE DEF k
    <3>3. /\ idle' \in [Keys -> SUBSET Conns]
          /\ active' \in [Keys -> SUBSET Conns]
          /\ guard' \in [Clients -> Guard \cup {NoGuard}]
          /\ \A d \in Clients \ {c} : guard'[d] = guard[d]
          /\ guard'[c] \in Guard
      BY <3>1, <3>2 DEF TypeOK, Guard, FreshIds
    <3>4. GoTo(c, "connecting") /\ UNCHANGED resetting
      BY <2>3 DEF Claim
    <3> QED  BY <1>3, <3>3, <3>4, GoToType DEF TryCandidates, TypeOK, Stage, WithGuard
  <2>4. CASE AllFull(c)
    <3>1. PICK s \in {"second", "enqueue"} : GoTo(c, s)
      BY <2>4 DEF AllFull
    <3>2. idle' \in [Keys -> SUBSET Conns]
      BY <2>4 DEF AllFull, TypeOK
    <3> QED  BY <1>3, <2>4, <3>1, <3>2, GoToType DEF TryCandidates, AllFull, TypeOK, Stage, WithGuard
  <2> QED  BY <1>3, <2>2, <2>3, <2>4 DEF TryCandidates
<1>4. CASE ConnectOk(c)
  BY <1>4, GoToType DEF ConnectOk, TypeOK, Stage, WithGuard
<1>5. CASE ConnectFail(c)
  <2>1. active' \in [Keys -> SUBSET Conns]
    BY <1>5 DEF ConnectFail, Deactivate, TypeOK
  <2> QED  BY <1>5, <2>1, GoToType DEF ConnectFail, TypeOK, Stage, WithGuard
<1>6. CASE DiscardWake(c)
  <2>1. PICK s \in {"enqueue", "idle"} : GoTo(c, s)
    BY <1>6 DEF DiscardWake
  <2>2. guard' \in [Clients -> Guard \cup {NoGuard}]
    BY <1>6 DEF DiscardWake, TypeOK
  <2>4. /\ waits' \in [Routing -> Seq(Waiter)]
        /\ notified' \in [Clients -> BOOLEAN]
    BY <1>6, WakeOneType DEF DiscardWake
  <2> QED  BY <1>6, <2>1, <2>2, <2>4, GoToType DEF DiscardWake, TypeOK, Stage, WithGuard
<1>7. CASE Enqueue(c)
  <2>1. route[c] \in Routing /\ waits[route[c]] \in Seq(Waiter)
    BY DEF TypeOK
  <2>2. [client |-> c, live |-> TRUE] \in Waiter
    BY DEF Waiter
  <2>3. Append(Forget(waits[route[c]], c), [client |-> c, live |-> TRUE]) \in Seq(Waiter)
    BY <2>1, <2>2, ForgetType, AppendProperties
  <2>4. waits' \in [Routing -> Seq(Waiter)]
    BY <1>7, <2>3 DEF Enqueue, TypeOK
  <2> QED  BY <1>7, <2>4, GoToType DEF Enqueue, TypeOK, Stage, WithGuard
<1>8. CASE Bail(c)
  BY <1>8, DropReceiverType, GoToType DEF Bail, TypeOK, Stage, WithGuard
<1>9. CASE Await(c)
  BY <1>9, GoToType DEF Await, TypeOK, Stage, WithGuard
<1>10. CASE Timeout(c)
  BY <1>10, DropReceiverType, GoToType DEF Timeout, TypeOK, Stage, WithGuard
<1>11. CASE Proceed(c)
  <2>1. PICK s \in {"resolve", "idle"} : GoTo(c, s)
    BY <1>11 DEF Proceed
  <2> QED  BY <1>11, <2>1, GoToType DEF Proceed, TypeOK, Stage, WithGuard
<1> QED
  BY <1>1, <1>2, <1>3, <1>4, <1>5, <1>6, <1>7, <1>8, <1>9, <1>10, <1>11 DEF CheckoutStep, PromptStep, ConnectStep

\* So does every step of a client's task.
LEMMA ClientType ==
  ASSUME TypeOK, NEW c \in Clients, ClientStep(c)
  PROVE  TypeOK'
<1> USE DEF poolVars, clientVars, queueVars, taskVars, controlVars
<1>1. CASE Begin(c)
  <2>1. route' \in [Clients -> Routing]
    BY <1>1, PoolAssumption DEF Begin, TypeOK
  <2> QED  BY <1>1, <2>1 DEF Begin, TypeOK, Stage, WithGuard
<1>2. CASE Deadline(c)
  BY <1>2 DEF Deadline, TypeOK
<1>3. CASE CheckoutStep(c)
  BY <1>3, CheckoutType
<1>4. CASE Checkin(c)
  <2>1. /\ active' \in [Keys -> SUBSET Conns]
        /\ resetting' \in [Keys -> SUBSET Conns]
        /\ guard' \in [Clients -> Guard \cup {NoGuard}]
    <3>1. guard[c] \in Guard
      BY <1>4 DEF Checkin, TypeOK, WithGuard
    <3> QED  BY <1>4, <3>1 DEF Checkin, Deactivate, TypeOK, Guard
  <2> QED  BY <1>4, <2>1, GoToType DEF Checkin, TypeOK, Stage, WithGuard
<1>5. CASE DropGuard(c)
  <2>1. active' \in [Keys -> SUBSET Conns]
    BY <1>5 DEF DropGuard, Deactivate, TypeOK
  <2> QED  BY <1>5, <2>1, GoToType DEF DropGuard, TypeOK, Stage, WithGuard
<1> QED  BY <1>1, <1>2, <1>3, <1>4, <1>5 DEF ClientStep

\* So do the steps of every task that is not a client's.
LEMMA BackgroundType ==
  ASSUME TypeOK,
         \/ \E k \in Keys, id \in Conns : ResetStep(k, id)
         \/ \E n \in Nodes : Wake(n)
         \/ Scavenge
         \/ RefillStep
  PROVE  TypeOK'
<1> USE DEF poolVars, clientVars, queueVars, taskVars, controlVars
<1>1. ASSUME NEW k \in Keys, NEW id \in Conns, ResetStep(k, id)
      PROVE  TypeOK'
  <2>1. k.node \in Nodes
    BY DEF Keys
  <2>2. /\ idle' \in [Keys -> SUBSET Conns]
        /\ resetting' \in [Keys -> SUBSET Conns]
    <3>1. /\ idle \in [Keys -> SUBSET Conns]
          /\ resetting \in [Keys -> SUBSET Conns]
      BY DEF TypeOK
    <3>2. /\ resetting' = [resetting EXCEPT ![k] = resetting[k] \ {id}]
          /\ idle' = idle \/ idle' = [idle EXCEPT ![k] = idle[k] \cup {id}]
      BY <1>1 DEF ResetStep, ResetOk, ResetFail, ResetPanic
    <3> QED  BY <3>1, <3>2
  <2>3. wakes' \in [Nodes -> Nat]
    BY <1>1, <2>1, OweWakeType DEF ResetStep, ResetOk, ResetFail, ResetPanic, TypeOK
  <2> QED  BY <1>1, <2>2, <2>3 DEF ResetStep, ResetOk, ResetFail, ResetPanic, TypeOK
<1>2. ASSUME NEW n \in Nodes, Wake(n)
      PROVE  TypeOK'
  <2>1. wakes' \in [Nodes -> Nat]
    BY <1>2 DEF Wake, TypeOK
  <2>2. /\ waits' \in [Routing -> Seq(Waiter)]
        /\ notified' \in [Clients -> BOOLEAN]
    BY <1>2, WakeOneType DEF Wake
  <2> QED  BY <1>2, <2>1, <2>2 DEF Wake, TypeOK
<1>3. CASE Scavenge
  <2>1. PICK gone \in SUBSET UNION {idle[k] : k \in Keys} :
          /\ idle' = [k \in Keys |-> idle[k] \ gone]
          /\ wakes' = [n \in Nodes |-> wakes[n] + Cardinality(gone \cap NodeConns(n))]
    BY <1>3 DEF Scavenge
  <2>2. gone \subseteq Conns /\ IsFiniteSet(gone)
    BY PoolAssumption, FS_Subset DEF TypeOK
  <2>3. \A n \in Nodes : Cardinality(gone \cap NodeConns(n)) \in Nat
    BY <2>2, FS_Subset, FS_CardinalityType
  <2>4. ASSUME NEW n \in Nodes
        PROVE  wakes[n] + Cardinality(gone \cap NodeConns(n)) \in Nat
    <3> DEFINE freed == Cardinality(gone \cap NodeConns(n))
    <3>1. wakes[n] \in Nat
      BY DEF TypeOK
    <3>2. freed \in Nat
      BY <2>3
    <3> HIDE DEF freed
    <3>3. wakes[n] + freed \in Nat
      BY <3>1, <3>2
    <3> QED  BY <3>3 DEF freed
  <2>5. wakes' \in [Nodes -> Nat]
    BY <2>1, <2>4
  <2>6. idle' \in [Keys -> SUBSET Conns]
    BY <2>1 DEF TypeOK
  <2> QED  BY <1>3, <2>5, <2>6 DEF Scavenge, TypeOK
<1>4. CASE RefillStep
  <2>1. \A k \in Keys : Shortfall(k) \in Nat
    BY ShortfallType
  <2>2. CASE WarmUp \/ Refill
    BY <2>1, <2>2 DEF WarmUp, Refill, Refillers, TypeOK
  <2>3. ASSUME NEW f \in Refillers, NEW k \in Keys, SpawnOk(f, k) \/ SpawnFail(f, k)
        PROVE  TypeOK'
    <3>1. refills' \in [Refillers -> [Keys -> Nat]]
      <4>1. /\ refills' = [refills EXCEPT ![f][k] = refills[f][k] - 1]
            /\ refills[f][k] > 0
        BY <2>3 DEF SpawnOk, SpawnFail
      <4>2. refills[f] \in [Keys -> Nat] /\ refills[f][k] - 1 \in Nat
        BY <4>1 DEF TypeOK
      <4>3. refills' = [refills EXCEPT ![f] = [refills[f] EXCEPT ![k] = refills[f][k] - 1]]
        BY <4>1
      <4>4. [refills[f] EXCEPT ![k] = refills[f][k] - 1] \in [Keys -> Nat]
        BY <4>2
      <4> QED  BY <4>3, <4>4 DEF TypeOK
    <3>2. wakes' \in [Nodes -> Nat]
      BY <2>3, OweWakeType DEF SpawnOk, SpawnFail, Keys, TypeOK
    <3>3. idle' \in [Keys -> SUBSET Conns]
      <4>1. idle \in [Keys -> SUBSET Conns]
        BY DEF TypeOK
      <4>2. \/ idle' = idle
            \/ \E id \in Conns : idle' = [idle EXCEPT ![k] = idle[k] \cup {id}]
        BY <2>3 DEF SpawnOk, SpawnFail, FreshIds
      <4> QED  BY <4>1, <4>2
    <3> QED  BY <2>3, <3>1, <3>2, <3>3 DEF SpawnOk, SpawnFail, TypeOK
  <2> QED  BY <1>4, <2>2, <2>3 DEF RefillStep
<1> QED  BY <1>1, <1>2, <1>3, <1>4

\* And those of the topology loop and of shutdown.
LEMMA ControlType ==
  ASSUME TypeOK, ControlStep
  PROVE  TypeOK'
<1> USE DEF poolVars, clientVars, queueVars, taskVars, controlVars
<1>1. CASE Refresh
  <2>1. PICK report \in Reports : \E found \in Discovered(report) :
          topology' = found /\ drains' = ChangedNodes(topology, found)
    BY <1>1 DEF Refresh
  <2>2. topology' \in Topology
    BY <2>1, DiscoveredType, PoolAssumption
  <2>3. drains' \subseteq Nodes
    BY <2>1, <2>2, ChangedNodesType DEF TypeOK
  <2> QED  BY <1>1, <2>2, <2>3 DEF Refresh, TypeOK
<1>2. ASSUME NEW n \in Nodes, DrainNode(n)
      PROVE  TypeOK'
  BY <1>2 DEF DrainNode, TypeOK
<1>3. CASE DrainWake
  BY <1>3, WakeAllType DEF DrainWake, TypeOK
<1>4. CASE ShutdownFlag
  BY <1>4 DEF ShutdownFlag, TypeOK
<1>5. CASE ShutdownWake
  BY <1>5, WakeAllType DEF ShutdownWake, TypeOK
<1> QED  BY <1>1, <1>2, <1>3, <1>4, <1>5 DEF ControlStep

\* Every variable keeps its type, and a client in a stage that has a guard has
\* one: no path of checkout reads a guard it does not own.
THEOREM TypeCorrect == Spec => []TypeOK
<1>1. Init => TypeOK
  BY InitType
<1>2. TypeOK /\ [Next]_vars => TypeOK'
  <2> SUFFICES ASSUME TypeOK, [Next]_vars PROVE TypeOK'
    OBVIOUS
  <2>1. CASE UNCHANGED vars
    BY <2>1 DEF vars, poolVars, clientVars, queueVars, taskVars, controlVars, TypeOK
  <2>2. CASE Next
    BY <2>2, ClientType, BackgroundType, ControlType DEF Next
  <2> QED  BY <2>1, <2>2
<1> QED  BY <1>1, <1>2, PTL DEF Spec

-----------------------------------------------------------------------------
(* Ownership: OnePlace and ActiveIsHeld, which are inductive together *)

\* Everything shrinks except that id may enter one collection of the pool k, and
\* no other pool had it.
LEMMA MoveOne ==
  ASSUME OnePlace, NEW k \in Keys, NEW id,
         \A j \in Keys \ {k} : id \notin ConnsOf(j),
         \A j \in Keys : /\ idle'[j] \subseteq idle[j] \cup {id}
                        /\ active'[j] \subseteq active[j] \cup {id}
                        /\ resetting'[j] \subseteq resetting[j] \cup {id},
         \A j \in Keys \ {k} : id \notin ConnsOf(j)',
         id \in idle'[k] => id \notin active'[k] \cup resetting'[k],
         id \in active'[k] => id \notin resetting'[k]
  PROVE  OnePlace'
<1>1. ASSUME NEW j \in Keys
      PROVE  /\ idle'[j] \cap active'[j] = {}
             /\ idle'[j] \cap resetting'[j] = {}
             /\ active'[j] \cap resetting'[j] = {}
  BY DEF OnePlace, ConnsOf
<1>2. ASSUME NEW i \in Keys, NEW j \in Keys, i # j
      PROVE  ConnsOf(i)' \cap ConnsOf(j)' = {}
  <2>1. ConnsOf(i) \cap ConnsOf(j) = {}
    BY <1>2 DEF OnePlace
  <2>2. ConnsOf(i)' \subseteq ConnsOf(i) \cup {id} /\ ConnsOf(j)' \subseteq ConnsOf(j) \cup {id}
    BY DEF ConnsOf
  <2>3. id \notin ConnsOf(i)' \/ id \notin ConnsOf(j)'
    BY <1>2
  <2> QED  BY <2>1, <2>2, <2>3
<1> QED  BY <1>1, <1>2 DEF OnePlace

\* Closing connections keeps them apart.
LEMMA Shrink ==
  ASSUME OnePlace,
         \A j \in Keys : /\ idle'[j] \subseteq idle[j]
                        /\ active'[j] \subseteq active[j]
                        /\ resetting'[j] \subseteq resetting[j]
  PROVE  OnePlace'
<1>1. \A j \in Keys : ConnsOf(j)' \subseteq ConnsOf(j)
  BY DEF ConnsOf
<1>2. \A i, j \in Keys : i # j => ConnsOf(i)' \cap ConnsOf(j)' = {}
  BY <1>1 DEF OnePlace
<1> QED  BY <1>2 DEF OnePlace

\* Who holds what changes for no one.
LEMMA HoldersKept ==
  ASSUME ActiveIsHeld, active' = active,
         \A c \in Clients : Holds(c)' = Holds(c),
         \A c \in Clients : Holds(c) => guard'[c] = guard[c]
  PROVE  ActiveIsHeld'
BY DEF ActiveIsHeld

\* A client that held nothing takes a slot no one has.
LEMMA TakeSlot ==
  ASSUME TypeOK, ActiveIsHeld, NEW c \in Clients, NEW k \in Keys, NEW id \in Conns,
         id \notin active[k],
         active' = [active EXCEPT ![k] = active[k] \cup {id}],
         guard' = [guard EXCEPT ![c] = [key |-> k, conn |-> id]],
         ~Holds(c), Holds(c)',
         \A d \in Clients \ {c} : Holds(d)' = Holds(d)
  PROVE  ActiveIsHeld'
<1>1. guard'[c] = [key |-> k, conn |-> id] /\ \A d \in Clients \ {c} : guard'[d] = guard[d]
  BY DEF TypeOK
<1>2. active'[k] = active[k] \cup {id} /\ \A j \in Keys \ {k} : active'[j] = active[j]
  BY DEF TypeOK
<1>3. \A d \in Clients : Holds(d) => guard[d] \in Guard /\ guard[d].conn \in active[guard[d].key]
  BY DEF ActiveIsHeld, TypeOK, Holds, WithGuard
<1>4. \A d \in Clients : Holds(d)' => guard'[d].conn \in active'[guard'[d].key]
  BY <1>1, <1>2, <1>3 DEF Guard
<1>5. \A d \in Clients : Holds(d) => guard[d] # [key |-> k, conn |-> id]
  BY <1>3
<1>6. \A d, e \in Clients : Holds(d)' /\ Holds(e)' /\ d # e => guard'[d] # guard'[e]
  BY <1>1, <1>5 DEF ActiveIsHeld
<1>7. \A j \in Keys : \A x \in active'[j] :
        \E d \in Clients : Holds(d)' /\ guard'[d] = [key |-> j, conn |-> x]
  BY <1>1, <1>2 DEF ActiveIsHeld
<1> QED  BY <1>4, <1>6, <1>7 DEF ActiveIsHeld

\* A client gives its slot up.
LEMMA GiveSlot ==
  ASSUME TypeOK, ActiveIsHeld, NEW c \in Clients,
         Deactivate(c), Holds(c), ~Holds(c)',
         \A d \in Clients \ {c} : Holds(d)' = Holds(d) /\ guard'[d] = guard[d]
  PROVE  ActiveIsHeld'
<1> DEFINE k == guard[c].key
           id == guard[c].conn
<1>1. \A d \in Clients : Holds(d) => guard[d] \in Guard /\ guard[d].conn \in active[guard[d].key]
  BY DEF ActiveIsHeld, TypeOK, Holds, WithGuard
<1>2. k \in Keys /\ id \in Conns /\ guard[c] = [key |-> k, conn |-> id]
  BY <1>1 DEF Guard
<1>3. active'[k] = active[k] \ {id} /\ \A j \in Keys \ {k} : active'[j] = active[j]
  BY <1>2 DEF Deactivate, TypeOK
<1>4. \A d \in Clients : Holds(d) /\ d # c => guard[d] # [key |-> k, conn |-> id]
  BY <1>2 DEF ActiveIsHeld
<1> HIDE DEF k, id
<1>5. \A d \in Clients : Holds(d)' => Holds(d) /\ d # c /\ guard'[d] = guard[d]
  OBVIOUS
<1>6. ASSUME NEW d \in Clients, Holds(d)'
      PROVE  guard'[d].conn \in active'[guard'[d].key]
  <2>1. /\ guard'[d] = guard[d] /\ guard[d] \in Guard
        /\ guard[d] # [key |-> k, conn |-> id]
        /\ guard[d].conn \in active[guard[d].key]
    BY <1>1, <1>4, <1>5, <1>6
  <2>2. guard[d].key # k \/ guard[d].conn # id
    BY <2>1 DEF Guard
  <2> QED  BY <1>3, <2>1, <2>2 DEF Guard
<1>7. \A d, e \in Clients : Holds(d)' /\ Holds(e)' /\ d # e => guard'[d] # guard'[e]
  BY <1>5 DEF ActiveIsHeld
<1>8. ASSUME NEW j \in Keys, NEW x \in active'[j]
      PROVE  \E d \in Clients : Holds(d)' /\ guard'[d] = [key |-> j, conn |-> x]
  <2>1. x \in active[j] /\ [key |-> j, conn |-> x] # [key |-> k, conn |-> id]
    BY <1>3
  <2>2. PICK d \in Clients : Holds(d) /\ guard[d] = [key |-> j, conn |-> x]
    BY <2>1 DEF ActiveIsHeld
  <2>3. d # c
    BY <1>2, <2>1, <2>2
  <2> QED  BY <2>2, <2>3
<1> QED  BY <1>6, <1>7, <1>8 DEF ActiveIsHeld

\* What GoTo does to the program counters.
LEMMA GoToStage ==
  ASSUME TypeOK, NEW c \in Clients, NEW s, GoTo(c, s)
  PROVE  stage'[c] = s /\ \A d \in Clients \ {c} : stage'[d] = stage[d]
BY DEF GoTo, TypeOK

Ownership == OnePlace /\ ActiveIsHeld

\* A step that moves a client between stages without a slot, and at most closes
\* idle connections.
LEMMA NoSlotMoved ==
  ASSUME TypeOK, Ownership, NEW c \in Clients, NEW s, GoTo(c, s),
         ~Holds(c), s \notin {"connecting", "holding"},
         active' = active, resetting' = resetting,
         \A k \in Keys : idle'[k] \subseteq idle[k],
         \A d \in Clients \ {c} : guard'[d] = guard[d]
  PROVE  Ownership'
<1>1. stage'[c] = s /\ \A d \in Clients \ {c} : stage'[d] = stage[d]
  BY GoToStage
<1>2. \A d \in Clients : Holds(d)' = Holds(d)
  BY <1>1 DEF Holds
<1>3. \A d \in Clients : Holds(d) => guard'[d] = guard[d]
  OBVIOUS
<1>4. OnePlace'
  BY Shrink DEF Ownership
<1> QED  BY <1>2, <1>3, <1>4, HoldersKept DEF Ownership

\* An idle connection, or a slot for a new one, goes to one client.
LEMMA LendOwnership ==
  ASSUME TypeOK, Ownership, NEW c \in Clients, TryCandidates(c), ~AllFull(c)
  PROVE  Ownership'
<1>0. PICK n \in Batch(c) : \E S \in TriedBefore(c, n) : GetIdle(c, n, S) \/ Claim(c, n, S)
  BY DEF TryCandidates
<1>1. PICK S \in TriedBefore(c, n) : GetIdle(c, n, S) \/ Claim(c, n, S)
  BY <1>0
<1> DEFINE k == KeyOf(n, UserOf[c])
<1>2. k \in Keys
  BY PoolAssumption DEF KeyOf, Keys, Batch, TypeOK
<1>3. ~Holds(c)
  BY DEF TryCandidates, Holds
<1>4. PICK id \in Conns :
        /\ id \in idle[k] \/ id \in FreshIds
        /\ active' = [active EXCEPT ![k] = active[k] \cup {id}]
        /\ guard' = [guard EXCEPT ![c] = [key |-> k, conn |-> id]]
        /\ id \notin idle'[k]
        /\ \A j \in Keys : idle'[j] \subseteq idle[j]
  <2>1. CASE GetIdle(c, n, S)
    <3>1. PICK expired \in ExpiredSets(k), id \in idle[k] :
            /\ id \notin expired
            /\ idle' = [j \in Keys |-> IF j = k THEN idle[k] \ (expired \cup {id})
                                       ELSE IF j \in SkippedKeys(c, S) THEN {} ELSE idle[j]]
            /\ active' = [active EXCEPT ![k] = active[k] \cup {id}]
            /\ guard' = [guard EXCEPT ![c] = [key |-> k, conn |-> id]]
      BY <2>1 DEF GetIdle
    <3> HIDE DEF k
    <3>2. id \in Conns
      BY <1>2, <3>1 DEF TypeOK
    <3> QED  BY <1>2, <3>1, <3>2
  <2>2. CASE Claim(c, n, S)
    <3>1. PICK evicted \in IF NodeHasRoom(k) THEN {{}} ELSE {{v} : v \in Victims(k)},
               id \in FreshIds :
            /\ idle' = [j \in Keys |-> IF j = k \/ j \in SkippedKeys(c, S) THEN {}
                                       ELSE idle[j] \ evicted]
            /\ active' = [active EXCEPT ![k] = active[k] \cup {id}]
            /\ guard' = [guard EXCEPT ![c] = [key |-> k, conn |-> id]]
      BY <2>2 DEF Claim
    <3> HIDE DEF k
    <3> QED  BY <1>2, <3>1 DEF FreshIds
  <2> QED  BY <1>1, <2>1, <2>2
<1>5. resetting' = resetting
  BY <1>1 DEF GetIdle, Claim
<1>6. PICK s \in {"holding", "connecting"} : GoTo(c, s)
  BY <1>1 DEF GetIdle, Claim
<1>7. Holds(c)' /\ \A d \in Clients \ {c} : Holds(d)' = Holds(d)
  BY <1>6, GoToStage DEF Holds
<1> HIDE DEF k
<1>8. \A j \in Keys \ {k} : id \notin ConnsOf(j)
  BY <1>2, <1>4 DEF FreshIds, AllConns, Ownership, OnePlace, ConnsOf
<1>9. id \notin active[k] /\ id \notin resetting[k]
  BY <1>2, <1>4 DEF FreshIds, AllConns, Ownership, OnePlace, ConnsOf
<1>10. /\ active'[k] = active[k] \cup {id}
       /\ \A j \in Keys \ {k} : active'[j] = active[j]
  BY <1>2, <1>4 DEF TypeOK
<1>11. \A j \in Keys \ {k} : id \notin ConnsOf(j)'
  BY <1>4, <1>5, <1>8, <1>10 DEF ConnsOf
<1>12. OnePlace'
  BY <1>2, <1>4, <1>5, <1>8, <1>9, <1>10, <1>11, MoveOne DEF Ownership
<1>13. ActiveIsHeld'
  BY <1>2, <1>3, <1>4, <1>7, <1>9, TakeSlot DEF Ownership
<1> QED  BY <1>12, <1>13 DEF Ownership

\* ConnectFail, DropGuard and Checkin take the slot from the client.
LEMMA GiveOwnership ==
  ASSUME TypeOK, Ownership, NEW c \in Clients,
         ConnectFail(c) \/ DropGuard(c) \/ Checkin(c)
  PROVE  Ownership'
<1> USE DEF poolVars, clientVars, queueVars, taskVars, controlVars
<1> DEFINE k == guard[c].key
           id == guard[c].conn
<1>1. Holds(c) /\ Deactivate(c) /\ idle' = idle
  BY DEF ConnectFail, DropGuard, Checkin, Holds
<1>2. k \in Keys /\ id \in active[k]
  BY <1>1 DEF Ownership, ActiveIsHeld, TypeOK, Holds, WithGuard, Guard
<1>3. PICK s \in {"failed", "dropped", "idle"} : GoTo(c, s)
  BY DEF ConnectFail, DropGuard, Checkin
<1>4. ~Holds(c)' /\ \A d \in Clients \ {c} : Holds(d)' = Holds(d)
  BY <1>3, GoToStage DEF Holds
<1>5. \A d \in Clients \ {c} : guard'[d] = guard[d]
  BY DEF ConnectFail, DropGuard, Checkin, TypeOK
<1>6. ActiveIsHeld'
  BY <1>1, <1>4, <1>5, GiveSlot DEF Ownership
<1> HIDE DEF k, id
<1>7. /\ active'[k] = active[k] \ {id}
      /\ \A j \in Keys \ {k} : active'[j] = active[j]
  BY <1>1, <1>2 DEF Deactivate, TypeOK, k, id
<1>8. \/ resetting' = resetting
      \/ resetting' = [resetting EXCEPT ![k] = resetting[k] \cup {id}]
  BY DEF ConnectFail, DropGuard, Checkin, k, id
<1>9. /\ resetting'[k] \subseteq resetting[k] \cup {id}
      /\ \A j \in Keys \ {k} : resetting'[j] = resetting[j]
  BY <1>2, <1>8 DEF TypeOK
<1>10. \A j \in Keys \ {k} : id \notin ConnsOf(j)
  BY <1>2 DEF Ownership, OnePlace, ConnsOf
<1>11. \A j \in Keys \ {k} : id \notin ConnsOf(j)'
  BY <1>1, <1>7, <1>9, <1>10 DEF ConnsOf
<1>12. id \notin idle[k]
  BY <1>2 DEF Ownership, OnePlace
<1>13. OnePlace'
  BY <1>1, <1>2, <1>7, <1>9, <1>10, <1>11, <1>12, MoveOne DEF Ownership
<1> QED  BY <1>6, <1>13 DEF Ownership

\* Every step of a client's task keeps each connection in one place and held once.
LEMMA ClientOwnership ==
  ASSUME TypeOK, Ownership, NEW c \in Clients, ClientStep(c)
  PROVE  Ownership'
<1> USE DEF poolVars, clientVars, queueVars, taskVars, controlVars
<1>1. CASE Begin(c) \/ Deadline(c) \/ Resolve(c)
  <2>1. \A d \in Clients : Holds(d)' = Holds(d)
    BY <1>1 DEF Begin, Deadline, Resolve, Holds, TypeOK
  <2>2. UNCHANGED <<poolVars, guard>>
    BY <1>1 DEF Begin, Deadline, Resolve
  <2> QED  BY <2>1, <2>2, HoldersKept, Shrink DEF Ownership
<1>2. CASE TryCandidates(c)
  <2>1. CASE AllFull(c)
    <3>1. PICK s \in {"second", "enqueue"} : GoTo(c, s)
      BY <2>1 DEF AllFull
    <3>2. \A k \in Keys : idle'[k] \subseteq idle[k]
      BY <2>1 DEF AllFull
    <3> QED  BY <1>2, <2>1, <3>1, <3>2, NoSlotMoved DEF AllFull, TryCandidates, Holds
  <2> QED  BY <1>2, <2>1, LendOwnership
<1>3. CASE ConnectOk(c)
  <2>1. \A d \in Clients : Holds(d)' = Holds(d)
    BY <1>3, GoToStage DEF ConnectOk, Holds
  <2> QED  BY <1>3, <2>1, HoldersKept, Shrink DEF Ownership, ConnectOk
<1>4. CASE ConnectFail(c) \/ DropGuard(c) \/ Checkin(c)
  BY <1>4, GiveOwnership
<1>5. CASE ResolveError(c) \/ Enqueue(c) \/ Bail(c) \/ Await(c) \/ Timeout(c)
  <2>1. PICK s \in {"idle", "queued", "waiting"} : GoTo(c, s)
    BY <1>5 DEF ResolveError, Enqueue, Bail, Await, Timeout
  <2>2. ~Holds(c) /\ UNCHANGED <<poolVars, guard>>
    BY <1>5 DEF ResolveError, Enqueue, Bail, Await, Timeout, Holds
  <2> QED  BY <2>1, <2>2, NoSlotMoved
<1>6. CASE DiscardWake(c) \/ Proceed(c)
  <2>1. PICK s \in {"idle", "enqueue", "resolve"} : GoTo(c, s)
    BY <1>6 DEF DiscardWake, Proceed
  <2>2. ~Holds(c) /\ UNCHANGED poolVars
    BY <1>6 DEF DiscardWake, Proceed, Holds
  <2>3. \A d \in Clients \ {c} : guard'[d] = guard[d]
    BY <1>6 DEF DiscardWake, Proceed, TypeOK
  <2> QED  BY <2>1, <2>2, <2>3, NoSlotMoved
<1> QED  BY <1>1, <1>2, <1>3, <1>4, <1>5, <1>6 DEF ClientStep, CheckoutStep, PromptStep, ConnectStep

\* No background task touches a client's slot.
LEMMA ActiveUntouched ==
  ASSUME Ownership, active' = active, guard' = guard, stage' = stage
  PROVE  ActiveIsHeld'
<1>1. \A c \in Clients : Holds(c)' = Holds(c)
  BY DEF Holds
<1> QED  BY <1>1, HoldersKept DEF Ownership

\* So does every other step.
LEMMA BackgroundOwnership ==
  ASSUME TypeOK, Ownership,
         \/ \E k \in Keys, id \in Conns : ResetStep(k, id)
         \/ \E n \in Nodes : Wake(n)
         \/ Scavenge
         \/ RefillStep
         \/ ControlStep
  PROVE  Ownership'
<1> USE DEF poolVars, clientVars, queueVars, taskVars, controlVars
<1>1. ASSUME NEW k \in Keys, NEW id \in Conns, ResetStep(k, id)
      PROVE  Ownership'
  <2>1. id \in resetting[k]
    BY <1>1 DEF ResetStep, ResetOk, ResetFail, ResetPanic
  <2>2. /\ resetting' = [resetting EXCEPT ![k] = resetting[k] \ {id}]
        /\ idle' = idle \/ idle' = [idle EXCEPT ![k] = idle[k] \cup {id}]
        /\ UNCHANGED <<active, guard, stage>>
    BY <1>1 DEF ResetStep, ResetOk, ResetFail, ResetPanic
  <2>3. \A j \in Keys \ {k} : id \notin ConnsOf(j)
    BY <2>1 DEF Ownership, OnePlace, ConnsOf
  <2>4. id \notin active[k]
    BY <2>1 DEF Ownership, OnePlace
  <2>5. /\ resetting'[k] = resetting[k] \ {id}
        /\ idle'[k] \subseteq idle[k] \cup {id}
        /\ \A j \in Keys \ {k} : resetting'[j] = resetting[j] /\ idle'[j] = idle[j]
    BY <2>2 DEF TypeOK
  <2>6. \A j \in Keys \ {k} : id \notin ConnsOf(j)'
    BY <2>2, <2>3, <2>5 DEF ConnsOf
  <2>7. OnePlace'
    BY <2>2, <2>3, <2>4, <2>5, <2>6, MoveOne DEF Ownership
  <2> QED  BY <2>2, <2>7, ActiveUntouched DEF Ownership
<1>2. ASSUME NEW n \in Nodes, Wake(n)
      PROVE  Ownership'
  BY <1>2, ActiveUntouched, Shrink DEF Wake, Ownership
<1>3. CASE Scavenge
  <2>1. \A k \in Keys : idle'[k] \subseteq idle[k]
    BY <1>3 DEF Scavenge
  <2> QED  BY <1>3, <2>1, ActiveUntouched, Shrink DEF Scavenge, Ownership
<1>4. CASE WarmUp \/ Refill
  BY <1>4, ActiveUntouched, Shrink DEF WarmUp, Refill, Ownership
<1>5. ASSUME NEW f \in Refillers, NEW k \in Keys, SpawnOk(f, k)
      PROVE  Ownership'
  <2>1. PICK id \in FreshIds : idle' = [idle EXCEPT ![k] = idle[k] \cup {id}]
    BY <1>5 DEF SpawnOk
  <2>2. UNCHANGED <<active, resetting, guard, stage>>
    BY <1>5 DEF SpawnOk
  <2>3. \A j \in Keys : id \notin ConnsOf(j)
    BY <2>1 DEF FreshIds, AllConns
  <2>4. /\ idle'[k] = idle[k] \cup {id}
        /\ \A j \in Keys \ {k} : idle'[j] = idle[j]
    BY <2>1 DEF TypeOK
  <2>5. /\ \A j \in Keys \ {k} : id \notin ConnsOf(j)'
        /\ id \notin active'[k] \cup resetting'[k]
    BY <2>2, <2>3, <2>4 DEF ConnsOf
  <2>6. OnePlace'
    BY <2>2, <2>3, <2>4, <2>5, MoveOne DEF Ownership
  <2> QED  BY <2>2, <2>6, ActiveUntouched DEF Ownership
<1>6. ASSUME NEW f \in Refillers, NEW k \in Keys, SpawnFail(f, k)
      PROVE  Ownership'
  BY <1>6, ActiveUntouched, Shrink DEF SpawnFail, Ownership
<1>7. ASSUME NEW n \in Nodes, DrainNode(n)
      PROVE  Ownership'
  <2>1. \A k \in Keys : idle'[k] \subseteq idle[k]
    BY <1>7 DEF DrainNode
  <2> QED  BY <1>7, <2>1, ActiveUntouched, Shrink DEF DrainNode, Ownership
<1>8. CASE Refresh \/ DrainWake \/ ShutdownFlag \/ ShutdownWake
  BY <1>8, ActiveUntouched, Shrink
  DEF Refresh, DrainWake, ShutdownFlag, ShutdownWake, Ownership
<1> QED
  BY <1>1, <1>2, <1>3, <1>4, <1>5, <1>6, <1>7, <1>8 DEF RefillStep, ControlStep

\* Whatever order checkouts, connects, failures, returns, resets, evictions,
\* refills, drains and shutdown come in, a connection is in one collection of one
\* pool, and the active ones are exactly those the clients hold, each one once.
THEOREM OwnershipHolds == Spec => [](OnePlace /\ ActiveIsHeld)
<1>1. Init => Ownership
  BY DEF Init, Ownership, OnePlace, ActiveIsHeld, ConnsOf, Holds
<1>2. TypeOK /\ Ownership /\ [Next]_vars => Ownership'
  <2> SUFFICES ASSUME TypeOK, Ownership, [Next]_vars PROVE Ownership'
    OBVIOUS
  <2>1. CASE UNCHANGED vars
    BY <2>1 DEF vars, poolVars, clientVars, Ownership, OnePlace, ActiveIsHeld, ConnsOf, Holds
  <2>2. CASE Next
    BY <2>2, ClientOwnership, BackgroundOwnership DEF Next
  <2> QED  BY <2>1, <2>2
<1>3. Spec => []Ownership
  BY <1>1, <1>2, TypeCorrect, PTL DEF Spec
<1> QED  BY <1>3 DEF Ownership

\* Of these two, that a slot counted as active is some client's: neither a failed
\* connect nor a dropped guard leaves one behind.
THEOREM SlotsHeld == Spec => []ActiveIsHeld
  BY OwnershipHolds, PTL

-----------------------------------------------------------------------------
(* The pool limit *)

\* Every set of connections the model counts is finite.
LEMMA ConnsFinite ==
  ASSUME TypeOK, NEW n \in Nodes
  PROVE  /\ NodeConns(n) \subseteq Conns /\ IsFiniteSet(NodeConns(n))
         /\ Cardinality(NodeConns(n)) \in Nat
<1>1. \A u \in Users : KeyOf(n, u) \in Keys
  BY DEF KeyOf, Keys
<1>2. NodeConns(n) \subseteq Conns
  BY <1>1 DEF NodeConns, ConnsOf, TypeOK
<1> QED  BY <1>2, PoolAssumption, FS_Subset, FS_CardinalityType

\* A node whose pools gain no connection does not grow.
LEMMA NoGrowth ==
  ASSUME TypeOK, NEW n \in Nodes, \A k \in Keys : ConnsOf(k)' \subseteq ConnsOf(k)
  PROVE  ~(Cardinality(NodeConns(n)') > Cardinality(NodeConns(n)))
<1>1. \A u \in Users : KeyOf(n, u) \in Keys
  BY DEF KeyOf, Keys
<1>2. NodeConns(n)' \subseteq NodeConns(n)
  BY <1>1 DEF NodeConns
<1>3. Cardinality(NodeConns(n)') \in Nat /\ Cardinality(NodeConns(n)') <= Cardinality(NodeConns(n))
  BY <1>2, ConnsFinite, FS_Subset, FS_CardinalityType
<1> QED  BY <1>3, ConnsFinite

\* A claim opens one connection, on a node that has room for it once the
\* expired ones are gone, or in the place of one it evicts there.
LEMMA ClaimWithinLimit ==
  ASSUME TypeOK, Ownership, NEW c \in Clients, NEW m \in Nodes, NEW S, Claim(c, m, S),
         NEW n \in Nodes, Cardinality(NodeConns(n)') > Cardinality(NodeConns(n))
  PROVE  Cardinality(NodeConns(n)') <= PoolLimit(n)
<1> DEFINE k == KeyOf(m, UserOf[c])
<1>1. k \in Keys /\ k.node = m /\ UserOf[c] \in Users
  BY PoolAssumption DEF KeyOf, Keys
<1>2. PICK evicted \in IF NodeHasRoom(k) THEN {{}} ELSE {{v} : v \in Victims(k)} :
        \E id \in FreshIds :
          /\ idle' = [j \in Keys |-> IF j = k \/ j \in SkippedKeys(c, S) THEN {}
                                     ELSE idle[j] \ evicted]
          /\ active' = [active EXCEPT ![k] = active[k] \cup {id}]
  BY DEF Claim
<1>3. PICK id \in FreshIds :
          /\ idle' = [j \in Keys |-> IF j = k \/ j \in SkippedKeys(c, S) THEN {}
                                     ELSE idle[j] \ evicted]
          /\ active' = [active EXCEPT ![k] = active[k] \cup {id}]
  BY <1>2
<1>4. resetting' = resetting
  BY DEF Claim
<1>5. \A u \in Users : KeyOf(n, u) \in Keys /\ KeyOf(n, u).node = n
  BY DEF KeyOf, Keys
<1>6. id \in Conns /\ id \notin NodeConns(n)
  BY <1>5 DEF FreshIds, AllConns, NodeConns
<1> HIDE DEF k
<1>7. ConnsOf(k)' \subseteq (active[k] \cup resetting[k]) \cup {id}
  BY <1>1, <1>3, <1>4 DEF ConnsOf, TypeOK
<1>8. \A j \in Keys \ {k} : ConnsOf(j)' \subseteq (idle[j] \ evicted) \cup active[j] \cup resetting[j]
  BY <1>1, <1>3, <1>4 DEF ConnsOf, TypeOK
<1>9. n = m
  <2>1. SUFFICES ASSUME n # m PROVE FALSE
    OBVIOUS
  <2>2. \A u \in Users : KeyOf(n, u) # k
    BY <1>1, <1>5, <2>1
  <2>3. NodeConns(n)' \subseteq NodeConns(n)
    BY <1>5, <1>8, <2>2 DEF NodeConns, ConnsOf
  <2>4. Cardinality(NodeConns(n)') <= Cardinality(NodeConns(n))
    BY <2>3, ConnsFinite, FS_Subset
  <2>5. Cardinality(NodeConns(n)') \in Nat
    BY <2>3, ConnsFinite, FS_Subset, FS_CardinalityType
  <2> QED  BY <2>4, <2>5, ConnsFinite
<1>10. \A j \in Keys \ {k} : idle[k] \cap ConnsOf(j) = {}
  BY <1>1 DEF Ownership, OnePlace, ConnsOf
<1>11. idle[k] \cap (active[k] \cup resetting[k]) = {}
  BY <1>1 DEF Ownership, OnePlace
<1> DEFINE rest == NodeConns(n) \ idle[k]
<1>12. IsFiniteSet(rest) /\ Cardinality(rest) \in Nat
  BY ConnsFinite, FS_Subset, FS_CardinalityType
<1>13. NodeConns(n)' \subseteq rest \cup {id}
  <2>1. ConnsOf(k)' \subseteq (ConnsOf(k) \ idle[k]) \cup {id}
    BY <1>7, <1>11 DEF ConnsOf
  <2>2. \A j \in Keys \ {k} : ConnsOf(j)' \subseteq ConnsOf(j) \ idle[k]
    BY <1>8, <1>10 DEF ConnsOf
  <2>3. \A u \in Users : ConnsOf(KeyOf(n, u))' \subseteq (ConnsOf(KeyOf(n, u)) \ idle[k]) \cup {id}
    BY <1>5, <2>1, <2>2
  <2> QED  BY <2>3 DEF NodeConns
<1>14. IsFiniteSet(NodeConns(n)') /\ Cardinality(NodeConns(n)') \in Nat
  <2>1. IsFiniteSet(rest \cup {id})
    BY <1>12, FS_AddElement
  <2> HIDE DEF rest
  <2>2. IsFiniteSet(NodeConns(n)')
    BY <1>13, <2>1, FS_Subset
  <2> QED  BY <2>2, FS_CardinalityType
<1>15. PoolLimit(n) \in Nat
  BY PoolAssumption DEF PoolLimit
<1>16. CASE NodeHasRoom(k)
  <2>1. Cardinality(rest) < PoolLimit(n)
    BY <1>1, <1>9, <1>16 DEF NodeHasRoom, PoolHasCapacity
  <2>2. Cardinality(NodeConns(n)') <= Cardinality(rest \cup {id})
    BY <1>12, <1>13, FS_AddElement, FS_Subset
  <2>3. Cardinality(rest \cup {id}) <= Cardinality(rest) + 1
    BY <1>12, FS_AddElement
  <2>4. Cardinality(rest \cup {id}) \in Nat
    BY <1>12, FS_AddElement, FS_CardinalityType
  <2> HIDE DEF rest
  <2> QED  BY <1>12, <1>14, <1>15, <2>1, <2>2, <2>3, <2>4
<1>17. CASE ~NodeHasRoom(k)
  <2>1. PICK v \in Victims(k) : evicted = {v}
    BY <1>2, <1>17
  <2>2. PICK u \in Users \ {k.user} : v \in idle[KeyOf(n, u)]
    BY <1>1, <1>9, <2>1 DEF Victims
  <2>3. KeyOf(n, u) \in Keys \ {k}
    BY <1>5, <2>2 DEF KeyOf
  <2>4. v \in NodeConns(n)
    BY <2>2 DEF NodeConns, ConnsOf
  <2>5. \A j \in Keys : v \notin ConnsOf(j)'
    <3>1. ASSUME NEW j \in Keys, j # KeyOf(n, u)
          PROVE  v \notin ConnsOf(j)
      BY <2>2, <2>3, <3>1 DEF Ownership, OnePlace, ConnsOf
    <3>2. v # id
      BY <1>6, <2>4
    <3>3. v \notin ConnsOf(k)'
      BY <1>1, <1>7, <2>3, <3>1, <3>2 DEF ConnsOf
    <3>4. ASSUME NEW j \in Keys \ {k}
          PROVE  v \notin ConnsOf(j)'
      <4>1. CASE j = KeyOf(n, u)
        <5>1. v \notin active[j] \cup resetting[j]
          BY <2>2, <2>3, <4>1 DEF Ownership, OnePlace
        <5> QED  BY <1>8, <2>1, <5>1
      <4>2. CASE j # KeyOf(n, u)
        BY <1>8, <3>1, <4>2 DEF ConnsOf
      <4> QED  BY <4>1, <4>2
    <3> QED  BY <3>3, <3>4
  <2>6. v \notin NodeConns(n)'
    BY <1>5, <2>5 DEF NodeConns
  <2> DEFINE without == NodeConns(n) \ {v}
  <2>7. NodeConns(n)' \subseteq without \cup {id}
    BY <1>13, <2>6
  <2>8. IsFiniteSet(without) /\ Cardinality(without) = Cardinality(NodeConns(n)) - 1
    BY <2>4, ConnsFinite, FS_RemoveElement
  <2>9. Cardinality(without \cup {id}) = Cardinality(without) + 1 /\ IsFiniteSet(without \cup {id})
    BY <1>6, <2>8, FS_AddElement
  <2>10. Cardinality(NodeConns(n)') <= Cardinality(without \cup {id})
    BY <2>7, <2>9, FS_Subset
  <2> HIDE DEF without
  <2>11. Cardinality(NodeConns(n)) \in Nat
    BY ConnsFinite
  <2> QED  BY <1>14, <2>8, <2>9, <2>10, <2>11
<1> QED  BY <1>16, <1>17

\* Every step but a claim and a refill's connect leaves the pools with no
\* connection they did not have: what leaves one collection enters another of the
\* same pool, or is closed.
LEMMA ClientGains ==
  ASSUME TypeOK, Ownership, NEW c \in Clients, ClientStep(c),
         ~\E n \in Batch(c) : \E S \in TriedBefore(c, n) : Claim(c, n, S)
  PROVE  \A k \in Keys : ConnsOf(k)' \subseteq ConnsOf(k)
<1> USE DEF poolVars, clientVars, queueVars, taskVars, controlVars
<1>1. CASE UNCHANGED poolVars
  BY <1>1 DEF ConnsOf
<1>2. CASE TryCandidates(c)
  <2>1. CASE AllFull(c)
    BY <2>1 DEF AllFull, ConnsOf
  <2>2. ASSUME NEW n \in Batch(c), NEW S \in TriedBefore(c, n), GetIdle(c, n, S)
        PROVE  \A k \in Keys : ConnsOf(k)' \subseteq ConnsOf(k)
    <3> DEFINE k == KeyOf(n, UserOf[c])
    <3>1. k \in Keys
      BY PoolAssumption DEF KeyOf, Keys, Batch, TypeOK
    <3>2. PICK id \in idle[k] : /\ active' = [active EXCEPT ![k] = active[k] \cup {id}]
                                /\ \A j \in Keys : idle'[j] \subseteq idle[j]
      BY <2>2 DEF GetIdle
    <3>3. resetting' = resetting
      BY <2>2 DEF GetIdle
    <3> HIDE DEF k
    <3> QED  BY <3>1, <3>2, <3>3 DEF ConnsOf, TypeOK
  <2> QED  BY <1>2, <2>1, <2>2 DEF TryCandidates
<1>3. CASE Checkin(c)
  <2>1. guard[c].key \in Keys /\ guard[c].conn \in active[guard[c].key]
    BY <1>3 DEF Checkin, Ownership, ActiveIsHeld, Holds, TypeOK, WithGuard, Guard
  <2> DEFINE key == guard[c].key
             id == guard[c].conn
  <2>2. /\ active' = [active EXCEPT ![key] = active[key] \ {id}]
        /\ resetting' = [resetting EXCEPT ![key] = resetting[key] \cup {id}]
        /\ idle' = idle
    BY <1>3 DEF Checkin, Deactivate
  <2> HIDE DEF key, id
  <2>3. \A k \in Keys : /\ active'[k] \subseteq active[k]
                        /\ resetting'[k] \subseteq resetting[k] \cup (IF k = key THEN {id} ELSE {})
    BY <2>1, <2>2 DEF TypeOK
  <2>4. id \in active[key]
    BY <2>1 DEF key, id
  <2> QED  BY <2>2, <2>3, <2>4 DEF ConnsOf
<1>4. CASE ConnectFail(c) \/ DropGuard(c)
  <2>1. \A k \in Keys : active'[k] \subseteq active[k]
    BY <1>4 DEF ConnectFail, DropGuard, Deactivate, TypeOK
  <2>2. UNCHANGED <<idle, resetting>>
    BY <1>4 DEF ConnectFail, DropGuard
  <2> QED  BY <2>1, <2>2 DEF ConnsOf
<1>5. CASE ~(TryCandidates(c) \/ Checkin(c) \/ ConnectFail(c) \/ DropGuard(c))
  <2>1. UNCHANGED poolVars
    BY <1>5 DEF ClientStep, CheckoutStep, PromptStep, ConnectStep, Begin, Deadline, Resolve, ResolveError, ConnectOk,
                DiscardWake, Enqueue, Bail, Await, Timeout, Proceed
  <2> QED  BY <1>1, <2>1
<1> QED  BY <1>2, <1>3, <1>4, <1>5

\* Nor does any background step gain one, but a refill's connect.
LEMMA BackgroundGains ==
  ASSUME TypeOK,
         \/ \E k \in Keys, id \in Conns : ResetStep(k, id)
         \/ \E n \in Nodes : Wake(n)
         \/ Scavenge
         \/ RefillStep /\ refills' = refills
         \/ ControlStep
  PROVE  \A k \in Keys : ConnsOf(k)' \subseteq ConnsOf(k)
<1> USE DEF poolVars, clientVars, queueVars, taskVars, controlVars
<1>1. ASSUME NEW k \in Keys, NEW id \in Conns, ResetStep(k, id)
      PROVE  \A j \in Keys : ConnsOf(j)' \subseteq ConnsOf(j)
  <2>1. /\ id \in resetting[k]
        /\ resetting' = [resetting EXCEPT ![k] = resetting[k] \ {id}]
        /\ idle' = idle \/ idle' = [idle EXCEPT ![k] = idle[k] \cup {id}]
        /\ active' = active
    BY <1>1 DEF ResetStep, ResetOk, ResetFail, ResetPanic
  <2> QED  BY <2>1 DEF ConnsOf, TypeOK
<1>2. CASE Scavenge
  BY <1>2 DEF Scavenge, ConnsOf
<1>3. ASSUME NEW n \in Nodes, DrainNode(n)
      PROVE  \A j \in Keys : ConnsOf(j)' \subseteq ConnsOf(j)
  BY <1>3 DEF DrainNode, ConnsOf
<1>4. CASE UNCHANGED poolVars
  BY <1>4 DEF ConnsOf
<1>5. ASSUME NEW f \in Refillers, NEW k \in Keys, SpawnOk(f, k)
      PROVE  refills' # refills
  <2>1. refills' = [refills EXCEPT ![f][k] = refills[f][k] - 1]
    BY <1>5 DEF SpawnOk
  <2>2. refills'[f][k] = refills[f][k] - 1 /\ refills[f][k] \in Nat
    BY <2>1 DEF TypeOK
  <2> QED  BY <2>2
<1>6. ASSUME RefillStep, refills' = refills
      PROVE  UNCHANGED poolVars
  BY <1>5, <1>6 DEF RefillStep, WarmUp, Refill, SpawnFail
<1>7. ASSUME NEW n \in Nodes, Wake(n)
      PROVE  UNCHANGED poolVars
  BY <1>7 DEF Wake
<1>8. CASE Refresh \/ DrainWake \/ ShutdownFlag \/ ShutdownWake
  BY <1>4, <1>8 DEF Refresh, DrainWake, ShutdownFlag, ShutdownWake
<1> QED  BY <1>1, <1>2, <1>3, <1>4, <1>6, <1>7, <1>8 DEF ControlStep

\* So a step that makes a node grow is a claim, within its limit.
LEMMA StepWithinLimit ==
  ASSUME TypeOK, Ownership, Next, refills' = refills,
         NEW n \in Nodes, Cardinality(NodeConns(n)') > Cardinality(NodeConns(n))
  PROVE  Cardinality(NodeConns(n)') <= PoolLimit(n)
<1>1. ~\A k \in Keys : ConnsOf(k)' \subseteq ConnsOf(k)
  BY NoGrowth
<1>2. PICK c \in Clients : ClientStep(c)
  BY <1>1, BackgroundGains DEF Next
<1>3. PICK m \in Batch(c) : \E S \in TriedBefore(c, m) : Claim(c, m, S)
  BY <1>1, <1>2, ClientGains
<1>4. m \in Nodes
  BY DEF Batch, TypeOK
<1> QED  BY <1>3, <1>4, ClaimWithinLimit

\* Whatever role a node has and had, whatever limits were passed before and
\* however many checkouts are between their limit check and their connect, no
\* step but a refill's connect takes a node past the limit it has at that moment.
THEOREM CheckoutLimit == Spec => CheckoutGrowsWithinLimit
<1>1. TypeOK /\ Ownership /\ [Next]_vars =>
        [\A n \in Nodes :
           /\ Cardinality(NodeConns(n)') > Cardinality(NodeConns(n))
           /\ refills' = refills
           => Cardinality(NodeConns(n)') <= PoolLimit(n)]_vars
  BY StepWithinLimit
<1>2. Spec => []Ownership
  BY OwnershipHolds DEF Ownership
<1> QED  BY <1>1, <1>2, TypeCorrect, PTL DEF Spec, CheckoutGrowsWithinLimit

NothingRefilled == \A f \in Refillers, k \in Keys : refills[f][k] = 0

\* With no min_connections there is nothing to pre-open.
LEMMA RefillsStayEmpty ==
  ASSUME TypeOK, NothingRefilled, Next,
         \A u \in Users, r \in Routing : MinConns[u][r] = 0
  PROVE  refills' = refills
<1> USE DEF poolVars, clientVars, queueVars, taskVars, controlVars
<1>1. \A k \in Keys : Shortfall(k) = 0
  <2> SUFFICES ASSUME NEW k \in Keys PROVE Shortfall(k) = 0
    OBVIOUS
  <2>1. MinFor(k) = 0
    BY DEF MinFor, Keys
  <2>2. Cardinality(ConnsOf(k)) \in Nat
    BY PoolAssumption, FS_Subset, FS_CardinalityType DEF ConnsOf, TypeOK
  <2> QED  BY <2>1, <2>2 DEF Shortfall
<1>2. CASE WarmUp \/ Refill
  BY <1>1, <1>2 DEF WarmUp, Refill, NothingRefilled, TypeOK
<1>3. ASSUME NEW f \in Refillers, NEW k \in Keys PROVE ~(SpawnOk(f, k) \/ SpawnFail(f, k))
  BY DEF SpawnOk, SpawnFail, NothingRefilled
<1>4. CASE ~RefillStep
  BY <1>4 DEF Next, ClientStep, CheckoutStep, PromptStep, ConnectStep, Begin, Deadline, Resolve, ResolveError,
              TryCandidates, ConnectOk, ConnectFail, DiscardWake, Enqueue, Bail, Await,
              Timeout, Proceed, Checkin, DropGuard, ResetStep, ResetOk, ResetFail,
              ResetPanic, Wake, Scavenge, ControlStep, Refresh, DrainNode, DrainWake,
              ShutdownFlag, ShutdownWake
<1> QED  BY <1>2, <1>3, <1>4 DEF RefillStep

\* With nothing to report there is nothing to refresh.
LEMMA SameTopology ==
  ASSUME Next, Reports = {}
  PROVE  topology' = topology
BY DEF Next, ClientStep, CheckoutStep, PromptStep, ConnectStep, Begin, Deadline, Resolve,
       ResolveError, TryCandidates, ConnectOk, ConnectFail, DiscardWake, Enqueue, Bail, Await,
       Timeout, Proceed, Checkin, DropGuard, ResetStep, ResetOk, ResetFail, ResetPanic, Wake,
       Scavenge, RefillStep, WarmUp, Refill, SpawnOk, SpawnFail, ControlStep, Refresh,
       DrainNode, DrainWake, ShutdownFlag, ShutdownWake, controlVars

\* While roles do not change and nothing is pre-opened, no node ever carries more
\* connections than max_connections.  Both conditions are needed: a demoted
\* primary keeps its connections, and a refill looks at no limit.
THEOREM NodeLimit ==
  ASSUME Reports = {}, \A u \in Users, r \in Routing : MinConns[u][r] = 0
  PROVE  Spec => []NodeWithinMax
<1> DEFINE IInv == NothingRefilled /\ NodeWithinMax
<1>1. Init => IInv
  <2> SUFFICES ASSUME Init, NEW n \in Nodes
               PROVE  Cardinality(NodeConns(n)) <= PoolLimit(n)
    <3>1. Init => NothingRefilled
      BY DEF Init, NothingRefilled
    <3> QED  BY <3>1 DEF NodeWithinMax
  <2>1. \A u \in Users : KeyOf(n, u) \in Keys
    BY DEF KeyOf, Keys
  <2>2. NodeConns(n) = {}
    BY <2>1 DEF Init, NodeConns, ConnsOf
  <2>3. Cardinality(NodeConns(n)) = 0
    BY <2>2, FS_EmptySet
  <2>4. PoolLimit(n) \in Nat
    BY PoolAssumption DEF PoolLimit
  <2> QED  BY <2>3, <2>4
<1>2. TypeOK /\ TypeOK' /\ Ownership /\ IInv /\ [Next]_vars => IInv'
  <2> SUFFICES ASSUME TypeOK, TypeOK', Ownership, IInv, [Next]_vars PROVE IInv'
    OBVIOUS
  <2>1. CASE UNCHANGED vars
    BY <2>1 DEF vars, poolVars, taskVars, controlVars, NothingRefilled, NodeWithinMax,
                NodeConns, ConnsOf, PoolLimit
  <2>2. CASE Next
    <3>1. refills' = refills
      BY <2>2, RefillsStayEmpty
    <3>2. topology' = topology
      BY <2>2, SameTopology
    <3>3. ASSUME NEW n \in Nodes
          PROVE  Cardinality(NodeConns(n)') <= PoolLimit(n)
      <4>1. /\ Cardinality(NodeConns(n)) \in Nat
            /\ Cardinality(NodeConns(n)') \in Nat
        <5>1. \A u \in Users : KeyOf(n, u) \in Keys
          BY DEF KeyOf, Keys
        <5>2. NodeConns(n)' \subseteq Conns
          BY <5>1 DEF NodeConns, ConnsOf, TypeOK
        <5> QED  BY <5>2, ConnsFinite, PoolAssumption, FS_Subset, FS_CardinalityType
      <4>2. PoolLimit(n) \in Nat
        BY PoolAssumption DEF PoolLimit
      <4>3. CASE Cardinality(NodeConns(n)') > Cardinality(NodeConns(n))
        BY <2>2, <3>1, <4>3, StepWithinLimit
      <4>4. CASE ~(Cardinality(NodeConns(n)') > Cardinality(NodeConns(n)))
        BY <4>1, <4>2, <4>4 DEF NodeWithinMax
      <4> QED  BY <4>3, <4>4
    <3>4. \A n \in Nodes : PoolLimit(n)' = PoolLimit(n)
      BY <3>2 DEF PoolLimit
    <3> QED  BY <3>1, <3>3, <3>4 DEF NothingRefilled, NodeWithinMax
  <2> QED  BY <2>1, <2>2
<1>3. Spec => []Ownership
  BY OwnershipHolds DEF Ownership
<1> QED  BY <1>1, <1>2, <1>3, TypeCorrect, PTL DEF Spec

-----------------------------------------------------------------------------
(* The limit of a user *)

\* A claim takes its own key to the user's limit at most and adds to no other.
LEMMA ClaimWithinUser ==
  ASSUME TypeOK, NEW c \in Clients, NEW m \in Nodes, NEW S, Claim(c, m, S),
         NEW j \in Keys, j.user \in LimitedUsers
  PROVE  ConnsOf(j)' \subseteq ConnsOf(j) \/ Cardinality(ConnsOf(j)') <= UserLimit(j)
<1> DEFINE k == KeyOf(m, UserOf[c])
<1>1. k \in Keys
  BY PoolAssumption DEF KeyOf, Keys
<1>2. PICK id \in FreshIds :
        /\ idle'[k] = {}
        /\ \A i \in Keys \ {k} : idle'[i] \subseteq idle[i]
        /\ active' = [active EXCEPT ![k] = active[k] \cup {id}]
        /\ resetting' = resetting
  <2>0. PICK evicted \in IF NodeHasRoom(k) THEN {{}} ELSE {{v} : v \in Victims(k)} :
          \E id \in FreshIds :
            /\ idle' = [i \in Keys |-> IF i = k \/ i \in SkippedKeys(c, S) THEN {}
                                       ELSE idle[i] \ evicted]
            /\ active' = [active EXCEPT ![k] = active[k] \cup {id}]
    BY DEF Claim
  <2>1. PICK id \in FreshIds :
          /\ idle' = [i \in Keys |-> IF i = k \/ i \in SkippedKeys(c, S) THEN {}
                                     ELSE idle[i] \ evicted]
          /\ active' = [active EXCEPT ![k] = active[k] \cup {id}]
    BY <2>0
  <2>2. resetting' = resetting
    BY DEF Claim
  <2> HIDE DEF k
  <2>3. idle'[k] = {} /\ \A i \in Keys \ {k} : idle'[i] \subseteq idle[i]
    BY <1>1, <2>1
  <2> QED  BY <2>1, <2>2, <2>3
<1>3. UserMayOpen(k)
  BY DEF Claim
<1> HIDE DEF k
<1>4. CASE j # k
  <2>1. ConnsOf(j)' \subseteq ConnsOf(j)
    BY <1>1, <1>2, <1>4 DEF ConnsOf, TypeOK
  <2> QED  BY <2>1
<1>5. CASE j = k
  <2> DEFINE busy == active[k] \cup resetting[k]
  <2>1. ConnsOf(k)' = busy \cup {id}
    BY <1>1, <1>2 DEF ConnsOf, TypeOK
  <2>2. Cardinality(busy) < UserLimit(k)
    BY <1>3, <1>5 DEF UserMayOpen, UserHasCapacity
  <2>3. IsFiniteSet(busy) /\ Cardinality(busy) \in Nat
    BY <1>1, PoolAssumption, FS_Subset, FS_CardinalityType DEF TypeOK
  <2>4. UserLimit(k) \in Nat
    BY <1>1, PoolAssumption DEF UserLimit, Keys
  <2> HIDE DEF busy
  <2>5. CASE id \in busy
    <3>1. busy \cup {id} = busy
      BY <2>5
    <3> QED  BY <1>5, <2>1, <2>2, <2>3, <2>4, <3>1 DEF busy
  <2>6. CASE id \notin busy
    <3>1. IsFiniteSet(busy \cup {id}) /\ Cardinality(busy \cup {id}) = Cardinality(busy) + 1
      BY <2>3, <2>6, FS_AddElement
    <3> QED  BY <1>5, <2>1, <2>2, <2>3, <2>4, <3>1
  <2> QED  BY <2>5, <2>6
<1> QED  BY <1>4, <1>5

\* While roles do not change and nothing is pre-opened, no user ever has more
\* connections to a node than the user's own max_connections.
THEOREM UserLimitHolds ==
  ASSUME Reports = {}, \A u \in Users, r \in Routing : MinConns[u][r] = 0
  PROVE  Spec => []UserWithinMax
<1> DEFINE IInv == NothingRefilled /\ UserWithinMax
<1>1. Init => IInv
  <2> SUFFICES ASSUME Init PROVE IInv
    OBVIOUS
  <2>1. NothingRefilled
    BY DEF Init, NothingRefilled
  <2>2. ASSUME NEW k \in Keys PROVE Cardinality(ConnsOf(k)) <= UserLimit(k)
    <3>1. ConnsOf(k) = {}
      BY DEF Init, ConnsOf
    <3>2. UserLimit(k) \in Nat
      BY PoolAssumption DEF UserLimit, Keys
    <3> QED  BY <3>1, <3>2, FS_EmptySet
  <2> QED  BY <2>1, <2>2 DEF UserWithinMax
<1>2. TypeOK /\ TypeOK' /\ Ownership /\ IInv /\ [Next]_vars => IInv'
  <2> SUFFICES ASSUME TypeOK, TypeOK', Ownership, IInv, [Next]_vars PROVE IInv'
    OBVIOUS
  <2>1. CASE UNCHANGED vars
    BY <2>1 DEF vars, poolVars, taskVars, controlVars, NothingRefilled, UserWithinMax,
                ConnsOf, UserLimit
  <2>2. CASE Next
    <3>1. refills' = refills
      BY <2>2, RefillsStayEmpty
    <3>2. topology' = topology
      BY <2>2, SameTopology
    <3>3. ASSUME NEW j \in Keys, j.user \in LimitedUsers
          PROVE  Cardinality(ConnsOf(j)') <= UserLimit(j)
      <4>1. /\ IsFiniteSet(ConnsOf(j))
            /\ Cardinality(ConnsOf(j)) \in Nat
            /\ Cardinality(ConnsOf(j)) <= UserLimit(j)
            /\ UserLimit(j) \in Nat
        <5>1. IsFiniteSet(ConnsOf(j)) /\ Cardinality(ConnsOf(j)) \in Nat
          BY PoolAssumption, FS_Subset, FS_CardinalityType DEF ConnsOf, TypeOK
        <5>2. UserLimit(j) \in Nat
          BY PoolAssumption DEF UserLimit, Keys
        <5> QED  BY <3>3, <5>1, <5>2 DEF UserWithinMax
      <4>2. CASE ConnsOf(j)' \subseteq ConnsOf(j)
        <5>1. Cardinality(ConnsOf(j)') <= Cardinality(ConnsOf(j))
          BY <4>1, <4>2, FS_Subset
        <5>2. Cardinality(ConnsOf(j)') \in Nat
          BY <4>1, <4>2, FS_Subset, FS_CardinalityType
        <5> QED  BY <4>1, <5>1, <5>2
      <4>3. CASE ~(ConnsOf(j)' \subseteq ConnsOf(j))
        <5>1. PICK c \in Clients : ClientStep(c)
          BY <2>2, <3>1, <4>3, BackgroundGains DEF Next
        <5>2. PICK m \in Batch(c) : \E S \in TriedBefore(c, m) : Claim(c, m, S)
          BY <4>3, <5>1, ClientGains
        <5>3. m \in Nodes
          BY DEF Batch, TypeOK
        <5> QED  BY <3>3, <4>3, <5>2, <5>3, ClaimWithinUser
      <4> QED  BY <4>2, <4>3
    <3>4. \A j \in Keys : UserLimit(j)' = UserLimit(j)
      BY <3>2 DEF UserLimit
    <3> QED  BY <3>1, <3>3, <3>4 DEF NothingRefilled, UserWithinMax
  <2> QED  BY <2>1, <2>2
<1>3. Spec => []Ownership
  BY OwnershipHolds DEF Ownership
<1> QED  BY <1>1, <1>2, <1>3, TypeCorrect, PTL DEF Spec

-----------------------------------------------------------------------------
(* The floor of a pool *)

LEMMA OnlyScavengeSweeps ==
  ASSUME Next, tick = "sleep", tick' = "scavenged"
  PROVE  Scavenge
<1>1. "sleep" # "scavenged"
  OBVIOUS
<1>2. ASSUME NEW c \in Clients, ClientStep(c)  PROVE tick' = tick
  BY <1>2 DEF ClientStep, Begin, Deadline, CheckoutStep, PromptStep, ConnectStep, Resolve,
     ResolveError, TryCandidates, ConnectOk, ConnectFail, DiscardWake, Enqueue, Bail, Await,
     Timeout, Proceed, Checkin, DropGuard, OweWake, taskVars
<1>3. ASSUME NEW k \in Keys, NEW id \in Conns, ResetStep(k, id)  PROVE tick' = tick
  BY <1>3 DEF ResetStep, ResetOk, ResetFail, ResetPanic, OweWake, taskVars
<1>4. ASSUME NEW n \in Nodes, Wake(n)  PROVE tick' = tick
  BY <1>4 DEF Wake
<1>5. CASE RefillStep
  BY <1>1, <1>5 DEF RefillStep, WarmUp, Refill, SpawnOk, SpawnFail
<1>6. CASE ControlStep
  BY <1>1, <1>6 DEF ControlStep, Refresh, DrainNode, DrainWake, ShutdownFlag, ShutdownWake, taskVars
<1> QED  BY <1>1, <1>2, <1>3, <1>4, <1>5, <1>6 DEF Next

\* Connections that are only idle too long are closed down to min_connections and no
\* further (scavenge_idle, pool/refill.rs), in every pool of every node at once.  Those
\* that are dead or too old go whatever is left, so there must be none of them.
THEOREM FloorHolds ==
  ASSUME "aged" \notin Events
  PROVE  Spec => ScavengeKeepsFloor
<1>1. [Next]_vars =>
        [tick = "sleep" /\ tick' = "scavenged" =>
           \A k \in Keys : idle'[k] = idle[k] \/ Cardinality(idle'[k]) >= MinFor(k)]_vars
  <2> SUFFICES ASSUME Next, tick = "sleep", tick' = "scavenged", NEW k \in Keys
               PROVE  idle'[k] = idle[k] \/ Cardinality(idle'[k]) >= MinFor(k)
    OBVIOUS
  <2>1. idle'[k] \in Survivors(k)
    <3>1. Scavenge
      BY OnlyScavengeSweeps
    <3> QED  BY <3>1 DEF Scavenge
  <2> QED  BY <2>1 DEF Survivors
<1> QED  BY <1>1, PTL DEF Spec, ScavengeKeepsFloor

-----------------------------------------------------------------------------
(* The wait queues: clients that time out, are woken and queue again while  *)
(* others are woken, drained or shut down.                                  *)

Waiting == {"queued", "waiting"}
Blocked(c) == stage[c] \in Waiting /\ ~notified[c]

\* A live entry of c stands in the queue q, and no client has two.
Has(q, c) == \E i \in LivePositions(q) : q[i].client = c
Once(q) == \A i, j \in LivePositions(q) : q[i].client = q[j].client => i = j

\* The inductive invariant: the clients with a live entry in a queue are the
\* blocked ones of its routing.
WaitInv ==
  /\ \A r \in Routing : Once(waits[r])
  /\ \A r \in Routing, c \in Clients : Has(waits[r], c) <=> Blocked(c) /\ route[c] = r
  /\ \A c \in Clients : notified[c] => stage[c] \in Waiting

-----------------------------------------------------------------------------
(* Operations on one queue *)

\* Popping to the first live waiter removes that client and no other.
LEMMA PopOne ==
  ASSUME NEW q \in Seq(Waiter), LivePositions(q) # {}, Once(q)
  PROVE  /\ Once(AfterPop(q))
         /\ Has(q, q[FirstLive(q)].client)
         /\ \A c : Has(AfterPop(q), c) <=> Has(q, c) /\ c # q[FirstLive(q)].client
<1> DEFINE f == FirstLive(q)
           p == AfterPop(q)
<1>0. LivePositions(q) \subseteq Nat
  BY DEF LivePositions
<1>1. \E i \in LivePositions(q) : \A j \in LivePositions(q) : i <= j
  BY <1>0, LeastNat
<1>2. f \in LivePositions(q) /\ \A j \in LivePositions(q) : f <= j
  BY <1>1 DEF FirstLive
<1>3. f \in 1..Len(q) /\ Len(q) \in Nat
  BY <1>2 DEF LivePositions
<1>4. p = SubSeq(q, f + 1, Len(q))
  BY DEF AfterPop
<1> HIDE DEF f, p
<1>5. /\ Len(p) = Len(q) - f /\ DOMAIN p = 1 .. Len(q) - f
      /\ \A i \in 1 .. Len(q) - f : p[i] = q[f + i]
  BY <1>3, <1>4
<1>6. \A i \in DOMAIN p : i \in LivePositions(p) <=> f + i \in LivePositions(q)
  BY <1>3, <1>5 DEF LivePositions
<1>7. \A j \in LivePositions(q) : j # f => j - f \in LivePositions(p) /\ p[j - f] = q[j]
  <2> SUFFICES ASSUME NEW j \in LivePositions(q), j # f
               PROVE  j - f \in LivePositions(p) /\ p[j - f] = q[j]
    OBVIOUS
  <2>1. j \in 1..Len(q) /\ f < j
    BY <1>2, <1>3 DEF LivePositions
  <2>2. j - f \in 1 .. Len(q) - f /\ f + (j - f) = j
    BY <1>3, <2>1
  <2> QED  BY <1>5, <1>6, <2>2
<1>8. \A i \in LivePositions(p) : /\ i \in 1 .. Len(q) - f
                                  /\ f + i \in LivePositions(q)
                                  /\ p[i] = q[f + i]
  BY <1>5, <1>6 DEF LivePositions
<1>9. Once(p)
  <2> SUFFICES ASSUME NEW i \in LivePositions(p), NEW j \in LivePositions(p),
                      p[i].client = p[j].client
               PROVE  i = j
    BY DEF Once
  <2>1. f + i = f + j
    BY <1>8 DEF Once
  <2> QED  BY <1>3, <1>8, <2>1
<1>10. ASSUME NEW c, Has(p, c) PROVE Has(q, c) /\ c # q[f].client
  <2>1. PICK i \in LivePositions(p) : p[i].client = c
    BY <1>10 DEF Has
  <2>2. f + i \in LivePositions(q) /\ q[f + i].client = c /\ f + i # f
    BY <1>3, <1>8, <2>1
  <2> QED  BY <1>2, <2>2 DEF Has, Once
<1>11. ASSUME NEW c, Has(q, c), c # q[f].client PROVE Has(p, c)
  BY <1>7, <1>11 DEF Has
<1> QED  BY <1>2, <1>9, <1>10, <1>11 DEF Has, f, p

\* A queue of dead waiters ends empty.
LEMMA PopDead ==
  ASSUME NEW q, LivePositions(q) = {}
  PROVE  Once(AfterPop(q)) /\ \A c : ~Has(AfterPop(q), c) /\ ~Has(q, c)
BY DEF AfterPop, Once, Has, LivePositions

\* A dropped receiver leaves no live entry of its client, and those of others.
LEMMA DropOne ==
  ASSUME NEW q \in Seq(Waiter), NEW c, Once(q),
         NEW p, p = [i \in DOMAIN q |-> IF q[i].client = c THEN [q[i] EXCEPT !.live = FALSE]
                                        ELSE q[i]]
  PROVE  Once(p) /\ \A d : Has(p, d) <=> Has(q, d) /\ d # c
<1>1. \A i \in DOMAIN q : q[i] \in Waiter
  OBVIOUS
<1>2. \A i \in DOMAIN q : p[i].client = q[i].client /\ (p[i].live <=> q[i].live /\ q[i].client # c)
  BY <1>1 DEF Waiter
<1>3. DOMAIN p = DOMAIN q
  OBVIOUS
<1>4. \A i : i \in LivePositions(p) <=> i \in LivePositions(q) /\ q[i].client # c
  BY <1>2, <1>3 DEF LivePositions
<1>5. \A i \in LivePositions(q) : p[i].client = q[i].client
  BY <1>2 DEF LivePositions
<1>6. Once(p)
  <2> SUFFICES ASSUME NEW i \in LivePositions(p), NEW j \in LivePositions(p),
                      p[i].client = p[j].client
               PROVE  i = j
    BY DEF Once
  <2> QED  BY <1>4, <1>5 DEF Once
<1>7. \A d : Has(p, d) <=> Has(q, d) /\ d # c
  <2> SUFFICES ASSUME NEW d PROVE Has(p, d) <=> Has(q, d) /\ d # c
    OBVIOUS
  <2>1. Has(p, d) => Has(q, d) /\ d # c
    BY <1>4, <1>5 DEF Has
  <2>2. Has(q, d) /\ d # c => Has(p, d)
    BY <1>4, <1>5 DEF Has
  <2> QED  BY <2>1, <2>2
<1> QED  BY <1>6, <1>7

\* Forgetting a dead waiter changes no live one.
LEMMA ForgetDead ==
  ASSUME NEW q \in Seq(Waiter), NEW c, Once(q), ~Has(q, c)
  PROVE  Once(Forget(q, c)) /\ \A d : Has(Forget(q, c), d) <=> Has(q, d)
<1>1. CASE ~\E i \in DOMAIN q : q[i].client = c
  BY <1>1 DEF Forget
<1>2. CASE \E i \in DOMAIN q : q[i].client = c
  <2> DEFINE x == CHOOSE j \in DOMAIN q : q[j].client = c
             p == Forget(q, c)
             left == SubSeq(q, 1, x - 1)
             right == SubSeq(q, x + 1, Len(q))
             shift(i) == IF i < x THEN i ELSE i + 1
  <2>1. x \in 1..Len(q) /\ q[x].client = c /\ Len(q) \in Nat
    BY <1>2
  <2>2. p = left \o right
    BY <1>2 DEF Forget
  <2>3. x \notin LivePositions(q)
    BY <2>1 DEF Has
  <2> HIDE DEF x, p
  <2>4. /\ Len(left) = x - 1 /\ Len(right) = Len(q) - x
        /\ \A i \in 1 .. x - 1 : left[i] = q[i]
        /\ \A i \in 1 .. Len(q) - x : right[i] = q[x + i]
    BY <2>1
  <2>5. left \in Seq(Waiter) /\ right \in Seq(Waiter)
    BY <2>1, SubSeqProperties
  <2> HIDE DEF left, right
  <2>6. /\ Len(p) = Len(q) - 1 /\ DOMAIN p = 1 .. Len(q) - 1
        /\ \A i \in 1 .. Len(q) - 1 : p[i] = q[shift(i)]
    <3>1. /\ Len(p) = Len(left) + Len(right) /\ p \in Seq(Waiter)
          /\ \A i \in 1 .. Len(left) + Len(right) :
               p[i] = IF i <= Len(left) THEN left[i] ELSE right[i - Len(left)]
      BY <2>2, <2>5, ConcatProperties
    <3>2. Len(p) = Len(q) - 1 /\ DOMAIN p = 1 .. Len(q) - 1
      BY <2>1, <2>4, <3>1
    <3>3. ASSUME NEW i \in 1 .. Len(q) - 1, i < x
          PROVE  p[i] = q[i]
      <4>1. i \in 1 .. Len(left) + Len(right) /\ i <= Len(left) /\ i \in 1 .. x - 1
        BY <2>1, <2>4, <3>3
      <4>2. p[i] = left[i]
        BY <3>1, <4>1
      <4> QED  BY <2>4, <4>1, <4>2
    <3>4. ASSUME NEW i \in 1 .. Len(q) - 1, ~(i < x)
          PROVE  p[i] = q[i + 1]
      <4>1. /\ i \in 1 .. Len(left) + Len(right) /\ ~(i <= Len(left))
            /\ i - Len(left) \in 1 .. Len(q) - x /\ x + (i - Len(left)) = i + 1
        BY <2>1, <2>4, <3>4
      <4>2. p[i] = right[i - Len(left)]
        BY <3>1, <4>1
      <4> QED  BY <2>4, <4>1, <4>2
    <3> QED  BY <3>2, <3>3, <3>4
  <2>7. \A i \in LivePositions(p) : /\ shift(i) \in LivePositions(q)
                                    /\ p[i] = q[shift(i)]
                                    /\ i \in Nat
    BY <2>1, <2>6 DEF LivePositions
  <2>8. \A j \in LivePositions(q) : \E i \in LivePositions(p) : p[i] = q[j]
    <3> SUFFICES ASSUME NEW j \in LivePositions(q)
                 PROVE  \E i \in LivePositions(p) : p[i] = q[j]
      OBVIOUS
    <3>1. j \in 1..Len(q) /\ j # x /\ q[j].live
      BY <2>3 DEF LivePositions
    <3>2. CASE j < x
      <4>1. j \in 1 .. Len(q) - 1 /\ p[j] = q[j]
        BY <2>1, <2>6, <3>1, <3>2
      <4> QED  BY <2>6, <3>1, <4>1 DEF LivePositions
    <3>3. CASE ~(j < x)
      <4>1. j - 1 \in 1 .. Len(q) - 1 /\ ~(j - 1 < x) /\ j - 1 + 1 = j
        BY <2>1, <3>1, <3>3
      <4>2. p[j - 1] = q[j]
        BY <2>6, <4>1
      <4> QED  BY <2>6, <3>1, <4>1, <4>2 DEF LivePositions
    <3> QED  BY <3>2, <3>3
  <2>9. Once(p)
    <3> SUFFICES ASSUME NEW i \in LivePositions(p), NEW j \in LivePositions(p),
                        p[i].client = p[j].client
                 PROVE  i = j
      BY DEF Once
    <3>1. shift(i) = shift(j)
      BY <2>7 DEF Once
    <3> QED  BY <2>1, <2>7, <3>1
  <2>10. \A d : Has(p, d) <=> Has(q, d)
    BY <2>7, <2>8 DEF Has
  <2> QED  BY <2>9, <2>10 DEF p
<1> QED  BY <1>1, <1>2

\* A new waiter of a client that has none is its only one.
LEMMA AppendOne ==
  ASSUME NEW q \in Seq(Waiter), NEW c \in Clients, Once(q), ~Has(q, c)
  PROVE  LET p == Append(q, [client |-> c, live |-> TRUE])
         IN  Once(p) /\ \A d : Has(p, d) <=> Has(q, d) \/ d = c
<1> DEFINE e == [client |-> c, live |-> TRUE]
           p == Append(q, e)
<1>1. /\ Len(q) \in Nat /\ DOMAIN q = 1..Len(q)
      /\ Len(p) = Len(q) + 1 /\ DOMAIN p = 1 .. Len(q) + 1
      /\ p[Len(q) + 1] = e /\ \A i \in 1..Len(q) : p[i] = q[i]
  BY DEF Waiter
<1>2. e.client = c /\ e.live
  OBVIOUS
<1> HIDE DEF p, e
<1>3. \A i : i \in LivePositions(p) <=> i \in LivePositions(q) \/ i = Len(q) + 1
  BY <1>1, <1>2 DEF LivePositions
<1>4. \A i \in LivePositions(q) : p[i] = q[i] /\ p[i].client # c
  BY <1>1 DEF LivePositions, Has
<1>5. Once(p)
  BY <1>1, <1>2, <1>3, <1>4 DEF Once
<1>6. \A d : Has(p, d) <=> Has(q, d) \/ d = c
  BY <1>1, <1>2, <1>3, <1>4 DEF Has
<1> QED  BY <1>5, <1>6 DEF p, e

-----------------------------------------------------------------------------
(* Waking *)

\* What a wake does to the queues: whoever it tells leaves them, no one else.
Woken ==
  /\ \A r \in Routing : Once(waits'[r])
  /\ \A r \in Routing, c \in Clients : Has(waits'[r], c) <=> Has(waits[r], c) /\ ~notified'[c]
  /\ \A c \in Clients : notified[c] => notified'[c]
  /\ \A c \in Clients : notified'[c] => notified[c] \/ \E r \in Routing : Has(waits[r], c)

\* The queues a freed slot serves are a sequence of routings without repetition.
LEMMA ServedType ==
  ASSUME NEW n
  PROVE  /\ ServedRoutings(n) \in Seq(Routing)
         /\ \A i, j \in DOMAIN ServedRoutings(n) :
              ServedRoutings(n)[i] = ServedRoutings(n)[j] => i = j
<1> DEFINE served == ServedRoutings(n)
<1>1. served \in {<<"primary", "replica">>, <<"replica">>, <<>>}
  BY DEF ServedRoutings
<1> HIDE DEF served
<1>2. CASE served = <<"primary", "replica">>
  BY <1>2 DEF Routing, served
<1>3. CASE served = <<"replica">>
  BY <1>3 DEF Routing, served
<1>4. CASE served = <<>>
  BY <1>4 DEF Routing, served
<1> QED  BY <1>1, <1>2, <1>3, <1>4

\* wake_one_for_node tells the first live waiter of the first served queue that
\* has one, and no one if there is none.
LEMMA WakeOneWaits ==
  ASSUME TypeOK, WaitInv, NEW n, WakeOne(n)
  PROVE  /\ Woken
         /\ {c \in Clients : notified'[c] /\ ~notified[c]} = NextServed(n)
<1> DEFINE served == ServedRoutings(n)
           hits == {i \in DOMAIN served : LivePositions(waits[served[i]]) # {}}
           last == IF hits = {} THEN Len(served)
                   ELSE CHOOSE i \in hits : \A j \in hits : i <= j
           popped == {served[i] : i \in 1..last}
           first(i) == waits[served[i]][FirstLive(waits[served[i]])].client
<1>1. /\ DOMAIN served = 1..Len(served) /\ Len(served) \in Nat
      /\ \A i \in DOMAIN served : served[i] \in Routing
      /\ \A i, j \in DOMAIN served : served[i] = served[j] => i = j
  BY ServedType
<1>2. /\ waits' = [r \in Routing |-> IF r \in popped THEN AfterPop(waits[r]) ELSE waits[r]]
      /\ notified' = [c \in Clients |-> notified[c] \/ \E i \in hits : i = last /\ first(i) = c]
  BY DEF WakeOne
<1>3. NextServed(n) = {c \in Clients : \E i \in hits : (\A j \in hits : i <= j) /\ first(i) = c}
  BY DEF NextServed
<1> HIDE DEF served
<1>4. hits \subseteq 1..Len(served) /\ hits \subseteq Nat
  BY <1>1
<1>5. \A r \in Routing : waits[r] \in Seq(Waiter) /\ Once(waits[r])
  BY DEF TypeOK, WaitInv
<1>6. notified \in [Clients -> BOOLEAN]
  BY DEF TypeOK
<1>7. CASE hits = {}
  <2>1. \A c \in Clients : notified'[c] = notified[c]
    BY <1>2, <1>6, <1>7
  <2>2. \A r \in popped : r \in Routing /\ LivePositions(waits[r]) = {}
    BY <1>1, <1>7
  <2>3. ASSUME NEW r \in Routing
        PROVE  /\ Once(waits'[r])
               /\ \A c : Has(waits'[r], c) <=> Has(waits[r], c)
    <3>1. CASE r \in popped
      <4>1. waits'[r] = AfterPop(waits[r])
        BY <1>2, <3>1
      <4> QED  BY <2>2, <3>1, <4>1, PopDead
    <3>2. CASE r \notin popped
      BY <1>2, <1>5, <3>2
    <3> QED  BY <3>1, <3>2
  <2>4. Woken
    BY <2>1, <2>3 DEF Woken, WaitInv, Blocked
  <2>5. {c \in Clients : notified'[c] /\ ~notified[c]} = NextServed(n)
    BY <1>3, <1>7, <2>1
  <2> QED  BY <2>4, <2>5
<1>8. CASE hits # {}
  <2>1. last \in hits /\ \A j \in hits : last <= j
    <3>1. \E i \in hits : \A j \in hits : i <= j
      BY <1>4, <1>8, LeastNat
    <3> QED  BY <1>8, <3>1
  <2> DEFINE h == served[last]
             w == first(last)
  <2>2. /\ h \in Routing /\ h \in popped /\ LivePositions(waits[h]) # {}
        /\ waits[h] \in Seq(Waiter) /\ Once(waits[h])
    <3>1. last \in 1..Len(served) /\ LivePositions(waits[h]) # {}
      BY <1>4, <2>1
    <3>2. h \in Routing
      BY <1>1, <3>1
    <3>3. last \in 1..last
      <4> HIDE DEF last
      <4> QED  BY <1>1, <3>1
    <3> HIDE DEF last
    <3> QED  BY <1>5, <3>1, <3>2, <3>3
  <2>3. \A r \in popped : r # h => r \in Routing /\ LivePositions(waits[r]) = {}
    <3> SUFFICES ASSUME NEW i \in 1..last, served[i] # h
                 PROVE  served[i] \in Routing /\ LivePositions(waits[served[i]]) = {}
      OBVIOUS
    <3>1. last \in 1..Len(served) /\ Len(served) \in Nat
      BY <1>1, <1>4, <2>1
    <3> HIDE DEF last
    <3>2. i \in DOMAIN served /\ i < last
      BY <1>1, <3>1
    <3>3. i \notin hits
      <4>1. /\ i \in Nat /\ last \in Nat /\ \A j \in hits : last <= j
        <5> HIDE DEF hits
        <5> QED  BY <2>1, <3>1
      <4> HIDE DEF hits
      <4> QED  BY <3>2, <4>1
    <3> QED  BY <1>1, <3>2, <3>3
  <2>4. \A c \in Clients : notified'[c] <=> notified[c] \/ c = w
    BY <1>2, <2>1
  <2> HIDE DEF last
  <2>5. /\ Once(AfterPop(waits[h])) /\ Has(waits[h], w)
        /\ \A c : Has(AfterPop(waits[h]), c) <=> Has(waits[h], c) /\ c # w
    BY <2>2, PopOne
  <2>6. w \in Clients /\ Blocked(w) /\ route[w] = h
    <3>1. w \in Clients
      <4>1. FirstLive(waits[h]) \in 1..Len(waits[h])
        BY <2>2, FirstLiveType
      <4>2. waits[h][FirstLive(waits[h])] \in Waiter
        BY <2>2, <4>1
      <4> QED  BY <4>2 DEF Waiter
    <3> QED  BY <2>2, <2>5, <3>1 DEF WaitInv
  <2> HIDE DEF w, h, popped
  <2>7. ASSUME NEW r \in Routing
        PROVE  /\ Once(waits'[r])
               /\ \A c \in Clients : Has(waits'[r], c) <=> Has(waits[r], c) /\ c # w
    <3>0. waits'[r] = IF r \in popped THEN AfterPop(waits[r]) ELSE waits[r]
      BY <1>2
    <3>1. CASE r = h
      BY <2>2, <2>5, <3>0, <3>1
    <3>2. CASE r # h /\ r \in popped
      <4>1. Once(waits'[r]) /\ \A c : ~Has(waits'[r], c) /\ ~Has(waits[r], c)
        BY <2>3, <3>0, <3>2, PopDead
      <4> QED  BY <4>1
    <3>3. CASE r # h /\ r \notin popped
      <4>1. ~Has(waits[r], w)
        BY <2>6, <3>3 DEF WaitInv
      <4> QED  BY <1>5, <3>0, <3>3, <4>1
    <3> QED  BY <3>1, <3>2, <3>3
  <2>8. \A r \in Routing, c \in Clients : Has(waits[r], c) => ~notified[c]
    BY DEF WaitInv, Blocked
  <2>9. Woken
    BY <2>2, <2>4, <2>5, <2>7, <2>8 DEF Woken
  <2>10. \A i \in hits : (\A j \in hits : i <= j) => i = last
    <3>1. hits \subseteq Nat /\ last \in hits /\ \A j \in hits : last <= j
      BY <1>4, <2>1
    <3> HIDE DEF hits
    <3> QED  BY <3>1
  <2>11. NextServed(n) = {w}
    BY <1>3, <2>1, <2>6, <2>10 DEF w
  <2>12. ~notified[w]
    BY <2>6 DEF Blocked
  <2> QED  BY <2>4, <2>6, <2>9, <2>11, <2>12
<1> QED  BY <1>7, <1>8

\* wake_all_waiters tells everyone who is blocked.
LEMMA WakeAllWaits ==
  ASSUME TypeOK, WaitInv, WakeAll
  PROVE  /\ Woken
         /\ \A c \in Clients : stage[c] \in Waiting => notified'[c]
<1>1. \A r \in Routing : waits'[r] = <<>>
  BY DEF WakeAll
<1>2. \A c \in Clients : notified'[c] <=> notified[c] \/ \E r \in Routing : Has(waits[r], c)
  BY DEF WakeAll, Has
<1>3. LivePositions(<<>>) = {}
  BY DEF LivePositions
<1>4. Woken
  BY <1>1, <1>2, <1>3 DEF Woken, Once, Has
<1>5. ASSUME NEW c \in Clients, stage[c] \in Waiting PROVE notified'[c]
  <2>1. route[c] \in Routing
    BY DEF TypeOK
  <2> QED  BY <1>2, <1>5, <2>1 DEF WaitInv, Blocked
<1> QED  BY <1>4, <1>5

-----------------------------------------------------------------------------
(* The invariant is inductive *)

\* A step that only wakes, and moves only clients that are not blocked before
\* it and not after it, keeps the invariant.
LEMMA WokenKeeps ==
  ASSUME WaitInv, Woken,
         \A d \in Clients : \/ stage'[d] = stage[d] /\ route'[d] = route[d]
                            \/ stage[d] \notin Waiting /\ stage'[d] \notin Waiting
  PROVE  WaitInv'
<1>1. \A r \in Routing, d \in Clients :
        Has(waits'[r], d) <=> stage'[d] \in Waiting /\ ~notified'[d] /\ route'[d] = r
  BY DEF WaitInv, Woken, Blocked
<1>2. \A d \in Clients : notified'[d] => stage'[d] \in Waiting
  BY DEF WaitInv, Woken, Blocked
<1> QED  BY <1>1, <1>2 DEF WaitInv, Woken, Blocked, Has, Once, LivePositions, Waiting

\* So does one that leaves the queues alone.
LEMMA QuietKeeps ==
  ASSUME WaitInv, UNCHANGED <<waits, notified>>,
         \A d \in Clients : \/ stage'[d] = stage[d] /\ route'[d] = route[d]
                            \/ stage[d] \notin Waiting /\ stage'[d] \notin Waiting
  PROVE  WaitInv'
<1>1. Woken
  BY DEF Woken, WaitInv, Blocked
<1> QED  BY <1>1, WokenKeeps

\* So does one in which a client stops waiting and takes its entry along.
LEMMA LeaveKeeps ==
  ASSUME WaitInv, NEW c \in Clients,
         \A r \in Routing : Once(waits'[r]),
         \A r \in Routing, d \in Clients : Has(waits'[r], d) <=> Has(waits[r], d) /\ d # c,
         \A d \in Clients \ {c} : /\ stage'[d] = stage[d] /\ route'[d] = route[d]
                                  /\ notified'[d] = notified[d],
         stage'[c] \notin Waiting, ~notified'[c]
  PROVE  WaitInv'
<1>1. \A r \in Routing, d \in Clients :
        Has(waits'[r], d) <=> stage'[d] \in Waiting /\ ~notified'[d] /\ route'[d] = r
  BY DEF WaitInv, Blocked
<1>2. \A d \in Clients : notified'[d] => stage'[d] \in Waiting
  BY DEF WaitInv
<1> QED  BY <1>1, <1>2 DEF WaitInv, Blocked, Has, Once, LivePositions, Waiting

\* The pool starts with no one in a queue.
LEMMA WaitInit == Init => WaitInv
BY DEF Init, WaitInv, Waiting, Blocked, Has, Once, LivePositions

\* A client that joins a queue stands there once, its abandoned entry forgotten.
LEMMA EnqueueKeeps ==
  ASSUME TypeOK, WaitInv, NEW c \in Clients, Enqueue(c)
  PROVE  WaitInv'
<1> DEFINE q == waits[route[c]]
           p == Append(Forget(q, c), [client |-> c, live |-> TRUE])
<1>1. /\ route[c] \in Routing /\ q \in Seq(Waiter) /\ Once(q)
      /\ stage[c] \notin Waiting
      /\ \A r \in Routing : ~Has(waits[r], c)
  BY DEF TypeOK, WaitInv, Enqueue, Waiting, Blocked
<1>2. ~notified[c] /\ ~notified'[c]
  BY <1>1 DEF WaitInv, Enqueue
<1>3. /\ stage'[c] = "queued" /\ route' = route /\ notified' = notified
      /\ \A d \in Clients \ {c} : stage'[d] = stage[d]
  BY DEF Enqueue, GoTo, TypeOK, InCheckout, Stage
<1>4. Once(p) /\ \A d \in Clients : Has(p, d) <=> Has(q, d) \/ d = c
  <2>1. /\ Forget(q, c) \in Seq(Waiter) /\ Once(Forget(q, c))
        /\ \A d : Has(Forget(q, c), d) <=> Has(q, d)
    BY <1>1, ForgetType, ForgetDead
  <2> HIDE DEF q
  <2>2. ~Has(Forget(q, c), c)
    BY <1>1, <2>1 DEF q
  <2> QED  BY <2>1, <2>2, AppendOne
<1>5. \A r \in Routing : waits'[r] = IF r = route[c] THEN p ELSE waits[r]
  BY <1>1 DEF Enqueue, TypeOK
<1> HIDE DEF p
<1>6. \A r \in Routing, d \in Clients :
        Has(waits'[r], d) <=> stage'[d] \in Waiting /\ ~notified'[d] /\ route'[d] = r
  <2> SUFFICES ASSUME NEW r \in Routing, NEW d \in Clients
               PROVE  Has(waits'[r], d) <=> stage'[d] \in Waiting /\ ~notified'[d] /\ route'[d] = r
    OBVIOUS
  <2>1. Has(waits[r], d) <=> stage[d] \in Waiting /\ ~notified[d] /\ route[d] = r
    BY DEF WaitInv, Blocked
  <2>2. CASE d = c
    BY <1>1, <1>2, <1>3, <1>4, <1>5, <2>2 DEF Waiting
  <2>3. CASE d # c
    BY <1>3, <1>4, <1>5, <2>1, <2>3
  <2> QED  BY <2>2, <2>3
<1>7. \A r \in Routing : Once(waits'[r])
  BY <1>4, <1>5 DEF WaitInv
<1>8. \A d \in Clients : notified'[d] => stage'[d] \in Waiting
  BY <1>2, <1>3 DEF WaitInv
<1> QED  BY <1>6, <1>7, <1>8 DEF WaitInv, Blocked, Has, Once, LivePositions, Waiting

\* A client that gives up leaves no live entry.
LEMMA DropReceiverWaits ==
  ASSUME TypeOK, WaitInv, NEW c \in Clients, DropReceiver(c)
  PROVE  /\ \A r \in Routing : Once(waits'[r])
         /\ \A r \in Routing, d \in Clients : Has(waits'[r], d) <=> Has(waits[r], d) /\ d # c
<1> SUFFICES ASSUME NEW r \in Routing
             PROVE  Once(waits'[r]) /\ \A d : Has(waits'[r], d) <=> Has(waits[r], d) /\ d # c
  OBVIOUS
<1>1. waits[r] \in Seq(Waiter) /\ Once(waits[r])
  BY DEF TypeOK, WaitInv
<1>2. waits'[r] = [i \in DOMAIN waits[r] |->
                     IF waits[r][i].client = c THEN [waits[r][i] EXCEPT !.live = FALSE]
                     ELSE waits[r][i]]
  BY DEF DropReceiver
<1> QED  BY <1>1, <1>2, DropOne

\* The steps of a checkout keep the invariant.
LEMMA CheckoutKeeps ==
  ASSUME TypeOK, WaitInv, NEW c \in Clients, CheckoutStep(c)
  PROVE  WaitInv'
<1> DEFINE Elsewhere ==
      \A d \in Clients : \/ stage'[d] = stage[d] /\ route'[d] = route[d]
                         \/ stage[d] \notin Waiting /\ stage'[d] \notin Waiting
<1>1. CASE Resolve(c)
  <2>1. Elsewhere /\ UNCHANGED <<waits, notified>>
    BY <1>1 DEF Resolve, Waiting, TypeOK, queueVars
  <2> QED  BY <2>1, QuietKeeps
<1>2. CASE ResolveError(c)
  <2>1. Elsewhere /\ UNCHANGED <<waits, notified>>
    BY <1>2 DEF ResolveError, GoTo, Waiting, TypeOK, queueVars, InCheckout
  <2> QED  BY <2>1, QuietKeeps
<1>3. CASE TryCandidates(c)
  <2>1. PICK s \in {"holding", "connecting", "second", "enqueue"} : GoTo(c, s)
    BY <1>3 DEF TryCandidates, GetIdle, Claim, AllFull
  <2>2. Elsewhere /\ UNCHANGED <<waits, notified>>
    BY <1>3, <2>1 DEF TryCandidates, GoTo, Waiting, TypeOK, queueVars
  <2> QED  BY <2>2, QuietKeeps
<1>4. CASE ConnectOk(c) \/ ConnectFail(c)
  <2>1. PICK s \in {"holding", "failed"} : GoTo(c, s)
    BY <1>4 DEF ConnectOk, ConnectFail
  <2>2. Elsewhere /\ UNCHANGED <<waits, notified>>
    BY <1>4, <2>1 DEF ConnectOk, ConnectFail, GoTo, Waiting, TypeOK, queueVars
  <2> QED  BY <2>2, QuietKeeps
<1>5. CASE DiscardWake(c)
  <2>1. PICK s \in {"enqueue", "idle"} : GoTo(c, s)
    BY <1>5 DEF DiscardWake
  <2>2. Elsewhere
    BY <1>5, <2>1 DEF DiscardWake, GoTo, Waiting, TypeOK
  <2>3. PICK n : WakeOne(n)
    BY <1>5 DEF DiscardWake
  <2> QED  BY <2>2, <2>3, WakeOneWaits, WokenKeeps
<1>6. CASE Enqueue(c)
  BY <1>6, EnqueueKeeps
<1>7. CASE Bail(c) \/ Timeout(c)
  <2>1. DropReceiver(c) /\ GoTo(c, "idle")
    BY <1>7 DEF Bail, Timeout
  <2>2. stage'[c] \notin Waiting /\ ~notified'[c]
    BY <1>7, <2>1 DEF Bail, Timeout, GoTo, Waiting, TypeOK
  <2>3. \A d \in Clients \ {c} : /\ stage'[d] = stage[d] /\ route'[d] = route[d]
                                 /\ notified'[d] = notified[d]
    BY <1>7, <2>1 DEF Bail, Timeout, GoTo, TypeOK
  <2> QED  BY <2>1, <2>2, <2>3, DropReceiverWaits, LeaveKeeps
<1>8. CASE Await(c)
  <2>1. /\ stage[c] = "queued" /\ stage'[c] = "waiting"
        /\ UNCHANGED <<route, waits, notified>>
        /\ \A d \in Clients \ {c} : stage'[d] = stage[d]
    BY <1>8 DEF Await, GoTo, TypeOK, InCheckout, Stage, queueVars
  <2>2. \A d \in Clients : stage'[d] \in Waiting <=> stage[d] \in Waiting
    BY <2>1 DEF Waiting
  <2>3. \A r \in Routing, d \in Clients :
          Has(waits'[r], d) <=> stage'[d] \in Waiting /\ ~notified'[d] /\ route'[d] = r
    BY <2>1, <2>2 DEF WaitInv, Blocked
  <2> QED  BY <2>1, <2>2, <2>3 DEF WaitInv, Blocked, Has, Once, LivePositions, Waiting
<1>9. CASE Proceed(c)
  <2>1. PICK s \in {"resolve", "idle"} : GoTo(c, s)
    BY <1>9 DEF Proceed
  <2>2. stage'[c] \notin Waiting /\ ~notified'[c] /\ waits' = waits
    BY <1>9, <2>1 DEF Proceed, GoTo, Waiting, TypeOK
  <2>3. \A d \in Clients \ {c} : /\ stage'[d] = stage[d] /\ route'[d] = route[d]
                                 /\ notified'[d] = notified[d]
    BY <1>9, <2>1 DEF Proceed, GoTo, TypeOK
  <2>4. \A r \in Routing : ~Has(waits[r], c)
    BY <1>9 DEF Proceed, WaitInv, Blocked
  <2> QED  BY <2>2, <2>3, <2>4, LeaveKeeps DEF WaitInv
<1> QED
  BY <1>1, <1>2, <1>3, <1>4, <1>5, <1>6, <1>7, <1>8, <1>9
     DEF CheckoutStep, PromptStep, ConnectStep

\* So does every step, and a step that does nothing.
LEMMA WaitStep ==
  ASSUME TypeOK, WaitInv, [Next]_vars
  PROVE  WaitInv'
<1> USE DEF poolVars, clientVars, queueVars, taskVars, controlVars
<1> DEFINE Elsewhere ==
      \A d \in Clients : \/ stage'[d] = stage[d] /\ route'[d] = route[d]
                         \/ stage[d] \notin Waiting /\ stage'[d] \notin Waiting
<1>1. ASSUME NEW c \in Clients, ClientStep(c) PROVE WaitInv'
  <2>1. CASE Begin(c)
    <3>1. Elsewhere /\ UNCHANGED <<waits, notified>>
      BY <2>1 DEF Begin, Waiting, TypeOK
    <3> QED  BY <3>1, QuietKeeps
  <2>2. CASE Deadline(c)
    <3>1. Elsewhere /\ UNCHANGED <<waits, notified>>
      BY <2>2 DEF Deadline
    <3> QED  BY <3>1, QuietKeeps
  <2>3. CASE CheckoutStep(c)
    BY <2>3, CheckoutKeeps
  <2>4. CASE Checkin(c) \/ DropGuard(c)
    <3>1. PICK s \in {"idle", "dropped"} : GoTo(c, s)
      BY <2>4 DEF Checkin, DropGuard
    <3>2. Elsewhere /\ UNCHANGED <<waits, notified>>
      BY <2>4, <3>1 DEF Checkin, DropGuard, GoTo, Waiting, TypeOK
    <3> QED  BY <3>2, QuietKeeps
  <2> QED  BY <1>1, <2>1, <2>2, <2>3, <2>4 DEF ClientStep
<1>2. ASSUME NEW n \in Nodes, Wake(n) PROVE WaitInv'
  <2>1. WakeOne(n) /\ Elsewhere
    BY <1>2 DEF Wake
  <2> QED  BY <2>1, WakeOneWaits, WokenKeeps
<1>3. CASE DrainWake \/ ShutdownWake
  <2>1. WakeAll /\ Elsewhere
    BY <1>3 DEF DrainWake, ShutdownWake
  <2> QED  BY <2>1, WakeAllWaits, WokenKeeps
<1>4. CASE \/ \E k \in Keys, id \in Conns : ResetStep(k, id)
           \/ Scavenge \/ RefillStep
           \/ Refresh \/ (\E n \in Nodes : DrainNode(n)) \/ ShutdownFlag
  <2>1. Elsewhere /\ UNCHANGED <<waits, notified>>
    BY <1>4 DEF ResetStep, ResetOk, ResetFail, ResetPanic, Scavenge, RefillStep, WarmUp, Refill,
                SpawnOk, SpawnFail, Refresh, DrainNode, ShutdownFlag
  <2> QED  BY <2>1, QuietKeeps
<1>5. CASE UNCHANGED vars
  BY <1>5, QuietKeeps DEF vars
<1> QED  BY <1>1, <1>2, <1>3, <1>4, <1>5 DEF Next, ControlStep

-----------------------------------------------------------------------------
(* What the invariant gives *)

\* The invariant holds in every reachable state.
LEMMA WaitInvHolds == Spec => []WaitInv
BY WaitInit, WaitStep, TypeCorrect, PTL DEF Spec

\* It says of every queue what WaitersSound does.
LEMMA WaitInvIsSound == TypeOK /\ WaitInv => WaitersSound
<1> SUFFICES ASSUME TypeOK, WaitInv PROVE WaitersSound
  OBVIOUS
<1>1. ASSUME NEW r \in Routing, NEW i \in LivePositions(waits[r])
      PROVE  LET c == waits[r][i].client
             IN  stage[c] \in {"queued", "waiting"} /\ ~notified[c] /\ route[c] = r
  <2>1. waits[r] \in Seq(Waiter) /\ i \in DOMAIN waits[r]
    BY DEF TypeOK, LivePositions
  <2>2. waits[r][i] \in Waiter
    BY <2>1
  <2> QED  BY <2>2 DEF Waiter, WaitInv, Has, Blocked, Waiting
<1>2. ASSUME NEW c \in Clients, stage[c] \in {"queued", "waiting"}, ~notified[c]
      PROVE  Cardinality({i \in LivePositions(waits[route[c]]) :
                            waits[route[c]][i].client = c}) = 1
  <2>1. route[c] \in Routing
    BY DEF TypeOK
  <2>2. Has(waits[route[c]], c) /\ Once(waits[route[c]])
    BY <1>2, <2>1 DEF WaitInv, Blocked, Waiting
  <2>3. PICK i \in LivePositions(waits[route[c]]) : waits[route[c]][i].client = c
    BY <2>2 DEF Has
  <2>4. {j \in LivePositions(waits[route[c]]) : waits[route[c]][j].client = c} = {i}
    BY <2>2, <2>3 DEF Once
  <2> QED  BY <2>4, FS_Singleton
<1>3. \A c \in Clients : notified[c] => stage[c] \in {"queued", "waiting"}
  BY DEF WaitInv, Waiting
<1> QED  BY <1>1, <1>2, <1>3 DEF WaitersSound

\* In every reachable state a live entry of a queue is that of a blocked client
\* of its routing, and every blocked client has exactly one: no wake goes to a
\* client that is not there, and no client blocks where none can find it.
THEOREM WaitersHold == Spec => []WaitersSound
BY WaitInvHolds, WaitInvIsSound, TypeCorrect, PTL

\* No step but a wake lowers the count of wakes due.
LEMMA OnlyWakePays ==
  ASSUME TypeOK, Next, NEW n \in Nodes, wakes'[n] < wakes[n]
  PROVE  Wake(n)
<1> USE DEF poolVars, clientVars, queueVars, taskVars, controlVars
<1>1. wakes \in [Nodes -> Nat] /\ wakes[n] \in Nat
  BY DEF TypeOK
<1>2. wakes' # wakes
  BY <1>1
<1>3. ASSUME NEW m \in Nodes, OweWake(m) PROVE FALSE
  BY <1>1, <1>3 DEF OweWake
<1>4. ASSUME NEW c \in Clients, ClientStep(c) PROVE FALSE
  BY <1>2, <1>4 DEF ClientStep, Begin, Deadline, CheckoutStep, PromptStep, ConnectStep, Resolve,
                    ResolveError, TryCandidates, ConnectOk, ConnectFail, DiscardWake, Enqueue, Bail,
                    Await, Timeout, Proceed, Checkin, DropGuard
<1>5. ASSUME NEW k \in Keys, NEW id \in Conns, ResetStep(k, id) PROVE FALSE
  BY <1>2, <1>3, <1>5 DEF ResetStep, ResetOk, ResetFail, ResetPanic, Keys
<1>6. ASSUME NEW m \in Nodes, Wake(m) PROVE m = n
  <2>1. wakes' = [wakes EXCEPT ![m] = wakes[m] - 1]
    BY <1>6 DEF Wake
  <2> QED  BY <1>1, <2>1
<1>7. CASE Scavenge
  <2>1. PICK gone \in SUBSET UNION {idle[k] : k \in Keys} :
          wakes' = [m \in Nodes |-> wakes[m] + Cardinality(gone \cap NodeConns(m))]
    BY <1>7 DEF Scavenge
  <2> DEFINE freed == Cardinality(gone \cap NodeConns(n))
  <2>2. gone \subseteq Conns /\ IsFiniteSet(gone)
    BY PoolAssumption, FS_Subset DEF TypeOK
  <2>3. freed \in Nat
    BY <2>2, FS_Subset, FS_CardinalityType
  <2>4. wakes'[n] = wakes[n] + freed
    BY <2>1
  <2> HIDE DEF freed
  <2> QED  BY <1>1, <2>3, <2>4
<1>8. CASE RefillStep
  BY <1>2, <1>3, <1>8 DEF RefillStep, WarmUp, Refill, SpawnOk, SpawnFail, Keys
<1>9. CASE ControlStep
  BY <1>2, <1>9 DEF ControlStep, Refresh, DrainNode, DrainWake, ShutdownFlag, ShutdownWake
<1> QED  BY <1>4, <1>5, <1>6, <1>7, <1>8, <1>9 DEF Next

\* A wake of a background task always reaches the longest-waiting client of the
\* first queue its slot can serve, and no other, whoever gave up before it.
THEOREM WakesReach == Spec => WakeReachesFirst
<1>1. TypeOK /\ WaitInv /\ [Next]_vars =>
        [\A n \in Nodes : wakes'[n] < wakes[n] =>
           {c \in Clients : notified'[c] /\ ~notified[c]} = NextServed(n)]_vars
  <2> SUFFICES ASSUME TypeOK, WaitInv, Next, NEW n \in Nodes, wakes'[n] < wakes[n]
               PROVE  {c \in Clients : notified'[c] /\ ~notified[c]} = NextServed(n)
    OBVIOUS
  <2>1. WakeOne(n)
    BY OnlyWakePays DEF Wake
  <2> QED  BY <2>1, WakeOneWaits
<1> QED  BY <1>1, WaitInvHolds, TypeCorrect, PTL DEF Spec, WakeReachesFirst

\* A drain that ends has told every client that was blocked.
THEOREM DrainReleases == Spec => DrainReleasesWaiters
<1>1. TypeOK /\ WaitInv /\ [Next]_vars =>
        [drained /\ ~drained' =>
           \A c \in Clients : stage[c] \in {"queued", "waiting"} => notified'[c]]_vars
  <2> SUFFICES ASSUME TypeOK, WaitInv, Next, drained, ~drained'
               PROVE  \A c \in Clients : stage[c] \in {"queued", "waiting"} => notified'[c]
    OBVIOUS
  <2>1. WakeAll
    BY DEF Next, ClientStep, Begin, Deadline, CheckoutStep, PromptStep, ConnectStep, Resolve,
           ResolveError, TryCandidates, ConnectOk, ConnectFail, DiscardWake, Enqueue, Bail, Await,
           Timeout, Proceed, Checkin, DropGuard, ResetStep, ResetOk, ResetFail, ResetPanic, Wake,
           Scavenge, RefillStep, WarmUp, Refill, SpawnOk, SpawnFail, ControlStep, Refresh,
           DrainNode, DrainWake, ShutdownFlag, ShutdownWake, controlVars
  <2> QED  BY <2>1, WakeAllWaits DEF Waiting
<1> QED  BY <1>1, WaitInvHolds, TypeCorrect, PTL DEF Spec, DrainReleasesWaiters

-----------------------------------------------------------------------------
(* Pool implements ConnLease: the initial states map to its initial state, and      *)
(* every step maps to one of its actions or leaves phase and holder alone.  The     *)
(* mapping reads the pool through ownership: without it, an id in two collections,  *)
(* or two guards on one connection, would have two phases or two holders.           *)

Abstract == Lease!Phase

\* The phase of a connection says which collection holds it.
Placed ==
  /\ phase \in [Conns -> Abstract]
  /\ \A id \in Conns :
       /\ phase[id] = "leased" <=> \E k \in Keys : id \in active[k]
       /\ phase[id] = "cleaning" <=> \E k \in Keys : id \in resetting[k]
       /\ phase[id] = "available" <=> \E k \in Keys : id \in idle[k]

\* The holder of a connection is the one client whose guard names it.
Held ==
  /\ holder \in [Conns -> Clients \cup {NoClient}]
  /\ \A id \in Conns, c \in Clients : holder[id] = c <=> HolderOf(id, c)

\* While ownership holds, the mapping is faithful.
LEMMA Mapping == TypeOK /\ Ownership => Placed /\ Held
<1> SUFFICES ASSUME TypeOK, Ownership PROVE Placed /\ Held
  OBVIOUS
<1>1. Placed
  <2>1. ASSUME NEW j \in Keys, NEW k \in Keys
        PROVE  /\ idle[j] \cap active[k] = {}
               /\ idle[j] \cap resetting[k] = {}
               /\ active[j] \cap resetting[k] = {}
    BY DEF Ownership, OnePlace, ConnsOf
  <2> QED  BY <2>1 DEF Placed, phase, Abstract, Lease!Phase
<1>2. ASSUME NEW id \in Conns, NEW c \in Clients, NEW d \in Clients,
             HolderOf(id, c), HolderOf(id, d)
      PROVE  c = d
  <2>1. /\ guard[c] \in Guard /\ guard[d] \in Guard
        /\ id \in active[guard[c].key] /\ id \in active[guard[d].key]
    BY <1>2 DEF HolderOf, Ownership, ActiveIsHeld, TypeOK, Holds, WithGuard
  <2>2. guard[c].key = guard[d].key
    BY <2>1 DEF Ownership, OnePlace, ConnsOf, Guard
  <2>3. guard[c] = guard[d]
    BY <1>2, <2>1, <2>2 DEF HolderOf, Guard
  <2> QED  BY <1>2, <2>3 DEF HolderOf, Ownership, ActiveIsHeld
<1>3. ASSUME NEW id \in Conns, NEW c \in Clients
      PROVE  /\ holder[id] \in Clients \cup {NoClient}
             /\ holder[id] = c <=> HolderOf(id, c)
  <2>1. CASE \E d \in Clients : HolderOf(id, d)
    <3> DEFINE d == CHOOSE e \in Clients : HolderOf(id, e)
    <3>1. holder[id] = d
      BY <2>1 DEF holder
    <3>2. d \in Clients /\ HolderOf(id, d)
      BY <2>1
    <3> HIDE DEF d
    <3> QED  BY <1>2, <3>1, <3>2
  <2>2. CASE ~\E d \in Clients : HolderOf(id, d)
    <3>1. holder[id] = NoClient
      BY <2>2 DEF holder
    <3> QED  BY <2>2, <3>1, LeaseAssumption
  <2> QED  BY <2>1, <2>2
<1>4. holder \in [Conns -> Clients \cup {NoClient}]
  <2>1. holder = [id \in Conns |-> holder[id]]
    BY DEF holder
  <2>2. \A id \in Conns : holder[id] \in Clients \cup {NoClient}
    <3> SUFFICES ASSUME NEW id \in Conns PROVE holder[id] \in Clients \cup {NoClient}
      OBVIOUS
    <3>1. CASE \E d \in Clients : HolderOf(id, d)
      BY <3>1 DEF holder
    <3>2. CASE ~\E d \in Clients : HolderOf(id, d)
      BY <3>2 DEF holder
    <3> QED  BY <3>1, <3>2
  <2> QED  BY <2>1, <2>2
<1> QED  BY <1>1, <1>3, <1>4 DEF Held

\* What a step may use of the states before and after it.
Mapped == Placed /\ Held /\ Placed' /\ Held'

-----------------------------------------------------------------------------
(* Steps that lend nothing *)

\* Clients whose slots do not move keep their connections.
LEMMA HoldersSame ==
  ASSUME Mapped,
         \A c \in Clients : Holds(c)' = Holds(c) /\ (Holds(c) => guard'[c] = guard[c])
  PROVE  holder' = holder
<1>1. \A id \in Conns, c \in Clients : HolderOf(id, c)' <=> HolderOf(id, c)
  BY DEF HolderOf
<1>2. \A id \in Conns : holder'[id] = holder[id]
  BY <1>1 DEF Mapped, Held
<1> QED  BY <1>2 DEF Mapped, Held

\* A step that at most closes idle connections is Close.
LEMMA ShrinkCloses ==
  ASSUME Mapped, holder' = holder, active' = active, resetting' = resetting,
         \A k \in Keys : idle'[k] \subseteq idle[k]
  PROVE  Lease!Close
<1> DEFINE gone == {id \in Conns : phase[id] = "available" /\ phase'[id] = "closed"}
<1>1. gone \in SUBSET Lease!Available
  BY DEF Lease!Available
<1>2. \A id \in Conns : phase'[id] = IF id \in gone THEN "closed" ELSE phase[id]
  <2> SUFFICES ASSUME NEW id \in Conns, id \notin gone PROVE phase'[id] = phase[id]
    OBVIOUS
  <2>1. /\ phase'[id] = "leased" <=> phase[id] = "leased"
        /\ phase'[id] = "cleaning" <=> phase[id] = "cleaning"
        /\ phase'[id] = "available" => phase[id] = "available"
    BY DEF Mapped, Placed
  <2>2. phase[id] \in Abstract /\ phase'[id] \in Abstract
    BY DEF Mapped, Placed, Abstract
  <2> QED  BY <2>1, <2>2 DEF Abstract, Lease!Phase
<1>3. phase' = Lease!Closed(gone)
  BY <1>2 DEF Mapped, Placed, Lease!Closed
<1> QED  BY <1>1, <1>3 DEF Lease!Close

\* One connection changes phase.
LEMMA OnePhase ==
  ASSUME Mapped, NEW id \in Conns, NEW next \in Abstract, phase'[id] = next,
         \A other \in Conns \ {id}, k \in Keys :
           /\ other \in active'[k] <=> other \in active[k]
           /\ other \in resetting'[k] <=> other \in resetting[k]
           /\ other \in idle'[k] <=> other \in idle[k]
  PROVE  phase' = [phase EXCEPT ![id] = next]
<1>1. ASSUME NEW other \in Conns \ {id} PROVE phase'[other] = phase[other]
  <2>1. /\ phase'[other] = "leased" <=> phase[other] = "leased"
        /\ phase'[other] = "cleaning" <=> phase[other] = "cleaning"
        /\ phase'[other] = "available" <=> phase[other] = "available"
    BY DEF Mapped, Placed
  <2>2. phase[other] \in Abstract /\ phase'[other] \in Abstract
    BY DEF Mapped, Placed
  <2> QED  BY <2>1, <2>2 DEF Abstract, Lease!Phase
<1> QED  BY <1>1 DEF Mapped, Placed

\* An id in no collection is closed.
LEMMA ClosedPhase ==
  ASSUME Placed, NEW id \in Conns, \A k \in Keys : id \notin ConnsOf(k)
  PROVE  phase[id] = "closed"
BY DEF Placed, ConnsOf, Abstract, Lease!Phase

\* ConnectFail and DropGuard close the connection under its holder's hands,
\* Checkin gives it back to be cleaned.
LEMMA GiveReturns ==
  ASSUME TypeOK, Ownership, Mapped, NEW c \in Clients,
         ConnectFail(c) \/ DropGuard(c) \/ Checkin(c)
  PROVE  Lease!Return
<1> USE DEF poolVars, clientVars, queueVars, taskVars, controlVars
<1> DEFINE k == guard[c].key
           id == guard[c].conn
<1>1. Holds(c) /\ Deactivate(c) /\ idle' = idle
  BY DEF ConnectFail, DropGuard, Checkin, Holds
<1>2. k \in Keys /\ id \in active[k] /\ id \in Conns
  BY <1>1 DEF Ownership, ActiveIsHeld, TypeOK, Holds, WithGuard, Guard
<1>3. PICK s \in {"failed", "dropped", "idle"} : GoTo(c, s)
  BY DEF ConnectFail, DropGuard, Checkin
<1>4. ~Holds(c)' /\ \A d \in Clients \ {c} : Holds(d)' = Holds(d)
  BY <1>3, GoToStage DEF Holds
<1>5. \A d \in Clients \ {c} : guard'[d] = guard[d]
  BY DEF ConnectFail, DropGuard, Checkin, TypeOK
<1>6. HolderOf(id, c)
  BY <1>1 DEF HolderOf
<1>7. \A other \in Conns, d \in Clients :
        HolderOf(other, d)' <=> HolderOf(other, d) /\ d # c
  BY <1>4, <1>5 DEF HolderOf
<1>8. \A other \in Conns : HolderOf(other, c) => other = id
  BY DEF HolderOf
<1> HIDE DEF k, id
<1>9. holder' = [holder EXCEPT ![id] = NoClient]
  <2>1. holder[id] = c /\ \A d \in Clients : HolderOf(id, d) => d = c
    BY <1>2, <1>6 DEF Mapped, Held
  <2>2. holder'[id] = NoClient
    BY <1>2, <1>7, <2>1 DEF Mapped, Held
  <2>3. ASSUME NEW other \in Conns \ {id} PROVE holder'[other] = holder[other]
    BY <1>7, <1>8 DEF Mapped, Held
  <2> QED  BY <2>2, <2>3 DEF Mapped, Held
<1>10. /\ active'[k] = active[k] \ {id}
       /\ \A j \in Keys \ {k} : active'[j] = active[j]
  BY <1>1, <1>2 DEF Deactivate, TypeOK, k, id
<1>11. \/ resetting' = resetting
       \/ resetting' = [resetting EXCEPT ![k] = resetting[k] \cup {id}]
  BY DEF ConnectFail, DropGuard, Checkin, k, id
<1>12. /\ \/ resetting'[k] = resetting[k]
          \/ resetting'[k] = resetting[k] \cup {id}
       /\ \A j \in Keys \ {k} : resetting'[j] = resetting[j]
  BY <1>2, <1>11 DEF TypeOK
<1>13. phase[id] = "leased"
  BY <1>2 DEF Mapped, Placed
<1>14. \A j \in Keys : id \notin active'[j] /\ id \notin idle'[j]
  <2>1. \A j \in Keys : id \notin idle[j]
    BY <1>2 DEF Ownership, OnePlace, ConnsOf
  <2>2. \A j \in Keys \ {k} : id \notin active[j]
    BY <1>2 DEF Ownership, OnePlace, ConnsOf
  <2> QED  BY <1>1, <1>10, <2>1, <2>2
<1>15. phase'[id] \in {"cleaning", "closed"}
  <2>1. phase'[id] \in Abstract /\ phase'[id] # "leased" /\ phase'[id] # "available"
    BY <1>2, <1>14 DEF Mapped, Placed
  <2> QED  BY <2>1 DEF Abstract, Lease!Phase
<1>16. PICK next \in {"cleaning", "closed"} : phase'[id] = next
  BY <1>15
<1>17. \A other \in Conns \ {id}, j \in Keys :
         /\ other \in active'[j] <=> other \in active[j]
         /\ other \in resetting'[j] <=> other \in resetting[j]
         /\ other \in idle'[j] <=> other \in idle[j]
  BY <1>1, <1>10, <1>12
<1>18. next \in Abstract
  BY DEF Abstract, Lease!Phase
<1>19. phase' = [phase EXCEPT ![id] = next]
  BY <1>2, <1>16, <1>17, <1>18, OnePhase
<1> QED  BY <1>2, <1>9, <1>13, <1>19 DEF Lease!Return

-----------------------------------------------------------------------------
(* Lending *)

\* GetIdle lends an available connection and Claim a new one; what they find
\* expired or evict on the way was available.
LEMMA CandidateLends ==
  ASSUME TypeOK, Ownership, Mapped, NEW c \in Clients, TryCandidates(c), ~AllFull(c)
  PROVE  Lease!Lend
<1>0. PICK n \in Batch(c) : \E S \in TriedBefore(c, n) : GetIdle(c, n, S) \/ Claim(c, n, S)
  BY DEF TryCandidates
<1>1. PICK S \in TriedBefore(c, n) : GetIdle(c, n, S) \/ Claim(c, n, S)
  BY <1>0
<1> DEFINE k == KeyOf(n, UserOf[c])
<1>2. k \in Keys
  BY PoolAssumption DEF KeyOf, Keys, Batch, TypeOK
<1>3. ~Holds(c)
  BY DEF TryCandidates, Holds
<1>4. PICK id \in Conns :
        /\ id \in idle[k] \/ id \in FreshIds
        /\ active' = [active EXCEPT ![k] = active[k] \cup {id}]
        /\ guard' = [guard EXCEPT ![c] = [key |-> k, conn |-> id]]
        /\ \A j \in Keys : idle'[j] \subseteq idle[j]
  <2>1. CASE GetIdle(c, n, S)
    <3>1. PICK expired \in ExpiredSets(k), id \in idle[k] :
            /\ idle' = [j \in Keys |-> IF j = k THEN idle[k] \ (expired \cup {id})
                                       ELSE IF j \in SkippedKeys(c, S) THEN {} ELSE idle[j]]
            /\ active' = [active EXCEPT ![k] = active[k] \cup {id}]
            /\ guard' = [guard EXCEPT ![c] = [key |-> k, conn |-> id]]
      BY <2>1 DEF GetIdle
    <3> HIDE DEF k
    <3>2. id \in Conns
      BY <1>2, <3>1 DEF TypeOK
    <3> QED  BY <1>2, <3>1, <3>2
  <2>2. CASE Claim(c, n, S)
    <3>1. PICK evicted \in IF NodeHasRoom(k) THEN {{}} ELSE {{v} : v \in Victims(k)},
               id \in FreshIds :
            /\ idle' = [j \in Keys |-> IF j = k \/ j \in SkippedKeys(c, S) THEN {}
                                       ELSE idle[j] \ evicted]
            /\ active' = [active EXCEPT ![k] = active[k] \cup {id}]
            /\ guard' = [guard EXCEPT ![c] = [key |-> k, conn |-> id]]
      BY <2>2 DEF Claim
    <3> HIDE DEF k
    <3> QED  BY <1>2, <3>1 DEF FreshIds
  <2> QED  BY <1>1, <2>1, <2>2
<1>5. resetting' = resetting
  BY <1>1 DEF GetIdle, Claim
<1>6. PICK s \in {"holding", "connecting"} : GoTo(c, s)
  BY <1>1 DEF GetIdle, Claim
<1>7. Holds(c)' /\ \A d \in Clients \ {c} : Holds(d)' = Holds(d)
  BY <1>6, GoToStage DEF Holds
<1> HIDE DEF k
<1>8. guard'[c] = [key |-> k, conn |-> id] /\ \A d \in Clients \ {c} : guard'[d] = guard[d]
  BY <1>4 DEF TypeOK
<1>9. \A other \in Conns : HolderOf(other, c)' <=> other = id
  BY <1>7, <1>8 DEF HolderOf
<1>10. \A other \in Conns, d \in Clients \ {c} : HolderOf(other, d)' <=> HolderOf(other, d)
  BY <1>7, <1>8 DEF HolderOf
<1>11. /\ active'[k] = active[k] \cup {id}
       /\ \A j \in Keys \ {k} : active'[j] = active[j]
  BY <1>2, <1>4 DEF TypeOK
<1>12. phase[id] \in {"available", "closed"}
  <2>1. CASE id \in idle[k]
    BY <1>2, <2>1 DEF Mapped, Placed
  <2>2. CASE id \in FreshIds
    BY <2>2, ClosedPhase DEF FreshIds, AllConns, Mapped
  <2> QED  BY <1>4, <2>1, <2>2
<1>13. \A other \in Conns : holder[other] # c
  BY <1>3 DEF Mapped, Held, HolderOf
<1>14. holder' = [holder EXCEPT ![id] = c]
  <2>1. holder'[id] = c
    BY <1>9 DEF Mapped, Held
  <2>2. ASSUME NEW other \in Conns \ {id} PROVE holder'[other] = holder[other]
    <3>1. holder'[other] # c /\ holder[other] # c
      BY <1>9, <1>13 DEF Mapped, Held
    <3>2. \A d \in Clients \ {c} : holder'[other] = d <=> holder[other] = d
      BY <1>10 DEF Mapped, Held
    <3> QED  BY <3>1, <3>2 DEF Mapped, Held
  <2> QED  BY <2>1, <2>2 DEF Mapped, Held
<1> DEFINE gone == {other \in Conns : phase[other] = "available" /\ phase'[other] = "closed"}
<1>15. gone \in SUBSET Lease!Available
  BY DEF Lease!Available
<1>16. phase'[id] = "leased"
  BY <1>2, <1>11 DEF Mapped, Placed
<1>17. ASSUME NEW other \in Conns \ {id}
       PROVE  phase'[other] = IF other \in gone THEN "closed" ELSE phase[other]
  <2> SUFFICES ASSUME other \notin gone PROVE phase'[other] = phase[other]
    OBVIOUS
  <2>1. \A j \in Keys : other \in active'[j] <=> other \in active[j]
    BY <1>11
  <2>2. /\ phase'[other] = "leased" <=> phase[other] = "leased"
        /\ phase'[other] = "cleaning" <=> phase[other] = "cleaning"
        /\ phase'[other] = "available" => phase[other] = "available"
    BY <1>4, <1>5, <2>1 DEF Mapped, Placed
  <2>3. phase[other] \in Abstract /\ phase'[other] \in Abstract
    BY DEF Mapped, Placed
  <2> QED  BY <2>2, <2>3 DEF Abstract, Lease!Phase
<1> HIDE DEF gone
<1>18. phase' = [Lease!Closed(gone) EXCEPT ![id] = "leased"]
  BY <1>16, <1>17 DEF Mapped, Placed, Lease!Closed
<1> QED  BY <1>12, <1>13, <1>14, <1>15, <1>18 DEF Lease!Lend

-----------------------------------------------------------------------------
(* Every step is one of the abstract steps, or a stutter *)

Stutters == UNCHANGED <<phase, holder>>

\* Where no collection changes, no phase does.
LEMMA SamePhase ==
  ASSUME UNCHANGED poolVars
  PROVE  phase' = phase
BY DEF poolVars, phase

LEMMA ClientRefines ==
  ASSUME TypeOK, Ownership, Mapped, NEW c \in Clients, ClientStep(c)
  PROVE  Lease!Next \/ Stutters
<1> USE DEF poolVars, clientVars, queueVars, taskVars, controlVars
<1>1. CASE TryCandidates(c)
  <2>1. CASE AllFull(c)
    <3>1. PICK s \in {"second", "enqueue"} : GoTo(c, s)
      BY <2>1 DEF AllFull
    <3>2. \A d \in Clients : Holds(d)' = Holds(d)
      BY <1>1, <3>1, GoToStage DEF TryCandidates, Holds
    <3>3. holder' = holder
      BY <2>1, <3>2, HoldersSame DEF AllFull
    <3>4. \A k \in Keys : idle'[k] \subseteq idle[k]
      BY <2>1 DEF AllFull
    <3>5. Lease!Close
      BY <2>1, <3>3, <3>4, ShrinkCloses DEF AllFull
    <3> QED  BY <3>5 DEF Lease!Next
  <2>2. CASE ~AllFull(c)
    BY <1>1, <2>2, CandidateLends DEF Lease!Next
  <2> QED  BY <2>1, <2>2
<1>2. CASE ConnectFail(c) \/ DropGuard(c) \/ Checkin(c)
  BY <1>2, GiveReturns DEF Lease!Next
<1>3. CASE Begin(c) \/ Deadline(c) \/ Resolve(c)
  <2>1. \A d \in Clients : Holds(d)' = Holds(d)
    BY <1>3 DEF Begin, Deadline, Resolve, Holds, TypeOK
  <2>2. UNCHANGED poolVars /\ guard' = guard
    BY <1>3 DEF Begin, Deadline, Resolve
  <2> QED  BY <2>1, <2>2, HoldersSame, SamePhase DEF Stutters
<1>4. CASE ConnectOk(c)
  <2>1. \A d \in Clients : Holds(d)' = Holds(d)
    BY <1>4, GoToStage DEF ConnectOk, Holds
  <2>2. UNCHANGED poolVars /\ guard' = guard
    BY <1>4 DEF ConnectOk
  <2> QED  BY <2>1, <2>2, HoldersSame, SamePhase DEF Stutters
<1>5. CASE ResolveError(c) \/ Enqueue(c) \/ Bail(c) \/ Await(c) \/ Timeout(c)
           \/ DiscardWake(c) \/ Proceed(c)
  <2>1. PICK s \in {"idle", "queued", "waiting", "enqueue", "resolve"} : GoTo(c, s)
    BY <1>5 DEF ResolveError, Enqueue, Bail, Await, Timeout, DiscardWake, Proceed
  <2>2. ~Holds(c) /\ UNCHANGED poolVars
    BY <1>5 DEF ResolveError, Enqueue, Bail, Await, Timeout, DiscardWake, Proceed, Holds
  <2>3. \A d \in Clients \ {c} : guard'[d] = guard[d]
    BY <1>5 DEF ResolveError, Enqueue, Bail, Await, Timeout, DiscardWake, Proceed, TypeOK
  <2>4. \A d \in Clients : Holds(d)' = Holds(d)
    BY <2>1, <2>2, GoToStage DEF Holds
  <2>5. holder' = holder
    BY <2>2, <2>3, <2>4, HoldersSame
  <2> QED  BY <2>2, <2>5, SamePhase DEF Stutters
<1> QED  BY <1>1, <1>2, <1>3, <1>4, <1>5 DEF ClientStep, CheckoutStep, PromptStep, ConnectStep

\* A reset task ends: with the connection available, or closed.
LEMMA ResetCleans ==
  ASSUME TypeOK, Ownership, Mapped, holder' = holder,
         NEW k \in Keys, NEW id \in Conns, ResetStep(k, id)
  PROVE  Lease!Clean
<1> USE DEF poolVars, clientVars, queueVars, taskVars, controlVars
<1>1. /\ id \in resetting[k]
      /\ resetting' = [resetting EXCEPT ![k] = resetting[k] \ {id}]
      /\ idle' = idle \/ idle' = [idle EXCEPT ![k] = idle[k] \cup {id}]
      /\ active' = active
  BY DEF ResetStep, ResetOk, ResetFail, ResetPanic
<1>2. /\ resetting'[k] = resetting[k] \ {id}
      /\ idle'[k] = idle[k] \/ idle'[k] = idle[k] \cup {id}
      /\ \A j \in Keys \ {k} : resetting'[j] = resetting[j] /\ idle'[j] = idle[j]
  BY <1>1 DEF TypeOK
<1>3. phase[id] = "cleaning"
  BY <1>1 DEF Mapped, Placed
<1>4. \A j \in Keys : id \notin active'[j] /\ id \notin resetting'[j]
  <2>1. \A j \in Keys : id \notin active[j]
    BY <1>1 DEF Ownership, OnePlace, ConnsOf
  <2>2. \A j \in Keys \ {k} : id \notin resetting[j]
    BY <1>1 DEF Ownership, OnePlace, ConnsOf
  <2> QED  BY <1>1, <1>2, <2>1, <2>2
<1>5. phase'[id] \in {"available", "closed"}
  <2>1. phase'[id] \in Abstract /\ phase'[id] # "leased" /\ phase'[id] # "cleaning"
    BY <1>4 DEF Mapped, Placed
  <2> QED  BY <2>1 DEF Abstract, Lease!Phase
<1>6. PICK next \in {"available", "closed"} : phase'[id] = next
  BY <1>5
<1>7. \A other \in Conns \ {id}, j \in Keys :
        /\ other \in active'[j] <=> other \in active[j]
        /\ other \in resetting'[j] <=> other \in resetting[j]
        /\ other \in idle'[j] <=> other \in idle[j]
  BY <1>1, <1>2
<1>8. phase' = [phase EXCEPT ![id] = next]
  BY <1>6, <1>7, OnePhase DEF Abstract, Lease!Phase
<1> QED  BY <1>3, <1>8 DEF Lease!Clean

\* A refill's connect opens a connection.
LEMMA SpawnOpens ==
  ASSUME TypeOK, Mapped, holder' = holder,
         NEW f \in Refillers, NEW k \in Keys, SpawnOk(f, k)
  PROVE  Lease!Open
<1>1. PICK id \in FreshIds : idle' = [idle EXCEPT ![k] = idle[k] \cup {id}]
  BY DEF SpawnOk
<1>2. active' = active /\ resetting' = resetting
  BY DEF SpawnOk
<1>3. id \in Conns /\ phase[id] = "closed"
  BY <1>1, ClosedPhase DEF FreshIds, AllConns, Mapped
<1>4. idle'[k] = idle[k] \cup {id} /\ \A j \in Keys \ {k} : idle'[j] = idle[j]
  BY <1>1 DEF TypeOK
<1>5. phase'[id] = "available"
  BY <1>3, <1>4 DEF Mapped, Placed
<1>6. \A other \in Conns \ {id}, j \in Keys :
        /\ other \in active'[j] <=> other \in active[j]
        /\ other \in resetting'[j] <=> other \in resetting[j]
        /\ other \in idle'[j] <=> other \in idle[j]
  BY <1>2, <1>4
<1>7. phase' = [phase EXCEPT ![id] = "available"]
  BY <1>3, <1>5, <1>6, OnePhase DEF Abstract, Lease!Phase
<1> QED  BY <1>3, <1>7 DEF Lease!Open

LEMMA BackgroundRefines ==
  ASSUME TypeOK, Ownership, Mapped,
         \/ \E k \in Keys, id \in Conns : ResetStep(k, id)
         \/ \E n \in Nodes : Wake(n)
         \/ Scavenge
         \/ RefillStep
         \/ ControlStep
  PROVE  Lease!Next \/ Stutters
<1> USE DEF poolVars, clientVars, queueVars, taskVars, controlVars
<1>1. UNCHANGED <<stage, guard>>
  BY DEF ResetStep, ResetOk, ResetFail, ResetPanic, Wake, Scavenge, RefillStep, WarmUp,
         Refill, SpawnOk, SpawnFail, ControlStep, Refresh, DrainNode, DrainWake,
         ShutdownFlag, ShutdownWake
<1>2. holder' = holder
  <2>1. \A c \in Clients : Holds(c)' = Holds(c)
    BY <1>1 DEF Holds
  <2> QED  BY <1>1, <2>1, HoldersSame
<1>3. ASSUME NEW k \in Keys, NEW id \in Conns, ResetStep(k, id)
      PROVE  Lease!Next
  BY <1>2, <1>3, ResetCleans DEF Lease!Next
<1>4. ASSUME NEW f \in Refillers, NEW k \in Keys, SpawnOk(f, k)
      PROVE  Lease!Next
  BY <1>2, <1>4, SpawnOpens DEF Lease!Next
<1>5. CASE Scavenge \/ \E n \in Nodes : DrainNode(n)
  <2>1. \A k \in Keys : idle'[k] \subseteq idle[k]
    BY <1>5 DEF Scavenge, DrainNode
  <2>2. active' = active /\ resetting' = resetting
    BY <1>5 DEF Scavenge, DrainNode
  <2> QED  BY <1>2, <2>1, <2>2, ShrinkCloses DEF Lease!Next
<1>6. CASE UNCHANGED poolVars
  BY <1>2, <1>6, SamePhase DEF Stutters
<1>7. CASE \/ \E n \in Nodes : Wake(n)
           \/ WarmUp \/ Refill
           \/ \E f \in Refillers, k \in Keys : SpawnFail(f, k)
           \/ Refresh \/ DrainWake \/ ShutdownFlag \/ ShutdownWake
  BY <1>6, <1>7 DEF Wake, WarmUp, Refill, SpawnFail, Refresh, DrainWake, ShutdownFlag, ShutdownWake
<1> QED  BY <1>3, <1>4, <1>5, <1>7 DEF RefillStep, ControlStep

\* The pool starts with every connection closed and held by no one.
LEMMA InitRefines == Init => Lease!Init
BY DEF Init, phase, holder, HolderOf, Holds, Lease!Init

\* Whatever the limits, users, nodes and connections, and in whatever order
\* checkouts, returns, resets, evictions, refills and drains come: a connection
\* is lent to one client at a time and passes from one client to another only
\* through a finished reset.
THEOREM PoolRefinesLease == Spec => CleanedBetweenClients
<1>1. TypeOK /\ Ownership /\ Mapped /\ [Next]_vars => [Lease!Next]_(Lease!vars)
  <2> SUFFICES ASSUME TypeOK, Ownership, Mapped, [Next]_vars
               PROVE  Lease!Next \/ Stutters
    BY DEF Stutters, Lease!vars
  <2>1. CASE UNCHANGED vars
    BY <2>1 DEF vars, poolVars, clientVars, phase, holder, HolderOf, Holds, Stutters
  <2>2. CASE Next
    BY <2>2, ClientRefines, BackgroundRefines DEF Next
  <2> QED  BY <2>1, <2>2
<1>2. Spec => []Ownership
  BY OwnershipHolds DEF Ownership
<1>3. TypeOK /\ Ownership => Placed /\ Held
  BY Mapping
<1>4. (Placed /\ Held) /\ (Placed /\ Held)' => Mapped
  BY DEF Mapped
<1> QED  BY <1>1, <1>2, <1>3, <1>4, InitRefines, TypeCorrect, PTL
         DEF Spec, CleanedBetweenClients, Lease!Spec
=============================================================================
