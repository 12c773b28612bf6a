--------------------------- MODULE FrontEndProofs ---------------------------
(***************************************************************************)
(* Proofs about FrontEnd and the cache of verifiers it uses, for any       *)
(* clients, connections and configurations, any time to live and any       *)
(* timeout.                                                                *)
(***************************************************************************)
EXTENDS FrontEnd, TLAPS

-----------------------------------------------------------------------------
(* The registry                                                            *)

Tasks == Spawned \cup {"out", "accepted"}

RegistryInv ==
  /\ task \in [Clients -> Tasks]
  /\ entry \in [Clients -> States \cup {"none"}]
  /\ RegistryTrue

LEMMA RegistryInit == Init => RegistryInv
  BY DEF Init, RegistryInv, RegistryTrue, Tasks, Spawned

\* The end of any set of tasks takes their entries along.
LEMMA EndKeeps ==
  ASSUME RegistryInv, NEW gone, End(gone)  PROVE RegistryInv'
  BY DEF RegistryInv, RegistryTrue, End, Tasks, Spawned, States

\* A task that goes on keeps the registry right when the state it shows is the
\* one of the stage it goes to.
LEMMA GoesKeeps ==
  ASSUME RegistryInv, NEW c \in Clients, NEW stage \in Spawned, NEW s \in States,
         Goes(c, stage, s),
         s = "waiting" <=> stage = "waiting",
         s = "in_transaction" <=> stage \in {"busy", "session"}
  PROVE  RegistryInv'
<1>1. task' = [task EXCEPT ![c] = stage] /\ entry' = [entry EXCEPT ![c] = s]
  BY DEF Goes
<1>2. task' \in [Clients -> Tasks] /\ entry' \in [Clients -> States \cup {"none"}]
  BY <1>1 DEF RegistryInv, Tasks
<1>3. \A d \in Clients \ {c} : task'[d] = task[d] /\ entry'[d] = entry[d]
  BY <1>1 DEF RegistryInv
<1>4. task'[c] = stage /\ entry'[c] = s /\ s # "none"
  BY <1>1 DEF RegistryInv, States
<1> QED  BY <1>2, <1>3, <1>4 DEF RegistryInv, RegistryTrue

\* Which state a task in a stage between its waits is shown in is left open, but
\* it is none of the two that mean something.
LEMMA Shown ==
  ASSUME RegistryInv, NEW c \in Clients, task[c] \in Spawned,
         task[c] \notin {"waiting", "busy", "session"}
  PROVE  entry[c] \in States \ {"waiting", "in_transaction"}
  BY DEF RegistryInv, RegistryTrue

LEMMA AuthenticationKeeps ==
  ASSUME RegistryInv, NEW c \in Clients,
         Startup(c) \/ Look(c) \/ TimesOut(c) \/ \E p \in Passwords : Prove(c, p)
  PROVE  RegistryInv'
<1>1. CASE Startup(c)
  BY <1>1, EndKeeps, GoesKeeps DEF Startup, Spawned, States
<1>2. CASE Look(c)
  <2>1. CASE Hit(c) /\ Goes(c, "proving", entry[c])
    BY <1>2, <2>1, GoesKeeps, Shown DEF Look, Spawned
  <2>2. CASE UNCHANGED <<task, snapshot, entry>>
    BY <2>2 DEF RegistryInv, RegistryTrue
  <2> QED  BY <1>2, <2>1, <2>2 DEF Look
<1>3. CASE TimesOut(c)
  BY <1>3, EndKeeps DEF TimesOut
<1>4. ASSUME NEW p \in Passwords, Prove(c, p)
      PROVE  RegistryInv'
  BY <1>4, EndKeeps, GoesKeeps, Shown DEF Prove, Spawned
<1> QED  BY <1>1, <1>2, <1>3, <1>4

LEMMA CheckoutKeeps ==
  ASSUME RegistryInv, NEW c \in Clients,
         Checkout(c) \/ Wake(c) \/ GiveUp(c) \/ Connected(c) \/ Greet(c)
  PROVE  RegistryInv'
<1>1. CASE Checkout(c)
  <2>1. CASE Goes(c, "connecting", entry[c])
    BY <1>1, <2>1, GoesKeeps, Shown DEF Checkout, Spawned
  <2>2. CASE Goes(c, "waiting", "waiting")
    BY <2>2, GoesKeeps DEF Spawned, States
  <2> QED  BY <1>1, <2>1, <2>2, EndKeeps DEF Checkout
<1>2. CASE Wake(c)
  BY <1>2, EndKeeps, GoesKeeps DEF Wake, Spawned, States
<1>3. CASE GiveUp(c)
  BY <1>3, EndKeeps DEF GiveUp
<1>4. CASE Connected(c)
  <2>1. CASE Goes(c, "busy", "in_transaction")
    BY <2>1, GoesKeeps DEF Spawned, States
  <2>2. CASE Goes(c, "greeting", entry[c])
    BY <1>4, <2>2, GoesKeeps, Shown DEF Connected, Spawned
  <2> QED  BY <1>4, <2>1, <2>2, EndKeeps DEF Connected
<1>5. CASE Greet(c)
  BY <1>5, GoesKeeps DEF Greet, Spawned, States
<1> QED  BY <1>1, <1>2, <1>3, <1>4, <1>5

LEMMA RegistryStep ==
  ASSUME RegistryInv, [Next]_vars  PROVE RegistryInv'
<1>1. ASSUME NEW c \in Clients, Accept(c) \/ Spawn(c)
      PROVE  RegistryInv'
  BY <1>1 DEF Accept, Spawn, RegistryInv, RegistryTrue, Tasks, Spawned, States
<1>2. ASSUME NEW c \in Clients, Leave(c)
      PROVE  RegistryInv'
  BY <1>2, EndKeeps DEF Leave
<1>3. ASSUME NEW c \in Clients, Begin(c)
      PROVE  RegistryInv'
  BY <1>3, GoesKeeps, Shown DEF Begin, Spawned
<1>4. ASSUME NEW c \in Clients, Finish(c)
      PROVE  RegistryInv'
  BY <1>4, GoesKeeps DEF Finish, Spawned, States
<1>5. ASSUME Terminate \/ Stop \/ FetchFails
      PROVE  RegistryInv'
  BY <1>5, EndKeeps DEF Terminate, Stop, FetchFails
<1>6. ASSUME Fetching
      PROVE  RegistryInv'
  <2>1. CASE UNCHANGED <<task, entry>>
    BY <2>1 DEF RegistryInv, RegistryTrue
  <2>2. CASE task' = [c \in Clients |-> IF task[c] = "fetching" THEN "proving" ELSE task[c]]
             /\ UNCHANGED entry
    BY <2>2 DEF RegistryInv, RegistryTrue, Tasks, Spawned
  <2> QED  BY <1>6, <2>1, <2>2 DEF Fetching, clientVars
<1>7. ASSUME Reload \/ Time \/ Changed \/ UNCHANGED vars
      PROVE  RegistryInv'
  BY <1>7 DEF Reload, Time, Changed, vars, clientVars, RegistryInv, RegistryTrue
<1> QED  BY <1>1, <1>2, <1>3, <1>4, <1>5, <1>6, <1>7, AuthenticationKeeps, CheckoutKeeps
         DEF Next, Own

\* At every moment the registry lists exactly the clients that have a task, as
\* waiting or in a transaction exactly when they are.
THEOREM RegistryHolds == Spec => []RegistryTrue
<1>1. Init => RegistryInv
  BY RegistryInit
<1>2. RegistryInv /\ [Next]_vars => RegistryInv'
  BY RegistryStep
<1>3. RegistryInv => RegistryTrue
  BY DEF RegistryInv
<1> QED  BY <1>1, <1>2, <1>3, PTL DEF Spec

-----------------------------------------------------------------------------
(* The cache of verifiers                                                  *)

\* What was read is no older than the wait of the caller that drives the fetch,
\* what is cached no older than that and its age.
FreshInv ==
  /\ RegistryInv
  /\ VerifierTypeOK
  /\ \A p \in Passwords : p >= password => old[p] = 0
  /\ fetch # NoFetch =>
       /\ ~Fresh
       /\ fetch.by \in Clients /\ task[fetch.by] = "fetching"
  /\ fetch # NoFetch /\ fetch.read # NoPassword => old[fetch.read] <= waited[fetch.by]
  /\ Fresh => old[cached.verifier] <= Timeout + cached.age

LEMMA ReadType ==
  ASSUME VerifierTypeOK, NEW p \in Passwords \cup {NoPassword}, p # NoPassword
  PROVE  p \in Passwords /\ p \in Nat /\ old[p] \in Nat
<1>1. Lag + 1 \in Nat /\ p \in Passwords
  BY VerifierAssumption DEF Lag
<1>2. old[p] \in 0 .. Lag + 1
  BY <1>1 DEF VerifierTypeOK
<1> QED  BY <1>1, <1>2, VerifierAssumption

LEMMA FreshInit == Init => FreshInv
<1> SUFFICES ASSUME Init PROVE FreshInv
  OBVIOUS
<1>1. VerifierTypeOK
  BY VerifierAssumption
     DEF Init, VerifierInit, VerifierTypeOK, NotCached, NoFetch, Lag
<1>2. ~Fresh
  BY DEF Init, VerifierInit, Fresh, NotCached
<1> QED  BY <1>1, <1>2, RegistryInit DEF Init, VerifierInit, FreshInv

\* A step that leaves the cache and the fetch alone, and no waiting caller.
LEMMA CacheUndisturbed ==
  ASSUME FreshInv, RegistryInv', UNCHANGED <<cached, fetch, waited, password, old>>,
         verifier' \in [Clients -> Passwords \cup {NoPassword}],
         \A c \in Clients : task[c] = "fetching" => task'[c] = "fetching"
  PROVE  FreshInv'
<1>1. VerifierTypeOK'
  BY DEF FreshInv, VerifierTypeOK
<1> QED  BY <1>1 DEF FreshInv, Fresh

LEMMA HitFresh ==
  ASSUME FreshInv, RegistryInv', NEW c \in Clients, Hit(c)  PROVE FreshInv'
<1>1. fetch = NoFetch /\ fetch' = NoFetch
  BY DEF FreshInv, Hit
<1>2. VerifierTypeOK'
  BY VerifierAssumption DEF FreshInv, VerifierTypeOK, Hit
<1> QED  BY <1>1, <1>2 DEF FreshInv, Hit, Fresh

LEMMA BeginFetchFresh ==
  ASSUME FreshInv, RegistryInv', NEW c \in Clients, task[c] = "fetching",
         UNCHANGED task, BeginFetch(c)
  PROVE  FreshInv'
<1>1. VerifierTypeOK'
  BY DEF FreshInv, VerifierTypeOK, BeginFetch
<1>2. fetch'.by = c /\ fetch'.read = NoPassword
  BY DEF BeginFetch
<1> QED  BY <1>1, <1>2 DEF FreshInv, BeginFetch, Fresh

LEMMA ReadFresh ==
  ASSUME FreshInv, RegistryInv', UNCHANGED task, ReadVerifier  PROVE FreshInv'
<1>1. fetch'.by = fetch.by /\ fetch'.read = password /\ password \in Passwords
  BY DEF FreshInv, VerifierTypeOK, ReadVerifier
<1>2. VerifierTypeOK'
  BY <1>1 DEF FreshInv, VerifierTypeOK, ReadVerifier
<1>3. old[password] = 0 /\ waited[fetch.by] >= 0
  BY VerifierAssumption DEF FreshInv, VerifierTypeOK, ReadVerifier
<1> QED  BY <1>1, <1>2, <1>3 DEF FreshInv, ReadVerifier, Fresh

LEMMA StoreFresh ==
  ASSUME FreshInv, RegistryInv', NEW callers, Store(callers)  PROVE FreshInv'
<1>1. VerifierTypeOK'
  BY VerifierAssumption DEF FreshInv, VerifierTypeOK, Store, NoFetch
<1>2. old[fetch.read] <= Timeout
  <2>1. old[fetch.read] \in Nat
    BY ReadType DEF FreshInv, VerifierTypeOK, Store
  <2>2. waited[fetch.by] \in 0 .. Timeout /\ old[fetch.read] <= waited[fetch.by]
    BY DEF FreshInv, VerifierTypeOK, Store
  <2> QED  BY <2>1, <2>2, VerifierAssumption
<1>3. cached'.verifier = fetch.read /\ cached'.age = 0 /\ fetch' = NoFetch
  BY DEF Store
<1> QED  BY <1>1, <1>2, <1>3, VerifierAssumption DEF FreshInv, Store, Fresh

LEMMA EndFresh ==
  ASSUME FreshInv, NEW gone, End(gone)  PROVE FreshInv'
<1>1. RegistryInv'
  BY EndKeeps DEF FreshInv
<1>2. VerifierTypeOK'
  BY VerifierAssumption DEF FreshInv, VerifierTypeOK, End, Abandon, NoFetch
<1>3. fetch' # NoFetch =>
        /\ fetch' = fetch
        /\ fetch.by \in Clients => waited'[fetch.by] = waited[fetch.by]
                                   /\ task'[fetch.by] = task[fetch.by]
  BY DEF End, Abandon
<1> QED  BY <1>1, <1>2, <1>3 DEF FreshInv, End, Abandon, Fresh

LEMMA TickFresh ==
  ASSUME FreshInv, RegistryInv', UNCHANGED task, Tick(In("fetching"))  PROVE FreshInv'
<1> USE VerifierAssumption
<1>1. VerifierTypeOK'
  <2>1. Lag \in Nat
    BY DEF Lag
  <2>2. waited' \in [Clients -> 0 .. Timeout]
    BY DEF FreshInv, VerifierTypeOK, Tick
  <2>3. old' \in [Passwords -> 0 .. Lag + 1]
    BY <2>1 DEF FreshInv, VerifierTypeOK, Tick, Sooner
  <2>4. cached' \in [verifier : Passwords \cup {NoPassword}, age : 0 .. Ttl]
    <3>1. cached.age \in 0 .. Ttl /\ Ttl \in Nat
      BY DEF FreshInv, VerifierTypeOK
    <3>2. Sooner(Ttl, cached.age + 1) \in 0 .. Ttl
      BY <3>1 DEF Sooner
    <3> QED  BY <3>2 DEF FreshInv, VerifierTypeOK, Tick
  <2> QED  BY <2>2, <2>3, <2>4 DEF FreshInv, VerifierTypeOK, Tick
<1>2. \A p \in Passwords : old'[p] \in Nat /\ old'[p] <= old[p] + 1
  BY DEF FreshInv, VerifierTypeOK, Tick, Sooner, Lag
<1>3. \A p \in Passwords : p >= password' => old'[p] = 0
  BY DEF FreshInv, VerifierTypeOK, Tick
<1>4. fetch' = fetch
      /\ (fetch # NoFetch => waited'[fetch.by] = waited[fetch.by] + 1)
  BY DEF FreshInv, Tick, In
<1>5. Fresh' => /\ Fresh /\ cached'.age = cached.age + 1
                /\ cached'.verifier = cached.verifier
  BY DEF FreshInv, VerifierTypeOK, Tick, Fresh, Sooner
<1>6. fetch' # NoFetch /\ fetch'.read # NoPassword
        => old'[fetch'.read] <= waited'[fetch'.by]
  <2> SUFFICES ASSUME fetch # NoFetch, fetch.read # NoPassword
               PROVE  old'[fetch.read] <= waited[fetch.by] + 1
    BY <1>4
  <2>1. fetch.read \in Passwords /\ old[fetch.read] \in Nat
    BY ReadType DEF FreshInv, VerifierTypeOK
  <2>2. waited[fetch.by] \in 0 .. Timeout /\ old[fetch.read] <= waited[fetch.by]
    BY DEF FreshInv, VerifierTypeOK
  <2>3. old'[fetch.read] \in Nat /\ old'[fetch.read] <= old[fetch.read] + 1
    BY <1>2, <2>1
  <2> QED  BY <2>1, <2>2, <2>3
<1>7. Fresh' => old'[cached'.verifier] <= Timeout + cached'.age
  <2> SUFFICES ASSUME Fresh, cached'.age = cached.age + 1
               PROVE  old'[cached.verifier] <= Timeout + (cached.age + 1)
    BY <1>5
  <2>1. cached.verifier \in Passwords /\ old[cached.verifier] \in Nat
    BY ReadType DEF FreshInv, VerifierTypeOK, Fresh
  <2>2. cached.age \in 0 .. Ttl /\ old[cached.verifier] <= Timeout + cached.age
    BY DEF FreshInv, VerifierTypeOK
  <2>3. old'[cached.verifier] \in Nat /\ old'[cached.verifier] <= old[cached.verifier] + 1
    BY <1>2, <2>1
  <2> QED  BY <2>1, <2>2, <2>3
<1> QED  BY <1>1, <1>3, <1>4, <1>5, <1>6, <1>7 DEF FreshInv

LEMMA FreshStep ==
  ASSUME FreshInv, [Next]_vars  PROVE FreshInv'
<1>1. RegistryInv'
  BY RegistryStep DEF FreshInv
<1>2. verifier \in [Clients -> Passwords \cup {NoPassword}]
  BY DEF FreshInv, VerifierTypeOK
<1>3. ASSUME NEW c \in Clients, NEW stage, NEW s, UNCHANGED verifierVars,
             Goes(c, stage, s), task[c] # "fetching"
      PROVE  FreshInv'
  <2>1. \A d \in Clients : task[d] = "fetching" => task'[d] = "fetching"
    BY <1>3 DEF Goes, FreshInv, RegistryInv
  <2> QED  BY <1>1, <1>2, <1>3, <2>1, CacheUndisturbed DEF verifierVars
<1>4. ASSUME UNCHANGED verifierVars, UNCHANGED task
      PROVE  FreshInv'
  BY <1>1, <1>2, <1>4, CacheUndisturbed DEF verifierVars
<1>5. ASSUME NEW c \in Clients, Accept(c) \/ Spawn(c)
      PROVE  FreshInv'
  <2>1. \A d \in Clients : task[d] = "fetching" => task'[d] = "fetching"
    BY <1>5 DEF Accept, Spawn, FreshInv, RegistryInv
  <2> QED  BY <1>1, <1>2, <1>5, <2>1, CacheUndisturbed DEF Accept, Spawn, verifierVars
<1>6. ASSUME NEW c \in Clients, Leave(c) \/ TimesOut(c) \/ GiveUp(c)
      PROVE  FreshInv'
  BY <1>6, EndFresh DEF Leave, TimesOut, GiveUp
<1>7. ASSUME NEW c \in Clients, Startup(c)
      PROVE  FreshInv'
  BY <1>3, <1>7, EndFresh DEF Startup
<1>8. ASSUME NEW c \in Clients, Look(c)
      PROVE  FreshInv'
  BY <1>1, <1>8, HitFresh, BeginFetchFresh DEF Look
<1>9. ASSUME NEW c \in Clients, NEW p \in Passwords, Prove(c, p)
      PROVE  FreshInv'
  <2>1. CASE End({c})
    BY <2>1, EndFresh
  <2>2. CASE /\ Goes(c, "checkout", entry[c])
             /\ verifier' = [verifier EXCEPT ![c] = NoPassword]
             /\ UNCHANGED <<cached, fetch, waited, password, old>>
    <3>1. \A d \in Clients : task[d] = "fetching" => task'[d] = "fetching"
      BY <1>9, <2>2 DEF Prove, Goes, FreshInv, RegistryInv
    <3>2. verifier' \in [Clients -> Passwords \cup {NoPassword}]
      BY <1>2, <2>2
    <3> QED  BY <1>1, <2>2, <3>1, <3>2, CacheUndisturbed
  <2> QED  BY <1>9, <2>1, <2>2 DEF Prove
<1>10. ASSUME NEW c \in Clients, Checkout(c) \/ Wake(c) \/ Connected(c)
       PROVE  FreshInv'
  BY <1>3, <1>10, EndFresh DEF Checkout, Wake, Connected
<1>11. ASSUME NEW c \in Clients, Greet(c) \/ Begin(c) \/ Finish(c)
       PROVE  FreshInv'
  BY <1>3, <1>11 DEF Greet, Begin, Finish
<1>12. ASSUME Terminate \/ Stop \/ FetchFails
       PROVE  FreshInv'
  BY <1>12, EndFresh DEF Terminate, Stop, FetchFails
<1>13. ASSUME Fetching
       PROVE  FreshInv'
  BY <1>1, <1>13, ReadFresh, StoreFresh DEF Fetching, clientVars
<1>14. ASSUME Time
       PROVE  FreshInv'
  BY <1>1, <1>14, TickFresh DEF Time, clientVars
<1>15. ASSUME Changed
       PROVE  FreshInv'
  <2>1. VerifierTypeOK'
    BY <1>15, VerifierAssumption DEF Changed, ChangePassword, FreshInv, VerifierTypeOK
  <2>2. \A p \in Passwords : p >= password' => old'[p] = 0
    BY <1>15, VerifierAssumption DEF Changed, ChangePassword, FreshInv, VerifierTypeOK
  <2> QED  BY <1>1, <1>15, <2>1, <2>2 DEF Changed, ChangePassword, clientVars, FreshInv, Fresh
<1>16. ASSUME Reload \/ UNCHANGED vars
       PROVE  FreshInv'
  BY <1>4, <1>16 DEF Reload, vars, clientVars
<1> QED  BY <1>5, <1>6, <1>7, <1>8, <1>9, <1>10, <1>11, <1>12, <1>13, <1>14, <1>15, <1>16
         DEF Next, Own

\* Only a hit and the end of a fetch give a verifier out.
LEMMA GivenOut ==
  ASSUME FreshInv, [Next]_vars, NEW c \in Clients,
         verifier'[c] # verifier[c], verifier'[c] # NoPassword
  PROVE  \/ Fresh /\ verifier'[c] = cached.verifier
         \/ fetch # NoFetch /\ fetch.read # NoPassword /\ verifier'[c] = fetch.read
<1>1. verifier \in [Clients -> Passwords \cup {NoPassword}]
  BY DEF FreshInv, VerifierTypeOK
<1>2. ASSUME NEW gone, End(gone)
      PROVE  FALSE
  BY <1>2 DEF End, Abandon
<1>3. ASSUME UNCHANGED verifier
      PROVE  FALSE
  BY <1>3
<1>4. ASSUME NEW d \in Clients, NEW p \in Passwords, Prove(d, p)
      PROVE  FALSE
  BY <1>1, <1>2, <1>4 DEF Prove
<1>5. ASSUME NEW d \in Clients, Hit(d)
      PROVE  Fresh /\ verifier'[c] = cached.verifier
  BY <1>1, <1>5 DEF Hit
<1>6. ASSUME NEW callers, Store(callers)
      PROVE  fetch # NoFetch /\ fetch.read # NoPassword /\ verifier'[c] = fetch.read
  BY <1>6 DEF Store
<1>7. ASSUME NEW d \in Clients, Own(d) \/ Startup(d)
      PROVE  \E e \in Clients : Hit(e)
  <2>1. CASE Look(d)
    BY <1>3, <1>7, <2>1 DEF Look, BeginFetch
  <2>2. CASE TimesOut(d) \/ GiveUp(d)
    BY <1>2, <2>2 DEF TimesOut, GiveUp
  <2>3. CASE Checkout(d) \/ Wake(d) \/ Connected(d)
    BY <1>2, <1>3, <2>3 DEF Checkout, Wake, Connected, verifierVars
  <2>4. CASE Greet(d) \/ Startup(d)
    BY <1>2, <1>3, <2>4 DEF Greet, Startup, verifierVars
  <2> QED  BY <1>7, <2>1, <2>2, <2>3, <2>4 DEF Own
<1>8. ASSUME NEW d \in Clients, Accept(d) \/ Spawn(d) \/ Leave(d) \/ Begin(d) \/ Finish(d)
      PROVE  FALSE
  BY <1>2, <1>3, <1>8 DEF Accept, Spawn, Leave, Begin, Finish, verifierVars
<1>9. ASSUME Reload \/ Terminate \/ Stop \/ FetchFails \/ UNCHANGED vars
      PROVE  FALSE
  BY <1>2, <1>3, <1>9 DEF Reload, Terminate, Stop, FetchFails, vars, verifierVars
<1>10. ASSUME Time \/ Changed
       PROVE  FALSE
  BY <1>3, <1>10 DEF Time, Changed, Tick, ChangePassword
<1>11. ASSUME Fetching
       PROVE  Store(In("fetching"))
  BY <1>3, <1>11 DEF Fetching, ReadVerifier
<1> QED  BY <1>4, <1>5, <1>6, <1>7, <1>8, <1>9, <1>10, <1>11 DEF Next

\* Whatever callers share a fetch, give up or drive it, nobody is handed a
\* verifier that was replaced more than one wait and one time to live ago.
THEOREM FreshHolds == Spec => VerifierFresh
<1>1. Init => FreshInv
  BY FreshInit
<1>2. FreshInv /\ [Next]_vars => FreshInv'
  BY FreshStep
<1>3. FreshInv /\ [Next]_vars
        => [\A c \in Clients : verifier'[c] # verifier[c] /\ verifier'[c] # NoPassword
              => old[verifier'[c]] <= Lag]_verifierVars
  <2> SUFFICES ASSUME FreshInv, [Next]_vars, NEW c \in Clients,
                      verifier'[c] # verifier[c], verifier'[c] # NoPassword
               PROVE  old[verifier'[c]] <= Lag
    OBVIOUS
  <2>1. CASE Fresh /\ verifier'[c] = cached.verifier
    <3>1. old[cached.verifier] <= Timeout + cached.age
      BY <2>1 DEF FreshInv
    <3>2. old[cached.verifier] \in Nat
      BY <2>1, ReadType DEF FreshInv, Fresh, VerifierTypeOK
    <3>3. cached.age \in 0 .. Ttl
      BY DEF FreshInv, VerifierTypeOK
    <3> QED  BY <2>1, <3>1, <3>2, <3>3, VerifierAssumption DEF Lag
  <2>2. CASE fetch # NoFetch /\ fetch.read # NoPassword /\ verifier'[c] = fetch.read
    <3>1. old[fetch.read] <= waited[fetch.by] /\ fetch.by \in Clients
      BY <2>2 DEF FreshInv
    <3>2. old[fetch.read] \in Nat
      BY <2>2, ReadType DEF FreshInv, VerifierTypeOK
    <3>3. waited[fetch.by] \in 0 .. Timeout
      BY <3>1 DEF FreshInv, VerifierTypeOK
    <3> QED  BY <2>2, <3>1, <3>2, <3>3, VerifierAssumption DEF Lag
  <2> QED  BY <2>1, <2>2, GivenOut
<1> QED  BY <1>1, <1>2, <1>3, PTL DEF Spec, VerifierFresh
=============================================================================
