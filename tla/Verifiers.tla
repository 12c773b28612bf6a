----------------------------- MODULE Verifiers -----------------------------
(***************************************************************************)
(* The cache of SCRAM verifiers, auth/query.rs: one key, the upstream user *)
(* on the primary of its cluster.  Concurrent callers share one fetch,     *)
(* which the first of them drives; when that one is gone another begins    *)
(* anew.  Only a fetch that succeeds is kept, for its time to live from    *)
(* the moment it is stored.                                                *)
(*                                                                         *)
(* A password is a number, the verifier of a password is the same number,  *)
(* and time is counted in ticks.                                           *)
(***************************************************************************)
EXTENDS Naturals, FiniteSets

CONSTANTS
  Clients,
  NoClient,
  Passwords,  \* 0 .. n, in the order the user has them
  Ttl,        \* AuthConfig.cache_ttl, in ticks
  Timeout     \* connect_timeout of the cluster: of one caller's wait, in ticks

ASSUME VerifierAssumption ==
  /\ NoClient \notin Clients
  /\ 0 \in Passwords /\ Passwords \subseteq Nat
  /\ Ttl \in Nat \ {0} /\ Timeout \in Nat \ {0}

VARIABLES
  cached,    \* VerifierCache.entries of the key: [verifier, age] or NoEntry
  fetch,     \* the fetch under way: who drives it and what the server has said
  waited,    \* how long each caller has waited
  verifier,  \* what each caller has been given, or NoPassword
  password,  \* (server) the user's password
  old        \* (history) ticks since each earlier password was replaced

verifierVars == <<cached, fetch, waited, verifier, password, old>>

NoPassword == Cardinality(Passwords)
NotCached == [verifier |-> NoPassword, age |-> 0]
NoFetch == [by |-> NoClient, read |-> NoPassword]

\* What a verifier may be behind by when it is given out: it is stored up to
\* Timeout after it was read.
Lag == Timeout + Ttl

VerifierInit ==
  /\ cached = NotCached
  /\ fetch = NoFetch
  /\ waited = [c \in Clients |-> 0]
  /\ verifier = [c \in Clients |-> NoPassword]
  /\ password = 0
  /\ old = [p \in Passwords |-> 0]

Fresh == cached.verifier # NoPassword /\ cached.age < Ttl

\* Mutant: a hit starts the time to live again.
HitExtends(c) ==
  /\ Fresh
  /\ verifier' = [verifier EXCEPT ![c] = cached.verifier]
  /\ cached' = [cached EXCEPT !.age = 0]
  /\ waited' = [waited EXCEPT ![c] = 0]
  /\ UNCHANGED <<fetch, password, old>>

\* A caller finds the entry.
Hit(c) ==
  /\ Fresh
  /\ verifier' = [verifier EXCEPT ![c] = cached.verifier]
  /\ waited' = [waited EXCEPT ![c] = 0]
  /\ UNCHANGED <<cached, fetch, password, old>>

\* try_get_with: nobody else drives a fetch.
BeginFetch(c) ==
  /\ ~Fresh
  /\ fetch = NoFetch
  /\ fetch' = [by |-> c, read |-> NoPassword]
  /\ UNCHANGED <<cached, waited, verifier, password, old>>

\* The server answers auth_query.
ReadVerifier ==
  /\ fetch # NoFetch /\ fetch.read = NoPassword
  /\ fetch' = [fetch EXCEPT !.read = password]
  /\ UNCHANGED <<cached, waited, verifier, password, old>>

\* The fetch returns: the entry is stored and given to all who wait for it.
Store(callers) ==
  /\ fetch # NoFetch /\ fetch.read # NoPassword
  /\ cached' = [verifier |-> fetch.read, age |-> 0]
  /\ fetch' = NoFetch
  /\ verifier' = [c \in Clients |-> IF c \in callers THEN fetch.read ELSE verifier[c]]
  /\ waited' = [c \in Clients |-> IF c \in callers THEN 0 ELSE waited[c]]
  /\ UNCHANGED <<password, old>>

\* The callers in gone stop waiting, or the fetch fails for them; one that drove
\* the fetch takes it along.
Abandon(gone) ==
  /\ fetch' = IF fetch.by \in gone THEN NoFetch ELSE fetch
  /\ waited' = [c \in Clients |-> IF c \in gone THEN 0 ELSE waited[c]]
  /\ verifier' = [c \in Clients |-> IF c \in gone THEN NoPassword ELSE verifier[c]]
  /\ UNCHANGED <<cached, password, old>>

ChangePassword ==
  /\ password + 1 \in Passwords
  /\ password' = password + 1
  /\ UNCHANGED <<cached, fetch, waited, verifier, old>>

Sooner(a, b) == IF a < b THEN a ELSE b

\* Time passes, up to the moment at which a caller's time is over.
Tick(callers) ==
  /\ \A c \in callers : waited[c] < Timeout
  /\ waited' = [c \in Clients |-> IF c \in callers THEN waited[c] + 1 ELSE waited[c]]
  /\ cached' = [cached EXCEPT !.age = Sooner(Ttl, @ + 1)]
  /\ old' = [p \in Passwords |-> IF p < password THEN Sooner(Lag + 1, old[p] + 1) ELSE 0]
  /\ UNCHANGED <<fetch, verifier, password>>

VerifierTypeOK ==
  /\ cached \in [verifier : Passwords \cup {NoPassword}, age : 0 .. Ttl]
  /\ fetch \in [by : Clients \cup {NoClient}, read : Passwords \cup {NoPassword}]
  /\ waited \in [Clients -> 0 .. Timeout]
  /\ verifier \in [Clients -> Passwords \cup {NoPassword}]
  /\ password \in Passwords
  /\ old \in [Passwords -> 0 .. Lag + 1]

\* A verifier is given out no later than its time to live and one fetch after
\* the password it belongs to was replaced: reads do not extend an entry's life
\* and callers that join a fetch add nothing (auth/query.rs:60-63).
VerifierFresh ==
  [][\A c \in Clients :
       verifier'[c] # verifier[c] /\ verifier'[c] # NoPassword
         => old[verifier'[c]] <= Lag]_verifierVars
=============================================================================
