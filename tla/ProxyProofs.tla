---------------------------- MODULE ProxyProofs ----------------------------
(***************************************************************************)
(* Proofs about StatementStore, and about Proxy's use of it and its lease  *)
(* of connections, for any sessions, connections, statements, settings and *)
(* limits, in both pool modes and whatever its clients, drivers and        *)
(* servers do: the habits, requests and events are arbitrary.  What a      *)
(* session and its server say to each other is the subject of              *)
(* ExchangeProofs.                                                         *)
(***************************************************************************)
EXTENDS Proxy, FiniteSetTheorems, TLAPS

-----------------------------------------------------------------------------
(* The store of statements *)

StoreInv == StoreTypeOK /\ RefsMatchNames

\* There are finitely many (session, name) pairs, so any set of them counts.
LEMMA PairsFinite ==
  ASSUME NEW S, S \subseteq Sessions \X Names
  PROVE  IsFiniteSet(S) /\ Cardinality(S) \in Nat
<1>1. IsFiniteSet(Sessions \X Names)
  BY StoreAssumption, FS_Product
<1> QED  BY <1>1, FS_Subset, FS_CardinalityType

\* Taking one pair away from a set that holds it lowers its count by one.
LEMMA OneFewer ==
  ASSUME NEW S, S \subseteq Sessions \X Names, NEW p \in S
  PROVE  Cardinality(S) > 0 /\ Cardinality(S \ {p}) = Cardinality(S) - 1
<1>1. IsFiniteSet(S) /\ Cardinality(S) \in Nat
  BY PairsFinite
<1>2. Cardinality(S \ {p}) = Cardinality(S) - 1
  BY <1>1, FS_RemoveElement
<1>3. Cardinality(S) # 0
  BY <1>1, FS_EmptySet
<1> QED  BY <1>1, <1>2, <1>3

\* Adding a pair that is not there raises the count by one.
LEMMA OneMore ==
  ASSUME NEW S, S \subseteq Sessions \X Names,
         NEW p \in Sessions \X Names, p \notin S
  PROVE  Cardinality(S \cup {p}) = Cardinality(S) + 1
<1>1. IsFiniteSet(S) /\ Cardinality(S) \in Nat
  BY PairsFinite
<1> QED  BY <1>1, FS_AddElement

\* A session's uses of a query are as many as its pairs among the holders.
LEMMA UsesCounted ==
  ASSUME NEW c \in Sessions, NEW q \in Queries
  PROVE  Uses(c, q) = Cardinality({p \in Holders(q) : p[1] = c}) /\ Uses(c, q) \in Nat
<1> DEFINE S == {s \in Names : names[c][s] = q}
           P == {p \in Holders(q) : p[1] = c}
           f == [s \in S |-> <<c, s>>]
<1>1. IsFiniteSet(S)
  BY StoreAssumption, FS_Subset
<1>2. f \in Bijection(S, P)
  <2>1. f \in [S -> P]
    BY DEF Holders
  <2>2. \A s, t \in S : f[s] = f[t] => s = t
    OBVIOUS
  <2>3. \A p \in P : \E s \in S : f[s] = p
    BY DEF Holders
  <2> QED  BY <2>1, <2>2, <2>3 DEF Bijection, Injection, Surjection, IsInjective
<1>3. Cardinality(S) = Cardinality(P)
  BY <1>1, <1>2, FS_Bijection DEF ExistsBijection
<1> QED  BY <1>1, <1>3, FS_CardinalityType DEF Uses

-----------------------------------------------------------------------------
(* The invariant *)

\* Registering a name under another query moves its pair from the holders of
\* the old query to those of the new one.
LEMMA RegisterKeeps ==
  ASSUME StoreInv, NEW c \in Sessions, NEW s \in Names, NEW q \in Queries,
         Register(c, s, q)
  PROVE  StoreInv'
<1> DEFINE old == names[c][s]
           p == <<c, s>>
<1>1. names \in [Sessions -> [Names -> Queries \cup {NoQuery}]] /\ refs \in [Queries -> Nat]
  BY DEF StoreInv, StoreTypeOK
<1>2. /\ names' = [names EXCEPT ![c][s] = q]
      /\ refs' = [r \in Queries |->
                    IF old = q THEN refs[r]
                    ELSE IF r = q THEN refs[r] + 1
                    ELSE IF r = old THEN Released(refs[r], 1)
                    ELSE refs[r]]
  BY DEF Register
<1>3. names' \in [Sessions -> [Names -> Queries \cup {NoQuery}]]
  BY <1>1, <1>2
<1>4. \A r \in Queries : refs'[r] \in Nat
  BY <1>1, <1>2 DEF Released
<1>5. StoreTypeOK'
  BY <1>2, <1>3, <1>4 DEF StoreTypeOK
<1>6. \A d \in Sessions, t \in Names :
        names'[d][t] = IF d = c /\ t = s THEN q ELSE names[d][t]
  BY <1>1, <1>2
<1>7. ASSUME NEW r \in Queries PROVE refs'[r] = Cardinality(Holders(r)')
  <2>1. refs[r] = Cardinality(Holders(r)) /\ refs[r] \in Nat
    BY <1>1 DEF StoreInv, RefsMatchNames
  <2>2. Holders(r) \subseteq Sessions \X Names /\ p \in Sessions \X Names
    BY DEF Holders
  <2>3. CASE old = q
    <3>1. Holders(r)' = Holders(r)
      BY <1>6, <2>3 DEF Holders
    <3> QED  BY <1>2, <2>1, <2>3, <3>1
  <2>4. CASE old # q /\ r = q
    <3>1. Holders(r)' = Holders(r) \cup {p} /\ p \notin Holders(r)
      BY <1>6, <2>4 DEF Holders
    <3> QED  BY <1>2, <2>1, <2>2, <2>4, <3>1, OneMore
  <2>5. CASE old # q /\ r # q /\ r = old
    <3>1. Holders(r)' = Holders(r) \ {p} /\ p \in Holders(r)
      BY <1>6, <2>5 DEF Holders
    <3>2. Cardinality(Holders(r)) > 0 /\ Cardinality(Holders(r)') = Cardinality(Holders(r)) - 1
      BY <2>2, <3>1, OneFewer
    <3>3. refs'[r] = Released(refs[r], 1)
      BY <1>2, <2>5
    <3> QED  BY <2>1, <3>2, <3>3 DEF Released
  <2>6. CASE old # q /\ r # q /\ r # old
    <3>1. Holders(r)' = Holders(r)
      BY <1>6, <2>6 DEF Holders
    <3> QED  BY <1>2, <2>1, <2>6, <3>1
  <2> QED  BY <2>3, <2>4, <2>5, <2>6
<1> QED  BY <1>5, <1>7 DEF StoreInv, RefsMatchNames

\* Closing a statement takes its pair from the holders of its query, if it has
\* one.
LEMMA RemoveKeeps ==
  ASSUME StoreInv, NEW c \in Sessions, NEW s \in Names, RemoveName(c, s)
  PROVE  StoreInv'
<1> DEFINE p == <<c, s>>
<1>1. names \in [Sessions -> [Names -> Queries \cup {NoQuery}]] /\ refs \in [Queries -> Nat]
  BY DEF StoreInv, StoreTypeOK
<1>2. /\ names' = [names EXCEPT ![c][s] = NoQuery]
      /\ refs' = [r \in Queries |->
                    IF r = names[c][s] THEN Released(refs[r], 1) ELSE refs[r]]
  BY DEF RemoveName
<1>3. StoreTypeOK'
  <2>1. names' \in [Sessions -> [Names -> Queries \cup {NoQuery}]]
    BY <1>1, <1>2
  <2>2. \A r \in Queries : refs'[r] \in Nat
    BY <1>1, <1>2 DEF Released
  <2> QED  BY <1>2, <2>1, <2>2 DEF StoreTypeOK
<1>4. \A d \in Sessions, t \in Names :
        names'[d][t] = IF d = c /\ t = s THEN NoQuery ELSE names[d][t]
  BY <1>1, <1>2
<1>5. ASSUME NEW r \in Queries PROVE refs'[r] = Cardinality(Holders(r)')
  <2>1. refs[r] = Cardinality(Holders(r)) /\ refs[r] \in Nat
    BY <1>1 DEF StoreInv, RefsMatchNames
  <2>2. Holders(r) \subseteq Sessions \X Names /\ r # NoQuery
    BY StatementNamesAssumption DEF Holders
  <2>3. CASE r = names[c][s]
    <3>1. Holders(r)' = Holders(r) \ {p} /\ p \in Holders(r)
      BY <1>4, <2>2, <2>3 DEF Holders
    <3>2. Cardinality(Holders(r)) > 0 /\ Cardinality(Holders(r)') = Cardinality(Holders(r)) - 1
      BY <2>2, <3>1, OneFewer
    <3>3. refs'[r] = Released(refs[r], 1)
      BY <1>2, <2>3
    <3> QED  BY <2>1, <3>2, <3>3 DEF Released
  <2>4. CASE r # names[c][s]
    <3>1. Holders(r)' = Holders(r)
      BY <1>4, <2>2, <2>4 DEF Holders
    <3> QED  BY <1>2, <2>1, <2>4, <3>1
  <2> QED  BY <2>3, <2>4
<1> QED  BY <1>3, <1>5 DEF StoreInv, RefsMatchNames

\* The end of a session takes all its pairs.
LEMMA ReleaseKeeps ==
  ASSUME StoreInv, NEW c \in Sessions, ReleaseAll(c)
  PROVE  StoreInv'
<1>1. names \in [Sessions -> [Names -> Queries \cup {NoQuery}]] /\ refs \in [Queries -> Nat]
  BY DEF StoreInv, StoreTypeOK
<1>2. /\ names' = [names EXCEPT ![c] = [s \in Names |-> NoQuery]]
      /\ refs' = [r \in Queries |-> Released(refs[r], Uses(c, r))]
  BY DEF ReleaseAll
<1>3. StoreTypeOK'
  <2>1. names' \in [Sessions -> [Names -> Queries \cup {NoQuery}]]
    BY <1>1, <1>2
  <2>2. \A r \in Queries : refs'[r] \in Nat
    <3> TAKE r \in Queries
    <3>1. Uses(c, r) \in Nat
      BY UsesCounted
    <3>2. refs[r] \in Nat /\ refs'[r] = Released(refs[r], Uses(c, r))
      BY <1>1, <1>2
    <3> QED  BY <3>1, <3>2 DEF Released
  <2> QED  BY <1>2, <2>1, <2>2 DEF StoreTypeOK
<1>4. \A d \in Sessions, t \in Names :
        names'[d][t] = IF d = c THEN NoQuery ELSE names[d][t]
  BY <1>1, <1>2
<1>5. ASSUME NEW r \in Queries PROVE refs'[r] = Cardinality(Holders(r)')
  <2> DEFINE mine == {p \in Holders(r) : p[1] = c}
  <2>1. refs[r] = Cardinality(Holders(r)) /\ refs[r] \in Nat
    BY <1>1 DEF StoreInv, RefsMatchNames
  <2>2. /\ Holders(r) \subseteq Sessions \X Names
        /\ mine \subseteq Holders(r)
        /\ Holders(r)' = Holders(r) \ mine
    BY <1>4, StatementNamesAssumption DEF Holders
  <2>3. IsFiniteSet(Holders(r)) /\ IsFiniteSet(mine)
    BY <2>2, PairsFinite, FS_Subset
  <2>4. Uses(c, r) = Cardinality(mine) /\ Uses(c, r) \in Nat
    BY UsesCounted
  <2>5. Cardinality(Holders(r) \ mine) = Cardinality(Holders(r)) - Cardinality(Holders(r) \cap mine)
    BY <2>3, FS_Difference
  <2>6. Holders(r) \cap mine = mine
    BY <2>2
  <2>7. Cardinality(mine) <= Cardinality(Holders(r))
    BY <2>2, <2>3, FS_Subset
  <2>8. refs'[r] = Released(refs[r], Uses(c, r))
    BY <1>2
  <2> HIDE DEF mine
  <2> QED  BY <2>1, <2>2, <2>4, <2>5, <2>6, <2>7, <2>8 DEF Released
<1> QED  BY <1>3, <1>5 DEF StoreInv, RefsMatchNames

\* Nothing is held at the start.
LEMMA StoreInitKeeps == StoreInit => StoreInv
<1> SUFFICES ASSUME StoreInit PROVE StoreInv
  OBVIOUS
<1>1. StoreTypeOK
  BY DEF StoreInit, StoreTypeOK
<1>2. \A q \in Queries : Holders(q) = {}
  BY StatementNamesAssumption DEF StoreInit, Holders
<1>3. RefsMatchNames
  BY <1>2, FS_EmptySet DEF StoreInit, RefsMatchNames
<1> QED  BY <1>1, <1>3 DEF StoreInv

LEMMA StoreHolds == StoreSpec => []StoreInv
<1>1. StoreInit => StoreInv
  BY StoreInitKeeps
<1>2. StoreInv /\ [StoreNext]_storeVars => StoreInv'
  <2> SUFFICES ASSUME StoreInv, [StoreNext]_storeVars PROVE StoreInv'
    OBVIOUS
  <2>1. CASE StoreNext
    BY <2>1, RegisterKeeps, RemoveKeeps, ReleaseKeeps DEF StoreNext
  <2>2. CASE UNCHANGED storeVars
    BY <2>2 DEF storeVars, StoreInv, StoreTypeOK, RefsMatchNames, Holders
  <2> QED  BY <2>1, <2>2
<1> QED  BY <1>1, <1>2, PTL DEF StoreSpec

\* For any number of sessions, names and queries, a statement's reference count
\* is the number of names that stand for it.
THEOREM RefsHold == StoreSpec => []RefsMatchNames
<1>1. StoreInv => RefsMatchNames
  BY DEF StoreInv
<1> QED  BY <1>1, StoreHolds, PTL

\* A statement some session's name stands for has its Parse in the store, so a
\* re-prepare always finds it.
THEOREM BindHolds == StoreSpec => []BindFindsParse
<1>1. StoreInv => BindFindsParse
  <2> SUFFICES ASSUME StoreInv, NEW c \in Sessions, NEW s \in Names, names[c][s] \in Queries
               PROVE  refs[names[c][s]] > 0
    BY DEF BindFindsParse
  <2> DEFINE q == names[c][s]
  <2>1. <<c, s>> \in Holders(q) /\ Holders(q) \subseteq Sessions \X Names
    BY DEF Holders
  <2>2. Cardinality(Holders(q)) > 0
    BY <2>1, OneFewer
  <2> QED  BY <2>2 DEF StoreInv, RefsMatchNames
<1> QED  BY <1>1, StoreHolds, PTL

-----------------------------------------------------------------------------
(* The proxy uses the store *)

\* What the proxy does to names and references is what the store allows.
LEMMA StoreStep ==
  ASSUME Next  PROVE StoreNext \/ UNCHANGED storeVars
<1>1. ASSUME NEW c \in Sessions, Ask(c)
      PROVE  StoreNext \/ UNCHANGED storeVars
  <2>1. ASSUME NEW s \in Names, NEW q \in Queries, Parse(c, s, q)
        PROVE  StoreNext
    BY <2>1 DEF Parse, StoreNext
  <2>2. ASSUME NEW s \in Names, Bind(c, s)
        PROVE  UNCHANGED storeVars
    BY <2>2 DEF Bind, storeVars
  <2>3. ASSUME NEW s \in Names, CloseStatement(c, s)
        PROVE  StoreNext
    BY <2>3 DEF CloseStatement, StoreNext
  <2>4. ASSUME ClosePortal(c) \/ Sync(c)
        PROVE  UNCHANGED storeVars
    BY <2>4 DEF ClosePortal, Sync, storeVars
  <2>5. ASSUME Deallocate(c)
        PROVE  StoreNext
    BY <2>5 DEF Deallocate, StoreNext
  <2>6. ASSUME NEW query \in Query, SimpleQuery(c, query)
        PROVE  UNCHANGED storeVars
    BY <2>6 DEF SimpleQuery, storeVars
  <2> QED  BY <1>1, <2>1, <2>2, <2>3, <2>4, <2>5, <2>6 DEF Ask
<1>2. ASSUME NEW c \in Sessions, Relay(c)
      PROVE  UNCHANGED storeVars
  BY <1>2 DEF Relay, storeVars
<1>3. ASSUME NEW c \in Sessions, Leave(c)
      PROVE  StoreNext
  BY <1>3 DEF Leave, EndSession, StoreNext
<1>4. ASSUME NEW c \in Sessions, NEW x \in Conns, StartSession(c, x)
      PROVE  UNCHANGED storeVars
  BY <1>4 DEF StartSession, storeVars
<1>5. ASSUME NEW x \in Conns, Serve(x) \/ ResetReads(x) \/ Open(x)
      PROVE  UNCHANGED storeVars
  BY <1>5 DEF Serve, ResetReads, Open
<1>6. ASSUME NEW x \in Conns, Break(x)
      PROVE  StoreNext \/ UNCHANGED storeVars
  BY <1>6 DEF Break, EndSession, StoreNext
<1> QED  BY <1>1, <1>2, <1>3, <1>4, <1>5, <1>6 DEF Next

\* The proxy implements the store: every step is a step of it or leaves it be.
THEOREM StoreImplemented == Spec => StoreSpec
<1>1. Init => StoreInit
  BY DEF Init
<1>2. [Next]_vars => [StoreNext]_storeVars
  BY StoreStep DEF vars
<1> QED  BY <1>1, <1>2, PTL DEF Spec, StoreSpec

\* Whatever the proxy does, a statement's count is the number of its names.
THEOREM ProxyRefs == Spec => []RefsMatchNames
  BY StoreImplemented, RefsHold, PTL

\* Whatever the proxy does, the Parse that a re-prepare needs is in the store:
\* ensure_prepared never bails.
THEOREM ProxyBinds == Spec => []BindFindsParse
  BY StoreImplemented, BindHolds, PTL

-----------------------------------------------------------------------------
(* The lease of connections to sessions *)

\* A pinned session has a connection to keep.
PinnedHold == \A c \in pinned : conn[c] # NoConn

LeaseInv ==
  /\ conn \in [Sessions -> Conns \cup {NoConn}]
  /\ phase \in [Conns -> {"closed", "idle", "lent", "resetting"}]
  /\ pinned \subseteq Sessions
  /\ PinnedHold
  /\ OneSession

LEMMA LeaseInit == Init => LeaseInv
  BY ProxyAssumption DEF Init, LeaseInv, PinnedHold, OneSession

\* A connection that is not lent is no session's.
LEMMA NotHeld ==
  ASSUME LeaseInv, NEW x \in Conns, phase[x] # "lent", NEW c \in Sessions
  PROVE  conn[c] # x
  BY ProxyAssumption DEF LeaseInv, OneSession

\* A session takes a connection that waits, or goes on with the one it has.
LEMMA TakeKeeps ==
  ASSUME LeaseInv, NEW c \in Sessions, NEW x \in Conns,
         conn[c] = x \/ (conn[c] = NoConn /\ phase[x] = "idle"),
         conn' = [conn EXCEPT ![c] = x],
         phase' = [phase EXCEPT ![x] = "lent"],
         pinned' \subseteq pinned \cup {c}
  PROVE  LeaseInv'
<1>1. /\ conn' \in [Sessions -> Conns \cup {NoConn}]
      /\ phase' \in [Conns -> {"closed", "idle", "lent", "resetting"}]
      /\ pinned' \subseteq Sessions
  BY DEF LeaseInv
<1>2. x # NoConn
  BY ProxyAssumption
<1>3. \A d \in Sessions \ {c} : conn[d] # x /\ conn'[d] = conn[d]
  BY <1>2 DEF LeaseInv, OneSession
<1>4. conn'[c] = x /\ phase'[x] = "lent"
  BY DEF LeaseInv
<1>5. PinnedHold'
  BY <1>1, <1>2, <1>3, <1>4 DEF LeaseInv, PinnedHold
<1>6. OneSession'
  <2> SUFFICES ASSUME NEW d \in Sessions, conn'[d] # NoConn
               PROVE  /\ phase'[conn'[d]] = "lent"
                      /\ \A e \in Sessions \ {d} : conn'[e] # conn'[d]
    BY DEF OneSession
  <2>1. CASE d = c
    BY <2>1, <1>3, <1>4
  <2>2. CASE d # c
    <3>1. conn[d] \in Conns /\ phase[conn[d]] = "lent" /\ conn[d] # x
      BY <2>2, <1>3 DEF LeaseInv, OneSession
    <3>2. phase'[conn'[d]] = "lent"
      BY <2>2, <3>1, <1>3 DEF LeaseInv
    <3>3. ASSUME NEW e \in Sessions \ {d}  PROVE conn'[e] # conn'[d]
      BY <2>2, <3>1, <1>3, <1>4 DEF LeaseInv, OneSession
    <3> QED  BY <3>2, <3>3
  <2> QED  BY <2>1, <2>2
<1> QED  BY <1>1, <1>5, <1>6 DEF LeaseInv

\* A session gives its connection up, if it has one, in whatever phase it goes.
LEMMA GiveKeeps ==
  ASSUME LeaseInv, NEW c \in Sessions, NEW x,
         x = conn[c],
         NEW p \in {"closed", "idle", "lent", "resetting"},
         conn' = [conn EXCEPT ![c] = NoConn],
         phase' = IF x = NoConn THEN phase ELSE [phase EXCEPT ![x] = p],
         pinned' \subseteq pinned, c \notin pinned'
  PROVE  LeaseInv'
<1>1. /\ conn' \in [Sessions -> Conns \cup {NoConn}]
      /\ phase' \in [Conns -> {"closed", "idle", "lent", "resetting"}]
      /\ pinned' \subseteq Sessions
  BY DEF LeaseInv
<1>2. \A d \in Sessions \ {c} : conn'[d] = conn[d]
  BY DEF LeaseInv
<1>3. conn'[c] = NoConn
  BY DEF LeaseInv
<1>4. PinnedHold'
  BY <1>1, <1>2 DEF LeaseInv, PinnedHold
<1>5. OneSession'
  <2> SUFFICES ASSUME NEW d \in Sessions, conn'[d] # NoConn
               PROVE  /\ phase'[conn'[d]] = "lent"
                      /\ \A e \in Sessions \ {d} : conn'[e] # conn'[d]
    BY DEF OneSession
  <2>1. d # c /\ conn'[d] = conn[d] /\ conn[d] \in Conns
    BY <1>2, <1>3 DEF LeaseInv
  <2>2. phase[conn[d]] = "lent" /\ \A e \in Sessions \ {d} : conn[e] # conn[d]
    BY <2>1 DEF LeaseInv, OneSession
  <2>3. phase'[conn'[d]] = "lent"
    BY <2>1, <2>2 DEF LeaseInv
  <2>4. ASSUME NEW e \in Sessions \ {d}  PROVE conn'[e] # conn'[d]
    BY <2>1, <2>2, <1>2, <1>3
  <2> QED  BY <2>3, <2>4
<1> QED  BY <1>1, <1>4, <1>5 DEF LeaseInv

\* A connection that no session has changes its phase.
LEMMA IdleKeeps ==
  ASSUME LeaseInv, NEW x \in Conns, phase[x] # "lent",
         NEW p \in {"closed", "idle", "lent", "resetting"},
         phase' = [phase EXCEPT ![x] = p],
         UNCHANGED <<conn, pinned>>
  PROVE  LeaseInv'
<1>1. phase' \in [Conns -> {"closed", "idle", "lent", "resetting"}]
  BY DEF LeaseInv
<1>2. \A c \in Sessions : conn[c] # x
  BY NotHeld
<1>3. OneSession'
  BY <1>2 DEF LeaseInv, OneSession
<1>4. PinnedHold'
  BY DEF LeaseInv, PinnedHold
<1> QED  BY <1>1, <1>3, <1>4 DEF LeaseInv

\* A message goes to the session's connection or to one that waits.
LEMMA CarriersWait ==
  ASSUME LeaseInv, NEW c \in Sessions, NEW x \in Carriers(c)
  PROVE  x \in Conns /\ (conn[c] = x \/ (conn[c] = NoConn /\ phase[x] = "idle"))
  BY DEF Carriers, LeaseInv

\* Every message of a client keeps the lease.
LEMMA AskKeeps ==
  ASSUME LeaseInv, NEW c \in Sessions, Ask(c)
  PROVE  LeaseInv' /\ (c \in pinned => conn'[c] = conn[c])
                   /\ \A d \in Sessions \ {c} : conn'[d] = conn[d]
<1>1. ASSUME NEW x \in Carriers(c),
             conn' = [conn EXCEPT ![c] = x],
             phase' = [phase EXCEPT ![x] = "lent"],
             pinned' \subseteq pinned \cup {c}
      PROVE  LeaseInv' /\ (c \in pinned => conn'[c] = conn[c])
                       /\ \A d \in Sessions \ {c} : conn'[d] = conn[d]
  <2>1. x \in Conns /\ (conn[c] = x \/ (conn[c] = NoConn /\ phase[x] = "idle"))
    BY CarriersWait
  <2>2. LeaseInv'
    BY <1>1, <2>1, TakeKeeps
  <2>3. c \in pinned => conn'[c] = conn[c]
    BY <1>1, <2>1 DEF LeaseInv, PinnedHold
  <2>4. \A d \in Sessions \ {c} : conn'[d] = conn[d]
    BY <1>1 DEF LeaseInv
  <2> QED  BY <2>2, <2>3, <2>4
<1>2. ASSUME UNCHANGED <<conn, phase, pinned>>
      PROVE  LeaseInv' /\ (c \in pinned => conn'[c] = conn[c])
                       /\ \A d \in Sessions \ {c} : conn'[d] = conn[d]
  BY <1>2 DEF LeaseInv, PinnedHold, OneSession
<1>3. ASSUME NEW s \in Names, NEW q \in Queries, Parse(c, s, q)
      PROVE  \E x \in Carriers(c) : /\ conn' = [conn EXCEPT ![c] = x]
                                    /\ phase' = [phase EXCEPT ![x] = "lent"]
                                    /\ pinned' \subseteq pinned \cup {c}
  BY <1>3 DEF Parse, Send
<1>4. ASSUME NEW s \in Names, Bind(c, s)
      PROVE  \E x \in Carriers(c) : /\ conn' = [conn EXCEPT ![c] = x]
                                    /\ phase' = [phase EXCEPT ![x] = "lent"]
                                    /\ pinned' \subseteq pinned \cup {c}
  BY <1>4 DEF Bind, Send
<1>5. ASSUME ClosePortal(c) \/ Sync(c)
      PROVE  \E x \in Carriers(c) : /\ conn' = [conn EXCEPT ![c] = x]
                                    /\ phase' = [phase EXCEPT ![x] = "lent"]
                                    /\ pinned' \subseteq pinned \cup {c}
  BY <1>5 DEF ClosePortal, Sync, Send
<1>6. ASSUME NEW query \in Query, SimpleQuery(c, query)
      PROVE  \E x \in Carriers(c) : /\ conn' = [conn EXCEPT ![c] = x]
                                    /\ phase' = [phase EXCEPT ![x] = "lent"]
                                    /\ pinned' \subseteq pinned \cup {c}
  <2>1. PinnedAfter(c, query) \subseteq pinned \cup {c}
    BY DEF PinnedAfter
  <2> QED  BY <1>6, <2>1 DEF SimpleQuery, Send
<1>7. ASSUME (\E s \in Names : CloseStatement(c, s)) \/ Deallocate(c)
      PROVE  UNCHANGED <<conn, phase, pinned>>
  BY <1>7 DEF CloseStatement, Deallocate, linkVars
<1> QED  BY <1>1, <1>2, <1>3, <1>4, <1>5, <1>6, <1>7 DEF Ask

\* Reading a reply keeps the lease, and a pinned session keeps its connection.
LEMMA RelayKeeps ==
  ASSUME LeaseInv, NEW c \in Sessions, Relay(c)
  PROVE  LeaseInv' /\ \A d \in pinned \cap pinned' : conn'[d] = conn[d]
<1> DEFINE x == conn[c]
           reply == Head(toProxy[x])
<1>1. x # NoConn /\ pinned' = pinned
  BY DEF Relay
<1>2. CASE Releases(c, reply)
  <2>1. /\ conn' = [conn EXCEPT ![c] = NoConn]
        /\ phase' = [phase EXCEPT ![x] = "resetting"]
    BY <1>2 DEF Relay, Checkin
  <2>2. c \notin pinned
    BY <1>2 DEF Releases
  <2>3. LeaseInv'
    BY <1>1, <2>1, <2>2, GiveKeeps
  <2>4. \A d \in pinned : conn'[d] = conn[d]
    BY <2>1, <2>2 DEF LeaseInv
  <2> QED  BY <2>3, <2>4
<1>3. CASE ~Releases(c, reply)
  <2>1. UNCHANGED <<conn, phase, pinned>>
    BY <1>3 DEF Relay
  <2> QED  BY <2>1 DEF LeaseInv, PinnedHold, OneSession
<1> QED  BY <1>2, <1>3

\* A session that ends keeps the lease.
LEMMA LeaveKeeps ==
  ASSUME LeaseInv, NEW c \in Sessions, Leave(c)
  PROVE  LeaseInv' /\ \A d \in pinned \cap pinned' : conn'[d] = conn[d]
<1>1. conn' = [conn EXCEPT ![c] = NoConn] /\ pinned' = pinned \ {c}
  BY DEF Leave, EndSession
<1>2. phase' = IF conn[c] = NoConn THEN phase ELSE [phase EXCEPT ![conn[c]] = "resetting"]
  BY DEF Leave, Checkin, linkVars
<1>3. LeaseInv'
  BY <1>1, <1>2, GiveKeeps
<1>4. \A d \in pinned \cap pinned' : conn'[d] = conn[d]
  BY <1>1 DEF LeaseInv
<1> QED  BY <1>3, <1>4

\* So does a connection that the server closes.
LEMMA BreakKeeps ==
  ASSUME LeaseInv, NEW x \in Conns, Break(x)
  PROVE  LeaseInv' /\ \A d \in pinned \cap pinned' : conn'[d] = conn[d]
<1>1. phase' = [phase EXCEPT ![x] = "closed"]
  BY DEF Break, Discard
<1>2. ASSUME NEW c \in Sessions, conn[c] = x, EndSession(c)
      PROVE  LeaseInv' /\ \A d \in pinned \cap pinned' : conn'[d] = conn[d]
  <2>1. conn' = [conn EXCEPT ![c] = NoConn] /\ pinned' = pinned \ {c}
    BY <1>2 DEF EndSession
  <2>2. x # NoConn
    BY ProxyAssumption
  <2>3. LeaseInv'
    BY <1>1, <1>2, <2>1, <2>2, GiveKeeps
  <2>4. \A d \in pinned \cap pinned' : conn'[d] = conn[d]
    BY <2>1 DEF LeaseInv
  <2> QED  BY <2>3, <2>4
<1>3. ASSUME phase[x] = "resetting", UNCHANGED sessionVars
      PROVE  LeaseInv' /\ \A d \in pinned \cap pinned' : conn'[d] = conn[d]
  BY <1>1, <1>3, IdleKeeps DEF sessionVars
<1> QED  BY <1>2, <1>3 DEF Break

\* Every step of the proxy keeps the lease, and pinned sessions connected.
LEMMA LeaseStep ==
  ASSUME LeaseInv, [Next]_vars
  PROVE  LeaseInv' /\ \A d \in pinned \cap pinned' : conn'[d] = conn[d]
<1>1. ASSUME NEW c \in Sessions, Ask(c)
      PROVE  LeaseInv' /\ \A d \in pinned \cap pinned' : conn'[d] = conn[d]
  BY <1>1, AskKeeps DEF LeaseInv
<1>2. ASSUME NEW c \in Sessions, NEW x \in Conns, StartSession(c, x)
      PROVE  LeaseInv' /\ \A d \in pinned \cap pinned' : conn'[d] = conn[d]
  <2>1. /\ conn[c] = NoConn /\ phase[x] = "idle" /\ pinned' = pinned
        /\ conn' = [conn EXCEPT ![c] = x] /\ phase' = [phase EXCEPT ![x] = "lent"]
    BY <1>2 DEF StartSession, Send
  <2>2. LeaseInv'
    BY <2>1, TakeKeeps
  <2>3. \A d \in pinned : conn'[d] = conn[d]
    BY <2>1 DEF LeaseInv, PinnedHold
  <2> QED  BY <2>2, <2>3
<1>3. ASSUME NEW x \in Conns, ResetReads(x)
      PROVE  LeaseInv' /\ \A d \in pinned \cap pinned' : conn'[d] = conn[d]
  <2>1. phase[x] # "lent" /\ UNCHANGED <<conn, pinned>>
    BY <1>3 DEF ResetReads, sessionVars
  <2>2. \E p \in {"closed", "idle", "lent", "resetting"} : phase' = [phase EXCEPT ![x] = p]
    BY <1>3 DEF ResetReads, Discard
  <2> QED  BY <2>1, <2>2, IdleKeeps
<1>4. ASSUME NEW x \in Conns, Open(x)
      PROVE  LeaseInv' /\ \A d \in pinned \cap pinned' : conn'[d] = conn[d]
  BY <1>4, IdleKeeps DEF Open, sessionVars
<1>5. ASSUME (\E x \in Conns : Serve(x)) \/ UNCHANGED vars
      PROVE  LeaseInv' /\ \A d \in pinned \cap pinned' : conn'[d] = conn[d]
  <2>1. UNCHANGED <<conn, phase, pinned>>
    BY <1>5 DEF Serve, vars, sessionVars, linkVars
  <2> QED  BY <2>1 DEF LeaseInv, PinnedHold, OneSession
<1> QED
  BY <1>1, <1>2, <1>3, <1>4, <1>5, RelayKeeps, LeaveKeeps, BreakKeeps DEF Next

LEMMA LeaseHolds == Spec => []LeaseInv
  BY LeaseInit, LeaseStep, PTL DEF Spec

\* No two sessions are ever served by one connection, and what a session holds
\* is never in the idle queue, under reset or closed.
THEOREM OneSessionHolds == Spec => []OneSession
<1>1. LeaseInv => OneSession
  BY DEF LeaseInv
<1> QED  BY <1>1, LeaseHolds, PTL

\* LISTEN keeps a session on its connection.
THEOREM PinHolds == Spec => PinKeepsConnection
<1>1. LeaseInv /\ [Next]_vars
      => [\A c \in Sessions : c \in pinned /\ c \in pinned' => conn'[c] = conn[c]]_vars
  BY LeaseStep
<1> QED  BY <1>1, LeaseHolds, PTL DEF Spec, PinKeepsConnection
=============================================================================
