--------------------------- MODULE StatementStore ---------------------------
(***************************************************************************)
(* The reference-counted store of Parse messages (pool/prepared.rs) and    *)
(* the map of statement names each client session keeps into it            *)
(* (ClientPrepared in proxy/prepared.rs).  A session's map is its own; the *)
(* store is shared, and every operation holds the store's mutex.           *)
(* NoQuery stands for "this name is not tracked".                          *)
(***************************************************************************)
EXTENDS Naturals, FiniteSets, StatementNames

CONSTANTS
  Sessions,  \* client sessions
  Names      \* statement names a client may choose, the unnamed "" included

ASSUME StoreAssumption ==
  /\ IsFiniteSet(Sessions)
  /\ IsFiniteSet(Names)

VARIABLES
  names,  \* ClientPrepared.names of each session
  refs    \* StoreEntry.refs; 0 stands for "no entry"

storeVars == <<names, refs>>

StoreTypeOK ==
  /\ names \in [Sessions -> [Names -> Queries \cup {NoQuery}]]
  /\ refs \in [Queries -> Nat]

StoreInit ==
  /\ names = [c \in Sessions |-> [s \in Names |-> NoQuery]]
  /\ refs = [q \in Queries |-> 0]

\* release: saturating_sub, and the entry goes when it reaches zero.
Released(n, k) == IF k >= n THEN 0 ELSE n - k

\* Mutant: the statement the name stood for before is not released.
RegisterKeepsOld(c, s, q) ==
  /\ names' = [names EXCEPT ![c][s] = q]
  /\ refs' = IF names[c][s] = q THEN refs ELSE [refs EXCEPT ![q] = @ + 1]

\* ClientPrepared::register.
Register(c, s, q) ==
  LET old == names[c][s]
  IN  /\ names' = [names EXCEPT ![c][s] = q]
      /\ refs' = [r \in Queries |->
                    IF old = q THEN refs[r]
                    ELSE IF r = q THEN refs[r] + 1
                    ELSE IF r = old THEN Released(refs[r], 1)
                    ELSE refs[r]]

\* Mutant: the reference goes and the name stays.
RemoveRefOnly(c, s) ==
  /\ refs' = [r \in Queries |->
                IF r = names[c][s] THEN Released(refs[r], 1) ELSE refs[r]]
  /\ UNCHANGED names

\* ClientPrepared::remove; a name that is not tracked is no error.
RemoveName(c, s) ==
  /\ names' = [names EXCEPT ![c][s] = NoQuery]
  /\ refs' = [r \in Queries |->
                IF r = names[c][s] THEN Released(refs[r], 1) ELSE refs[r]]

\* How many of the session's names stand for q.
Uses(c, q) == Cardinality({s \in Names : names[c][s] = q})

\* ClientPrepared::release_all: DEALLOCATE ALL, and the drop of PreparedGuard
\* when the session ends in whatever way.
ReleaseAll(c) ==
  /\ names' = [names EXCEPT ![c] = [s \in Names |-> NoQuery]]
  /\ refs' = [r \in Queries |-> Released(refs[r], Uses(c, r))]

StoreNext ==
  \E c \in Sessions :
    \/ \E s \in Names : (\E q \in Queries : Register(c, s, q)) \/ RemoveName(c, s)
    \/ ReleaseAll(c)

StoreSpec == StoreInit /\ [][StoreNext]_storeVars

-----------------------------------------------------------------------------
\* The (session, name) pairs that stand for q.
Holders(q) == {p \in Sessions \X Names : names[p[1]][p[2]] = q}

\* The count of a statement is the number of names that stand for it, whatever
\* order sessions register, re-register, close and end in: so no entry leaks
\* when the last of them ends, and none goes while a session may still Bind it.
RefsMatchNames == \A q \in Queries : refs[q] = Cardinality(Holders(q))

\* prepared.rs calls the lookup of a re-prepare "effectively infallible": any
\* canonical in a client's map keeps its Parse in the store.
BindFindsParse ==
  \A c \in Sessions, s \in Names : names[c][s] \in Queries => refs[names[c][s]] > 0
=============================================================================
