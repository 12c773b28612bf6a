------------------------- MODULE PreparedStatements -------------------------
(***************************************************************************)
(* PreparedStatements of connections/server.rs: what the pooler believes   *)
(* one server connection holds, and what it will do with the               *)
(* ParseComplete and CloseComplete replies the connection still owes.      *)
(* Pure operators on a record, as the methods of the code are pure: they   *)
(* return the new record and the intent the proxy carries out.             *)
(***************************************************************************)
EXTENDS Naturals, FiniteSets, Sequences, Functions, StatementNames

CONSTANT MaxPrepared  \* max_prepared_statements; 0 is unlimited

ASSUME MaxPreparedAssumption == MaxPrepared \in Nat

Disposition == {"forward", "suppress"}

\* Lru.order; Lru.prepared is the set of its elements.
Statements == [cache : Seq(Queries),
               parses : Seq([reply : Disposition, query : Queries]),
               closes : Seq(Disposition)]

NoStatements == [cache |-> <<>>, parses |-> <<>>, closes |-> <<>>]

Cached(st) == Range(st.cache)

\* What a retain leaves of seq: the elements at these places, in their order.
Retain(seq, places) ==
  LET at == CHOOSE e \in UNION {[1..n -> places] : n \in 0..Len(seq)} :
              /\ Range(e) = places
              /\ \A i, j \in DOMAIN e : i < j => e[i] < e[j]
  IN  [i \in DOMAIN at |-> seq[at[i]]]

Without(seq, queries) == Retain(seq, {i \in DOMAIN seq : seq[i] \notin queries})

\* Lru::touch.
Touch(st, q) == [st EXCEPT !.cache = Append(Without(@, {q}), q)]

Full(st) == MaxPrepared > 0 /\ Len(st.cache) >= MaxPrepared

\* Mutant: the evicted statement is not closed on the server.
EvictedSilently(st) == NoQuery

\* Lru::insert and evict: the query evicted to make room, or NoQuery.
Evicted(st) == IF Full(st) THEN Head(st.cache) ELSE NoQuery

\* Mutant: no disposition for the eviction's CloseComplete.
RecordParseOnly(st, q, reply) ==
  [cache  |-> Append(IF Full(st) THEN Tail(st.cache) ELSE st.cache, q),
   parses |-> Append(st.parses, [reply |-> reply, query |-> q]),
   closes |-> st.closes]

\* record_prepare: an optimistic insert, the disposition of its ParseComplete,
\* and that of the eviction's CloseComplete.
RecordPrepare(st, q, reply) ==
  [cache  |-> Append(IF Full(st) THEN Tail(st.cache) ELSE st.cache, q),
   parses |-> Append(st.parses, [reply |-> reply, query |-> q]),
   closes |-> IF Full(st) THEN Append(st.closes, "suppress") ELSE st.closes]

\* note_client_parse and note_reprepare differ in the disposition only.  The
\* intent: nothing to send on a hit, else the Close of the evicted and a Parse.
Prepare(st, q, reply) ==
  IF q \in Cached(st)
  THEN [st |-> Touch(st, q), hit |-> TRUE, evicted |-> NoQuery]
  ELSE [st |-> RecordPrepare(st, q, reply), hit |-> FALSE, evicted |-> Evicted(st)]

NotePortalClose(st) == [st EXCEPT !.closes = Append(@, "forward")]

\* Mutant: replies are not told apart.
ForwardEvery(st) == "forward"

\* next_parse_reply and next_close_reply: an unexpected reply is forwarded.
NextParseReply(st) == IF st.parses = <<>> THEN "forward" ELSE Head(st.parses).reply
AfterParseReply(st) == [st EXCEPT !.parses = IF @ = <<>> THEN @ ELSE Tail(@)]
NextCloseReply(st) == IF st.closes = <<>> THEN "forward" ELSE Head(st.closes)
AfterCloseReply(st) == [st EXCEPT !.closes = IF @ = <<>> THEN @ ELSE Tail(@)]

\* Mutant: the pending inserts stay in the cache.
RollBackRepliesOnly(st) == [st EXCEPT !.parses = <<>>, !.closes = <<>>]

\* roll_back_after_error: every Parse that is still unanswered leaves the cache.
\* What such a Parse evicted does not come back.
RollBackAfterError(st) ==
  LET pending == {p.query : p \in Range(st.parses)}
  IN  [cache  |-> Without(st.cache, pending),
       parses |-> <<>>,
       closes |-> <<>>]

DiscardAll(st) == [st EXCEPT !.cache = <<>>]

ResetPending(st) == [st EXCEPT !.parses = <<>>, !.closes = <<>>]
=============================================================================
