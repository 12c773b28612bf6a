------------------------------- MODULE Driver -------------------------------
(***************************************************************************)
(* A client driver: external code, modelled as a strict reader of the      *)
(* protocol.  It knows which replies it is owed, in which order, and       *)
(* notices a reply that is out of order or not for it ("misordered"), and   *)
(* an error the pooler is to blame for.                                    *)
(***************************************************************************)
EXTENDS Naturals, Sequences

\* "closed": no extended message since the last Sync; "open": some; "aborted":
\* some, and an error was reported since, so nothing is owed before the Sync.
NewDriver == [owed |-> <<>>, batch |-> "closed", misordered |-> FALSE, blamed |-> FALSE]

AsksExtended(d, reply) ==
  IF d.batch = "aborted" THEN d
  ELSE [d EXCEPT !.owed = Append(@, reply), !.batch = "open"]

AsksSync(d) == [d EXCEPT !.owed = Append(@, "ready"), !.batch = "closed"]

AsksSimple(d) == [d EXCEPT !.owed = @ \o <<"done", "ready">>]

\* An error stands for all replies up to the next "ready".
GetsError(d) ==
  LET syncs == {i \in DOMAIN d.owed : d.owed[i] = "ready"}
  IN  IF d.owed = <<>> \/ 1 \in syncs THEN [d EXCEPT !.misordered = TRUE]
      ELSE IF syncs = {} THEN [d EXCEPT !.owed = <<>>, !.batch = "aborted"]
      ELSE LET i == CHOOSE j \in syncs : \A k \in syncs : j <= k
           IN  [d EXCEPT !.owed = SubSeq(@, i, Len(@))]

Gets(d, kind) ==
  IF kind = "error" THEN GetsError(d)
  ELSE IF d.owed # <<>> /\ Head(d.owed) = kind THEN [d EXCEPT !.owed = Tail(@)]
  ELSE [d EXCEPT !.misordered = TRUE]
=============================================================================
