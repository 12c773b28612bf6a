----------------------------- MODULE ConnLease -----------------------------
(***************************************************************************)
(* What a pool promises about its server connections, with no queues,      *)
(* limits, locks or tasks: a connection is lent to one client at a time,   *)
(* and between two clients, or before it is available to any, its session  *)
(* is cleaned.  Connections may be opened, and closed, at any moment the   *)
(* client that holds one is not deprived of it.                            *)
(***************************************************************************)
CONSTANTS Conns, Clients, NoClient

VARIABLES
  phase,   \* life cycle of each connection
  holder   \* the client it is lent to

vars == <<phase, holder>>

Phase == {"closed", "leased", "cleaning", "available"}

Init ==
  /\ phase = [id \in Conns |-> "closed"]
  /\ holder = [id \in Conns |-> NoClient]

\* Several connections may be closed in the step that lends another.
Closed(gone) == [id \in Conns |-> IF id \in gone THEN "closed" ELSE phase[id]]
Available == {id \in Conns : phase[id] = "available"}

\* Lend an available connection or a new one, closing some that no one holds.
Lend ==
  \E c \in Clients, id \in Conns, gone \in SUBSET Available :
    /\ phase[id] \in {"available", "closed"}
    /\ \A other \in Conns : holder[other] # c
    /\ phase' = [Closed(gone) EXCEPT ![id] = "leased"]
    /\ holder' = [holder EXCEPT ![id] = c]

\* The holder gives it back to be cleaned, or it is closed under its hands.
Return ==
  \E id \in Conns, next \in {"cleaning", "closed"} :
    /\ phase[id] = "leased"
    /\ phase' = [phase EXCEPT ![id] = next]
    /\ holder' = [holder EXCEPT ![id] = NoClient]

Clean ==
  \E id \in Conns, next \in {"available", "closed"} :
    /\ phase[id] = "cleaning"
    /\ phase' = [phase EXCEPT ![id] = next]
    /\ UNCHANGED holder

\* A new connection is clean.
Open ==
  \E id \in Conns :
    /\ phase[id] = "closed"
    /\ phase' = [phase EXCEPT ![id] = "available"]
    /\ UNCHANGED holder

Close ==
  \E gone \in SUBSET Available : phase' = Closed(gone) /\ UNCHANGED holder

Next == Lend \/ Return \/ Clean \/ Open \/ Close

Spec == Init /\ [][Next]_vars
=============================================================================
