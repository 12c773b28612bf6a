------------------------------- MODULE MCPool -------------------------------
(***************************************************************************)
(* Small instances of Pool for TLC.                                        *)
(***************************************************************************)
EXTENDS PoolLease, TLC

CONSTANTS n1, n2, u1, u2, c1, c2, c3

\* Clients c1 and c2 are of user u1, c3 is of u2 if there is one.
MCUserOf == [c \in Clients |-> IF c = c3 /\ u2 \in Users THEN u2 ELSE u1]
Symmetry == Permutations(Conns) \cup Permutations({c1, c2})

\* One connection on the primary, one on each replica.
OneEach == [r \in Routing |-> 1]
TwoOnPrimary == [primary |-> 2, replica |-> 1]
LimitOne == [u \in Users |-> OneEach]
NoMin == [u \in Users |-> [r \in Routing |-> 0]]
MinOne == [u \in Users |-> [primary |-> 1, replica |-> 0]]

\* Probe outcomes: n1 or n2 the primary and the other a replica or gone, and no
\* primary at all.
PrimaryN1 == [n \in Nodes |-> IF n = n1 THEN "primary" ELSE "replica"]
PrimaryN2 == [n \in Nodes |-> IF n = n2 THEN "primary" ELSE "replica"]
LostN1 == [n \in Nodes |-> IF n = n1 THEN "unreachable" ELSE "primary"]
LostPrimary == [n \in Nodes |-> IF n = n1 THEN "replica" ELSE "unreachable"]
Failover == {LostN1, PrimaryN2, LostPrimary}
NoReports == {}
=============================================================================
