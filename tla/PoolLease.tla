----------------------------- MODULE PoolLease -----------------------------
(***************************************************************************)
(* Pool implements ConnLease: where an id is in the pool's collections is  *)
(* its phase, and the client whose guard or claim names it is its holder.  *)
(***************************************************************************)
EXTENDS Pool

CONSTANT NoClient

ASSUME LeaseAssumption == NoClient \notin Clients

phase ==
  [id \in Conns |->
     IF \E k \in Keys : id \in active[k] THEN "leased"
     ELSE IF \E k \in Keys : id \in resetting[k] THEN "cleaning"
     ELSE IF \E k \in Keys : id \in idle[k] THEN "available"
     ELSE "closed"]

HolderOf(id, c) == Holds(c) /\ guard[c].conn = id

holder ==
  [id \in Conns |->
     IF \E c \in Clients : HolderOf(id, c)
     THEN CHOOSE c \in Clients : HolderOf(id, c)
     ELSE NoClient]

Lease == INSTANCE ConnLease WITH phase <- phase, holder <- holder

\* No interleaving of checkouts, returns, resets, evictions, refills and drains
\* passes a connection from one client to another without a finished reset, or
\* lends it to two.
CleanedBetweenClients == Lease!Spec
=============================================================================
