------------------------------ MODULE MCProxy ------------------------------
(***************************************************************************)
(* Small instances of Proxy for TLC.                                       *)
(***************************************************************************)
EXTENDS Proxy, TLC

CONSTANTS c1, c2, x1, x2, q1, q2, v1, s1, s2

Symmetry == Permutations(Sessions) \cup Permutations(Names)

ExtendedRequests == {"parse", "bind", "portal", "close", "deallocate", "sync"}
=============================================================================
