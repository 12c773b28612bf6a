----------------------------- MODULE MCListener -----------------------------
(***************************************************************************)
(* Small instances of Listener for TLC.                                    *)
(***************************************************************************)
EXTENDS Listener

CONSTANTS c1, c2, p1, p2, a
=============================================================================
