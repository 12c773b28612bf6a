------------------------------ MODULE MCRefresh ------------------------------
(***************************************************************************)
(* A small instance of TopologyRefresh for TLC.                            *)
(***************************************************************************)
EXTENDS TopologyRefresh, TLC

CONSTANTS n1, n2, a, b

Same == [i \in 1 .. Len(StartupFields) |-> 0]

\* One cluster of two nodes; two clusters of one node each; another log level.
Together == [startup |-> Same, nodes |-> a :> {n1, n2}]
Apart == [startup |-> Same, nodes |-> a :> {n1} @@ b :> {n2}]
Relogged == [Apart EXCEPT !.startup[8] = 1]

MCFiles == {Together, Apart, Relogged}

MCBootWorld == n1 :> "primary" @@ n2 :> "replica"

MCWorlds == {MCBootWorld, n1 :> "replica" @@ n2 :> "primary",
             n1 :> "unreachable" @@ n2 :> "primary",
             n1 :> "unreachable" @@ n2 :> "unreachable"}
=============================================================================
