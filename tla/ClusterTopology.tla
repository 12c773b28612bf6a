--------------------------- MODULE ClusterTopology ---------------------------
(***************************************************************************)
(* What one topology probe of a cluster yields (topology/mod.rs) and how   *)
(* the rest of the pooler reads it: the role of a node, and the nodes      *)
(* whose idle connections a refresh must drain.  Constant-level operators  *)
(* only: the variables that hold a topology live in the modules that       *)
(* extend this one.                                                        *)
(***************************************************************************)
CONSTANTS
  Nodes,   \* upstream addresses listed under [cluster.<name>].nodes
  NoNode   \* "no primary"

ASSUME NoNodeIsNoNode == NoNode \notin Nodes

\* pool::types::Routing, also the two roles that carry a connection limit.
Routing == {"primary", "replica"}

\* struct ClusterTopology.
Topology == [primary : Nodes \cup {NoNode},
             replicas : SUBSET Nodes,
             unreachable : SUBSET Nodes]

\* What the probe of each node answered: pg_is_in_recovery() false or true,
\* or an error or a timeout.
ProbeReport == [Nodes -> {"primary", "replica", "unreachable"}]

Answering(report, answer) == {n \in Nodes : report[n] = answer}

\* discover_cluster: probes end in any order and the last node that answers
\* "not in recovery" becomes the primary; the others of a split brain are in
\* none of the three lists.
Discovered(report) ==
  LET primaries == Answering(report, "primary")
  IN  [primary : IF primaries = {} THEN {NoNode} ELSE primaries,
       replicas : {Answering(report, "replica")},
       unreachable : {Answering(report, "unreachable")}]

\* The guard under which refresh keeps the previous topology.
AllProbesFailed(topology) == topology.primary = NoNode /\ topology.replicas = {}

\* The nodes refresh returns for draining.
ChangedNodes(prev, new) ==
  (IF prev.primary # new.primary THEN {prev.primary, new.primary} \ {NoNode} ELSE {})
    \cup (new.unreachable \ prev.unreachable)

\* role_for_node.
RoleOf(topology, n) ==
  IF n = topology.primary THEN "primary"
  ELSE IF n \in topology.replicas THEN "replica"
  ELSE "unknown"
=============================================================================
