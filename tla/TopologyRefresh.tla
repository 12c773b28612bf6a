--------------------------- MODULE TopologyRefresh ---------------------------
(***************************************************************************)
(* TopologyManager under the tasks that refresh it at the same time: the   *)
(* first refresh, run_loop, and the task each SIGHUP reload spawns         *)
(* (topology/mod.rs, the SIGHUP branch of main.rs).  A refresh works from  *)
(* the configuration it has read at its start, awaits the probes of one    *)
(* cluster after another, and commits each under the lock of the state, so *)
(* two refreshes, a reload and the world all move between its steps.       *)
(***************************************************************************)
EXTENDS ClusterTopology, Config, FiniteSets

CONSTANTS
  Clusters,
  BootFile,      \* the configuration at startup
  ReloadTasks,   \* tasks that successful reloads spawn; a finished one is free again
  BootWorld,     \* the roles the nodes play at startup
  Worlds,        \* the roles they may play later
  MaxChanges,    \* bound on the changes of the world and of the file
  None           \* no topology for a cluster

ASSUME RefreshAssumption ==
  /\ BootFile \in Files
  /\ BootWorld \in ProbeReport /\ Worlds \subseteq ProbeReport
  /\ \A f \in Files : DOMAIN f.nodes \subseteq Clusters
  /\ None \notin Topology
  /\ MaxChanges \in Nat

Refreshers == {"loop"} \cup ReloadTasks

VARIABLES
  file,      \* the configuration on disk
  config,    \* the ArcSwap
  world,     \* what pg_is_in_recovery() would answer, per node
  changes,   \* changes of the world and the file so far
  topology,  \* TopologyManager.state: None where the map has no entry
  stage,     \* program counter of each refresher
  snapshot,  \* cfg: the configuration its refresh has read
  left,      \* clusters the refresh has not finished
  probing,   \* the cluster whose probes are in flight, or None
  answers,   \* what the nodes probed have answered
  drains,    \* changed_nodes: collected, then drained one by one
  former     \* (history) nodes that have lost a role and not been drained since

refreshVars == <<stage, snapshot, left, probing, answers, drains>>
worldVars == <<file, world, changes>>
vars == <<worldVars, config, topology, refreshVars, former>>

Unanswered == [n \in Nodes |-> "unknown"]


\* What the nodes of a cluster would answer.
Roles(cfg, w, cl) == [n \in Nodes |-> IF n \in cfg.nodes[cl] THEN w[n] ELSE "unknown"]

TypeOK ==
  /\ file \in Files \cup {Broken}
  /\ config \in Files
  /\ world \in ProbeReport
  /\ changes \in 0 .. MaxChanges
  /\ topology \in [Clusters -> Topology \cup {None}]
  /\ stage \in [Refreshers -> {"free", "sleep", "refresh", "drain", "warm_up"}]
  /\ snapshot \in [Refreshers -> Files]
  /\ left \in [Refreshers -> SUBSET Clusters]
  /\ probing \in [Refreshers -> Clusters \cup {None}]
  /\ drains \in [Refreshers -> SUBSET Nodes]
  /\ former \subseteq Nodes

\* main has awaited a first refresh before any other task exists.
Init ==
  /\ file = BootFile
  /\ config = BootFile
  /\ world = BootWorld
  /\ changes = 0
  /\ topology \in {t \in [Clusters -> Topology \cup {None}] :
       \A cl \in Clusters :
         IF cl \in DOMAIN BootFile.nodes
         THEN t[cl] \in Discovered(Roles(BootFile, BootWorld, cl)) ELSE t[cl] = None}
  /\ stage = [r \in Refreshers |-> IF r = "loop" THEN "sleep" ELSE "free"]
  /\ snapshot = [r \in Refreshers |-> BootFile]
  /\ left = [r \in Refreshers |-> {}]
  /\ probing = [r \in Refreshers |-> None]
  /\ answers = [r \in Refreshers |-> Unanswered]
  /\ drains = [r \in Refreshers |-> {}]
  /\ former = {}

-----------------------------------------------------------------------------
(* The world                                                               *)

Change ==
  /\ changes < MaxChanges
  /\ changes' = changes + 1
  /\ \/ world' \in Worlds \ {world} /\ file' = file
     \/ file' \in (Files \cup {Broken}) \ {file} /\ world' = world
  /\ UNCHANGED <<config, topology, refreshVars, former>>

-----------------------------------------------------------------------------
(* A refresh                                                               *)

Begin(r) ==
  /\ stage' = [stage EXCEPT ![r] = "refresh"]
  /\ snapshot' = [snapshot EXCEPT ![r] = config']
  /\ left' = [left EXCEPT ![r] = DOMAIN config'.nodes]
  /\ drains' = [drains EXCEPT ![r] = {}]
  /\ UNCHANGED <<probing, answers>>

\* run_loop: the interval has passed.
Tick ==
  /\ stage["loop"] = "sleep"
  /\ config' = config
  /\ Begin("loop")
  /\ UNCHANGED <<worldVars, topology, former>>

\* SIGHUP: reload_config, and on success the spawned task.
Sighup ==
  /\ config' = Reloaded(file, config)
  /\ IF Outcome(file, config) = "success"
     THEN \E r \in ReloadTasks : stage[r] = "free" /\ Begin(r)
     ELSE UNCHANGED refreshVars
  /\ UNCHANGED <<worldVars, topology, former>>

\* discover_cluster spawns a probe per node of the next cluster ...
Discover(r, cl) ==
  /\ stage[r] = "refresh"
  /\ probing[r] = None
  /\ cl \in left[r]
  /\ probing' = [probing EXCEPT ![r] = cl]
  /\ answers' = [answers EXCEPT ![r] = Unanswered]
  /\ UNCHANGED <<worldVars, config, topology, stage, snapshot, left, drains, former>>

ToProbe(r) == {n \in snapshot[r].nodes[probing[r]] : answers[r][n] = "unknown"}

\* ... and check_node reads the role each plays at that moment.
Probe(r, n) ==
  /\ probing[r] # None
  /\ n \in ToProbe(r)
  /\ answers' = [answers EXCEPT ![r][n] = world[n]]
  /\ UNCHANGED <<worldVars, config, topology, stage, snapshot, left, probing,
                 drains, former>>

\* Mutant: what was known is kept, whatever was found.
CommittedFirst(prev, new) == IF prev # None THEN prev ELSE new

\* What the state holds after the commit of one cluster's findings.
Committed(prev, new) ==
  IF prev # None /\ AllProbesFailed(new) THEN prev ELSE new

\* Mutant: only the new primary is drained.
DueNew(prev, new) ==
  IF prev = None \/ AllProbesFailed(new) THEN {}
  ELSE ChangedNodes(prev, new) \ {prev.primary}

Due(prev, new) ==
  IF prev = None \/ AllProbesFailed(new) THEN {} ELSE ChangedNodes(prev, new)

\* (history) The old primary, and replicas that cannot be reached any more.
Losers(prev, new) ==
  IF prev = None THEN {}
  ELSE ({prev.primary} \ {new.primary, NoNode}) \cup (prev.replicas \cap new.unreachable)

\* All probes have ended: the findings are committed under the lock.
Commit(r) ==
  /\ probing[r] # None
  /\ ToProbe(r) = {}
  /\ LET cl == probing[r]
     IN  \E new \in Discovered(answers[r]) :
           /\ topology' = [topology EXCEPT ![cl] = Committed(@, new)]
           /\ drains' = [drains EXCEPT ![r] = @ \cup Due(topology[cl], new)]
           /\ former' = former \cup Losers(topology[cl], topology'[cl])
  /\ left' = [left EXCEPT ![r] = @ \ {probing[r]}]
  /\ probing' = [probing EXCEPT ![r] = None]
  /\ UNCHANGED <<worldVars, config, stage, snapshot, answers>>

Members(t) == (({t.primary} \ {NoNode}) \cup t.replicas) \cup t.unreachable

\* The entries of clusters this refresh's configuration does not have go, and
\* their nodes are to be drained.
Prune(r) ==
  LET gone == {cl \in Clusters \ DOMAIN snapshot[r].nodes : topology[cl] # None}
  IN /\ stage[r] = "refresh"
     /\ left[r] = {}
     /\ topology' = [cl \in Clusters |-> IF cl \in gone THEN None ELSE topology[cl]]
     /\ drains' = [drains EXCEPT
          ![r] = @ \cup UNION {Members(topology[cl]) : cl \in gone}]
     /\ former' = former \cup UNION {Members(topology[cl]) : cl \in gone}
     /\ stage' = [stage EXCEPT ![r] = "drain"]
     /\ UNCHANGED <<worldVars, config, snapshot, left, probing, answers>>

\* PoolManager::drain_node, for one node of the list.
DrainNode(r, n) ==
  /\ stage[r] = "drain"
  /\ n \in drains[r]
  /\ drains' = [drains EXCEPT ![r] = @ \ {n}]
  /\ former' = former \ {n}
  /\ UNCHANGED <<worldVars, config, topology, stage, snapshot, left, probing, answers>>

\* The loop sleeps again; a reload goes on to warm_up.
EndDrains(r) ==
  /\ stage[r] = "drain"
  /\ drains[r] = {}
  /\ stage' = [stage EXCEPT ![r] = IF r = "loop" THEN "sleep" ELSE "warm_up"]
  /\ UNCHANGED <<worldVars, config, topology, snapshot, left, probing, answers,
                 drains, former>>

\* warm_up opens connections to the nodes the topology names at this moment.
WarmUp(r) ==
  /\ stage[r] = "warm_up"
  /\ stage' = [stage EXCEPT ![r] = "free"]
  /\ UNCHANGED <<worldVars, config, topology, snapshot, left, probing, answers,
                 drains, former>>

-----------------------------------------------------------------------------

Refresh(r) ==
  \/ \E cl \in Clusters : Discover(r, cl)
  \/ \E n \in Nodes : Probe(r, n) \/ DrainNode(r, n)
  \/ Commit(r) \/ Prune(r) \/ EndDrains(r) \/ WarmUp(r)

Next ==
  \/ Change \/ Tick \/ Sighup
  \/ \E r \in Refreshers : Refresh(r)

Spec == Init /\ [][Next]_vars

\* The loop's timer fires, and probes end: each has a timeout.
FairSpec == Spec /\ WF_vars(Tick) /\ \A r \in Refreshers : WF_vars(Refresh(r))

-----------------------------------------------------------------------------
(* Properties                                                              *)

\* However reloads, refreshes and failovers interleave, a node that was demoted,
\* cannot be reached any more or has lost its cluster is drained by some refresh
\* that has not ended: "Returns a list of node addresses whose role changed
\* (should be drained)", topology/mod.rs:77.
FormerIsDrained ==
  \A n \in former : \E r \in Refreshers : n \in drains[r]

\* No sequence of reloads changes a field that was bound at startup.
StartupFieldsKept == config.startup = BootFile.startup

Accurate(cl) ==
  IF cl \notin DOMAIN config.nodes THEN topology[cl] = None
  ELSE \E t \in Discovered(Roles(config, world, cl)) : AllProbesFailed(t) \/ topology[cl] = t

\* When the nodes and the file change no more, the topology comes to describe
\* the clusters of the live configuration as they are: a refresh that was slow
\* and commits old findings, or an old configuration, is made good.
Converges == <>[](\A cl \in Clusters : Accurate(cl))
=============================================================================
