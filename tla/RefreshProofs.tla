---------------------------- MODULE RefreshProofs ----------------------------
(***************************************************************************)
(* Proofs about TopologyRefresh, for any clusters, nodes and configuration *)
(* files, any number of reloads whose refreshes run beside each other and  *)
(* the loop's, and whatever the nodes answer when they are probed.         *)
(***************************************************************************)
EXTENDS TopologyRefresh, TLAPS

-----------------------------------------------------------------------------
(* What a round of probes finds                                            *)

\* A finding is a topology in which no replica is unreachable.
LEMMA DiscoveredSound ==
  ASSUME NEW report, NEW t \in Discovered(report)
  PROVE  /\ t \in Topology
         /\ t.replicas \cap t.unreachable = {}
<1>1. /\ Answering(report, "primary") \subseteq Nodes
      /\ Answering(report, "replica") \subseteq Nodes
      /\ Answering(report, "unreachable") \subseteq Nodes
      /\ Answering(report, "replica") \cap Answering(report, "unreachable") = {}
  BY DEF Answering
<1> QED  BY <1>1 DEF Discovered, Topology

Sound(t) == t \in Topology /\ t.replicas \cap t.unreachable = {}

\* Every node that loses its role in a commit is due to be drained.
LEMMA LosersAreDue ==
  ASSUME NEW prev, prev # None => Sound(prev),
         NEW new, Sound(new), Committed(prev, new) # None
  PROVE  /\ Due(prev, new) \subseteq Nodes
         /\ Losers(prev, Committed(prev, new)) \subseteq Due(prev, new)
         /\ Sound(Committed(prev, new))
<1>1. CASE prev = None
  BY <1>1 DEF Due, Losers, Committed
<1>2. CASE prev # None /\ AllProbesFailed(new)
  BY <1>2 DEF Due, Losers, Committed, Sound
<1>3. CASE prev # None /\ ~AllProbesFailed(new)
  <2>1. Committed(prev, new) = new /\ Due(prev, new) = ChangedNodes(prev, new)
    BY <1>3 DEF Committed, Due
  <2>2. ChangedNodes(prev, new) \subseteq Nodes
    BY <1>3 DEF ChangedNodes, Sound, Topology
  <2>3. Losers(prev, new) \subseteq ChangedNodes(prev, new)
    BY <1>3 DEF Losers, ChangedNodes, Sound
  <2> QED  BY <2>1, <2>2, <2>3
<1> QED  BY <1>1, <1>2, <1>3

LEMMA MembersType ==
  ASSUME NEW t \in Topology  PROVE Members(t) \subseteq Nodes
  BY DEF Members, Topology

-----------------------------------------------------------------------------
(* The inductive invariant                                                 *)

Resting == {"free", "sleep", "warm_up"}

\* A refresher drops what it has to drain only when it has drained it, and
\* collects more only while it refreshes.
RefreshInv ==
  /\ TypeOK
  /\ \A cl \in Clusters : topology[cl] # None => Sound(topology[cl])
  /\ \A r \in Refreshers : stage[r] \in Resting => drains[r] = {}
  /\ \A r \in Refreshers :
       probing[r] # None => stage[r] = "refresh" /\ probing[r] \in left[r]
  /\ FormerIsDrained

LEMMA RefreshInit == Init => RefreshInv
<1> SUFFICES ASSUME Init PROVE RefreshInv
  OBVIOUS
<1>1. \A cl \in Clusters : topology[cl] # None => Sound(topology[cl])
  BY DiscoveredSound DEF Init, Sound
<1>2. topology \in [Clusters -> Topology \cup {None}]
  BY DEF Init
<1>3. TypeOK
  BY <1>2, RefreshAssumption DEF Init, TypeOK, Refreshers
<1> QED  BY <1>1, <1>3 DEF Init, RefreshInv, FormerIsDrained, Resting, Refreshers

\* A refresher that rests begins a refresh.
LEMMA BeginKeeps ==
  ASSUME RefreshInv, NEW r \in Refreshers, stage[r] \in Resting, Begin(r),
         config' \in Files, UNCHANGED <<worldVars, topology, former>>
  PROVE  RefreshInv'
<1>1. DOMAIN config'.nodes \subseteq Clusters
  BY RefreshAssumption
<1>2. TypeOK'
  BY <1>1 DEF RefreshInv, TypeOK, Begin, worldVars
<1>3. \A q \in Refreshers : drains'[q] = drains[q]
  BY DEF RefreshInv, TypeOK, Begin
<1>4. FormerIsDrained'
  BY <1>3 DEF RefreshInv, FormerIsDrained
<1>5. probing[r] = None
  BY DEF RefreshInv, Resting
<1> QED  BY <1>2, <1>3, <1>4, <1>5 DEF RefreshInv, TypeOK, Begin, Resting

LEMMA SighupKeeps ==
  ASSUME RefreshInv, Sighup  PROVE RefreshInv'
<1>1. config' \in Files
  BY DEF RefreshInv, TypeOK, Sighup, Reloaded, Outcome
<1>2. CASE Outcome(file, config) = "success"
  <2>1. PICK r \in ReloadTasks : stage[r] = "free" /\ Begin(r)
    BY <1>2 DEF Sighup
  <2> QED  BY <1>1, <2>1, BeginKeeps DEF Sighup, Resting, Refreshers
<1>3. CASE Outcome(file, config) # "success"
  BY <1>1, <1>3 DEF Sighup, RefreshInv, TypeOK, FormerIsDrained, refreshVars, worldVars
<1> QED  BY <1>2, <1>3

LEMMA CommitKeeps ==
  ASSUME RefreshInv, NEW r \in Refreshers, Commit(r)  PROVE RefreshInv'
<1> DEFINE cl == probing[r]
           prev == topology[cl]
<1>1. PICK new \in Discovered(answers[r]) :
        /\ topology' = [topology EXCEPT ![cl] = Committed(@, new)]
        /\ drains' = [drains EXCEPT ![r] = @ \cup Due(topology[cl], new)]
        /\ former' = former \cup Losers(topology[cl], topology'[cl])
  BY DEF Commit
<1>2. cl \in Clusters /\ stage[r] = "refresh" /\ probing[r] \in left[r]
  BY DEF Commit, RefreshInv, TypeOK
<1>3. Sound(new) /\ new # None
  BY <1>1, DiscoveredSound, RefreshAssumption DEF Sound
<1>4. prev # None => Sound(prev)
  BY <1>2 DEF RefreshInv
<1>5. Committed(prev, new) # None
  BY <1>3 DEF Committed
<1>6. /\ Due(prev, new) \subseteq Nodes
      /\ Losers(prev, Committed(prev, new)) \subseteq Due(prev, new)
      /\ Sound(Committed(prev, new))
  BY <1>3, <1>4, <1>5, LosersAreDue
<1>7. topology'[cl] = Committed(prev, new)
  BY <1>1, <1>2 DEF RefreshInv, TypeOK
<1>8. /\ former' = former \cup Losers(prev, Committed(prev, new))
      /\ drains'[r] = drains[r] \cup Due(prev, new)
      /\ \A q \in Refreshers : drains[q] \subseteq drains'[q]
      /\ \A q \in Refreshers \ {r} : drains'[q] = drains[q]
  BY <1>1, <1>7 DEF RefreshInv, TypeOK
<1>9. TypeOK'
  <2>1. Committed(prev, new) \in Topology
    BY <1>6 DEF Sound
  <2>2. topology' \in [Clusters -> Topology \cup {None}]
    BY <1>1, <1>2, <2>1 DEF RefreshInv, TypeOK
  <2>3. drains' \in [Refreshers -> SUBSET Nodes]
    BY <1>1, <1>6 DEF RefreshInv, TypeOK
  <2>4. former' \subseteq Nodes
    BY <1>6, <1>8 DEF RefreshInv, TypeOK
  <2> QED  BY <2>2, <2>3, <2>4 DEF Commit, RefreshInv, TypeOK, worldVars
<1>10. FormerIsDrained'
  BY <1>6, <1>8 DEF RefreshInv, FormerIsDrained
<1>11. \A d \in Clusters : topology'[d] # None => Sound(topology'[d])
  BY <1>1, <1>2, <1>6, <1>7 DEF RefreshInv, TypeOK
<1>12. \A q \in Refreshers : stage'[q] \in Resting => drains'[q] = {}
  BY <1>2, <1>8 DEF Commit, RefreshInv, Resting
<1>13. \A q \in Refreshers :
         probing'[q] # None => stage'[q] = "refresh" /\ probing'[q] \in left'[q]
  BY DEF Commit, RefreshInv, TypeOK
<1> QED  BY <1>9, <1>10, <1>11, <1>12, <1>13 DEF RefreshInv

LEMMA PruneKeeps ==
  ASSUME RefreshInv, NEW r \in Refreshers, Prune(r)  PROVE RefreshInv'
<1> DEFINE gone == {cl \in Clusters \ DOMAIN snapshot[r].nodes : topology[cl] # None}
           lost == UNION {Members(topology[cl]) : cl \in gone}
<1>1. lost \subseteq Nodes
  BY MembersType DEF RefreshInv, Sound
<1>2. /\ topology' = [cl \in Clusters |-> IF cl \in gone THEN None ELSE topology[cl]]
      /\ drains' = [drains EXCEPT ![r] = @ \cup lost]
      /\ former' = former \cup lost
      /\ stage[r] = "refresh" /\ left[r] = {}
      /\ stage' = [stage EXCEPT ![r] = "drain"]
  BY DEF Prune
<1> HIDE DEF gone, lost
<1>3. TypeOK'
  BY <1>1, <1>2 DEF Prune, RefreshInv, TypeOK, worldVars
<1>4. FormerIsDrained'
  BY <1>2 DEF RefreshInv, TypeOK, FormerIsDrained
<1>5. \A cl \in Clusters : topology'[cl] # None => Sound(topology'[cl])
  BY <1>2 DEF RefreshInv
<1>6. probing[r] = None
  BY <1>2 DEF RefreshInv
<1>7. \A q \in Refreshers : stage'[q] \in Resting => drains'[q] = {}
  BY <1>2 DEF RefreshInv, TypeOK, Resting
<1>8. \A q \in Refreshers :
        probing'[q] # None => stage'[q] = "refresh" /\ probing'[q] \in left'[q]
  BY <1>2, <1>6 DEF Prune, RefreshInv, TypeOK
<1> QED  BY <1>3, <1>4, <1>5, <1>7, <1>8 DEF RefreshInv

LEMMA RefreshKeeps ==
  ASSUME RefreshInv, NEW r \in Refreshers, Refresh(r)  PROVE RefreshInv'
<1>1. ASSUME NEW cl \in Clusters, Discover(r, cl)
      PROVE  RefreshInv'
  BY <1>1 DEF Discover, RefreshInv, TypeOK, FormerIsDrained, worldVars
<1>2. ASSUME NEW n \in Nodes, Probe(r, n)
      PROVE  RefreshInv'
  BY <1>2 DEF Probe, RefreshInv, TypeOK, FormerIsDrained, worldVars
<1>3. ASSUME NEW n \in Nodes, DrainNode(r, n)
      PROVE  RefreshInv'
  <2>1. TypeOK'
    BY <1>3 DEF DrainNode, RefreshInv, TypeOK, worldVars
  <2>2. FormerIsDrained'
    BY <1>3 DEF DrainNode, RefreshInv, TypeOK, FormerIsDrained
  <2> QED  BY <1>3, <2>1, <2>2 DEF DrainNode, RefreshInv, TypeOK, Resting
<1>4. ASSUME EndDrains(r)
      PROVE  RefreshInv'
  BY <1>4 DEF EndDrains, RefreshInv, TypeOK, FormerIsDrained, worldVars, Resting
<1>5. ASSUME WarmUp(r)
      PROVE  RefreshInv'
  BY <1>5 DEF WarmUp, RefreshInv, TypeOK, FormerIsDrained, worldVars, Resting
<1> QED  BY <1>1, <1>2, <1>3, <1>4, <1>5, CommitKeeps, PruneKeeps DEF Refresh

LEMMA RefreshStep ==
  ASSUME RefreshInv, [Next]_vars  PROVE RefreshInv'
<1>1. ASSUME Change
      PROVE  RefreshInv'
  <2>1. world' \in ProbeReport /\ file' \in Files \cup {Broken} /\ changes' \in 0 .. MaxChanges
    BY <1>1, RefreshAssumption DEF Change, RefreshInv, TypeOK
  <2> QED  BY <1>1, <2>1 DEF Change, RefreshInv, TypeOK, FormerIsDrained, refreshVars
<1>2. ASSUME Tick
      PROVE  RefreshInv'
  BY <1>2, BeginKeeps DEF Tick, RefreshInv, TypeOK, Resting, Refreshers
<1>3. ASSUME UNCHANGED vars
      PROVE  RefreshInv'
  BY <1>3 DEF vars, worldVars, refreshVars, RefreshInv, TypeOK, FormerIsDrained
<1> QED  BY <1>1, <1>2, <1>3, SighupKeeps, RefreshKeeps DEF Next

\* However many reloads, refreshes and failovers interleave, every node that has
\* lost its role or its cluster is on the list of a refresh that will drain it.
THEOREM DrainsHold == Spec => []FormerIsDrained
<1>1. Init => RefreshInv
  BY RefreshInit
<1>2. RefreshInv /\ [Next]_vars => RefreshInv'
  BY RefreshStep
<1>3. RefreshInv => FormerIsDrained
  BY DEF RefreshInv
<1> QED  BY <1>1, <1>2, <1>3, PTL DEF Spec

-----------------------------------------------------------------------------
(* Fields bound at startup                                                 *)

LEMMA FirstOfEight ==
  ASSUME NEW S \in SUBSET (1 .. 8), S # {}
  PROVE  \E i \in S : \A k \in S : i <= k
<1> SUFFICES ASSUME \A i \in S : \E k \in S : k < i
             PROVE  FALSE
  OBVIOUS
<1>1. 1 \notin S  OBVIOUS
<1>2. 2 \notin S  BY <1>1
<1>3. 3 \notin S  BY <1>1, <1>2
<1>4. 4 \notin S  BY <1>1, <1>2, <1>3
<1>5. 5 \notin S  BY <1>1, <1>2, <1>3, <1>4
<1>6. 6 \notin S  BY <1>1, <1>2, <1>3, <1>4, <1>5
<1>7. 7 \notin S  BY <1>1, <1>2, <1>3, <1>4, <1>5, <1>6
<1>8. 8 \notin S  BY <1>1, <1>2, <1>3, <1>4, <1>5, <1>6, <1>7
<1>9. PICK i \in S : i \in 1 .. 8
  OBVIOUS
<1>10. i = 1 \/ i = 2 \/ i = 3 \/ i = 4 \/ i = 5 \/ i = 6 \/ i = 7 \/ i = 8
  BY <1>9
<1> QED  BY <1>1, <1>2, <1>3, <1>4, <1>5, <1>6, <1>7, <1>8, <1>9, <1>10

\* A reload that succeeds leaves the startup fields as they are.
LEMMA SuccessKeepsStartup ==
  ASSUME NEW old \in Files, NEW new \in Files, RequiresRestart(old, new) = {}
  PROVE  new.startup = old.startup
<1>1. Len(StartupFields) = 8
  BY DEF StartupFields
<1>2. Differing(old, new) = {}
  <2>1. Differing(old, new) \in SUBSET (1 .. 8)
    BY <1>1 DEF Differing
  <2>2. ASSUME Differing(old, new) # {}
        PROVE  FALSE
    <3>1. PICK i \in Differing(old, new) : \A k \in Differing(old, new) : i <= k
      BY <2>1, <2>2, FirstOfEight
    <3>2. StartupFields[i] \in RequiresRestart(old, new)
      BY <3>1 DEF RequiresRestart
    <3> QED  BY <3>2
  <2> QED  BY <2>2
<1>3. \A i \in 1 .. Len(StartupFields) : old.startup[i] = new.startup[i]
  BY <1>2 DEF Differing
<1> QED  BY <1>3, ConfigAssumption

\* No sequence of reloads, however long, moves a field that was bound at startup.
THEOREM StartupHolds == Spec => []StartupFieldsKept
<1>1. Init => StartupFieldsKept
  BY DEF Init, StartupFieldsKept
<1>2. RefreshInv /\ StartupFieldsKept /\ [Next]_vars => StartupFieldsKept'
  <2> SUFFICES ASSUME RefreshInv, StartupFieldsKept, [Next]_vars
               PROVE  StartupFieldsKept'
    OBVIOUS
  <2>1. ASSUME config' = config
        PROVE  StartupFieldsKept'
    BY <2>1 DEF StartupFieldsKept
  <2>2. ASSUME Sighup, Outcome(file, config) = "success"
        PROVE  StartupFieldsKept'
    <3>1. config' = file /\ config \in Files /\ file \in Files
            /\ RequiresRestart(config, file) = {}
      BY <2>2 DEF Sighup, Reloaded, Outcome, RefreshInv, TypeOK
    <3> QED  BY <3>1, SuccessKeepsStartup DEF StartupFieldsKept
  <2>3. ASSUME Sighup, Outcome(file, config) # "success"
        PROVE  config' = config
    BY <2>3 DEF Sighup, Reloaded
  <2>4. ASSUME NEW r \in Refreshers, Refresh(r)
        PROVE  config' = config
    BY <2>4 DEF Refresh, Discover, Probe, DrainNode, Commit, Prune, EndDrains, WarmUp
  <2>5. ASSUME Change \/ Tick \/ UNCHANGED vars
        PROVE  config' = config
    BY <2>5 DEF Change, Tick, vars
  <2> QED  BY <2>1, <2>2, <2>3, <2>4, <2>5 DEF Next
<1>3. Init => RefreshInv
  BY RefreshInit
<1>4. RefreshInv /\ [Next]_vars => RefreshInv'
  BY RefreshStep
<1> QED  BY <1>1, <1>2, <1>3, <1>4, PTL DEF Spec
=============================================================================
