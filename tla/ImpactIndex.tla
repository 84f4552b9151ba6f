------------------------------ MODULE ImpactIndex ------------------------------
(***************************************************************************)
(* The impact store of a repository (impact_store.rs) and the daemon that  *)
(* fills it (hyperindex-daemon/src/impact.rs): a snapshot's first analysis *)
(* makes a build of it, from the build of an earlier snapshot where there  *)
(* is one; later analyses are answered from the stored build.              *)
(*                                                                         *)
(* Snapshots do not change once they are composed.  Their graphs do: the   *)
(* symbol index of a snapshot may be built again under a configuration     *)
(* that takes other files in.                                              *)
(***************************************************************************)
EXTENDS ImpactPlan

CONSTANTS
    Versions,      \* what a snapshot may hold: [program, package]
    Damaged,       \* a stored build that cannot be decoded
    Config,        \* configurations of the daemon, as the digest tells them apart
    Excluded,      \* sets of files that a symbol index may leave out
    MaxSnapshots,  \* bound: snapshots
    MaxFaults      \* bound: damage, failures and changes of configuration

\* What the symbol store has of a program when the symbol index leaves files out.
GraphWithout(p, excluded) == [f \in File |-> IF f \in excluded THEN <<>> ELSE p[f]]

ASSUME BoundsAssumption == MaxSnapshots \in Nat /\ MaxFaults \in Nat
ASSUME GraphAssumption == \A v \in Versions, x \in Excluded : GraphWithout(v.program, x) # None

VARIABLES
    snapshots,  \* the snapshots, in the order of their composition
    unreadable, \* snapshots whose manifest cannot be read any more
    graphs,     \* by snapshot, the program the symbol store has facts of, or None
    config,     \* configuration of the running daemon
    builds,     \* by snapshot, the stored build, Damaged or None
    outcome,    \* of the last analysis: [of, result]
    faults      \* damage, failures and changes of configuration so far

vars == <<snapshots, unreadable, graphs, config, builds, outcome, faults>>

Ids == DOMAIN snapshots
IsBuild(b) == b \notin {None, Damaged}
NoOutcome == [of |-> 0, result |-> "none"]

TypeOK ==
    /\ \A s \in Ids : snapshots[s] \in Versions
    /\ unreadable \subseteq Ids
    /\ DOMAIN graphs = Ids /\ DOMAIN builds = Ids
    /\ \A s \in Ids : IsBuild(builds[s]) =>
          /\ builds[s].config \in Config
          /\ DOMAIN builds[s].contributions \subseteq Present(snapshots[s].program)
    /\ config \in Config
    /\ outcome.of \in Ids \union {0}
    /\ outcome.result \in {"none", "not_ready", "answer", "error"}
    /\ faults \in 0..MaxFaults

Init ==
    /\ snapshots = <<>> /\ graphs = <<>> /\ builds = <<>>
    /\ unreadable = {}
    /\ config \in Config
    /\ outcome = NoOutcome
    /\ faults = 0

-----------------------------------------------------------------------------
(* Around the impact store                                                 *)

Compose(v) ==
    /\ Len(snapshots) < MaxSnapshots
    /\ snapshots' = Append(snapshots, v)
    /\ graphs' = Append(graphs, None)
    /\ builds' = Append(builds, None)
    /\ UNCHANGED <<unreadable, config, outcome, faults>>

\* The symbol index of a snapshot is built, without some files.
Index(s, excluded) ==
    /\ s \notin unreadable
    /\ graphs' = [graphs EXCEPT ![s] = GraphWithout(snapshots[s].program, excluded)]
    /\ outcome' = NoOutcome
    /\ UNCHANGED <<snapshots, unreadable, config, builds, faults>>

Fault == faults < MaxFaults /\ faults' = faults + 1

DamageManifest(s) ==
    /\ Fault
    /\ s \notin unreadable
    /\ unreadable' = unreadable \union {s}
    /\ outcome' = NoOutcome
    /\ UNCHANGED <<snapshots, graphs, config, builds>>

\* A stored row that cannot be decoded.
DamageBuild(s) ==
    /\ Fault
    /\ IsBuild(builds[s])
    /\ builds' = [builds EXCEPT ![s] = Damaged]
    /\ outcome' = NoOutcome
    /\ UNCHANGED <<snapshots, unreadable, graphs, config>>

\* The daemon is started again: another configuration, or another schema.
Configure(g) ==
    /\ Fault
    /\ g # config
    /\ config' = g
    /\ outcome' = NoOutcome
    /\ UNCHANGED <<snapshots, unreadable, graphs, builds>>

-----------------------------------------------------------------------------
(* analyze, ensure_build                                                   *)

\* previous_build_candidate: the newest other snapshot with a build that can
\* be read.
Previous(s) ==
    LET found == {t \in Ids \ {s} : IsBuild(builds[t])}
    IN  IF found = {} THEN 0 ELSE Max(found)

ChangedPaths(s, t) == {f \in File : snapshots[s].program[f] # snapshots[t].program[f]}

\* Mutant: what the diff names is all that is touched.
ByDiffOnly(s, t, fresh) ==
    [f \in DOMAIN fresh |->
        IF f \in ChangedPaths(s, t) \/ f \notin DOMAIN builds[t].contributions
        THEN fresh[f] ELSE builds[t].contributions[f]]

\* build_incremental, from the build of t.
Incremental(s, t, fresh) == Refreshed(ChangedPaths(s, t), builds[t].contributions, fresh)

\* What build_full makes of the snapshot.
Fresh(s) == AllContributions(graphs[s], snapshots[s].package)

\* Full builds are for what is damaged, has nothing before it, or has only
\* something of another configuration.
Contributions(s) ==
    LET previous == Previous(s)
        fresh == Fresh(s)
    IN  IF builds[s] = Damaged \/ previous = 0 \/ builds[previous].config # config
        THEN fresh ELSE Incremental(s, previous, fresh)

\* stored_build.
Build(s, contributions) ==
    [config |-> config, contributions |-> contributions,
     plan |-> Assemble(graphs[s], snapshots[s].package, contributions)]

\* The manifest of the snapshot to refresh from must be read.
CanRefresh(s) == builds[s] = Damaged \/ Previous(s) \notin unreadable

IsCurrent(s) == IsBuild(builds[s]) /\ builds[s].config = config

AnalyzeNotReady(s) ==
    /\ graphs[s] = None
    /\ outcome' = [of |-> s, result |-> "not_ready"]
    /\ UNCHANGED <<snapshots, unreadable, graphs, config, builds, faults>>

AnalyzeStored(s) ==
    /\ graphs[s] # None
    /\ IsCurrent(s)
    /\ outcome' = [of |-> s, result |-> "answer"]
    /\ UNCHANGED <<snapshots, unreadable, graphs, config, builds, faults>>

AnalyzeBuilding(s) ==
    /\ graphs[s] # None
    /\ ~IsCurrent(s) /\ CanRefresh(s)
    /\ builds' = [builds EXCEPT ![s] = Build(s, Contributions(s))]
    /\ outcome' = [of |-> s, result |-> "answer"]
    /\ UNCHANGED <<snapshots, unreadable, graphs, config, faults>>

\* The manifest of the previous snapshot, or persist_build, fails.
AnalyzeFailing(s) ==
    /\ graphs[s] # None
    /\ ~IsCurrent(s)
    /\ \/ ~CanRefresh(s) /\ UNCHANGED faults
       \/ Fault
    /\ outcome' = [of |-> s, result |-> "error"]
    /\ UNCHANGED <<snapshots, unreadable, graphs, config, builds>>

Analyze(s) ==
    /\ s \notin unreadable
    /\ AnalyzeNotReady(s) \/ AnalyzeStored(s) \/ AnalyzeBuilding(s) \/ AnalyzeFailing(s)

-----------------------------------------------------------------------------
(* impact_status, and hyperctl impact rebuild and doctor                   *)

\* The graph of the snapshot must load; nothing that is stored is looked at.
Rebuild(s) ==
    /\ s \notin unreadable /\ graphs[s] # None
    /\ builds' = [builds EXCEPT ![s] = Build(s, Fresh(s))]
    /\ outcome' = NoOutcome
    /\ UNCHANGED <<snapshots, unreadable, graphs, config, faults>>

\* ImpactService::status.
StatusState(s) ==
    IF graphs[s] = None THEN "not_ready"
    ELSE IF builds[s] = Damaged \/ (IsBuild(builds[s]) /\ builds[s].config # config) THEN "stale"
    ELSE "ready"

\* Mutant: files that the build knows nothing of are no issue.
IssuesOfFilesGone(s) ==
    {issue \in {"impact_build_graph_inconsistent"} :
        \E e \in builds[s].plan.symbols : e[2] \notin AllSymbols(graphs[s]) \/ e[1] \notin Present(graphs[s])}

\* inspect_build_against_graph.
GraphIssues(s) ==
    LET plan == builds[s].plan
        graph == graphs[s]
        known == AllSymbols(graph)
    IN  {issue \in {"stale_manifest_or_index"} : DOMAIN builds[s].contributions # Present(graph)}
        \union
        {issue \in {"impact_build_graph_inconsistent"} :
            \E e \in plan.symbols : e[2] \notin known \/ e[1] \notin Present(graph)}

\* inspect_local_impact_state.
Issues(s) ==
    {issue \in {"impact_prerequisite_missing"} : graphs[s] = None} \union
    {issue \in {"impact_build_missing"} : builds[s] = None} \union
    {issue \in {"impact_build_corrupt"} : builds[s] = Damaged} \union
    {issue \in {"impact_build_config_mismatch"} : IsBuild(builds[s]) /\ builds[s].config # config} \union
    (IF IsBuild(builds[s]) /\ graphs[s] # None THEN GraphIssues(s) ELSE {})

\* The issues for which the doctor says to rebuild.
RebuildIsAdvised(s) ==
    \/ "impact_build_missing" \in Issues(s) /\ graphs[s] # None
    \/ Issues(s) \intersect {"impact_build_corrupt", "impact_build_config_mismatch",
                             "impact_build_graph_inconsistent"} # {}

Next ==
    \/ \E v \in Versions : Compose(v)
    \/ \E g \in Config : Configure(g)
    \/ \E s \in Ids :
          \/ \E x \in Excluded : Index(s, x)
          \/ DamageManifest(s)
          \/ DamageBuild(s)
          \/ Analyze(s)
          \/ Rebuild(s)

Spec == Init /\ [][Next]_vars

-----------------------------------------------------------------------------
(* Properties                                                              *)

\* Whatever a build is made from, it is the one that a full build of the
\* snapshot makes: nothing of the earlier snapshot survives that the graph
\* does not say any more, though the file it comes from is the same.  What is
\* stored for a file, and the next refresh starts from, is as fresh.
RefreshIsRebuild ==
    [][\A s \in Ids : builds'[s] # builds[s] /\ IsBuild(builds'[s]) =>
          /\ builds'[s].plan = EnrichmentPlan(graphs[s], snapshots[s].package)
          /\ builds'[s].contributions = Fresh(s)]_vars

\* A build that is not what a full build of the symbol graph makes, because the
\* snapshot was indexed again, is something the doctor finds an issue with; and
\* what impact_status calls stale is something it would have rebuilt.
StaleIsNoticed ==
    [][\A s \in Ids' :
          /\ s \in Ids /\ graphs'[s] # graphs[s] /\ IsBuild(builds[s]) =>
                \/ builds[s].plan = EnrichmentPlan(graphs'[s], snapshots[s].package)
                \/ Issues(s)' # {}
          /\ StatusState(s)' = "stale" => RebuildIsAdvised(s)']_vars

=============================================================================
