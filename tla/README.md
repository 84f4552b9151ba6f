# HyperIndex in TLA+

TLA+ modules of the local runtime in `src/crates`: the `hyperd` daemon, the `hyperctl` commands and
the libraries both are built from. TLC checks the modules on small instances; TLAPS proves theorems
about eight of the twelve components for every instance. `PROJECT.json` names the source lines of every definition, the
hazards with the properties that cover them, and for every property a mutant of the code that breaks it.

## Inventory

| Component | State | Operations | Who calls it | Module |
|---|---|---|---|---|
| repo store (`hyperindex-repo-store`) | SQLite tables `repos`, `snapshot_manifests`, `buffers`; one JSON file per manifest; `repo-registry-backup.json` | open (restore, reindex), add, remove, purge, persist a manifest, set and clear a buffer | every daemon request, each through a connection of its own; `hyperctl` commands that open the store themselves; one `hyperd` per command with the stdio transport | `RepoStore` |
| daemon server, runtime artifacts (`hyperindex-daemon`) | `hyperd.pid`, `hyperd.sock`, the listener's backlog, the shutdown channel | start, accept one connection after the other, shut down, remove the files | `hyperctl daemon start`, supervisors | `DaemonLifecycle` |
| hyperctl client and daemon commands | none but the files above | exchange with retries and a time limit, `daemon start`, `status`, `stop`, removal of stale files | users, scripts | `DaemonLifecycle` |
| maintenance commands | the runtime directories | `doctor`, `cleanup`, `reset-runtime` | users | `DaemonLifecycle`, `RepoStore` |
| handlers, shared state, scheduler | jobs, watchers, error codes, all in memory | one handler per request | the server, one request at a time | `Requests` |
| git state, snapshot composition | none; the result is a manifest in the store | HEAD, status; compose, read a file, diff | the snapshot handlers, all indexes | `Snapshots` |
| watcher | last scan, pending events by path, `dropped_events` | scan, compare, merge, drain, flush | `hyperctl watch once` | `Watcher` |
| symbols of a program | none; facts and a graph made of the parse artifacts | extract, link, resolve, definitions, references, search | symbol handlers, semantic and impact builds, planner | `SymbolFacts`, `SymbolSearch`, `SymbolEdits` |
| parser and symbol index | parse cache and builds on disk, SQLite facts per snapshot, the indexed snapshots | parse, refresh incrementally or in full, load, doctor, rebuild | symbol handlers, `hyperctl symbol` | `SymbolIndex` |
| semantic index | SQLite chunks, vectors, embedding cache | chunk, embed, refresh, search, doctor, rebuild | semantic handlers, `hyperctl semantic` | `SemanticChunks`, `SemanticIndex`, `SemanticSearch` |
| impact analysis | enrichment plans, materialised builds | enrich in full or incrementally, walk from a target, doctor, rebuild | impact handlers, `hyperctl impact` | `ImpactPlan`, `ImpactIndex`, `ImpactWalk` |
| query planner | none; budgets and traces of one query | classify, route, execute, fuse, group | planner handlers | `PlannerIntent`, `Planner`, `PlannerFusion` |

How they interact: the server hands one request at a time to a handler; the handler opens the store,
calls git, the composition or an index, and persists the result. Each index is made from the one
before it: symbols from the files of a snapshot, chunks and impact plans from the symbols, and the
planner asks all three. Nothing but files, SQLite and the socket is shared between processes. Users
and editors change the repository at any time.

What is hard:

- *several processes*: two `hyperd`, a `hyperd` and a `hyperctl` that cleans up after it, a daemon
  and a command that opens the store by itself;
- *crashes*: no transaction spans a statement and a file, and most span one statement only;
- *stale reads*: HEAD, the status and the files of a repository are read one after the other, while
  they change; scans of the watcher likewise;
- *time limits*: a client gives up on a request that is handled later all the same;
- *merging*: events of one path, and candidates of one thing, are combined pairwise, under limits;
- *reuse*: parse artifacts, facts, chunks, vectors and contributions are taken over from other
  snapshots and configurations when something short says that they still fit;
- *many judges*: status, doctor and query decide by rules of their own whether an index is good.

## Modules

```
RegistryPromise <-- RepoStore <-- RepoStoreProofs          store, backup, manifests
DaemonLifecycle                                            pid file, socket, commands
Snapshots <-- SnapshotsProofs                              git, overlays, composition
Watcher <-- MCWatcher; Watcher <-- WatcherProofs           scans and events
Requests <-- MCRequests                                    handlers, jobs, shared state
DaemonLifecycle, Requests <-- DaemonProofs
SymbolFacts <-- SymbolSearch <-- SemanticChunks <-- SymbolEdits <-- MCSymbolEdits
SymbolFacts <-- ImpactPlan <-- ImpactIndex <-- MCImpactIndex
                ImpactPlan <-- ImpactWalk <-- MCImpactWalk
SymbolEdits, ImpactIndex, ImpactWalk <-- ProgramProofs
SymbolIndex <-- MCSymbolIndex                              parse cache, stored facts
SymbolIndex <-- SymbolIndexProofs
SemanticSearch <-- SemanticIndex <-- MCSemanticIndex       stored chunks and vectors
                   SemanticIndex <-- SemanticIndexProofs
PlannerLists <-- PlannerIntent, PlannerFusion <-- Planner <-- MCPlanner     one query
                                                  Planner <-- PlannerProofs
```

`<--` is EXTENDS, but for `RegistryPromise`, which `RepoStore` instantiates and is shown to implement.
Every module with variables has a `TypeOK` or says in the comments of its VARIABLES what they hold;
one run checks `TypeOK`, and the proofs of `RepoStore`, `Requests`, `SymbolIndex`, `ImpactIndex`,
`ImpactWalk` and `Watcher` establish theirs.

### RepoStore

State: the rows of `repos` with their `last_snapshot_id`, the rows of `snapshot_manifests` and
`buffers`, whether the file is damaged; the manifest files and the backup; and for every process
where it is in its request. One action per SQL statement and file operation, so that a process may
`Stop` between any two: the code opens no transaction. `OpenConnection` to `OpenDone` are
`RepoStore::open_from_config` with the quick check that puts a damaged database aside, the restore
from the backup and the indexing of manifests; `InsertRepo`, `DeleteRepo` to `PurgeDirDone`,
`RenameManifest` to `UpdateLastSnapshot`, `SetBuffer` and `ClearBuffer` the operations; `SyncList` and
`SyncWrite` the rewrite of the backup; `ResetDatabase` to `AnswerReset` the command `reset-runtime`.
`told` records what callers have been answered.

Abstractions: a snapshot id is the repository and a version of its contents; files are written to a
temporary name and renamed, so a file exists or does not; `reset-runtime` runs while nobody uses the
store (`DaemonLifecycle` is about when that is so).

`RegistryKept` says that the registry a caller gets by opening the store now implements
`RegistryPromise`: it changes by what callers ask for, one repository at a time, and not by opening,
restoring or reindexing.

### DaemonLifecycle

State: `pidFile` (who created it and the process id in it), `socket` (who bound it), per daemon the
place between `boot` and `dead`, its backlog and its shutdown channel; per command its place, the
stage of its exchange and the spawned child. Every system call on one of the two files is an action,
and a daemon may be killed anywhere. Creating the pid file and writing the id into it are two
actions, as are the CLI's look at a file and its removal. `Careful` tells whether commands are run
one at a time and never while a daemon is starting.

### Requests

State: rows, manifests and buffers as the handlers see them, and what the daemon keeps in memory:
watchers, jobs, error codes, the lifecycle. A handler is one step, because requests are served one
at a time; every call of a store, git or a watcher in it may fail, and what the handler has done by
then stays done. Two registers are history: `halfGone` (removals that failed after the row was
deleted) and `purged`. Repositories get their ids from their roots, so a repository that is added
again has its old id.

### Snapshots

State: HEAD, index and disk of one repository, the buffers, and the request in progress: the commit
it has read, git's status, the changed files still to be read, the overlay so far. `ReadHead`,
`ReadStatus`, `BuildBase`, `ReadChangedFile` and `Compose` follow `create_snapshot`; between those that
read the repository, `Write`, `Stage`, `Move` and `Commit` change it. `StatusLines` is what
`git status --porcelain=v1` prints in every such state, any maximal pairing of like files as renames
included; `ParsePorcelain` is how the code reads it. A content is a text with or without trailing
blanks, because the base is trimmed and the overlays are not, or something that is not text.

Two commits with equal files are one; submodules, merge conflicts, quoted names and links are left
out. Nobody else uses the buffers during a request: the daemon serves one at a time.

### Watcher

State: the files, the scan in progress, the scan before, the pending event of every path with its
age, and `known`: the files as seen by one who rereads, at each drain, every path its events name.
`StartScan` lists the directory, `Visit` reads one file, `Poll` compares, merges and drains, `Flush`
ends the watch. `DiffSnapshots` gives at most one raw event per path, as `diff_snapshots` does;
`PushRawBatch` pushes them one after the other in the order of the paths, because a full stream drops
what comes later. The debounce window is any number of polls, chosen anew for every poll, which covers
every setting and every delay of the thread. One directory is modelled; ignore patterns decide only
which files there are; two contents never have one fingerprint.

### SymbolFacts, SymbolSearch, SemanticChunks, SymbolEdits

A program is, by file, the sequence of its syntax nodes. `SymbolFacts` has what `facts.rs`,
`symbol_graph.rs` and `symbol_query.rs` make of it, as functions of the program: symbols and their
ids, imports and exports, the edges between files, the canonical symbol behind aliases, definitions,
references and the resolution of a place. `SymbolSearch` is the ranked search by name,
`SemanticChunks` what `chunker.rs` cuts a program into. `SymbolEdits` writes a program one node at a
time, anywhere, so that all small programs are met and consecutive ones can be compared. The grammar
is external: a text that it makes nothing of is a node `broken`, from which the fallback recovers an
exported function. Declaration kinds that are treated alike are one kind.

### SymbolIndex

State: the parse cache, `build.json` by snapshot and configuration, the facts and the
`indexed_snapshot_state` in SQLite, the request in progress. A parse build is an action per file;
building the index is `LoadSymbolGraph` (with the plan of the refresh), `PersistFacts` and
`RecordIndexedSnapshotState`, so that a stop falls between them. The doctor of `hyperctl symbol` and
the rebuild it advises are requests that carry its judgement. Facts are named by the content and
configuration they come from, not listed: `SymbolFacts` has them.

### SemanticIndex, SemanticSearch

A build is `LoadExisting`, `PlanBuild`, `EmbedChunks`, `ReuseChunks` and `PersistBuild`; embeddings are
cached before the build is stored, in one transaction. A file is one chunk with a text made of its
path, content and package name (`ChunksAreLocal` in `SymbolEdits` is what justifies keeping it);
`Embed` makes a vector that names the configuration and the text, so that one kept too long shows.
Status, doctor and query each have their own judgement, as in the code. `SemanticSearch` filters,
scores, orders and cuts.

### ImpactPlan, ImpactIndex, ImpactWalk

`ImpactPlan` is the enrichment of a graph made whole and put together from contributions of files
with their signatures; `ImpactIndex` the store of builds, refreshed from the build of an earlier
snapshot by signature; `ImpactWalk` the traversal: a queue, the best frame of each node, a step per
edge, cutoffs, and the policies of the four scenarios. The texts that break ties are left out, so
ties go either way.

### PlannerLists, PlannerIntent, PlannerFusion, Planner

`PlannerIntent` has what a text is taken for, word by word. `Planner` takes one request through
classification, policy, budgets, the routes one by one with the daemon's adapters (filters, seeds,
limits, states of the engines) to the answer; `PlannerFusion` normalises, merges, ranks, groups and
rates the candidates. Engines answer anything out of small sets. `PlannerLists` has the sorts and
filters of all three: the item at place `n` of a sorted list is the one that `n - 1` others come
before, which is what a stable sort by a total order gives.

## Runs

| Run | Instance | Shows |
|---|---|---|
| `repo_store_faults` | 1 process, 2 repositories, 1 version, 1 buffer, 1 stop, 2 damages, all operations | `RowsHaveFiles`, `PurgedIsGone`: what stops and damage cannot break |
| `repo_store_damage` | 2 versions, no stops, removals purge | `AddedIsListed`, `LastIsLoadable`, `RegistryKept`: registry and last snapshot survive two damaged databases |
| `lifecycle` | 3 daemons, 1 command at a time, 2 kills, backlog of 2, `Careful` | `LockHeld`, `Reachable`, `StoppedIsStopped`; `StartWorks` and `ShutdownEnds` under fairness |
| `requests` | 2 repositories, 2 sets of ignore patterns, 1 failing call, restarts | `ActiveJobsAreWatches`, `RuntimeFollowsRows`, `PurgedIsUnanswered` |
| `snapshots_edits` | 2 paths (1 ignored), 3 edits, 2 requests, 1 failing `git status`, 1 buffer | `CapturedWhileTaken` unless HEAD moves, `SameIdSameFiles`, `DiffMatchesRead` |
| `watcher_merges` | 3 files, 2 contents, 3 edits, 3 polls, 2 pending events | `PendingIsTrue`, `FilesReported`: no change is lost, but of paths renamed away |
| `symbol_facts` | every program of 4 nodes in 2 files | `IdsAreStable`, `EveryUseIsFound`, `ImportsFindDeclarations`, `NarrowModesAgree`, `ChunksAreLocal` |
| `symbol_index` | 3 snapshots of 2 paths, 4 configurations, 3 requests, 1 stop or damage | `ParseIsFresh`, `FactsMatchSnapshot`, `RefreshIsRebuild`, `DoctorIsRight` |
| `semantic_index` | 3 snapshots of 2 paths, 3 configurations, 3 requests, 1 fault, 7 queries | `BuildIsWhole`, `RefreshIsRebuild`, `ReadyIsQueryable`, `FilterIsRestriction` |
| `impact_index` | 2 snapshots out of 6 programs of 3 files, 2 configurations, 1 fault | `RefreshIsRebuild`, `StaleIsNoticed` |
| `impact_walk` | 36 programs of 4 files, every target and scenario, tightened limits | `CertainIsExact`, `UsesAreImpacted` |
| `planner` | 10 texts with 1 deviation, 1 text with 2, 5 states of the engines | `OmissionsAreSaid`, `ImpactIsNotGuessed`, `AnswerIsExplained`, `BestFirst` |

Why the bounds are enough. *Store*: the operations of a repository touch its own rows and files and
the backup, which lists all of them; two repositories show what one does to the other, and two damages
let the second hit what the first has restored. *Lifecycle*: a daemon that is alive, one that was
killed and one that is starting are all the roles the files can be shared between. *Requests*: one
failing call already leaves every state that a half-done handler can leave; two repositories and two
pattern sets tell a watcher that was kept from one that was made anew. *Snapshots*: three edits are
what a commit of a new file takes, and rename, staged deletion and rewriting during the request take
fewer; two requests make a pair to compare. *Watcher*: three polls are the longest chain that merging
tells apart (created, renamed, removed), three files are two renamed ones and one at rest, and a
stream of two is full when a third changes. *Symbols*: four nodes are an import, what it leads
through, a declaration and a use; two files that import from one another have every cycle of two.
*Indexes*: three requests are a build, a refresh from it and one that reads, or a refresh of a
refresh; the snapshots differ by an edit, a removal and a change of origin or package; one fault hits
any of them. *Impact*: a source, one or two files between and a test make every kind of edge and a
path of three; the limits are one short of what the largest walk needs. *Planner*: each setting is
varied alone, and for the text with the longest way through the planner any two are. Counters (stops,
damages, kills, edits, requests, polls, faults, snapshots) occur only in the guards that bound them.

Modules that stop when their edits, requests or faults are used up switch the deadlock check off;
`RepoStore` and `DaemonLifecycle` never stop and do not. Symmetry is declared where values are only
compared: contents (`MCWatcher`), repositories and pattern sets (`MCRequests`), files that import from
one another (`MCSymbolEdits`), configurations (`MCImpactIndex`). None of these runs has a liveness
property.

Fairness. `DaemonLifecycle` assumes that a process that can take a step takes one (weak fairness per
daemon and per command): they are threads of the operating system with bounded waits. Nothing makes a
user type a command, and nobody has to be killed. The other modules have no liveness property: their
operations are finite loops of one thread.

## Proofs

All are checked by TLAPS, for every value of the constants that the assumptions allow; bounds on
faults, requests, edits and snapshots are any natural numbers. The assumptions on constants say that
`None` and `Damaged` are none of the values they stand beside, that bounds are numbers and that inputs
have the form the code gives them; TLC evaluates each in the runs of its module. Those of `Planner` are
the types of the protocol: limits, budgets, scores and offsets are unsigned there, routes, styles and
states are enumerations, and what an engine returns is a finite list.

`RepoStoreProofs`: `TypeCorrect` for any number of processes. `TypeOK` is not inductive: an answer to
a request is filed under the repository and version of the request, which is only a snapshot if the
kind of the request says so. `TypeInv` adds, per process, what the operation in progress carries
(`PhaseOK`). The others are for one process (`OneProcess`):

- `RowsAlwaysHaveFiles`: `RowsHaveFiles`. `OrderInv` adds the order of the steps: where a process is
  about to write a row, it has read or written the file.
- `PurgeIsFinal`: `PurgedIsGone`. `ForgetInv` says for each place of a request how much of a purged
  repository is gone by then and why nothing that the process still holds (listed manifests, backup
  entries to restore, rows to write to the backup) can bring it back.
- `CreatedStays` and `EveryRequestSeesTheDisk`: a snapshot that was answered stays on disk until it is
  purged or reset, and an open store shows every manifest on disk. Both are about invariants that no
  run checks; the second rests on the first phase of every request, which indexes what it lists.
- `AddedStaysListed`: `AddedIsListed`, without stops (`NoStops`). The backup lists every repository
  whose addition was answered, and `ListInv` says at each place of an open that the table has them,
  too, unless it is empty or what is missing is still to be restored.
- `LastCanBeLoaded`: `LastIsLoadable`, without stops. `LoadSafe` speaks of the last snapshot
  in the rows and in the backup, but there for a repository that is being purged, whose row goes
  before its files and whose entry in the backup goes last.
- `RegistryIsKept`: the refinement `RegistryKept`, without stops and without `reset-runtime`, which is
  meant to empty the registry. `RegistryInv` says at each place of a request what an open by the next
  caller would find (`Found`); every step leaves that as it is but for the repository of the request.

With stops the last three are false, see divergence 3; with two processes they are too, see 2.

`DaemonProofs`, about the processes and about what one of them serves. `DaemonLifecycle`, for any number
of daemons and commands, with `Careful`: `LockIsHeld` and
`ServingIsReachable` from `LockInv` (whose the pid file is, at every place of its owner), `SerialInv`
(what `Careful` keeps apart) and `ResetInv`; `StopIsFinal` adds `StopInv`, which follows the request to
stop through queues and answers that were given up. `Requests`, for any number of repositories and
failures: `RequestTypes`,
`OnlyWatchesStayActive`, `MemoryFollowsRegistry` and `PurgedStaysUnanswered`, from one invariant of
four parts, each of which the others do not need but the steps prove together; one lemma per handler.

`SnapshotsProofs`, for any paths, contents and edits:

- `EqualIdsEqualFiles` and `DiffIsWhatIsRead`, from `ComposeInv`: every stored snapshot has the base of
  its commit and at most one overlay entry per path, which `compose` checks and both theorems need.
- `SnapshotsShowTheDisk`: `CapturedWhileTaken`. `CaptureInv` relates what a request has read so far to
  `seen`, the contents each path has had since the request began: a path that the status does not
  name was as in the commit, one that it calls deleted was absent, and an entry of the overlay was read
  from the disk. That the status tells this is the lemma about `ParsePorcelain` of `StatusLines`, for
  every choice of rename pairs; it holds of the state in which git ran and survives every later edit.

`WatcherProofs`, for any paths, contents, polls and limit of the stream: `TypeCorrect`,
`PendingStaysTrue` (`PendingIsTrue`) and `EveryChangeIsReported` (`FilesReported`). A pending event alone
does not survive merging: `StreamInv` adds that a path whose pending event is a creation was unknown
to the reader (`CreatedIsNew`), so that created and removed may cancel each other, and that an event
merged out of a rename leads away from a path in `renamedAway` (`FromAway`). `BatchKeeps` shows one
push to keep this while the files turn from those of the last scan into those of this one, path by
path. `PushRawBatch` is recursive; that its streams exist and are built one from the other is proved
from the well-foundedness of the numbers (`InductionOverNat`).

`SymbolIndexProofs`, for any snapshots, configurations, requests and faults, from one invariant:
`TypeCorrect`, `ParseAnswersAreFresh` (`ParseIsFresh`), `FactsAreOfSnapshot` (`FactsMatchSnapshot`),
`RefreshesRebuild` (`RefreshIsRebuild`) and `DoctorAgrees` (`DoctorIsRight`). `CacheInv` says that a cached
unit is what parsing its key gives, `FactsInv` that stored facts are of the files of their snapshot
under some configuration, `RecordInv` that a record goes with facts whose diagnostics were cut at its
limit, but for a stop between the two (`halfIndexed`). `DoctorIsRight` needs `PcInv`: a request gets to
the refresh without being forced only where the stored index was not healthy.

`SemanticIndexProofs`, likewise: `BuildsAreWhole` (`BuildIsWhole`), `RefreshesRebuild`, `ReadyMeansQueryable`
(`ReadyIsQueryable`) and `FiltersRestrict` (`FilterIsRestriction`, a fact about `Search` alone). `CacheInv`
says that a cached vector is the one of its key; `DraftInv` follows a build through its steps: the
build it copies from is still there with the digest that was compared, and each step adds the chunks
of its paths with their vectors.

`ProgramProofs`, for any programs, of the modules that derive something from one. Its first part is about
`SymbolFacts`. Walks along aliases and the nodes around a node are recursive functions, of which one
has to show that they exist before anything follows; `InductionOverNat` is the only induction used.
An identifier names the file, the kind, the container and the signature of its node (`IdIs`), so a
symbol has one alias at most (`AliasesFunctional`). A walk ends in a loop or at a symbol without an
alias, and symbols that an alias connects end alike (`ReachesLoop`).

- *Edits* (`SymbolEdits`). `EditsInv` says that the program is one: its nodes are of `Nodes` and within
  earlier ones. `UsesAreFound` (`EveryUseIsFound`) holds of any program: no walk has more steps than
  there are aliases (`WalkIsShort`), so what `Upstream` gathers backwards has every symbol that ends
  in the canonical one (`UpstreamHas`). `IdsStayStable` (`IdsAreStable`) maps the places before an edit
  to those behind it (`Carried`) and shows by induction over places that identifiers go along.
  `ChunksStayLocal` (`ChunksAreLocal`): each operator of a chunk looks at its file only, and the first
  symbol with an identifier is of the same kind as those that were skipped. `NarrowModesAreKept`
  (`NarrowModesAgree`): what a score has beside the match is at most 185, a better match at least 300
  more. `ImportsFindTheirDeclarations` (`ImportsFindDeclarations`): in a file with unambiguous names an
  exported name means at most one node (`UniqueIsMeant`), so the names that an import leads to and the
  aliases of its symbol go the same way, and a declaration is where both stop. It assumes that `None`
  is not one of the tuples that are identifiers (`NoneIsNoTuple`), which TLC cannot evaluate.
- *The impact index* (`ImpactIndex`). `TypeCorrect`, `RefreshesRebuild` (`RefreshIsRebuild`) and
  `WhatIsStaleIsNoticed` (`StaleIsNoticed`). Two lemmas about the plan carry them: `SignatureDecides`,
  the contribution of a file is determined by its signature, the claim that `incremental.rs` relies
  on; and `AssembledIsPlan`, the contributions of all files together give the enrichment plan.
  `BuildInv` says of every stored build that it is the full build of some graph of its snapshot,
  perhaps not of the one indexed last.
- *The traversal* (`ImpactWalk`). `TraversalTypeCorrect`, `CertainHitsAreExact` (`CertainIsExact`) and
  `EveryUseIsImpacted` (`UsesAreImpacted`). Every frame and every hit that
  is certain is reached by certain steps within its depth (`Sound`); and, unless something was cut
  off, what was reached waits in the queue, is at the depth limit, or each of its steps made a hit,
  a certain one and a certain frame if the step and the frame are certain (`Complete`). That a hit or
  a frame never turns from certain to not comes from the orders of frames and hits. For the uses it remains
  that the plan of `ImpactPlan` has them: the queries follow aliases backwards, the plan stores
  canonical symbols, and both agree on which symbols are one (`UpstreamIsCanonical`).

`PlannerProofs`, for any requests, engines and lists of hits: `OmissionsAreSaidAlways`,
`ImpactIsNotGuessedAlways`, `AnswerIsExplainedAlways` and `BestFirstAlways`, each for the property in its
name. There are three parts.

- *Lists*. In a strict total order of a finite set every count of predecessors belongs to one member
  (`Counted`), so a sorted list has every item once and in order (`ListedProperties`, `OrderedProperties`);
  a filtered one has what passes, as it came (`KeptProperties`). The recursive functions are shown to
  exist first, as in `ProgramProofs`.
- *Fusion*. No member of a set scores more than the fused set (`FusedProperties`), no candidate gets lost
  on the way into the sets (`SetsProperties`), a group scores as its best set and has the evidence of all
  (`GroupProperties`), and groups are sorted by score before they are cut (`AllGroupsProperties`).
  `GroupsAreBestFirst` says so of any list of candidates and any limit; it is what `BestFirst` needs, and
  that there are groups as soon as there is a candidate and a place for it.
- *A query*. None of the first three properties is inductive: they are about the answer and say
  nothing of how the routes led to it. `Core` does. What is still to be consulted is in the order of
  the plan, and a route of the plan that was run is traced or still to come (`Planned`); a staged plan
  goes on only while nothing was found (`Staged`); a plan with seeds goes on only while nothing is
  ambiguous and all that was found is of one context, and after a find only with the analysis
  (`Seeding`); a route was spared only where one before it in the plan found something (`Unneeded`);
  and nothing is found where nothing can be consulted (`FromRoutes`). One lemma per action shows that
  it is kept, and `PromisedOfAnswer` that an answer made from such a state keeps the four promises.
  `ImpactIsNotGuessed` rests on `FoundIsNotAmbiguous`: the adapter that resolves the target of an
  analysis never finds one and calls it ambiguous, too.

Model-checked only: `StartWorks` and `ShutdownEnds`, which are liveness properties and out of the
prover's reach.

## Divergences from the documentation

Met while modelling; the modules follow the code, and their properties are stated with the exception.

1. `repos_remove` without `purge_state` does not last: the next open reindexes the manifests and
   inserts the row again (`db.rs:263`; `docs/phase2/protocol.md:268` "remove a repo from the
   registry"). `repo_store_damage` therefore removes with a purge.
2. A purge does not last when another process opens the store in the middle of it and restores the
   row from the backup (`repos.rs:142`; `docs/phase2/status.md:440`). One process in `RepoStore`.
3. A restore of the registry that is stopped after its first row is never finished, and the next add
   or remove overwrites the backup with what is left (`db.rs:167`; `docs/phase2/status.md:471`). No
   stops in `repo_store_damage`.
4. Two daemons can serve: the pid file is empty for a moment, and an empty pid file is taken for a
   stale one (`runtime.rs:115`; `docs/phase2/decisions.md:469`). `Careful` in `lifecycle`.
5. A commit between `git rev-parse HEAD` and `git status` leaves its files out of both layers
   (`inspect.rs:45`). `moved` in `CapturedWhileTaken`.
6. A file that is moved and then removed within the debounce window vanishes without an event
   (`normalize.rs:208`; `docs/phase2/decisions.md:274`). `FilesReported` leaves paths renamed away aside.
7. `repos_add` with a watcher that cannot be attached answers with an error, keeps the repository and
   leaves its job running for ever (`handlers.rs:130`). `ActiveJobsAreWatches` counts these.
8. A removal that fails after the row is deleted leaves watcher and error code behind; a second
   removal finds no row and cannot purge. `halfGone` in `RuntimeFollowsRows`.
9. A purge leaves the symbol, semantic and impact stores, which three requests ask without looking at
   the manifest (`semantic_status`, `semantic_inspect_chunk`, `impact_status`); `PurgedIsUnanswered` names
   them.
10. The daemon loads a symbol index that was built under another configuration
    (`daemon/symbols.rs:397`; `docs/phase4/index-format.md:164`); only the doctor notices. A stop between
    the facts and their record leaves facts of one configuration under the record of another
    (`halfIndexed` in `RefreshIsRebuild`).
11. A damaged chunk row is noticed by nothing but the query. A refresh keeps the package of unchanged
    files when `package.json` changes (`docs/phase6/chunk-model.md:166`). Both are exceptions of
    `SemanticIndex`'s properties.
12. A stored impact build is served after its snapshot was indexed again (`daemon/impact.rs:273`), and
    the impact doctor names no action for `stale_manifest_or_index` (`cli impact.rs:482`;
    `docs/phase5/status.md:277`). `StaleIsNoticed` asks for the issue only.
13. The graph cannot follow `export {a}` where a file also re-exports something under the name of the
    local symbol; `Regular` in `SymbolEdits` excludes it.
14. A limit of one candidate hides the ambiguity of an impact seed (`daemon/planner.rs:363`;
    `docs/phase7/decisions.md:437`). `ImpactIsNotGuessed` is about what the seed routes returned.
15. A planner that is disabled still returns groups, though its status says that responses remain
    empty (`planner/src/daemon_integration.rs:190`); `AnswerIsExplained` is about a planner that is not.

## Not modelled

- Protocol types and their JSON, configuration files, path normalisation: no state of their own;
  what a setting changes is a constant of the module it changes.
- The tree-sitter grammars and the embedding models: third-party; what they answer is a constant.
- The printing and argument parsing of `hyperctl`; the Python benchmark harness, which shares no state
  with the program.
- Migrations of stores of earlier versions. The semantic store's alters a table column by column
  without a transaction, so a stop in it makes every later open fail (`semantic_store.rs:544`).
- A client that never closes its side, the reuse of process ids and requests that take longer than a
  client waits: outside `DaemonLifecycle`.
- Lengths of texts: the cut of a chunk or a snippet in the middle of a character is not seen.

## Next

Models: the migrations of stores; two daemons over stdio composed with `RepoStore`. Proofs: of what the
runs check only liveness is left; a type invariant of `Planner` beyond what `Core` says of it.
