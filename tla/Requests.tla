------------------------------- MODULE Requests -------------------------------
(***************************************************************************)
(* The daemon's request handlers (hyperindex-daemon/src/handlers.rs), the   *)
(* state they share (state.rs), the scheduler's job records                *)
(* (hyperindex-scheduler/src) and what the commands of hyperctl ask for.   *)
(*                                                                         *)
(* Requests are served one at a time, so a handler is one step.  Between   *)
(* two of them a repository's directory may come and go and the daemon may *)
(* restart.  The stores' own steps are in RepoStore, SymbolIndex,          *)
(* SemanticIndex and ImpactIndex: here a call of theirs succeeds or fails. *)
(***************************************************************************)
EXTENDS Naturals, Sequences

CONSTANTS
    Repo,       \* repositories, by root and so by id
    Content,    \* what a snapshot of a repository may hold
    Buffer,     \* buffer ids
    Ignores,    \* ignore patterns a repository is added with
    None,       \* no row, no watcher, no error
    MaxFaults   \* bound: calls of the stores and the watcher that fail

ASSUME RequestsAssumption ==
    None \notin Repo \union Content \union Ignores /\ MaxFaults \in Nat

VARIABLES
    present,   \* repositories whose directory is there
    row,       \* by repository: the ignore patterns of its row, or None
    listed,    \* snapshots with a manifest row
    kept,      \* snapshots with a manifest file
    buffers,   \* stored buffers: <<repository, buffer>>
    watchers,  \* by repository: the patterns its watcher was made with, or None
    jobs,      \* jobs not finished, in turn: [repo, kind, state]
    errors,    \* by repository: last_error_code
    lifecycle, \* "running" or "stopping"
    answer,    \* the snapshot that the last answer was made of, or Absent
    faults,    \* failed calls so far
    halfGone,  \* repositories whose removal failed after their row was deleted
    purged     \* snapshots purged and not taken again

disk == <<row, listed, kept, buffers>>
runtime == <<watchers, jobs, errors, lifecycle>>
vars == <<present, disk, runtime, answer, faults, halfGone, purged>>

Snapshot == Repo \X Content
Absent == <<None, None>>

-----------------------------------------------------------------------------
(* What is asked                                                           *)

Ask(method, repo, snapshot) == [method |-> method, repo |-> repo, snapshot |-> snapshot]
AskAll(methods) == [method : methods, repo : Repo, snapshot : Snapshot]
AskOf(methods) == [method : methods, repo : Repo, snapshot : {Absent}]

AddRequests ==
    [method : {"repos_add"}, repo : Repo, snapshot : {Absent}, watch : BOOLEAN, ignores : Ignores]
RemoveRequests == [method : {"repos_remove"}, repo : Repo, snapshot : {Absent}, purge : BOOLEAN]

\* hyperctl repos never asks for a watcher.
RepoCommands ==
    {q \in AddRequests : ~q.watch} \union RemoveRequests
    \union AskOf({"repos_list", "repos_show", "repo_status"})

CreateRequests ==
    [method : {"snapshots_create"}, repo : Repo, snapshot : {Absent},
     buffers : UNION {[1..n -> Buffer] : n \in 0..2}]
SnapshotCommands ==
    [method : {"snapshots_show", "snapshots_read_file"}, snapshot : Snapshot]
    \union [method : {"snapshots_diff"}, snapshot : Snapshot, right : Snapshot]

BufferCommands ==
    [method : {"buffers_set", "buffers_clear"}, repo : Repo, snapshot : {Absent}, buffer : Buffer]
    \union AskOf({"buffers_list"})

\* Requests of one kind differ only in the service that answers in the end:
\* parse_build, parse_status and parse_inspect_file; the builds, the searches
\* and the lookups of symbols; and so on.
ParseCommands == AskAll({"parse"})
SymbolCommands == AskAll({"symbol"})
SemanticCommands == AskAll({"semantic_status", "semantic"})
ImpactCommands == AskAll({"impact_status", "impact"})
QueryCommands == AskAll({"planner"})

\* What the stores of the indexes answer without the repository or the
\* snapshot; semantic_inspect_chunk is one of the first kind.
StoreOnly == {"semantic_status", "impact_status"}

\* What no command asks, but the protocol has.
PlainRequests ==
    AskOf({"health", "version", "daemon_status", "shutdown", "snapshots_list",
           "watch_status", "watch_events"})

-----------------------------------------------------------------------------
(* How errors are told                                                     *)

\* The errors that handlers tell apart by their text, and the codes that each
\* of the mappings makes of them.  A query that fails is "query": show_repo
\* takes it for a repository that is not there.
Reported(told) == [e \in {"repo", "root", "path", "buffer", "duplicate", "registered", "query", "other"} |->
                      IF e \in DOMAIN told THEN told[e] ELSE "internal"]
InternalError == Reported([duplicate |-> "invalid_request"])
RepoStoreError ==
    Reported([registered |-> "repo_already_exists", duplicate |-> "invalid_request", path |-> "repo_state_unavailable"])
RepoError == Reported([repo |-> "repo_not_found", root |-> "repo_state_unavailable",
                       path |-> "repo_state_unavailable", duplicate |-> "invalid_request"])
ShowError == [e \in DOMAIN InternalError |-> "repo_not_found"]
SnapshotError == Reported([buffer |-> "buffer_not_found", duplicate |-> "invalid_request"])

-----------------------------------------------------------------------------
(* The scheduler and the shared state                                      *)

\* enqueue and mark_running; finished jobs stay in the vector but no answer
\* shows them again.
Started(js, r, kind) == Append(js, [repo |-> r, kind |-> kind, state |-> "running"])

\* mark_succeeded and mark_failed of the job started last.
Settled(js) == SubSeq(js, 1, Len(js) - 1)

\* The answer of a request with its code.
Respond(q, code) == answer' = IF code = "ok" /\ q.method \notin StoreOnly THEN q.snapshot ELSE Absent

NoFault == UNCHANGED faults
Fault == faults < MaxFaults /\ faults' = faults + 1

Serving == lifecycle = "running" /\ UNCHANGED present

\* A request that leaves the state alone.
Read(q, code) == Respond(q, code) /\ UNCHANGED <<disk, runtime, halfGone, purged>>

\* Every request but shutdown, health, version and the statuses of the indexes
\* opens the store first, and ends there when that fails.
OpenFails ==
    /\ Serving /\ Fault
    /\ Read(Ask("any", None, Absent), "internal")

\* show_repo: what is wrong with it, or "ok".
Shown(r, queryFails) == IF queryFails THEN ShowError["query"] ELSE IF row[r] = None THEN ShowError["repo"] ELSE "ok"

\* load_manifest: a file is found on disk also when its row is gone.
Loaded(s) == IF s \in kept THEN "ok" ELSE "snapshot_not_found"

\* load_symbol_snapshot.
OwnSnapshot(r, s) == IF Loaded(s) # "ok" THEN Loaded(s) ELSE IF s[1] # r THEN "invalid_request" ELSE "ok"

\* The first of these checks that fails decides.
First(x, y) == IF x # "ok" THEN x ELSE y

-----------------------------------------------------------------------------
(* Repositories                                                            *)

\* A watcher that cannot be attached leaves the repository added and the job
\* running, whatever is asked for later.
AttachFails(q, js, es) ==
    /\ Fault /\ Respond(q, InternalError["root"])
    /\ jobs' = Started(js, q.repo, "watch_ingest")
    /\ errors' = [es EXCEPT ![q.repo] = InternalError["root"]]
    /\ UNCHANGED watchers

\* A watcher that is there already stays as it is.
Attached(q, js, es) ==
    /\ NoFault /\ Respond(q, "ok")
    /\ jobs' = Settled(Started(js, q.repo, "watch_ingest"))
    /\ errors' = es
    /\ watchers' = [watchers EXCEPT ![q.repo] = IF @ = None THEN q.ignores ELSE @]

\* The row is inserted, the refresh job done at once, the watcher attached.
Added(q) ==
    LET refreshed == Settled(Started(jobs, q.repo, "repo_refresh"))
        cleared == [errors EXCEPT ![q.repo] = None] IN
    /\ row' = [row EXCEPT ![q.repo] = q.ignores]
    /\ \/ /\ ~q.watch /\ NoFault /\ Respond(q, "ok")
          /\ jobs' = refreshed /\ errors' = cleared
          /\ UNCHANGED watchers
       \/ q.watch /\ Attached(q, refreshed, cleared)
       \/ q.watch /\ AttachFails(q, refreshed, cleared)
    /\ UNCHANGED <<listed, kept, buffers, lifecycle, halfGone, purged>>

\* The row is inserted and its backup cannot be written.
AddFailsHalfway(q) ==
    /\ Fault /\ Respond(q, RepoStoreError["other"])
    /\ row' = [row EXCEPT ![q.repo] = q.ignores]
    /\ UNCHANGED <<listed, kept, buffers, runtime, halfGone, purged>>

ReposAdd(q) ==
    /\ Serving
    /\ \/ q.repo \notin present /\ NoFault /\ Read(q, RepoStoreError["path"])
       \/ q.repo \in present /\ row[q.repo] # None /\ NoFault /\ Read(q, RepoStoreError["registered"])
       \/ q.repo \in present /\ row[q.repo] = None /\ Added(q)
       \/ q.repo \in present /\ row[q.repo] = None /\ AddFailsHalfway(q)

Of(r, snapshots) == {s \in snapshots : s[1] = r}
BuffersOf(r) == {b \in buffers : b[1] = r}

\* Mutant: the watcher of a removed repository stays.
ForgetErrorOnly(r) == watchers' = watchers /\ errors' = [errors EXCEPT ![r] = None] /\ UNCHANGED <<jobs, lifecycle>>

\* detach_watcher and clear_repo_error_code.
Forget(r) ==
    /\ watchers' = [watchers EXCEPT ![r] = None]
    /\ errors' = [errors EXCEPT ![r] = None]
    /\ UNCHANGED <<jobs, lifecycle>>

\* Mutant: a purge leaves the manifest files where they are.
PurgeRowsOnly(q) ==
    /\ listed' = listed \ Of(q.repo, listed)
    /\ buffers' = buffers \ BuffersOf(q.repo)
    /\ UNCHANGED kept

\* Rows and files of the repository's snapshots, and its buffers.
Purge(q) ==
    /\ listed' = listed \ Of(q.repo, listed)
    /\ kept' = kept \ Of(q.repo, kept)
    /\ buffers' = buffers \ BuffersOf(q.repo)

\* The row is gone and so may be what a purge takes first, but not the files;
\* the watcher, its error and the answer are those of a repository that stays.
RemoveFailsHalfway(q) ==
    /\ Fault /\ Respond(q, RepoStoreError["other"])
    /\ row' = [row EXCEPT ![q.repo] = None]
    /\ \/ UNCHANGED <<listed, buffers>>
       \/ /\ q.purge
          /\ listed' = listed \ Of(q.repo, listed)
          /\ buffers' = buffers \ BuffersOf(q.repo)
    /\ halfGone' = halfGone \union {q.repo}
    /\ UNCHANGED <<kept, runtime, purged>>

\* What is not registered is not purged either.
ReposRemove(q) ==
    /\ Serving
    /\ \/ row[q.repo] # None /\ RemoveFailsHalfway(q)
       \/ /\ row[q.repo] # None /\ q.purge /\ NoFault /\ Respond(q, "ok")
          /\ row' = [row EXCEPT ![q.repo] = None]
          /\ purged' = purged \union Of(q.repo, Snapshot)
          /\ halfGone' = halfGone \ {q.repo}
          /\ Purge(q) /\ Forget(q.repo)
       \/ /\ row[q.repo] # None /\ ~q.purge /\ NoFault /\ Respond(q, "ok")
          /\ row' = [row EXCEPT ![q.repo] = None]
          /\ halfGone' = halfGone \ {q.repo}
          /\ UNCHANGED <<listed, kept, buffers, purged>> /\ Forget(q.repo)
       \/ /\ row[q.repo] = None /\ NoFault /\ Respond(q, "ok")
          /\ halfGone' = halfGone \ {q.repo}
          /\ UNCHANGED <<disk, purged>> /\ Forget(q.repo)

ReposList(q) == Serving /\ NoFault /\ Read(q, "ok")

ReposShow(q) ==
    /\ Serving
    /\ (Fault /\ Read(q, Shown(q.repo, TRUE))) \/ (NoFault /\ Read(q, Shown(q.repo, FALSE)))

\* build_repo_status: the row, the directory, the watcher, the job, the error.
RepoStatus(q) ==
    /\ Serving
    /\ \/ NoFault /\ Read(q, IF row[q.repo] = None THEN RepoError["repo"]
                             ELSE IF q.repo \notin present THEN RepoError["root"] ELSE "ok")

-----------------------------------------------------------------------------
(* Snapshots and buffers                                                   *)

\* The first buffer asked for twice or not stored decides (load_buffers).
BufferErrors(r, ids) ==
    {i \in DOMAIN ids : (\E j \in 1..(i - 1) : ids[j] = ids[i]) \/ <<r, ids[i]>> \notin buffers}
BufferCheck(r, ids) ==
    IF BufferErrors(r, ids) = {} THEN "ok"
    ELSE LET i == CHOOSE i \in BufferErrors(r, ids) : \A j \in BufferErrors(r, ids) : i <= j IN
         IF \E j \in 1..(i - 1) : ids[j] = ids[i] THEN SnapshotError["duplicate"] ELSE SnapshotError["buffer"]

\* What create_snapshot fails for before anything is written.
CreateCheck(q) ==
    First(IF q.repo \notin present THEN SnapshotError["root"] ELSE "ok", BufferCheck(q.repo, q.buffers))

\* Mutant: the failure is answered before the job is marked as failed.
CreateFailsRunning(q, code) ==
    /\ Respond(q, code)
    /\ jobs' = Started(jobs, q.repo, "snapshot_capture")
    /\ errors' = [errors EXCEPT ![q.repo] = code]
    /\ UNCHANGED <<disk, watchers, lifecycle, halfGone, purged>>

CreateFails(q, code) ==
    /\ Respond(q, code)
    /\ jobs' = Settled(Started(jobs, q.repo, "snapshot_capture"))
    /\ errors' = [errors EXCEPT ![q.repo] = code]
    /\ UNCHANGED <<disk, watchers, lifecycle, halfGone, purged>>

Created(q, s) ==
    /\ Respond([q EXCEPT !.snapshot = s], "ok")
    /\ listed' = listed \union {s} /\ kept' = kept \union {s}
    /\ jobs' = Settled(Started(jobs, q.repo, "snapshot_capture"))
    /\ errors' = [errors EXCEPT ![q.repo] = None]
    /\ purged' = purged \ {s}
    /\ UNCHANGED <<row, buffers, watchers, lifecycle, halfGone>>

\* The manifest's file is written and its row is not.
CreateFailsHalfway(q, s) ==
    /\ Fault /\ Respond(q, SnapshotError["other"])
    /\ kept' = kept \union {s} /\ purged' = purged \ {s}
    /\ jobs' = Settled(Started(jobs, q.repo, "snapshot_capture"))
    /\ errors' = [errors EXCEPT ![q.repo] = SnapshotError["other"]]
    /\ UNCHANGED <<row, listed, buffers, watchers, lifecycle, halfGone>>

\* A repository without a commit cannot be taken, and git or a write may fail.
SnapshotsCreate(q) ==
    LET shown == Shown(q.repo, FALSE)
        check == CreateCheck(q) IN
    /\ Serving
    /\ \/ shown # "ok" /\ NoFault /\ Read(q, shown)
       \/ shown = "ok" /\ check # "ok" /\ NoFault /\ CreateFails(q, check)
       \/ shown = "ok" /\ check = "ok" /\ NoFault /\ \E s \in Of(q.repo, Snapshot) : Created(q, s)
       \/ shown = "ok" /\ check = "ok" /\ \E s \in Of(q.repo, Snapshot) : CreateFailsHalfway(q, s)
       \/ shown = "ok" /\ NoFault /\ CreateFails(q, SnapshotError["other"])

SnapshotsShow(q) == Serving /\ NoFault /\ Read(q, Loaded(q.snapshot))

\* Rows without their file fail the list.
SnapshotsList(q) ==
    Serving /\ NoFault /\ Read(q, IF Of(q.repo, listed) \subseteq kept THEN "ok" ELSE "internal")

\* The snapshots may be of different repositories.
SnapshotsDiff(q) ==
    Serving /\ NoFault /\ Read(q, First(Loaded(q.snapshot), Loaded(q.right)))

\* A path that the snapshot has not is told as a snapshot that is not there.
SnapshotsReadFile(q) ==
    /\ Serving
    /\ \/ NoFault /\ \E code \in {Loaded(q.snapshot), "snapshot_not_found", "invalid_request"} : Read(q, code)

BuffersChange(q, stored) ==
    LET shown == Shown(q.repo, FALSE) IN
    /\ Serving
    /\ \/ shown # "ok" /\ NoFault /\ Read(q, shown)
       \/ /\ shown = "ok" /\ NoFault /\ Respond(q, "ok")
          /\ buffers' = stored
          /\ UNCHANGED <<row, listed, kept, runtime, halfGone, purged>>
BuffersSet(q) == BuffersChange(q, buffers \union {<<q.repo, q.buffer>>})
BuffersClear(q) == BuffersChange(q, buffers \ {<<q.repo, q.buffer>>})
BuffersList(q) == Serving /\ NoFault /\ Read(q, Shown(q.repo, FALSE))

-----------------------------------------------------------------------------
(* Indexes and queries                                                     *)

\* The repository has its row and the snapshot is its own.
ServeSymbols(q) ==
    Serving /\ NoFault /\ Read(q, First(Shown(q.repo, FALSE), OwnSnapshot(q.repo, q.snapshot)))

\* An impact status reads the stores of the indexes only.
ServeImpact(q) ==
    IF q.method \in StoreOnly THEN Serving /\ NoFault /\ Read(q, "ok") ELSE ServeSymbols(q)

\* Semantic builds and queries, and the planner, do not ask for the row.
ServeSnapshot(q) == Serving /\ NoFault /\ Read(q, OwnSnapshot(q.repo, q.snapshot))
ServeSemantic(q) ==
    IF q.method \in StoreOnly THEN Serving /\ NoFault /\ Read(q, "ok")
    ELSE ServeSnapshot(q)
ServePlanner(q) == ServeSnapshot(q)

-----------------------------------------------------------------------------
(* The daemon                                                              *)

\* runtime_status sums the stores up, so a store that fails fails it.
DaemonStatus(q) == Serving /\ NoFault /\ Read(q, "ok")

\* health, version and what is not implemented need no store.
Told(q) ==
    Serving /\ NoFault /\ Read(q, IF q.method \in {"watch_status", "watch_events"} THEN "not_implemented" ELSE "ok")

Shutdown(q) ==
    /\ Serving /\ NoFault /\ Respond(q, "ok")
    /\ lifecycle' = "stopping"
    /\ UNCHANGED <<disk, watchers, jobs, errors, halfGone, purged>>

\* A new process starts with nothing attached, queued or remembered; the
\* repositories added with a watcher have none.
Restart ==
    /\ watchers' = [r \in Repo |-> None]
    /\ jobs' = <<>>
    /\ errors' = [r \in Repo |-> None]
    /\ lifecycle' = "running"
    /\ halfGone' = {}
    /\ UNCHANGED <<present, disk, answer, faults, purged>>

\* Someone makes or takes away a directory.
MoveRoot(r) ==
    /\ present' = IF r \in present THEN present \ {r} ELSE present \union {r}
    /\ UNCHANGED <<disk, runtime, answer, faults, halfGone, purged>>

Init ==
    /\ present \in SUBSET Repo
    /\ row = [r \in Repo |-> None]
    /\ listed = {} /\ kept = {} /\ buffers = {}
    /\ watchers = [r \in Repo |-> None]
    /\ jobs = <<>>
    /\ errors = [r \in Repo |-> None]
    /\ lifecycle = "running"
    /\ answer = Absent
    /\ faults = 0
    /\ halfGone = {} /\ purged = {}

\* handle_body.
Handle ==
    \/ OpenFails
    \/ \E q \in AddRequests : ReposAdd(q)
    \/ \E q \in RemoveRequests : ReposRemove(q)
    \/ \E q \in RepoCommands :
          \/ q.method = "repos_list" /\ ReposList(q)
          \/ q.method = "repos_show" /\ ReposShow(q)
          \/ q.method = "repo_status" /\ RepoStatus(q)
    \/ \E q \in CreateRequests : SnapshotsCreate(q)
    \/ \E q \in SnapshotCommands :
          \/ q.method = "snapshots_show" /\ SnapshotsShow(q)
          \/ q.method = "snapshots_diff" /\ SnapshotsDiff(q)
          \/ q.method = "snapshots_read_file" /\ SnapshotsReadFile(q)
    \/ \E q \in BufferCommands :
          \/ q.method = "buffers_set" /\ BuffersSet(q)
          \/ q.method = "buffers_clear" /\ BuffersClear(q)
          \/ q.method = "buffers_list" /\ BuffersList(q)
    \/ \E q \in ParseCommands \union SymbolCommands : ServeSymbols(q)
    \/ \E q \in SemanticCommands : ServeSemantic(q)
    \/ \E q \in ImpactCommands : ServeImpact(q)
    \/ \E q \in QueryCommands : ServePlanner(q)
    \/ \E q \in PlainRequests :
          \/ q.method = "daemon_status" /\ DaemonStatus(q)
          \/ q.method = "shutdown" /\ Shutdown(q)
          \/ q.method = "snapshots_list" /\ SnapshotsList(q)
          \/ q.method \in {"health", "version", "watch_status", "watch_events"} /\ Told(q)

Next == Handle \/ Restart \/ \E r \in Repo : MoveRoot(r)

Spec == Init /\ [][Next]_vars

-----------------------------------------------------------------------------
(* Properties                                                              *)

Codes ==
    {"ok", "invalid_request", "repo_already_exists", "repo_not_found", "repo_state_unavailable",
     "snapshot_not_found", "buffer_not_found", "not_implemented", "internal"}

TypeOK ==
    /\ present \subseteq Repo
    /\ row \in [Repo -> Ignores \union {None}]
    /\ listed \subseteq kept /\ kept \subseteq Snapshot
    /\ buffers \subseteq Repo \X Buffer
    /\ watchers \in [Repo -> Ignores \union {None}]
    /\ errors \in [Repo -> Codes \union {None}]
    /\ lifecycle \in {"running", "stopping"}
    /\ answer \in Snapshot \union {Absent}
    /\ faults \in 0..MaxFaults

\* Between requests the scheduler has no work left, so a job that repo_status
\* still shows as active is a watch that could not be attached: at most one
\* for every such failure, and none of another kind.
ActiveJobsAreWatches ==
    /\ Len(jobs) <= faults
    /\ \A i \in DOMAIN jobs : jobs[i].kind = "watch_ingest" /\ jobs[i].state = "running"

\* What the daemon holds in memory of a repository is what the registry says
\* of it: a watcher goes with its row and has the patterns of the row, through
\* removals, additions with other patterns, failures and restarts, and an
\* error is remembered of a registered repository only.  A removal that failed
\* halfway is the exception, until the next one.
RuntimeFollowsRows ==
    \A r \in Repo \ halfGone :
        /\ watchers[r] # None => row[r] = watchers[r]
        /\ errors[r] # None => row[r] # None

\* No request is answered from a snapshot that a purge took away, also when a
\* repository of the same root, and so the same id, is added again; the three
\* requests that ask the stores of the indexes only may be.
PurgedIsUnanswered == answer \notin purged
=============================================================================
