------------------------------ MODULE RepoStore ------------------------------
(***************************************************************************)
(* The persistent store of hyperindex-repo-store: the SQLite tables repos, *)
(* snapshot_manifests and buffers, the manifest files                      *)
(* manifests/<repo_id>/<snapshot_id>.json and the sidecar                  *)
(* repo-registry-backup.json.  Nothing ties them together: each SQL        *)
(* statement commits by itself and each file operation stands alone, so    *)
(* every statement is an action here and a process may stop (an error      *)
(* return, a kill, a power failure) between any two of them.               *)
(*                                                                         *)
(* A process is one hyperd serving one request at a time (several at once  *)
(* with the stdio transport, where each command runs its own), or a        *)
(* hyperctl command that opens the store by itself.  Every request opens   *)
(* the store first, and opening restores the registry from the backup when *)
(* the repos table is empty and indexes every manifest file again.         *)
(***************************************************************************)
EXTENDS Naturals, FiniteSets

CONSTANTS
    Process,         \* processes that open the store
    Repo,            \* repository roots (repo_id is a hash of the root)
    Version,         \* contents a snapshot of a repository can have
    Buffer,          \* buffer ids
    NoSnapshot,      \* last_snapshot_id is NULL
    Kinds,           \* the operations this instance performs
    MaxStops,        \* bound: processes stopped in the middle of an operation
    MaxCorruptions   \* bound: times the database file is damaged

AllKinds == {"open", "add", "remove", "purge", "snapshot",
             "set_buffer", "clear_buffer", "reset"}

\* A snapshot id is a digest of the repo id and the contents, so it belongs
\* to one repository.
Snapshot == Repo \X Version
RepoOf(s) == s[1]
SnapshotsOf(r) == {s \in Snapshot : RepoOf(s) = r}

ASSUME KindsAssumption == Kinds \subseteq AllKinds
ASSUME BoundsAssumption == MaxStops \in Nat /\ MaxCorruptions \in Nat
ASSUME NoSnapshotAssumption == NoSnapshot \notin Snapshot

VARIABLES
    repos,          \* table repos: the repo ids that have a row
    last,           \* table repos: column last_snapshot_id
    manifestRows,   \* table snapshot_manifests: the indexed snapshots
    buffers,        \* table buffers: <<repo, buffer id>>
    corrupt,        \* quick_check would fail on the database file
    backup,         \* repo-registry-backup.json: repos and their last column
    files,          \* manifest files on disk
    pc, op,         \* per process: where it is, what it was asked to do
    checked,        \* per process: show_repo has succeeded
    pending,        \* per process: backup entries still to insert
    listed,         \* per process: manifest paths still to read
    current,        \* per process: the manifest it has read
    image,          \* per process: the rows it listed, or the backup it read
    told,           \* what callers have been told (history, read by no step)
    stops, corruptions

dbVars == <<repos, last, manifestRows, buffers>>
diskVars == <<backup, files>>
localVars == <<op, checked, pending, listed, current, image>>
boundVars == <<stops, corruptions>>
vars == <<dbVars, corrupt, diskVars, pc, localVars, told, boundVars>>

LastSnapshot == Snapshot \union {NoSnapshot}
Image == [repos : SUBSET Repo, last : [Repo -> LastSnapshot]]
EmptyImage == [repos |-> {}, last |-> [r \in Repo |-> NoSnapshot]]

Op == [kind : AllKinds, repo : Repo, item : Version \union Buffer]
NoOp == [kind |-> "none"]
OpSnapshot(p) == <<op[p].repo, op[p].item>>

PC == {"idle", "open", "restore_check", "restore", "scan", "reindex",
       "index_repo", "index_manifest", "body", "purge_rows", "purge_buffers",
       "purge_dir", "manifest_row", "last_row", "sync_list",
       "sync_write", "reset_state", "reset_data"}

TypeOK ==
    /\ repos \subseteq Repo
    /\ last \in [Repo -> LastSnapshot]
    /\ manifestRows \subseteq Snapshot
    /\ buffers \subseteq Repo \X Buffer
    /\ corrupt \in BOOLEAN
    /\ backup \in Image
    /\ files \subseteq Snapshot
    /\ pc \in [Process -> PC]
    /\ op \in [Process -> Op \union {NoOp}]
    /\ checked \in [Process -> BOOLEAN]
    /\ pending \in [Process -> SUBSET Repo]
    /\ listed \in [Process -> SUBSET Snapshot]
    /\ current \in [Process -> LastSnapshot]
    /\ image \in [Process -> Image]
    /\ told \in [added : SUBSET Repo, removed : SUBSET Repo,
                 purged : SUBSET Repo, created : SUBSET Snapshot]
    /\ stops \in 0 .. MaxStops
    /\ corruptions \in 0 .. MaxCorruptions

Init ==
    /\ repos = {}
    /\ last = [r \in Repo |-> NoSnapshot]
    /\ manifestRows = {}
    /\ buffers = {}
    /\ corrupt = FALSE
    /\ backup = EmptyImage
    /\ files = {}
    /\ pc = [p \in Process |-> "idle"]
    /\ op = [p \in Process |-> NoOp]
    /\ checked = [p \in Process |-> FALSE]
    /\ pending = [p \in Process |-> {}]
    /\ listed = [p \in Process |-> {}]
    /\ current = [p \in Process |-> NoSnapshot]
    /\ image = [p \in Process |-> EmptyImage]
    /\ told = [added |-> {}, removed |-> {}, purged |-> {}, created |-> {}]
    /\ stops = 0
    /\ corruptions = 0

-----------------------------------------------------------------------------
(* Steps of a process                                                      *)

Goto(p, label) == pc' = [pc EXCEPT ![p] = label]

\* The operation ends, with an answer or without one: its locals are dropped.
Finish(p) ==
    /\ Goto(p, "idle")
    /\ op' = [op EXCEPT ![p] = NoOp]
    /\ checked' = [checked EXCEPT ![p] = FALSE]
    /\ pending' = [pending EXCEPT ![p] = {}]
    /\ listed' = [listed EXCEPT ![p] = {}]
    /\ current' = [current EXCEPT ![p] = NoSnapshot]
    /\ image' = [image EXCEPT ![p] = EmptyImage]

\* Fields an operation does not use have a fixed value.
WellFormed(o) ==
    /\ o.kind \in Kinds
    /\ o.kind \in {"set_buffer", "clear_buffer"} => o.item \in Buffer
    /\ o.kind \notin {"set_buffer", "clear_buffer"} => o.item \in Version
    /\ o.kind \notin {"snapshot", "set_buffer", "clear_buffer"} =>
          o.item = CHOOSE v \in Version : TRUE
    /\ o.kind \in {"open", "reset"} => o.repo = CHOOSE r \in Repo : TRUE

\* A request arrives, for any operation but reset-runtime.
Begin(p) ==
    /\ pc[p] = "idle"
    /\ \E o \in Op :
          /\ WellFormed(o) /\ o.kind # "reset"
          /\ op' = [op EXCEPT ![p] = o]
          /\ told' = IF o.kind = "add"
                       THEN [told EXCEPT !.removed = @ \ {o.repo},
                                         !.purged = @ \ {o.repo}]
                       ELSE told
    /\ Goto(p, "open")
    /\ UNCHANGED <<dbVars, corrupt, diskVars, checked, pending, listed, current,
                   image, boundVars>>

\* hyperctl reset-runtime first asks whether a daemon answers and refuses
\* to run then.  This model lets it run only while nobody uses the store: a
\* daemon too busy to answer in time would go on with files that have lost
\* their names.
BeginReset(p) ==
    /\ \A q \in Process : pc[q] = "idle"
    /\ \E o \in Op :
          /\ WellFormed(o) /\ o.kind = "reset"
          /\ op' = [op EXCEPT ![p] = o]
    /\ told' = [told EXCEPT !.added = {}, !.created = {}]
    /\ Goto(p, "reset_state")
    /\ UNCHANGED <<dbVars, corrupt, diskVars, checked, pending, listed, current,
                   image, boundVars>>

\* Opening: a database that fails its check is renamed away and an empty
\* one is created in its place.
OpenConnection(p) ==
    /\ pc[p] = "open"
    /\ IF corrupt
         THEN /\ repos' = {} /\ manifestRows' = {} /\ buffers' = {}
              /\ last' = [r \in Repo |-> NoSnapshot]
         ELSE UNCHANGED dbVars
    /\ corrupt' = FALSE
    /\ Goto(p, "restore_check")
    /\ UNCHANGED <<diskVars, localVars, told, boundVars>>

\* Mutant: the backup is never used.
CheckRestoreNever(p) ==
    /\ pc[p] = "restore_check"
    /\ Goto(p, "scan")
    /\ UNCHANGED <<dbVars, corrupt, diskVars, localVars, told, boundVars>>

\* Only an empty repos table is restored from the backup.
CheckRestore(p) ==
    /\ pc[p] = "restore_check"
    /\ IF repos = {}
         THEN /\ image' = [image EXCEPT ![p] = backup]
              /\ pending' = [pending EXCEPT ![p] = backup.repos]
              /\ Goto(p, "restore")
         ELSE /\ Goto(p, "scan")
              /\ UNCHANGED <<image, pending>>
    /\ UNCHANGED <<dbVars, corrupt, diskVars, op, checked, listed, current, told,
                   boundVars>>

\* INSERT OR REPLACE, one backup entry at a time.
RestoreRow(p) ==
    /\ pc[p] = "restore"
    /\ \E r \in pending[p] :
          /\ repos' = repos \union {r}
          /\ last' = [last EXCEPT ![r] = image[p].last[r]]
          /\ pending' = [pending EXCEPT ![p] = @ \ {r}]
    /\ UNCHANGED <<manifestRows, buffers, corrupt, diskVars, pc, op, checked,
                   listed, current, image, told, boundVars>>

RestoreDone(p) ==
    /\ pc[p] = "restore" /\ pending[p] = {}
    /\ image' = [image EXCEPT ![p] = EmptyImage]
    /\ Goto(p, "scan")
    /\ UNCHANGED <<dbVars, corrupt, diskVars, op, checked, pending, listed,
                   current, told, boundVars>>

\* reindex_manifests_from_disk lists the paths before it reads any of them.
ScanManifests(p) ==
    /\ pc[p] = "scan"
    /\ listed' = [listed EXCEPT ![p] = files]
    /\ Goto(p, "reindex")
    /\ UNCHANGED <<dbVars, corrupt, diskVars, op, checked, pending, current,
                   image, told, boundVars>>

\* A file that can no longer be read is skipped.  Paths are visited in the
\* order of their names, which are digests: any order.
ReadManifest(p) ==
    /\ pc[p] = "reindex"
    /\ \E s \in listed[p] :
          /\ listed' = [listed EXCEPT ![p] = @ \ {s}]
          /\ IF s \in files
               THEN /\ current' = [current EXCEPT ![p] = s]
                    /\ Goto(p, "index_repo")
               ELSE UNCHANGED <<current, pc>>
    /\ UNCHANGED <<dbVars, corrupt, diskVars, op, checked, pending, image, told,
                   boundVars>>

\* ensure_repo_row_for_manifest: insert the row, or fill in what is NULL.
IndexRepoRow(p) ==
    /\ pc[p] = "index_repo"
    /\ LET s == current[p] IN
          /\ repos' = repos \union {RepoOf(s)}
          /\ last' = [last EXCEPT ![RepoOf(s)] = IF @ = NoSnapshot THEN s ELSE @]
    /\ Goto(p, "index_manifest")
    /\ UNCHANGED <<manifestRows, buffers, corrupt, diskVars, localVars, told,
                   boundVars>>

IndexManifestRow(p) ==
    /\ pc[p] = "index_manifest"
    /\ manifestRows' = manifestRows \union {current[p]}
    /\ current' = [current EXCEPT ![p] = NoSnapshot]
    /\ Goto(p, "reindex")
    /\ UNCHANGED <<repos, last, buffers, corrupt, diskVars, op, checked, pending,
                   listed, image, told, boundVars>>

OpenDone(p) ==
    /\ pc[p] = "reindex" /\ listed[p] = {}
    /\ Goto(p, "body")
    /\ UNCHANGED <<dbVars, corrupt, diskVars, localVars, told, boundVars>>

-----------------------------------------------------------------------------
(* Request bodies                                                          *)

\* Listing, showing, doctor: the store is only read.
AnswerRead(p) ==
    /\ pc[p] = "body" /\ op[p].kind = "open"
    /\ Finish(p)
    /\ UNCHANGED <<dbVars, corrupt, diskVars, told, boundVars>>

\* show_repo opens a store of its own; the operation then opens it again.
ShowRepo(p) ==
    /\ pc[p] = "body" /\ ~checked[p]
    /\ op[p].kind \in {"snapshot", "set_buffer", "clear_buffer"}
    /\ op[p].repo \in repos
    /\ checked' = [checked EXCEPT ![p] = TRUE]
    /\ Goto(p, "open")
    /\ UNCHANGED <<dbVars, corrupt, diskVars, op, pending, listed, current, image,
                   told, boundVars>>

RepoNotFound(p) ==
    /\ pc[p] = "body" /\ ~checked[p]
    /\ op[p].kind \in {"snapshot", "set_buffer", "clear_buffer"}
    /\ op[p].repo \notin repos
    /\ Finish(p)
    /\ UNCHANGED <<dbVars, corrupt, diskVars, told, boundVars>>

\* Mutant: the backup is written from rows listed before the insert.
InsertRepoStaleBackup(p) ==
    /\ pc[p] = "body" /\ op[p].kind = "add"
    /\ op[p].repo \notin repos
    /\ repos' = repos \union {op[p].repo}
    /\ last' = [last EXCEPT ![op[p].repo] = NoSnapshot]
    /\ image' = [image EXCEPT ![p] = [repos |-> repos, last |-> last]]
    /\ Goto(p, "sync_write")
    /\ UNCHANGED <<manifestRows, buffers, corrupt, diskVars, op, checked, pending,
                   listed, current, told, boundVars>>

InsertRepo(p) ==
    /\ pc[p] = "body" /\ op[p].kind = "add"
    /\ op[p].repo \notin repos
    /\ repos' = repos \union {op[p].repo}
    /\ last' = [last EXCEPT ![op[p].repo] = NoSnapshot]
    /\ Goto(p, "sync_list")
    /\ UNCHANGED <<manifestRows, buffers, corrupt, diskVars, localVars, told,
                   boundVars>>

AlreadyRegistered(p) ==
    /\ pc[p] = "body" /\ op[p].kind = "add"
    /\ op[p].repo \in repos
    /\ Finish(p)
    /\ UNCHANGED <<dbVars, corrupt, diskVars, told, boundVars>>

\* Mutant: the manifest directory is removed before the rows that name it.
DeleteRepoDirFirst(p) ==
    /\ pc[p] = "body" /\ op[p].kind \in {"remove", "purge"}
    /\ op[p].repo \in repos
    /\ repos' = repos \ {op[p].repo}
    /\ last' = [last EXCEPT ![op[p].repo] = NoSnapshot]
    /\ told' = [told EXCEPT !.added = @ \ {op[p].repo},
                            !.created = @ \ SnapshotsOf(op[p].repo)]
    /\ Goto(p, IF op[p].kind = "purge" THEN "purge_dir" ELSE "sync_list")
    /\ UNCHANGED <<manifestRows, buffers, corrupt, diskVars, localVars, boundVars>>

DeleteRepo(p) ==
    /\ pc[p] = "body" /\ op[p].kind \in {"remove", "purge"}
    /\ op[p].repo \in repos
    /\ repos' = repos \ {op[p].repo}
    /\ last' = [last EXCEPT ![op[p].repo] = NoSnapshot]
    /\ told' = [told EXCEPT !.added = @ \ {op[p].repo}]
    /\ Goto(p, IF op[p].kind = "purge" THEN "purge_rows" ELSE "sync_list")
    /\ UNCHANGED <<manifestRows, buffers, corrupt, diskVars, localVars, boundVars>>

\* Nothing deleted: nothing is purged and the backup is left alone.
NothingToRemove(p) ==
    /\ pc[p] = "body" /\ op[p].kind \in {"remove", "purge"}
    /\ op[p].repo \notin repos
    /\ Finish(p)
    /\ UNCHANGED <<dbVars, corrupt, diskVars, told, boundVars>>

PurgeManifestRows(p) ==
    /\ pc[p] = "purge_rows"
    /\ manifestRows' = manifestRows \ SnapshotsOf(op[p].repo)
    /\ told' = [told EXCEPT !.created = @ \ SnapshotsOf(op[p].repo)]
    /\ Goto(p, "purge_buffers")
    /\ UNCHANGED <<repos, last, buffers, corrupt, diskVars, localVars, boundVars>>

\* Mutant: only database rows are purged.
PurgeBuffersKeepsDir(p) ==
    /\ pc[p] = "purge_buffers"
    /\ buffers' = buffers \ ({op[p].repo} \X Buffer)
    /\ Goto(p, "sync_list")
    /\ UNCHANGED <<repos, last, manifestRows, corrupt, diskVars, localVars, told,
                   boundVars>>

PurgeBuffers(p) ==
    /\ pc[p] = "purge_buffers"
    /\ buffers' = buffers \ ({op[p].repo} \X Buffer)
    /\ Goto(p, "purge_dir")
    /\ UNCHANGED <<repos, last, manifestRows, corrupt, diskVars, localVars, told,
                   boundVars>>

\* remove_dir_all unlinks one file after the other.
PurgeFile(p) ==
    /\ pc[p] = "purge_dir"
    /\ \E s \in files \intersect SnapshotsOf(op[p].repo) : files' = files \ {s}
    /\ UNCHANGED <<dbVars, corrupt, backup, pc, localVars, told, boundVars>>

\* Mutant: a purge leaves the backup as it was.
PurgeDirDoneKeepsBackup(p) ==
    /\ pc[p] = "purge_dir"
    /\ files \intersect SnapshotsOf(op[p].repo) = {}
    /\ told' = [told EXCEPT !.removed = @ \union {op[p].repo}]
    /\ Finish(p)
    /\ UNCHANGED <<dbVars, corrupt, diskVars, boundVars>>

PurgeDirDone(p) ==
    /\ pc[p] = "purge_dir"
    /\ files \intersect SnapshotsOf(op[p].repo) = {}
    /\ Goto(p, "sync_list")
    /\ UNCHANGED <<dbVars, corrupt, diskVars, localVars, told, boundVars>>

SetBuffer(p) ==
    /\ pc[p] = "body" /\ checked[p] /\ op[p].kind = "set_buffer"
    /\ buffers' = buffers \union {<<op[p].repo, op[p].item>>}
    /\ Finish(p)
    /\ UNCHANGED <<repos, last, manifestRows, corrupt, diskVars, told, boundVars>>

ClearBuffer(p) ==
    /\ pc[p] = "body" /\ checked[p] /\ op[p].kind = "clear_buffer"
    /\ buffers' = buffers \ {<<op[p].repo, op[p].item>>}
    /\ Finish(p)
    /\ UNCHANGED <<repos, last, manifestRows, corrupt, diskVars, told, boundVars>>

\* persist_manifest: the file is complete before its name appears (written
\* as .json.tmp, which no reader picks up, then renamed), then the index
\* row, then last_snapshot_id, then the backup.
RenameManifest(p) ==
    /\ pc[p] = "body" /\ checked[p] /\ op[p].kind = "snapshot"
    /\ files' = files \union {OpSnapshot(p)}
    /\ Goto(p, "manifest_row")
    /\ UNCHANGED <<dbVars, corrupt, backup, localVars, told, boundVars>>

UpsertManifestRow(p) ==
    /\ pc[p] = "manifest_row"
    /\ manifestRows' = manifestRows \union {OpSnapshot(p)}
    /\ Goto(p, "last_row")
    /\ UNCHANGED <<repos, last, buffers, corrupt, diskVars, localVars, told,
                   boundVars>>

\* Mutant: the column receives the digest without the repository.
UpdateLastSnapshotDigest(p) ==
    /\ pc[p] = "last_row"
    /\ last' = IF op[p].repo \in repos
                 THEN [last EXCEPT ![op[p].repo] = op[p].item] ELSE last
    /\ Goto(p, "sync_list")
    /\ UNCHANGED <<repos, manifestRows, buffers, corrupt, diskVars, localVars,
                   told, boundVars>>

\* UPDATE repos ... WHERE repo_id: no row, no update.
UpdateLastSnapshot(p) ==
    /\ pc[p] = "last_row"
    /\ last' = IF op[p].repo \in repos
                 THEN [last EXCEPT ![op[p].repo] = OpSnapshot(p)] ELSE last
    /\ Goto(p, "sync_list")
    /\ UNCHANGED <<repos, manifestRows, buffers, corrupt, diskVars, localVars,
                   told, boundVars>>

\* sync_repo_registry_backup: list the rows, then replace the file.
SyncList(p) ==
    /\ pc[p] = "sync_list"
    /\ image' = [image EXCEPT ![p] = [repos |-> repos, last |-> last]]
    /\ Goto(p, "sync_write")
    /\ UNCHANGED <<dbVars, corrupt, diskVars, op, checked, pending, listed,
                   current, told, boundVars>>

\* The answer follows the backup; add_repo ends with show_repo, which
\* fails when the row is gone by then.
SyncWrite(p) ==
    /\ pc[p] = "sync_write"
    /\ backup' = image[p]
    /\ LET r == op[p].repo
           k == op[p].kind
       IN told' = [told EXCEPT
             !.added = IF k = "add" /\ r \in repos THEN @ \union {r} ELSE @,
             !.removed = IF k \in {"remove", "purge"} THEN @ \union {r} ELSE @,
             !.purged = IF k = "purge" THEN @ \union {r} ELSE @,
             !.created = IF k = "snapshot" THEN @ \union {OpSnapshot(p)} ELSE @]
    /\ Finish(p)
    /\ UNCHANGED <<dbVars, corrupt, files, boundVars>>

-----------------------------------------------------------------------------
(* hyperctl reset-runtime                                                  *)

\* The state directory (database and backup), in either order, ...
ResetDatabase(p) ==
    /\ pc[p] = "reset_state"
    /\ corrupt \/ <<repos, manifestRows, buffers>> # <<{}, {}, {}>>
    /\ repos' = {} /\ manifestRows' = {} /\ buffers' = {}
    /\ last' = [r \in Repo |-> NoSnapshot]
    /\ corrupt' = FALSE
    /\ UNCHANGED <<diskVars, pc, localVars, told, boundVars>>

ResetBackup(p) ==
    /\ pc[p] = "reset_state" /\ backup # EmptyImage
    /\ backup' = EmptyImage
    /\ UNCHANGED <<dbVars, corrupt, files, pc, localVars, told, boundVars>>

ResetStateDone(p) ==
    /\ pc[p] = "reset_state"
    /\ ~corrupt /\ <<repos, manifestRows, buffers>> = <<{}, {}, {}>>
    /\ backup = EmptyImage
    /\ Goto(p, "reset_data")
    /\ UNCHANGED <<dbVars, corrupt, diskVars, localVars, told, boundVars>>

\* ... then the data directory, with the manifests, ...
ResetFile(p) ==
    /\ pc[p] = "reset_data"
    /\ \E s \in files : files' = files \ {s}
    /\ UNCHANGED <<dbVars, corrupt, backup, pc, localVars, told, boundVars>>

\* ... and a new store is opened.
ResetDataDone(p) ==
    /\ pc[p] = "reset_data" /\ files = {}
    /\ Goto(p, "open")
    /\ UNCHANGED <<dbVars, corrupt, diskVars, localVars, told, boundVars>>

AnswerReset(p) ==
    /\ pc[p] = "body" /\ op[p].kind = "reset"
    /\ told' = [told EXCEPT !.removed = Repo, !.purged = Repo]
    /\ Finish(p)
    /\ UNCHANGED <<dbVars, corrupt, diskVars, boundVars>>

-----------------------------------------------------------------------------
(* Faults                                                                  *)

\* An error return or the death of the process: what it wrote stays.
Stop(p) ==
    /\ pc[p] # "idle" /\ stops < MaxStops
    /\ stops' = stops + 1
    /\ Finish(p)
    /\ UNCHANGED <<dbVars, corrupt, diskVars, told, corruptions>>

\* The database file is damaged while nobody uses it.  Buffers have no
\* second copy.
Corrupt ==
    /\ corruptions < MaxCorruptions /\ \A p \in Process : pc[p] = "idle"
    /\ corrupt' = TRUE
    /\ corruptions' = corruptions + 1
    /\ UNCHANGED <<dbVars, diskVars, pc, localVars, told, stops>>

-----------------------------------------------------------------------------
Open(p) == \/ OpenConnection(p) \/ CheckRestore(p) \/ RestoreRow(p)
           \/ RestoreDone(p) \/ ScanManifests(p) \/ ReadManifest(p)
           \/ IndexRepoRow(p) \/ IndexManifestRow(p) \/ OpenDone(p)

AddRepo(p) == InsertRepo(p) \/ AlreadyRegistered(p)

RemoveRepo(p) == \/ DeleteRepo(p) \/ NothingToRemove(p) \/ PurgeManifestRows(p)
                 \/ PurgeBuffers(p) \/ PurgeFile(p) \/ PurgeDirDone(p)

PersistManifest(p) ==
    RenameManifest(p) \/ UpsertManifestRow(p) \/ UpdateLastSnapshot(p)

ResetRuntime(p) == \/ ResetDatabase(p) \/ ResetBackup(p) \/ ResetStateDone(p)
                   \/ ResetFile(p) \/ ResetDataDone(p) \/ AnswerReset(p)

Next ==
    \/ \E p \in Process :
          \/ Begin(p) \/ BeginReset(p) \/ Open(p) \/ AnswerRead(p)
          \/ ShowRepo(p) \/ RepoNotFound(p) \/ AddRepo(p) \/ RemoveRepo(p)
          \/ SetBuffer(p) \/ ClearBuffer(p) \/ PersistManifest(p)
          \/ SyncList(p) \/ SyncWrite(p) \/ ResetRuntime(p) \/ Stop(p)
    \/ Corrupt

Spec == Init /\ [][Next]_vars

-----------------------------------------------------------------------------
(* Properties                                                              *)

\* list_manifests and load_manifest read the file a row points to and fail
\* without it: every row must have its file, whatever stopped before.
RowsHaveFiles == manifestRows \subseteq files

\* Once a request has opened the store, the tables show every manifest on
\* disk and the repository it belongs to (reindex_manifests_from_disk).
OpenShowsDisk ==
    \A p \in Process : pc[p] = "body" =>
        /\ files \subseteq manifestRows
        /\ \A s \in files : RepoOf(s) \in repos

\* A caller that was told its repository is registered finds it in every
\* later request, until somebody removes it.
AddedIsListed ==
    \A p \in Process : pc[p] = "body" => told.added \subseteq repos

\* A snapshot whose creation was answered stays on disk until its
\* repository is purged.
CreatedIsKept == told.created \subseteq files

\* repos_remove was answered with purged_state = true: no trace of the
\* repository is left, and reopening the store brings none back.
PurgedIsGone ==
    \A r \in told.purged :
        /\ \A p \in Process : pc[p] = "body" => r \notin repos
        /\ (manifestRows \union files) \intersect SnapshotsOf(r) = {}
        /\ buffers \intersect ({r} \X Buffer) = {}

\* last_snapshot_id names a snapshot that can be loaded.
LastIsLoadable ==
    \A p \in Process : pc[p] = "body" =>
        \A r \in repos : last[r] \in files \union {NoSnapshot}

-----------------------------------------------------------------------------
(* The registry a caller gets by opening the store now: what is in the     *)
(* database, or in the backup when the database is empty or damaged, and   *)
(* the owners of the manifests on disk.                                    *)

Rows == IF corrupt THEN {} ELSE repos
Recoverable ==
    (IF Rows = {} THEN backup.repos ELSE Rows)
        \union {RepoOf(s) : s \in files}
        \union UNION {pending[p] : p \in Process}

Promise == INSTANCE RegistryPromise WITH registered <- Recoverable
RegistryKept == Promise!Spec
=============================================================================
