--------------------------- MODULE RepoStoreProofs ---------------------------
(***************************************************************************)
(* Proofs about RepoStore.  The theorems hold for any number of            *)
(* repositories, contents and buffers, and for any number of stops and     *)
(* damages.  TypeCorrect holds for any number of processes; the safety     *)
(* theorems are about one process at a time, as one hyperd on its socket   *)
(* is; README.md says what two can reach.                                  *)
(***************************************************************************)
EXTENDS RepoStore, TLAPS

BufferKinds == {"set_buffer", "clear_buffer"}
SnapshotPhases == {"manifest_row", "last_row"}
IndexPhases == {"index_repo", "index_manifest"}

\* What an operation in progress carries, which TypeOK does not say.
PhaseOK(p) ==
    /\ pc[p] # "idle" => op[p] \in Op
    /\ pc[p] # "idle" /\ op[p].kind \in BufferKinds => op[p].item \in Buffer
    /\ pc[p] # "idle" /\ op[p].kind \notin BufferKinds => op[p].item \in Version
    /\ pc[p] \in SnapshotPhases => op[p].kind = "snapshot"
    /\ pc[p] \in IndexPhases => current[p] \in Snapshot

TypeInv == TypeOK /\ \A p \in Process : PhaseOK(p)

LEMMA InitType == Init => TypeInv
<1> SUFFICES ASSUME Init PROVE TypeInv
  OBVIOUS
<1> USE NoSnapshotAssumption, BoundsAssumption
<1>a. EmptyImage \in Image
  BY DEF EmptyImage, Image, LastSnapshot
<1>b. stops \in 0 .. MaxStops /\ corruptions \in 0 .. MaxCorruptions
  BY DEF Init
<1>1. TypeOK
  BY <1>a, <1>b DEF Init, TypeOK, LastSnapshot, PC
<1>2. \A p \in Process : PhaseOK(p)
  BY DEF Init, PhaseOK, SnapshotPhases, IndexPhases
<1> QED BY <1>1, <1>2 DEF TypeInv

\* Ending an operation keeps the types of the locals.
LEMMA FinishType ==
  ASSUME TypeInv, NEW p \in Process, Finish(p)
  PROVE  /\ pc' \in [Process -> PC]
         /\ op' \in [Process -> Op \union {NoOp}]
         /\ checked' \in [Process -> BOOLEAN]
         /\ pending' \in [Process -> SUBSET Repo]
         /\ listed' \in [Process -> SUBSET Snapshot]
         /\ current' \in [Process -> LastSnapshot]
         /\ image' \in [Process -> Image]
         /\ \A q \in Process : PhaseOK(q)'
<1>1. EmptyImage \in Image
  BY DEF EmptyImage, Image, LastSnapshot
<1>2. pc' \in [Process -> PC]
  BY DEF Finish, Goto, TypeInv, TypeOK, PC
<1>3. /\ op' \in [Process -> Op \union {NoOp}]
      /\ checked' \in [Process -> BOOLEAN]
      /\ pending' \in [Process -> SUBSET Repo]
      /\ listed' \in [Process -> SUBSET Snapshot]
  BY DEF Finish, TypeInv, TypeOK
<1>4. /\ current' \in [Process -> LastSnapshot]
      /\ image' \in [Process -> Image]
  BY <1>1 DEF Finish, TypeInv, TypeOK, LastSnapshot
<1>5. \A q \in Process : PhaseOK(q)'
  BY DEF Finish, Goto, TypeInv, TypeOK, PhaseOK, SnapshotPhases, IndexPhases
<1> QED BY <1>2, <1>3, <1>4, <1>5

\* Opening the store keeps the types.
LEMMA OpenType ==
  ASSUME TypeInv, NEW p \in Process, Open(p)
  PROVE  TypeInv'
<1> USE DEF TypeInv, TypeOK, PhaseOK, BufferKinds, SnapshotPhases, IndexPhases,
      Goto, dbVars, diskVars, localVars, boundVars
<1>1. CASE OpenConnection(p)
  BY <1>1 DEF OpenConnection, PC, LastSnapshot
<1>2. CASE CheckRestore(p)
  <2>1. backup.repos \subseteq Repo
    BY DEF Image
  <2>2. pending' \in [Process -> SUBSET Repo]
    BY <1>2, <2>1 DEF CheckRestore
  <2>3. image' \in [Process -> Image]
    BY <1>2 DEF CheckRestore
  <2>4. pc' \in [Process -> PC]
    BY <1>2 DEF CheckRestore, PC
  <2>5. \A q \in Process : PhaseOK(q)'
    BY <1>2 DEF CheckRestore
  <2> QED BY <1>2, <2>2, <2>3, <2>4, <2>5 DEF CheckRestore
<1>3. CASE RestoreRow(p)
  BY <1>3 DEF RestoreRow, Image
<1>4. CASE RestoreDone(p)
  BY <1>4 DEF RestoreDone, PC, EmptyImage, Image, LastSnapshot
<1>5. CASE ScanManifests(p)
  BY <1>5 DEF ScanManifests, PC
<1>6. CASE ReadManifest(p)
  BY <1>6 DEF ReadManifest, PC, LastSnapshot
<1>7. CASE IndexRepoRow(p)
  BY <1>7 DEF IndexRepoRow, PC, LastSnapshot, Snapshot, RepoOf
<1>8. CASE IndexManifestRow(p)
  BY <1>8 DEF IndexManifestRow, PC, LastSnapshot
<1>9. CASE OpenDone(p)
  BY <1>9 DEF OpenDone, PC
<1> QED BY <1>1, <1>2, <1>3, <1>4, <1>5, <1>6, <1>7, <1>8, <1>9 DEF Open

\* Removing a repository keeps the types.
LEMMA RemoveType ==
  ASSUME TypeInv, NEW p \in Process, RemoveRepo(p)
  PROVE  TypeInv'
<1> USE DEF TypeInv, TypeOK, PhaseOK, BufferKinds, SnapshotPhases, IndexPhases,
      Goto, dbVars, diskVars, localVars, boundVars
<1>1. CASE DeleteRepo(p)
  BY <1>1 DEF DeleteRepo, PC, LastSnapshot
<1>2. CASE NothingToRemove(p)
  BY <1>2, FinishType DEF NothingToRemove
<1>3. CASE PurgeManifestRows(p)
  BY <1>3 DEF PurgeManifestRows, PC
<1>4. CASE PurgeBuffers(p)
  BY <1>4 DEF PurgeBuffers, PC
<1>5. CASE PurgeFile(p)
  BY <1>5 DEF PurgeFile
<1>6. CASE PurgeDirDone(p)
  BY <1>6 DEF PurgeDirDone, PC
<1> QED BY <1>1, <1>2, <1>3, <1>4, <1>5, <1>6 DEF RemoveRepo

\* Adding a repository keeps the types.
LEMMA AddType ==
  ASSUME TypeInv, NEW p \in Process, AddRepo(p)
  PROVE  TypeInv'
<1> USE DEF TypeInv, TypeOK, PhaseOK, BufferKinds, SnapshotPhases, IndexPhases,
      Goto, dbVars, diskVars, localVars, boundVars
<1>1. CASE InsertRepo(p)
  BY <1>1 DEF InsertRepo, PC, LastSnapshot, Op
<1>2. CASE AlreadyRegistered(p)
  BY <1>2, FinishType DEF AlreadyRegistered
<1> QED BY <1>1, <1>2 DEF AddRepo

\* Writing a manifest keeps the types.
LEMMA PersistType ==
  ASSUME TypeInv, NEW p \in Process, PersistManifest(p)
  PROVE  TypeInv'
<1> USE DEF TypeInv, TypeOK, PhaseOK, BufferKinds, SnapshotPhases, IndexPhases,
      Goto, dbVars, diskVars, localVars, boundVars
<1>1. CASE RenameManifest(p)
  BY <1>1 DEF RenameManifest, PC, OpSnapshot, Snapshot, Op
<1>2. CASE UpsertManifestRow(p)
  BY <1>2 DEF UpsertManifestRow, PC, OpSnapshot, Snapshot, Op
<1>3. CASE UpdateLastSnapshot(p)
  BY <1>3 DEF UpdateLastSnapshot, PC, OpSnapshot, Snapshot, Op, LastSnapshot
<1> QED BY <1>1, <1>2, <1>3 DEF PersistManifest

\* reset-runtime keeps the types.
LEMMA ResetType ==
  ASSUME TypeInv, NEW p \in Process, ResetRuntime(p)
  PROVE  TypeInv'
<1> USE DEF TypeInv, TypeOK, PhaseOK, BufferKinds, SnapshotPhases, IndexPhases,
      Goto, dbVars, diskVars, localVars, boundVars
<1>1. CASE ResetDatabase(p)
  BY <1>1 DEF ResetDatabase, LastSnapshot
<1>2. CASE ResetBackup(p)
  BY <1>2 DEF ResetBackup, EmptyImage, Image, LastSnapshot
<1>3. CASE ResetStateDone(p)
  BY <1>3 DEF ResetStateDone, PC
<1>4. CASE ResetFile(p)
  BY <1>4 DEF ResetFile
<1>5. CASE ResetDataDone(p)
  BY <1>5 DEF ResetDataDone, PC
<1>6. CASE AnswerReset(p)
  BY <1>6, FinishType DEF AnswerReset
<1> QED BY <1>1, <1>2, <1>3, <1>4, <1>5, <1>6 DEF ResetRuntime

\* A request starts, is read, checked or answered, or its process stops.
LEMMA RequestType ==
  ASSUME TypeInv, NEW p \in Process,
         \/ Begin(p) \/ BeginReset(p) \/ AnswerRead(p) \/ ShowRepo(p)
         \/ RepoNotFound(p) \/ SetBuffer(p) \/ ClearBuffer(p)
         \/ SyncList(p) \/ SyncWrite(p) \/ Stop(p)
  PROVE  TypeInv'
<1> USE DEF TypeInv, TypeOK, PhaseOK, BufferKinds, SnapshotPhases, IndexPhases,
      Goto, dbVars, diskVars, localVars, boundVars
<1>1. CASE Begin(p)
  <2>1. PICK o \in Op :
           /\ WellFormed(o)
           /\ op' = [op EXCEPT ![p] = o]
           /\ told' = IF o.kind = "add"
                        THEN [told EXCEPT !.removed = @ \ {o.repo},
                                          !.purged = @ \ {o.repo}]
                        ELSE told
    BY <1>1 DEF Begin
  <2>2. told' \in [added : SUBSET Repo, removed : SUBSET Repo,
                  purged : SUBSET Repo, created : SUBSET Snapshot]
    <3>1. CASE o.kind = "add"
      BY <2>1, <3>1
    <3>2. CASE o.kind # "add"
      BY <2>1, <3>2
    <3> QED BY <3>1, <3>2
  <2>3. pc' \in [Process -> PC] /\ pc' = [pc EXCEPT ![p] = "open"]
    BY <1>1 DEF Begin, PC
  <2>4. \A q \in Process : PhaseOK(q)'
    BY <1>1, <2>1, <2>3 DEF Begin, WellFormed
  <2> QED BY <1>1, <2>1, <2>2, <2>3, <2>4 DEF Begin
<1>2. CASE BeginReset(p)
  <2>1. PICK o \in Op : WellFormed(o) /\ op' = [op EXCEPT ![p] = o]
    BY <1>2 DEF BeginReset
  <2>2. told' \in [added : SUBSET Repo, removed : SUBSET Repo,
                  purged : SUBSET Repo, created : SUBSET Snapshot]
    BY <1>2 DEF BeginReset
  <2>3. pc' \in [Process -> PC] /\ pc' = [pc EXCEPT ![p] = "reset_state"]
    BY <1>2 DEF BeginReset, PC
  <2>4. \A q \in Process : PhaseOK(q)'
    BY <1>2, <2>1, <2>3 DEF BeginReset, WellFormed
  <2> QED BY <1>2, <2>1, <2>2, <2>3, <2>4 DEF BeginReset
<1>3. CASE AnswerRead(p)
  BY <1>3, FinishType DEF AnswerRead
<1>4. CASE ShowRepo(p)
  BY <1>4 DEF ShowRepo, PC
<1>5. CASE RepoNotFound(p)
  BY <1>5, FinishType DEF RepoNotFound
<1>6. CASE SetBuffer(p)
  BY <1>6, FinishType DEF SetBuffer, Op
<1>7. CASE ClearBuffer(p)
  BY <1>7, FinishType DEF ClearBuffer
<1>8. CASE SyncList(p)
  BY <1>8 DEF SyncList, PC, Image
<1>9. CASE SyncWrite(p)
  <2>1. op[p].kind \in AllKinds /\ op[p].repo \in Repo
    BY <1>9 DEF SyncWrite, Op
  <2>2. op[p].kind = "snapshot" => OpSnapshot(p) \in Snapshot
    BY <1>9 DEF SyncWrite, Op, OpSnapshot, Snapshot
  <2>3. told' \in [added : SUBSET Repo, removed : SUBSET Repo,
                  purged : SUBSET Repo, created : SUBSET Snapshot]
    BY <1>9, <2>1, <2>2 DEF SyncWrite
  <2>4. backup' \in Image
    BY <1>9 DEF SyncWrite
  <2>5. Finish(p) /\ UNCHANGED <<dbVars, corrupt, files, boundVars>>
    BY <1>9 DEF SyncWrite
  <2> QED BY <2>3, <2>4, <2>5, FinishType
<1>10. CASE Stop(p)
  BY <1>10, FinishType, BoundsAssumption DEF Stop
<1> QED
  BY <1>1, <1>2, <1>3, <1>4, <1>5, <1>6, <1>7, <1>8, <1>9, <1>10

LEMMA TypeStep == TypeInv /\ [Next]_vars => TypeInv'
<1> SUFFICES ASSUME TypeInv, [Next]_vars PROVE TypeInv'
  OBVIOUS
<1>1. CASE UNCHANGED vars
  BY <1>1 DEF TypeInv, TypeOK, PhaseOK, vars, dbVars, diskVars, localVars, boundVars
<1>2. CASE Corrupt
  BY <1>2, BoundsAssumption
  DEF Corrupt, TypeInv, TypeOK, PhaseOK, dbVars, diskVars, localVars
<1>3. ASSUME NEW p \in Process, Open(p) PROVE TypeInv'
  BY <1>3, OpenType
<1>4. ASSUME NEW p \in Process, AddRepo(p) PROVE TypeInv'
  BY <1>4, AddType
<1>5. ASSUME NEW p \in Process, RemoveRepo(p) PROVE TypeInv'
  BY <1>5, RemoveType
<1>6. ASSUME NEW p \in Process, PersistManifest(p) PROVE TypeInv'
  BY <1>6, PersistType
<1>7. ASSUME NEW p \in Process, ResetRuntime(p) PROVE TypeInv'
  BY <1>7, ResetType
<1> QED
  BY <1>1, <1>2, <1>3, <1>4, <1>5, <1>6, <1>7, RequestType DEF Next

\* Every table, file and local of the store holds values of its type, for
\* every instance and any number of processes.
THEOREM TypeCorrect == Spec => []TypeOK
<1>1. Spec => []TypeInv
  BY InitType, TypeStep, PTL DEF Spec
<1>2. TypeInv => TypeOK
  BY DEF TypeInv
<1> QED BY <1>1, <1>2, PTL

-----------------------------------------------------------------------------
(* One process at a time                                                   *)

OneProcess == \A p, q \in Process : p = q

\* The parts of the store that belong to repository r, but for its row.
Traceless(r) ==
    /\ manifestRows \intersect SnapshotsOf(r) = {}
    /\ files \intersect SnapshotsOf(r) = {}
    /\ buffers \intersect ({r} \X Buffer) = {}

OpenPhases == {"open", "restore_check", "restore", "scan", "reindex", "body"}
PurgePhases == {"purge_rows", "purge_buffers", "purge_dir"}
SyncPhases == {"sync_list", "sync_write"}

\* Nothing is left anywhere.
StoreEmpty ==
    /\ repos = {} /\ manifestRows = {} /\ files = {} /\ buffers = {}
    /\ backup.repos = {}

\* What holds between two steps of the one process: the order of the writes
\* of an operation, and what its locals may still bring back.
OrderInv(p) ==
    /\ pc[p] \in IndexPhases => current[p] \in files
    /\ pc[p] \in SnapshotPhases => OpSnapshot(p) \in files
    /\ pc[p] \in {"purge_buffers", "purge_dir"} =>
          manifestRows \intersect SnapshotsOf(op[p].repo) = {}
    /\ pc[p] = "reset_data" => manifestRows = {}

ForgetInv(p) ==
    /\ pending[p] \intersect told.purged = {}
    /\ checked[p] => op[p].repo \notin told.purged
    /\ pc[p] # "idle" /\ op[p].kind = "add" => op[p].repo \notin told.purged
    /\ pc[p] \in SnapshotPhases => op[p].repo \notin told.purged
    /\ pc[p] \in PurgePhases => op[p].kind = "purge" /\ op[p].repo \notin repos
    /\ pc[p] = "purge_dir" => buffers \intersect ({op[p].repo} \X Buffer) = {}
    /\ pc[p] \in SyncPhases /\ op[p].kind = "purge" =>
          op[p].repo \notin repos /\ Traceless(op[p].repo)
    /\ pc[p] = "sync_write" => image[p].repos \subseteq repos
    /\ pc[p] = "reset_data" =>
          repos = {} /\ buffers = {} /\ backup.repos = {}
    /\ pc[p] \in {"reset_state", "reset_data"} => op[p].kind = "reset"
    /\ pc[p] \in {"idle", "reset_state", "reset_data"} =>
          pending[p] = {} /\ listed[p] = {} /\ ~checked[p]
    /\ pc[p] # "idle" /\ op[p].kind = "reset"
          /\ pc[p] \notin {"reset_state", "reset_data"} =>
             /\ pc[p] \in OpenPhases
             /\ pending[p] = {} /\ listed[p] = {}
             /\ StoreEmpty

PurgedTraceless ==
    \A r \in told.purged : r \notin repos \union backup.repos /\ Traceless(r)

OrderSafe == RowsHaveFiles /\ \A p \in Process : OrderInv(p)
ForgetSafe == PurgedTraceless /\ \A p \in Process : ForgetInv(p)

\* Request: files are there before their rows, rows go first.
LEMMA RequestOrder ==
  ASSUME OneProcess, TypeInv, OrderSafe, NEW p \in Process,
         (\/ Begin(p) \/ BeginReset(p) \/ AnswerRead(p) \/ ShowRepo(p)
            \/ RepoNotFound(p) \/ SetBuffer(p) \/ ClearBuffer(p) \/ SyncList(p)
            \/ SyncWrite(p) \/ Stop(p))
  PROVE  OrderSafe'
<1> USE DEF OneProcess, TypeInv, TypeOK, PhaseOK, OrderSafe, OrderInv,
      RowsHaveFiles, SnapshotPhases, IndexPhases,
      Goto, dbVars, diskVars, localVars, boundVars
<1>1. CASE Begin(p)
  BY <1>1 DEF Begin
<1>2. CASE BeginReset(p)
  BY <1>2 DEF BeginReset
<1>3. CASE AnswerRead(p)
  BY <1>3 DEF AnswerRead, Finish
<1>4. CASE ShowRepo(p)
  BY <1>4 DEF ShowRepo
<1>5. CASE RepoNotFound(p)
  BY <1>5 DEF RepoNotFound, Finish
<1>6. CASE SetBuffer(p)
  BY <1>6 DEF SetBuffer, Finish
<1>7. CASE ClearBuffer(p)
  BY <1>7 DEF ClearBuffer, Finish
<1>8. CASE SyncList(p)
  BY <1>8 DEF SyncList
<1>9. CASE SyncWrite(p)
  BY <1>9 DEF SyncWrite, Finish
<1>10. CASE Stop(p)
  BY <1>10 DEF Stop, Finish
<1> QED BY <1>1, <1>2, <1>3, <1>4, <1>5, <1>6, <1>7, <1>8, <1>9, <1>10

\* Open: files are there before their rows, rows go first.
LEMMA OpenOrder ==
  ASSUME OneProcess, TypeInv, OrderSafe, NEW p \in Process,
         Open(p)
  PROVE  OrderSafe'
<1> USE DEF OneProcess, TypeInv, TypeOK, PhaseOK, OrderSafe, OrderInv,
      RowsHaveFiles, SnapshotPhases, IndexPhases,
      Goto, dbVars, diskVars, localVars, boundVars
<1>1. CASE OpenConnection(p)
  BY <1>1 DEF OpenConnection
<1>2. CASE CheckRestore(p)
  BY <1>2 DEF CheckRestore
<1>3. CASE RestoreRow(p)
  BY <1>3 DEF RestoreRow
<1>4. CASE RestoreDone(p)
  BY <1>4 DEF RestoreDone
<1>5. CASE ScanManifests(p)
  BY <1>5 DEF ScanManifests
<1>6. CASE ReadManifest(p)
  BY <1>6 DEF ReadManifest
<1>7. CASE IndexRepoRow(p)
  BY <1>7 DEF IndexRepoRow
<1>8. CASE IndexManifestRow(p)
  BY <1>8 DEF IndexManifestRow
<1>9. CASE OpenDone(p)
  BY <1>9 DEF OpenDone
<1> QED BY <1>1, <1>2, <1>3, <1>4, <1>5, <1>6, <1>7, <1>8, <1>9 DEF Open

\* Add: files are there before their rows, rows go first.
LEMMA AddOrder ==
  ASSUME OneProcess, TypeInv, OrderSafe, NEW p \in Process,
         AddRepo(p)
  PROVE  OrderSafe'
<1> USE DEF OneProcess, TypeInv, TypeOK, PhaseOK, OrderSafe, OrderInv,
      RowsHaveFiles, SnapshotPhases, IndexPhases,
      Goto, dbVars, diskVars, localVars, boundVars
<1>1. CASE InsertRepo(p)
  BY <1>1 DEF InsertRepo
<1>2. CASE AlreadyRegistered(p)
  BY <1>2 DEF AlreadyRegistered, Finish
<1> QED BY <1>1, <1>2 DEF AddRepo

\* Remove: files are there before their rows, rows go first.
LEMMA RemoveOrder ==
  ASSUME OneProcess, TypeInv, OrderSafe, NEW p \in Process,
         RemoveRepo(p)
  PROVE  OrderSafe'
<1> USE DEF OneProcess, TypeInv, TypeOK, PhaseOK, OrderSafe, OrderInv,
      RowsHaveFiles, SnapshotPhases, IndexPhases,
      Goto, dbVars, diskVars, localVars, boundVars
<1>1. CASE DeleteRepo(p)
  BY <1>1 DEF DeleteRepo
<1>2. CASE NothingToRemove(p)
  BY <1>2 DEF NothingToRemove, Finish
<1>3. CASE PurgeManifestRows(p)
  BY <1>3 DEF PurgeManifestRows
<1>4. CASE PurgeBuffers(p)
  BY <1>4 DEF PurgeBuffers
<1>5. CASE PurgeFile(p)
  BY <1>5 DEF PurgeFile
<1>6. CASE PurgeDirDone(p)
  BY <1>6 DEF PurgeDirDone
<1> QED BY <1>1, <1>2, <1>3, <1>4, <1>5, <1>6 DEF RemoveRepo

\* Persist: files are there before their rows, rows go first.
LEMMA PersistOrder ==
  ASSUME OneProcess, TypeInv, OrderSafe, NEW p \in Process,
         PersistManifest(p)
  PROVE  OrderSafe'
<1> USE DEF OneProcess, TypeInv, TypeOK, PhaseOK, OrderSafe, OrderInv,
      RowsHaveFiles, SnapshotPhases, IndexPhases,
      Goto, dbVars, diskVars, localVars, boundVars
<1>1. CASE RenameManifest(p)
  BY <1>1 DEF RenameManifest, OpSnapshot
<1>2. CASE UpsertManifestRow(p)
  BY <1>2 DEF UpsertManifestRow, OpSnapshot
<1>3. CASE UpdateLastSnapshot(p)
  BY <1>3 DEF UpdateLastSnapshot, OpSnapshot
<1> QED BY <1>1, <1>2, <1>3 DEF PersistManifest

\* Reset: files are there before their rows, rows go first.
LEMMA ResetOrder ==
  ASSUME OneProcess, TypeInv, OrderSafe, NEW p \in Process,
         ResetRuntime(p)
  PROVE  OrderSafe'
<1> USE DEF OneProcess, TypeInv, TypeOK, PhaseOK, OrderSafe, OrderInv,
      RowsHaveFiles, SnapshotPhases, IndexPhases,
      Goto, dbVars, diskVars, localVars, boundVars
<1>1. CASE ResetDatabase(p)
  BY <1>1 DEF ResetDatabase
<1>2. CASE ResetBackup(p)
  BY <1>2 DEF ResetBackup
<1>3. CASE ResetStateDone(p)
  BY <1>3 DEF ResetStateDone
<1>4. CASE ResetFile(p)
  BY <1>4 DEF ResetFile
<1>5. CASE ResetDataDone(p)
  BY <1>5 DEF ResetDataDone
<1>6. CASE AnswerReset(p)
  BY <1>6 DEF AnswerReset, Finish
<1> QED BY <1>1, <1>2, <1>3, <1>4, <1>5, <1>6 DEF ResetRuntime

\* Request: nothing brings a purged repository back.
LEMMA RequestForget ==
  ASSUME OneProcess, TypeInv, ForgetSafe, OrderSafe, NEW p \in Process,
         (\/ Begin(p) \/ BeginReset(p) \/ AnswerRead(p) \/ ShowRepo(p)
            \/ RepoNotFound(p) \/ SetBuffer(p) \/ ClearBuffer(p) \/ SyncList(p)
            \/ SyncWrite(p) \/ Stop(p))
  PROVE  ForgetSafe'
<1> USE DEF OneProcess, TypeInv, TypeOK, PhaseOK, ForgetSafe, ForgetInv,
      PurgedTraceless, Traceless, StoreEmpty, OpenPhases, PurgePhases, SyncPhases,
      SnapshotPhases, IndexPhases,
      Goto, dbVars, diskVars, localVars, boundVars
<1>1. CASE Begin(p)
  <2>1. PICK o \in Op :
           /\ o.kind # "reset"
           /\ op' = [op EXCEPT ![p] = o]
           /\ told' = IF o.kind = "add"
                        THEN [told EXCEPT !.removed = @ \ {o.repo},
                                          !.purged = @ \ {o.repo}]
                        ELSE told
    BY <1>1 DEF Begin
  <2>2. /\ told'.purged \subseteq told.purged
        /\ o.kind = "add" => o.repo \notin told'.purged
    <3>1. CASE o.kind = "add"
      <4>1. told'.purged = told.purged \ {o.repo}
        BY <2>1, <3>1
      <4> QED BY <4>1
    <3>2. CASE o.kind # "add"
      BY <2>1, <3>2
    <3> QED BY <3>1, <3>2
  <2>3. op'[p] = o
    BY <2>1
  <2>4. /\ pc[p] = "idle" /\ pc' = [pc EXCEPT ![p] = "open"]
        /\ UNCHANGED <<dbVars, diskVars, checked, pending, listed, current, image>>
    BY <1>1 DEF Begin
  <2>5. PurgedTraceless'
    BY <2>2, <2>4
  <2>6. o.kind # "reset" /\ pc'[p] = "open" /\ ~checked'[p] /\ pending'[p] = {}
    BY <2>1, <2>4
  <2>7. ForgetInv(p)'
    BY <2>2, <2>3, <2>6
  <2> QED BY <2>5, <2>7
<1>2. CASE BeginReset(p)
  <2>1. op'[p].kind = "reset"
    BY <1>2 DEF BeginReset
  <2>2. told'.purged = told.purged
    BY <1>2 DEF BeginReset
  <2> QED BY <1>2, <2>1, <2>2 DEF BeginReset
<1>3. CASE AnswerRead(p)
  BY <1>3 DEF AnswerRead, Finish
<1>4. CASE ShowRepo(p)
  BY <1>4 DEF ShowRepo
<1>5. CASE RepoNotFound(p)
  BY <1>5 DEF RepoNotFound, Finish
<1>6. CASE SetBuffer(p)
  BY <1>6 DEF SetBuffer, Finish
<1>7. CASE ClearBuffer(p)
  BY <1>7 DEF ClearBuffer, Finish
<1>8. CASE SyncList(p)
  BY <1>8 DEF SyncList
<1>9. CASE SyncWrite(p)
  BY <1>9 DEF SyncWrite, Finish
<1>10. CASE Stop(p)
  BY <1>10 DEF Stop, Finish
<1> QED BY <1>1, <1>2, <1>3, <1>4, <1>5, <1>6, <1>7, <1>8, <1>9, <1>10

\* Open: nothing brings a purged repository back.
LEMMA OpenForget ==
  ASSUME OneProcess, TypeInv, ForgetSafe, OrderSafe, NEW p \in Process,
         Open(p)
  PROVE  ForgetSafe'
<1> USE DEF OneProcess, TypeInv, TypeOK, PhaseOK, ForgetSafe, ForgetInv,
      PurgedTraceless, Traceless, StoreEmpty, OpenPhases, PurgePhases, SyncPhases,
      SnapshotPhases, IndexPhases,
      Goto, dbVars, diskVars, localVars, boundVars
<1>1. CASE OpenConnection(p)
  BY <1>1 DEF OpenConnection
<1>2. CASE CheckRestore(p)
  BY <1>2 DEF CheckRestore
<1>3. CASE RestoreRow(p)
  BY <1>3 DEF RestoreRow
<1>4. CASE RestoreDone(p)
  BY <1>4 DEF RestoreDone
<1>5. CASE ScanManifests(p)
  BY <1>5 DEF ScanManifests
<1>6. CASE ReadManifest(p)
  BY <1>6 DEF ReadManifest
<1>7. CASE IndexRepoRow(p)
  <2>1. current[p] \in files /\ current[p] \in Snapshot
    BY <1>7 DEF IndexRepoRow, OrderSafe, OrderInv
  <2>2. RepoOf(current[p]) \notin told.purged
    BY <2>1 DEF SnapshotsOf
  <2>3. ~(op[p].kind = "reset")
    BY <1>7, <2>1 DEF IndexRepoRow
  <2> QED BY <1>7, <2>2, <2>3 DEF IndexRepoRow
<1>8. CASE IndexManifestRow(p)
  <2>1. current[p] \in files /\ current[p] \in Snapshot
    BY <1>8 DEF IndexManifestRow, OrderSafe, OrderInv
  <2>2. \A r \in told.purged : current[p] \notin SnapshotsOf(r)
    BY <2>1 DEF SnapshotsOf
  <2>3. ~(op[p].kind = "reset")
    BY <1>8, <2>1 DEF IndexManifestRow
  <2> QED BY <1>8, <2>2, <2>3 DEF IndexManifestRow
<1>9. CASE OpenDone(p)
  BY <1>9 DEF OpenDone
<1> QED BY <1>1, <1>2, <1>3, <1>4, <1>5, <1>6, <1>7, <1>8, <1>9 DEF Open

\* Add: nothing brings a purged repository back.
LEMMA AddForget ==
  ASSUME OneProcess, TypeInv, ForgetSafe, OrderSafe, NEW p \in Process,
         AddRepo(p)
  PROVE  ForgetSafe'
<1> USE DEF OneProcess, TypeInv, TypeOK, PhaseOK, ForgetSafe, ForgetInv,
      PurgedTraceless, Traceless, StoreEmpty, OpenPhases, PurgePhases, SyncPhases,
      SnapshotPhases, IndexPhases,
      Goto, dbVars, diskVars, localVars, boundVars
<1>1. CASE InsertRepo(p)
  BY <1>1 DEF InsertRepo
<1>2. CASE AlreadyRegistered(p)
  BY <1>2 DEF AlreadyRegistered, Finish
<1> QED BY <1>1, <1>2 DEF AddRepo

\* Remove: nothing brings a purged repository back.
LEMMA RemoveForget ==
  ASSUME OneProcess, TypeInv, ForgetSafe, OrderSafe, NEW p \in Process,
         RemoveRepo(p)
  PROVE  ForgetSafe'
<1> USE DEF OneProcess, TypeInv, TypeOK, PhaseOK, ForgetSafe, ForgetInv,
      PurgedTraceless, Traceless, StoreEmpty, OpenPhases, PurgePhases, SyncPhases,
      SnapshotPhases, IndexPhases,
      Goto, dbVars, diskVars, localVars, boundVars
<1>1. CASE DeleteRepo(p)
  BY <1>1 DEF DeleteRepo
<1>2. CASE NothingToRemove(p)
  BY <1>2 DEF NothingToRemove, Finish
<1>3. CASE PurgeManifestRows(p)
  BY <1>3 DEF PurgeManifestRows
<1>4. CASE PurgeBuffers(p)
  BY <1>4 DEF PurgeBuffers
<1>5. CASE PurgeFile(p)
  BY <1>5 DEF PurgeFile
<1>6. CASE PurgeDirDone(p)
  BY <1>6 DEF PurgeDirDone, OrderSafe, OrderInv
<1> QED BY <1>1, <1>2, <1>3, <1>4, <1>5, <1>6 DEF RemoveRepo

\* Persist: nothing brings a purged repository back.
LEMMA PersistForget ==
  ASSUME OneProcess, TypeInv, ForgetSafe, OrderSafe, NEW p \in Process,
         PersistManifest(p)
  PROVE  ForgetSafe'
<1> USE DEF OneProcess, TypeInv, TypeOK, PhaseOK, ForgetSafe, ForgetInv,
      PurgedTraceless, Traceless, StoreEmpty, OpenPhases, PurgePhases, SyncPhases,
      SnapshotPhases, IndexPhases,
      Goto, dbVars, diskVars, localVars, boundVars
<1>1. CASE RenameManifest(p)
  <2>1. RepoOf(OpSnapshot(p)) \notin told.purged
    BY <1>1 DEF RenameManifest, OpSnapshot, RepoOf
  <2>2. \A r \in told.purged : files' \intersect SnapshotsOf(r) = {}
    BY <1>1, <2>1 DEF RenameManifest, SnapshotsOf
  <2> QED BY <1>1, <2>2 DEF RenameManifest
<1>2. CASE UpsertManifestRow(p)
  <2>1. RepoOf(OpSnapshot(p)) \notin told.purged
    BY <1>2 DEF UpsertManifestRow, OpSnapshot, RepoOf
  <2>2. \A r \in told.purged : manifestRows' \intersect SnapshotsOf(r) = {}
    BY <1>2, <2>1 DEF UpsertManifestRow, SnapshotsOf
  <2> QED BY <1>2, <2>2 DEF UpsertManifestRow
<1>3. CASE UpdateLastSnapshot(p)
  BY <1>3 DEF UpdateLastSnapshot
<1> QED BY <1>1, <1>2, <1>3 DEF PersistManifest

\* Reset: nothing brings a purged repository back.
LEMMA ResetForget ==
  ASSUME OneProcess, TypeInv, ForgetSafe, OrderSafe, NEW p \in Process,
         ResetRuntime(p)
  PROVE  ForgetSafe'
<1> USE DEF OneProcess, TypeInv, TypeOK, PhaseOK, ForgetSafe, ForgetInv,
      PurgedTraceless, Traceless, StoreEmpty, OpenPhases, PurgePhases, SyncPhases,
      SnapshotPhases, IndexPhases,
      Goto, dbVars, diskVars, localVars, boundVars
<1>1. CASE ResetDatabase(p)
  BY <1>1 DEF ResetDatabase
<1>2. CASE ResetBackup(p)
  BY <1>2 DEF ResetBackup, EmptyImage
<1>3. CASE ResetStateDone(p)
  BY <1>3 DEF ResetStateDone, EmptyImage
<1>4. CASE ResetFile(p)
  BY <1>4 DEF ResetFile
<1>5. CASE ResetDataDone(p)
  BY <1>5 DEF ResetDataDone, OrderSafe, OrderInv
<1>6. CASE AnswerReset(p)
  BY <1>6 DEF AnswerReset, Finish
<1> QED BY <1>1, <1>2, <1>3, <1>4, <1>5, <1>6 DEF ResetRuntime

LEMMA SafeInit == Init => OrderSafe /\ ForgetSafe
<1> SUFFICES ASSUME Init PROVE OrderSafe /\ ForgetSafe
  OBVIOUS
<1>1. OrderSafe
  BY DEF Init, OrderSafe, OrderInv, RowsHaveFiles, SnapshotPhases, IndexPhases
<1>2. ForgetSafe
  BY DEF Init, ForgetSafe, ForgetInv, PurgedTraceless, PurgePhases, SyncPhases,
         SnapshotPhases
<1> QED BY <1>1, <1>2

LEMMA SafeStep ==
  ASSUME OneProcess
  PROVE  TypeInv /\ OrderSafe /\ ForgetSafe /\ [Next]_vars
            => OrderSafe' /\ ForgetSafe'
<1> SUFFICES ASSUME TypeInv, OrderSafe, ForgetSafe, [Next]_vars
             PROVE  OrderSafe' /\ ForgetSafe'
  OBVIOUS
<1>1. CASE UNCHANGED vars \/ Corrupt
  <2>1. UNCHANGED <<dbVars, diskVars, pc, localVars, told>>
    BY <1>1 DEF vars, Corrupt
  <2>2. OrderSafe'
    BY <2>1 DEF OrderSafe, OrderInv, RowsHaveFiles, OpSnapshot, dbVars, diskVars,
                localVars
  <2>3. ForgetSafe'
    BY <2>1 DEF ForgetSafe, ForgetInv, PurgedTraceless, Traceless, StoreEmpty, dbVars,
                diskVars, localVars
  <2> QED BY <2>2, <2>3
<1>2. ASSUME NEW p \in Process, Open(p) PROVE OrderSafe' /\ ForgetSafe'
  BY <1>2, OpenOrder, OpenForget
<1>3. ASSUME NEW p \in Process, AddRepo(p) PROVE OrderSafe' /\ ForgetSafe'
  BY <1>3, AddOrder, AddForget
<1>4. ASSUME NEW p \in Process, RemoveRepo(p) PROVE OrderSafe' /\ ForgetSafe'
  BY <1>4, RemoveOrder, RemoveForget
<1>5. ASSUME NEW p \in Process, PersistManifest(p) PROVE OrderSafe' /\ ForgetSafe'
  BY <1>5, PersistOrder, PersistForget
<1>6. ASSUME NEW p \in Process, ResetRuntime(p) PROVE OrderSafe' /\ ForgetSafe'
  BY <1>6, ResetOrder, ResetForget
<1> QED
  BY <1>1, <1>2, <1>3, <1>4, <1>5, <1>6, RequestOrder, RequestForget DEF Next

LEMMA SafeAlways ==
  ASSUME OneProcess
  PROVE  Spec => [](TypeInv /\ OrderSafe /\ ForgetSafe)
BY InitType, TypeStep, SafeInit, SafeStep, PTL DEF Spec

\* With one process, whatever stops it and whenever the database is damaged,
\* every row of snapshot_manifests names a file that exists: the order in
\* which persist_manifest writes and remove_repo deletes is enough.
THEOREM RowsAlwaysHaveFiles ==
  ASSUME OneProcess
  PROVE  Spec => []RowsHaveFiles
<1>1. OrderSafe => RowsHaveFiles
  BY DEF OrderSafe
<1> QED BY <1>1, SafeAlways, PTL

\* With one process, a repository whose purge was answered stays gone until
\* it is added again: no row, manifest, buffer or backup entry brings it back,
\* whatever stops the process later and whenever the database is damaged.
THEOREM PurgeIsFinal ==
  ASSUME OneProcess
  PROVE  Spec => []PurgedIsGone
<1>1. ForgetSafe => PurgedIsGone
  BY DEF ForgetSafe, PurgedTraceless, Traceless, PurgedIsGone
<1> QED BY <1>1, SafeAlways, PTL

-----------------------------------------------------------------------------
(* What is kept and what is shown                                          *)

\* What a snapshot that is being written or purged has told.
KeepInv(p) ==
    /\ pc[p] \in {"purge_buffers", "purge_dir"} => told.created \intersect SnapshotsOf(op[p].repo) = {}
    /\ pc[p] \in SyncPhases /\ op[p].kind = "snapshot" => OpSnapshot(p) \in files
    /\ pc[p] # "idle" /\ op[p].kind = "reset" => told.created = {}

\* What an open has not read yet is all that may be missing in the tables.
ShowInv(p) ==
    /\ pc[p] = "reindex" =>
          /\ files \subseteq manifestRows \union listed[p]
          /\ \A s \in files \ listed[p] : RepoOf(s) \in repos
    /\ pc[p] \in IndexPhases =>
          /\ files \subseteq manifestRows \union listed[p] \union {current[p]}
          /\ \A s \in files \ listed[p] : s # current[p] => RepoOf(s) \in repos
    /\ pc[p] = "index_manifest" => RepoOf(current[p]) \in repos
    /\ pc[p] = "body" => files \subseteq manifestRows /\ \A s \in files : RepoOf(s) \in repos

KeepSafe == CreatedIsKept /\ \A p \in Process : KeepInv(p) /\ ShowInv(p)

\* What a caller was told was created is not changed by a new request ...
LEMMA BeginKeeps ==
  ASSUME TypeInv, NEW p \in Process, Begin(p)
  PROVE  /\ told'.created = told.created /\ files' = files
         /\ op'[p].kind # "reset" /\ pc'[p] = "open"
<1>1. PICK o \in Op :
         /\ o.kind # "reset"
         /\ op' = [op EXCEPT ![p] = o]
         /\ told' = IF o.kind = "add"
                      THEN [told EXCEPT !.removed = @ \ {o.repo},
                                        !.purged = @ \ {o.repo}]
                      ELSE told
  BY Zenon DEF Begin
<1>2. told'.created = told.created
  <2>1. CASE o.kind = "add"
    BY <1>1, <2>1 DEF TypeInv, TypeOK
  <2>2. CASE o.kind # "add"
    BY <1>1, <2>2
  <2> QED BY <2>1, <2>2
<1>3. op'[p].kind # "reset"
  BY <1>1 DEF TypeInv, TypeOK
<1>4. files' = files /\ pc'[p] = "open"
  BY DEF Begin, Goto, diskVars, TypeInv, TypeOK
<1> QED BY <1>2, <1>3, <1>4

\* ... and is forgotten when the runtime is reset.
LEMMA ResetForgets ==
  ASSUME TypeInv, NEW p \in Process, BeginReset(p)
  PROVE  told'.created = {} /\ pc'[p] = "reset_state"
<1>1. told'.created = {}
  BY DEF BeginReset, TypeInv, TypeOK
<1>2. pc'[p] = "reset_state"
  BY DEF BeginReset, Goto, TypeInv, TypeOK
<1> QED BY <1>1, <1>2

\* Request: manifests are kept and shown.
LEMMA RequestKeep ==
  ASSUME OneProcess, TypeInv, OrderSafe, ForgetSafe, KeepSafe, NEW p \in Process,
         (\/ Begin(p) \/ BeginReset(p) \/ AnswerRead(p) \/ ShowRepo(p)
            \/ RepoNotFound(p) \/ SetBuffer(p) \/ ClearBuffer(p) \/ SyncList(p)
            \/ SyncWrite(p) \/ Stop(p))
  PROVE  KeepSafe'
<1> USE DEF OneProcess, TypeInv, TypeOK, PhaseOK, KeepSafe, KeepInv, ShowInv,
      CreatedIsKept, OpSnapshot, SyncPhases, SnapshotPhases, IndexPhases, Goto, dbVars, diskVars,
      localVars, boundVars
<1>1. CASE Begin(p)
  <2>1. /\ told'.created = told.created /\ files' = files
        /\ op'[p].kind # "reset" /\ pc'[p] = "open"
    BY <1>1, BeginKeeps
  <2> QED BY <2>1
<1>2. CASE BeginReset(p)
  <2>1. told'.created = {} /\ pc'[p] = "reset_state"
    BY <1>2, ResetForgets
  <2> QED BY <2>1
<1>3. CASE AnswerRead(p)
  BY <1>3 DEF AnswerRead, Finish
<1>4. CASE ShowRepo(p)
  BY <1>4 DEF ShowRepo
<1>5. CASE RepoNotFound(p)
  BY <1>5 DEF RepoNotFound, Finish
<1>6. CASE SetBuffer(p)
  BY <1>6 DEF SetBuffer, Finish
<1>7. CASE ClearBuffer(p)
  BY <1>7 DEF ClearBuffer, Finish
<1>8. CASE SyncList(p)
  BY <1>8 DEF SyncList
<1>9. CASE SyncWrite(p)
  BY <1>9 DEF SyncWrite, Finish
<1>10. CASE Stop(p)
  BY <1>10 DEF Stop, Finish
<1> QED BY <1>1, <1>2, <1>3, <1>4, <1>5, <1>6, <1>7, <1>8, <1>9, <1>10

\* Open: manifests are kept and shown.
LEMMA OpenKeep ==
  ASSUME OneProcess, TypeInv, OrderSafe, ForgetSafe, KeepSafe, NEW p \in Process,
         Open(p)
  PROVE  KeepSafe'
<1> USE DEF OneProcess, TypeInv, TypeOK, PhaseOK, KeepSafe, KeepInv, ShowInv,
      CreatedIsKept, OpSnapshot, SyncPhases, SnapshotPhases, IndexPhases, Goto, dbVars, diskVars,
      localVars, boundVars
<1>1. CASE OpenConnection(p)
  BY <1>1 DEF OpenConnection
<1>2. CASE CheckRestore(p)
  BY <1>2 DEF CheckRestore
<1>3. CASE RestoreRow(p)
  BY <1>3 DEF RestoreRow
<1>4. CASE RestoreDone(p)
  BY <1>4 DEF RestoreDone
<1>5. CASE ScanManifests(p)
  BY <1>5 DEF ScanManifests
<1>6. CASE ReadManifest(p)
  BY <1>6 DEF ReadManifest
<1>7. CASE IndexRepoRow(p)
  BY <1>7 DEF IndexRepoRow
<1>8. CASE IndexManifestRow(p)
  BY <1>8 DEF IndexManifestRow
<1>9. CASE OpenDone(p)
  BY <1>9 DEF OpenDone
<1> QED BY <1>1, <1>2, <1>3, <1>4, <1>5, <1>6, <1>7, <1>8, <1>9 DEF Open

\* Add: manifests are kept and shown.
LEMMA AddKeep ==
  ASSUME OneProcess, TypeInv, OrderSafe, ForgetSafe, KeepSafe, NEW p \in Process,
         AddRepo(p)
  PROVE  KeepSafe'
<1> USE DEF OneProcess, TypeInv, TypeOK, PhaseOK, KeepSafe, KeepInv, ShowInv,
      CreatedIsKept, OpSnapshot, SyncPhases, SnapshotPhases, IndexPhases, Goto, dbVars, diskVars,
      localVars, boundVars
<1>1. CASE InsertRepo(p)
  BY <1>1 DEF InsertRepo
<1>2. CASE AlreadyRegistered(p)
  BY <1>2 DEF AlreadyRegistered, Finish
<1> QED BY <1>1, <1>2 DEF AddRepo

\* Remove: manifests are kept and shown.
LEMMA RemoveKeep ==
  ASSUME OneProcess, TypeInv, OrderSafe, ForgetSafe, KeepSafe, NEW p \in Process,
         RemoveRepo(p)
  PROVE  KeepSafe'
<1> USE DEF OneProcess, TypeInv, TypeOK, PhaseOK, KeepSafe, KeepInv, ShowInv,
      CreatedIsKept, OpSnapshot, SyncPhases, SnapshotPhases, IndexPhases, Goto, dbVars, diskVars,
      localVars, boundVars
<1>1. CASE DeleteRepo(p)
  BY <1>1 DEF DeleteRepo
<1>2. CASE NothingToRemove(p)
  BY <1>2 DEF NothingToRemove, Finish
<1>3. CASE PurgeManifestRows(p)
  BY <1>3 DEF PurgeManifestRows, SnapshotsOf
<1>4. CASE PurgeBuffers(p)
  BY <1>4 DEF PurgeBuffers
<1>5. CASE PurgeFile(p)
  <2>1. /\ files' \subseteq files /\ files \ files' \subseteq SnapshotsOf(op[p].repo)
        /\ pc[p] = "purge_dir" /\ UNCHANGED <<pc, op, told>>
    BY <1>5 DEF PurgeFile
  <2>2. CreatedIsKept'
    BY <2>1
  <2> QED BY <2>1, <2>2
<1>6. CASE PurgeDirDone(p)
  BY <1>6 DEF PurgeDirDone, ForgetSafe, ForgetInv, PurgePhases
<1> QED BY <1>1, <1>2, <1>3, <1>4, <1>5, <1>6 DEF RemoveRepo

\* Persist: manifests are kept and shown.
LEMMA PersistKeep ==
  ASSUME OneProcess, TypeInv, OrderSafe, ForgetSafe, KeepSafe, NEW p \in Process,
         PersistManifest(p)
  PROVE  KeepSafe'
<1> USE DEF OneProcess, TypeInv, TypeOK, PhaseOK, KeepSafe, KeepInv, ShowInv,
      CreatedIsKept, OpSnapshot, SyncPhases, SnapshotPhases, IndexPhases, Goto, dbVars, diskVars,
      localVars, boundVars
<1>1. CASE RenameManifest(p)
  BY <1>1 DEF RenameManifest
<1>2. CASE UpsertManifestRow(p)
  BY <1>2 DEF UpsertManifestRow
<1>3. CASE UpdateLastSnapshot(p)
  BY <1>3 DEF UpdateLastSnapshot, OrderSafe, OrderInv
<1> QED BY <1>1, <1>2, <1>3 DEF PersistManifest

\* Reset: manifests are kept and shown.
LEMMA ResetKeep ==
  ASSUME OneProcess, TypeInv, OrderSafe, ForgetSafe, KeepSafe, NEW p \in Process,
         ResetRuntime(p)
  PROVE  KeepSafe'
<1> USE DEF OneProcess, TypeInv, TypeOK, PhaseOK, KeepSafe, KeepInv, ShowInv,
      CreatedIsKept, OpSnapshot, SyncPhases, SnapshotPhases, IndexPhases, Goto, dbVars, diskVars,
      localVars, boundVars
<1>1. CASE ResetDatabase(p)
  BY <1>1 DEF ResetDatabase
<1>2. CASE ResetBackup(p)
  BY <1>2 DEF ResetBackup
<1>3. CASE ResetStateDone(p)
  BY <1>3 DEF ResetStateDone
<1>4. CASE ResetFile(p)
  <2>1. pc[p] = "reset_data" /\ UNCHANGED <<pc, op, told>>
    BY <1>4 DEF ResetFile
  <2>2. told.created = {} /\ op[p].kind = "reset"
    BY <2>1 DEF ForgetSafe, ForgetInv
  <2> QED BY <2>1, <2>2
<1>5. CASE ResetDataDone(p)
  BY <1>5 DEF ResetDataDone
<1>6. CASE AnswerReset(p)
  BY <1>6 DEF AnswerReset, Finish
<1> QED BY <1>1, <1>2, <1>3, <1>4, <1>5, <1>6 DEF ResetRuntime

LEMMA KeepInit == Init => KeepSafe
BY DEF Init, KeepSafe, KeepInv, ShowInv, CreatedIsKept, SyncPhases, IndexPhases

LEMMA KeepStep ==
  ASSUME OneProcess
  PROVE  TypeInv /\ OrderSafe /\ ForgetSafe /\ KeepSafe /\ [Next]_vars => KeepSafe'
<1> SUFFICES ASSUME TypeInv, OrderSafe, ForgetSafe, KeepSafe, [Next]_vars
             PROVE  KeepSafe'
  OBVIOUS
<1>1. CASE UNCHANGED vars \/ Corrupt
  <2>1. UNCHANGED <<dbVars, diskVars, pc, localVars, told>>
    BY <1>1 DEF vars, Corrupt
  <2> QED BY <2>1 DEF KeepSafe, KeepInv, ShowInv, CreatedIsKept, OpSnapshot, dbVars, diskVars, localVars
<1>2. ASSUME NEW p \in Process, Open(p) PROVE KeepSafe'
  BY <1>2, OpenKeep
<1>3. ASSUME NEW p \in Process, AddRepo(p) PROVE KeepSafe'
  BY <1>3, AddKeep
<1>4. ASSUME NEW p \in Process, RemoveRepo(p) PROVE KeepSafe'
  BY <1>4, RemoveKeep
<1>5. ASSUME NEW p \in Process, PersistManifest(p) PROVE KeepSafe'
  BY <1>5, PersistKeep
<1>6. ASSUME NEW p \in Process, ResetRuntime(p) PROVE KeepSafe'
  BY <1>6, ResetKeep
<1> QED
  BY <1>1, <1>2, <1>3, <1>4, <1>5, <1>6, RequestKeep DEF Next

LEMMA KeepAlways ==
  ASSUME OneProcess
  PROVE  Spec => []KeepSafe
BY InitType, TypeStep, SafeInit, SafeStep, KeepInit, KeepStep, PTL DEF Spec

\* With one process, the file of a snapshot whose creation was answered is on
\* disk until its repository is purged or the runtime reset, whatever stops
\* the process and whenever the database is damaged.
THEOREM CreatedStays ==
  ASSUME OneProcess
  PROVE  Spec => []CreatedIsKept
<1>1. KeepSafe => CreatedIsKept
  BY DEF KeepSafe
<1> QED BY <1>1, KeepAlways, PTL

\* With one process, every request works on tables that show each manifest on
\* disk and the repository it belongs to, whatever was stopped before: a scan
\* misses nothing, as the files stay while one process opens the store.
THEOREM EveryRequestSeesTheDisk ==
  ASSUME OneProcess
  PROVE  Spec => []OpenShowsDisk
<1>1. KeepSafe => OpenShowsDisk
  BY DEF KeepSafe, ShowInv, OpenShowsDisk
<1> QED BY <1>1, KeepAlways, PTL

-----------------------------------------------------------------------------
(* What a damaged database does not lose                                   *)

\* No process stops in the middle of an operation.
NoStops == MaxStops = 0

\* Where the repositories that callers were told of can be found, and what the
\* process has read of the backup or of the table.
ListInv(p) ==
    /\ pc[p] # "restore" => pending[p] = {}
    /\ pc[p] = "restore" => image[p] = backup
    /\ pc[p] = "sync_write" => image[p] = [repos |-> repos, last |-> last]
    /\ pc[p] \notin {"idle", "open", "reset_state"} => ~corrupt
    /\ pc[p] = "reset_data" => backup = EmptyImage
    /\ pc[p] # "idle" /\ op[p].kind = "reset" => told.added = {}
    /\ pc[p] \in {"idle", "open"} => corrupt \/ told.added \subseteq repos
    /\ pc[p] = "restore_check" => repos = {} \/ told.added \subseteq repos
    /\ pc[p] = "restore" => told.added \subseteq repos \union pending[p]
    /\ pc[p] \notin {"idle", "open", "restore_check", "restore"} => told.added \subseteq repos

ListSafe == told.added \subseteq backup.repos /\ \A p \in Process : ListInv(p)

\* Request: what callers were told of can be found.
LEMMA RequestList ==
  ASSUME OneProcess, TypeInv, ForgetSafe, ListSafe, NEW p \in Process,
         (Begin(p) \/ BeginReset(p) \/ AnswerRead(p) \/ ShowRepo(p) \/ RepoNotFound(p)
            \/ SetBuffer(p) \/ ClearBuffer(p) \/ SyncList(p) \/ SyncWrite(p))
  PROVE  ListSafe'
<1> USE DEF OneProcess, TypeInv, TypeOK, PhaseOK, ListSafe, ListInv, SyncPhases, Goto,
      dbVars, diskVars, localVars, boundVars
<1>1. CASE Begin(p)
  BY <1>1 DEF Begin
<1>2. CASE BeginReset(p)
  BY <1>2 DEF BeginReset
<1>3. CASE AnswerRead(p)
  BY <1>3 DEF AnswerRead, Finish
<1>4. CASE ShowRepo(p)
  BY <1>4 DEF ShowRepo
<1>5. CASE RepoNotFound(p)
  BY <1>5 DEF RepoNotFound, Finish
<1>6. CASE SetBuffer(p)
  BY <1>6 DEF SetBuffer, Finish
<1>7. CASE ClearBuffer(p)
  BY <1>7 DEF ClearBuffer, Finish
<1>8. CASE SyncList(p)
  BY <1>8 DEF SyncList
<1>9. CASE SyncWrite(p)
  BY <1>9 DEF SyncWrite, Finish
<1> QED BY <1>1, <1>2, <1>3, <1>4, <1>5, <1>6, <1>7, <1>8, <1>9

\* Open: what callers were told of can be found.
LEMMA OpenList ==
  ASSUME OneProcess, TypeInv, ForgetSafe, ListSafe, NEW p \in Process,
         Open(p)
  PROVE  ListSafe'
<1> USE DEF OneProcess, TypeInv, TypeOK, PhaseOK, ListSafe, ListInv, SyncPhases, Goto,
      dbVars, diskVars, localVars, boundVars
<1>1. CASE OpenConnection(p)
  BY <1>1 DEF OpenConnection
<1>2. CASE CheckRestore(p)
  BY <1>2 DEF CheckRestore
<1>3. CASE RestoreRow(p)
  BY <1>3 DEF RestoreRow
<1>4. CASE RestoreDone(p)
  BY <1>4 DEF RestoreDone
<1>5. CASE ScanManifests(p)
  BY <1>5 DEF ScanManifests
<1>6. CASE ReadManifest(p)
  BY <1>6 DEF ReadManifest
<1>7. CASE IndexRepoRow(p)
  BY <1>7 DEF IndexRepoRow
<1>8. CASE IndexManifestRow(p)
  BY <1>8 DEF IndexManifestRow
<1>9. CASE OpenDone(p)
  BY <1>9 DEF OpenDone
<1> QED BY <1>1, <1>2, <1>3, <1>4, <1>5, <1>6, <1>7, <1>8, <1>9 DEF Open

\* Add: what callers were told of can be found.
LEMMA AddList ==
  ASSUME OneProcess, TypeInv, ForgetSafe, ListSafe, NEW p \in Process,
         AddRepo(p)
  PROVE  ListSafe'
<1> USE DEF OneProcess, TypeInv, TypeOK, PhaseOK, ListSafe, ListInv, SyncPhases, Goto,
      dbVars, diskVars, localVars, boundVars
<1>1. CASE InsertRepo(p)
  BY <1>1 DEF InsertRepo
<1>2. CASE AlreadyRegistered(p)
  BY <1>2 DEF AlreadyRegistered, Finish
<1> QED BY <1>1, <1>2 DEF AddRepo

\* Remove: what callers were told of can be found.
LEMMA RemoveList ==
  ASSUME OneProcess, TypeInv, ForgetSafe, ListSafe, NEW p \in Process,
         RemoveRepo(p)
  PROVE  ListSafe'
<1> USE DEF OneProcess, TypeInv, TypeOK, PhaseOK, ListSafe, ListInv, SyncPhases, Goto,
      dbVars, diskVars, localVars, boundVars
<1>1. CASE DeleteRepo(p)
  BY <1>1 DEF DeleteRepo
<1>2. CASE NothingToRemove(p)
  BY <1>2 DEF NothingToRemove, Finish
<1>3. CASE PurgeManifestRows(p)
  BY <1>3 DEF PurgeManifestRows
<1>4. CASE PurgeBuffers(p)
  BY <1>4 DEF PurgeBuffers
<1>5. CASE PurgeFile(p)
  BY <1>5 DEF PurgeFile
<1>6. CASE PurgeDirDone(p)
  BY <1>6 DEF PurgeDirDone
<1> QED BY <1>1, <1>2, <1>3, <1>4, <1>5, <1>6 DEF RemoveRepo

\* Persist: what callers were told of can be found.
LEMMA PersistList ==
  ASSUME OneProcess, TypeInv, ForgetSafe, ListSafe, NEW p \in Process,
         PersistManifest(p)
  PROVE  ListSafe'
<1> USE DEF OneProcess, TypeInv, TypeOK, PhaseOK, ListSafe, ListInv, SyncPhases, Goto,
      dbVars, diskVars, localVars, boundVars
<1>1. CASE RenameManifest(p)
  BY <1>1 DEF RenameManifest
<1>2. CASE UpsertManifestRow(p)
  BY <1>2 DEF UpsertManifestRow
<1>3. CASE UpdateLastSnapshot(p)
  BY <1>3 DEF UpdateLastSnapshot
<1> QED BY <1>1, <1>2, <1>3 DEF PersistManifest

\* Reset: what callers were told of can be found.
LEMMA ResetList ==
  ASSUME OneProcess, TypeInv, ForgetSafe, ListSafe, NEW p \in Process,
         ResetRuntime(p)
  PROVE  ListSafe'
<1> USE DEF OneProcess, TypeInv, TypeOK, PhaseOK, ListSafe, ListInv, SyncPhases, Goto,
      dbVars, diskVars, localVars, boundVars
<1>1. CASE ResetDatabase(p)
  BY <1>1 DEF ResetDatabase, ForgetSafe, ForgetInv
<1>2. CASE ResetBackup(p)
  BY <1>2 DEF ResetBackup, ForgetSafe, ForgetInv
<1>3. CASE ResetStateDone(p)
  BY <1>3 DEF ResetStateDone
<1>4. CASE ResetFile(p)
  BY <1>4 DEF ResetFile
<1>5. CASE ResetDataDone(p)
  BY <1>5 DEF ResetDataDone
<1>6. CASE AnswerReset(p)
  BY <1>6 DEF AnswerReset, Finish
<1> QED BY <1>1, <1>2, <1>3, <1>4, <1>5, <1>6 DEF ResetRuntime


\* A snapshot that is shown as the last one of a repository is its own, and is there.
Loadable(column, r) == column[r] # NoSnapshot => column[r] \in files /\ RepoOf(column[r]) = r

\* Between two steps the backup may show the snapshots of a repository that is
\* being purged, whose row is gone.
Purging(r) ==
    \E p \in Process :
        pc[p] \in PurgePhases \union SyncPhases /\ op[p].kind = "purge" /\ op[p].repo = r

LoadSafe ==
    \A r \in Repo :
        /\ Loadable(last, r)
        /\ r \notin repos => last[r] = NoSnapshot
        /\ Loadable(backup.last, r) \/ Purging(r)

\* Request: the snapshots of the table can be loaded.
LEMMA RequestLoad ==
  ASSUME OneProcess, TypeInv, OrderSafe, ForgetSafe, ListSafe, LoadSafe, NEW p \in Process,
         (Begin(p) \/ BeginReset(p) \/ AnswerRead(p) \/ ShowRepo(p) \/ RepoNotFound(p)
            \/ SetBuffer(p) \/ ClearBuffer(p) \/ SyncList(p) \/ SyncWrite(p))
  PROVE  LoadSafe'
<1> USE DEF OneProcess, TypeInv, TypeOK, PhaseOK, ListSafe, ListInv, LoadSafe, Loadable, Purging,
      PurgePhases, SyncPhases, SnapshotPhases, IndexPhases, Goto, dbVars, diskVars, localVars, boundVars
<1>1. CASE Begin(p)
  <2>1. UNCHANGED <<last, repos, backup, files>> /\ pc[p] = "idle"
    BY <1>1 DEF Begin
  <2>2. \A r \in Repo : ~Purging(r)
    BY <2>1
  <2> QED BY <2>1, <2>2
<1>2. CASE BeginReset(p)
  BY <1>2 DEF BeginReset
<1>3. CASE AnswerRead(p)
  BY <1>3 DEF AnswerRead, Finish
<1>4. CASE ShowRepo(p)
  BY <1>4 DEF ShowRepo
<1>5. CASE RepoNotFound(p)
  BY <1>5 DEF RepoNotFound, Finish
<1>6. CASE SetBuffer(p)
  BY <1>6 DEF SetBuffer, Finish
<1>7. CASE ClearBuffer(p)
  BY <1>7 DEF ClearBuffer, Finish
<1>8. CASE SyncList(p)
  BY <1>8 DEF SyncList
<1>9. CASE SyncWrite(p)
  BY <1>9 DEF SyncWrite, Finish
<1> QED BY <1>1, <1>2, <1>3, <1>4, <1>5, <1>6, <1>7, <1>8, <1>9

\* Open: the snapshots of the table can be loaded.
LEMMA OpenLoad ==
  ASSUME OneProcess, TypeInv, OrderSafe, ForgetSafe, ListSafe, LoadSafe, NEW p \in Process,
         Open(p)
  PROVE  LoadSafe'
<1> USE DEF OneProcess, TypeInv, TypeOK, PhaseOK, ListSafe, ListInv, LoadSafe, Loadable, Purging,
      PurgePhases, SyncPhases, SnapshotPhases, IndexPhases, Goto, dbVars, diskVars, localVars, boundVars
<1>1. CASE OpenConnection(p)
  BY <1>1 DEF OpenConnection
<1>2. CASE CheckRestore(p)
  BY <1>2 DEF CheckRestore
<1>3. CASE RestoreRow(p)
  BY <1>3 DEF RestoreRow, Image
<1>4. CASE RestoreDone(p)
  BY <1>4 DEF RestoreDone
<1>5. CASE ScanManifests(p)
  BY <1>5 DEF ScanManifests
<1>6. CASE ReadManifest(p)
  BY <1>6 DEF ReadManifest
<1>7. CASE IndexRepoRow(p)
  BY <1>7 DEF IndexRepoRow, OrderSafe, OrderInv, RepoOf, Snapshot
<1>8. CASE IndexManifestRow(p)
  BY <1>8 DEF IndexManifestRow
<1>9. CASE OpenDone(p)
  BY <1>9 DEF OpenDone
<1> QED BY <1>1, <1>2, <1>3, <1>4, <1>5, <1>6, <1>7, <1>8, <1>9 DEF Open

\* Add: the snapshots of the table can be loaded.
LEMMA AddLoad ==
  ASSUME OneProcess, TypeInv, OrderSafe, ForgetSafe, ListSafe, LoadSafe, NEW p \in Process,
         AddRepo(p)
  PROVE  LoadSafe'
<1> USE DEF OneProcess, TypeInv, TypeOK, PhaseOK, ListSafe, ListInv, LoadSafe, Loadable, Purging,
      PurgePhases, SyncPhases, SnapshotPhases, IndexPhases, Goto, dbVars, diskVars, localVars, boundVars
<1>1. CASE InsertRepo(p)
  BY <1>1 DEF InsertRepo
<1>2. CASE AlreadyRegistered(p)
  BY <1>2 DEF AlreadyRegistered, Finish
<1> QED BY <1>1, <1>2 DEF AddRepo

\* Remove: the snapshots of the table can be loaded.
LEMMA RemoveLoad ==
  ASSUME OneProcess, TypeInv, OrderSafe, ForgetSafe, ListSafe, LoadSafe, NEW p \in Process,
         RemoveRepo(p)
  PROVE  LoadSafe'
<1> USE DEF OneProcess, TypeInv, TypeOK, PhaseOK, ListSafe, ListInv, LoadSafe, Loadable, Purging,
      PurgePhases, SyncPhases, SnapshotPhases, IndexPhases, Goto, dbVars, diskVars, localVars, boundVars
<1>1. CASE DeleteRepo(p)
  BY <1>1 DEF DeleteRepo
<1>2. CASE NothingToRemove(p)
  BY <1>2 DEF NothingToRemove, Finish
<1>3. CASE PurgeManifestRows(p)
  BY <1>3 DEF PurgeManifestRows
<1>4. CASE PurgeBuffers(p)
  BY <1>4 DEF PurgeBuffers
<1>5. CASE PurgeFile(p)
  BY <1>5 DEF PurgeFile, ForgetSafe, ForgetInv, SnapshotsOf, RepoOf
<1>6. CASE PurgeDirDone(p)
  BY <1>6 DEF PurgeDirDone, ForgetSafe, ForgetInv
<1> QED BY <1>1, <1>2, <1>3, <1>4, <1>5, <1>6 DEF RemoveRepo

\* Persist: the snapshots of the table can be loaded.
LEMMA PersistLoad ==
  ASSUME OneProcess, TypeInv, OrderSafe, ForgetSafe, ListSafe, LoadSafe, NEW p \in Process,
         PersistManifest(p)
  PROVE  LoadSafe'
<1> USE DEF OneProcess, TypeInv, TypeOK, PhaseOK, ListSafe, ListInv, LoadSafe, Loadable, Purging,
      PurgePhases, SyncPhases, SnapshotPhases, IndexPhases, Goto, dbVars, diskVars, localVars, boundVars
<1>1. CASE RenameManifest(p)
  BY <1>1 DEF RenameManifest
<1>2. CASE UpsertManifestRow(p)
  BY <1>2 DEF UpsertManifestRow
<1>3. CASE UpdateLastSnapshot(p)
  BY <1>3 DEF UpdateLastSnapshot, OrderSafe, OrderInv, OpSnapshot, RepoOf
<1> QED BY <1>1, <1>2, <1>3 DEF PersistManifest

\* Reset: the snapshots of the table can be loaded.
LEMMA ResetLoad ==
  ASSUME OneProcess, TypeInv, OrderSafe, ForgetSafe, ListSafe, LoadSafe, NEW p \in Process,
         ResetRuntime(p)
  PROVE  LoadSafe'
<1> USE DEF OneProcess, TypeInv, TypeOK, PhaseOK, ListSafe, ListInv, LoadSafe, Loadable, Purging,
      PurgePhases, SyncPhases, SnapshotPhases, IndexPhases, Goto, dbVars, diskVars, localVars, boundVars
<1>1. CASE ResetDatabase(p)
  BY <1>1 DEF ResetDatabase
<1>2. CASE ResetBackup(p)
  BY <1>2 DEF ResetBackup, EmptyImage
<1>3. CASE ResetStateDone(p)
  BY <1>3 DEF ResetStateDone
<1>4. CASE ResetFile(p)
  BY <1>4 DEF ResetFile, ForgetSafe, ForgetInv, EmptyImage
<1>5. CASE ResetDataDone(p)
  BY <1>5 DEF ResetDataDone
<1>6. CASE AnswerReset(p)
  BY <1>6 DEF AnswerReset, Finish
<1> QED BY <1>1, <1>2, <1>3, <1>4, <1>5, <1>6 DEF ResetRuntime

LEMMA ShownInit == Init => ListSafe /\ LoadSafe
BY NoSnapshotAssumption
DEF Init, EmptyImage, ListSafe, ListInv, LoadSafe, Loadable

LEMMA ShownStep ==
  ASSUME OneProcess, NoStops
  PROVE  TypeInv /\ OrderSafe /\ ForgetSafe /\ ListSafe /\ LoadSafe /\ [Next]_vars
            => ListSafe' /\ LoadSafe'
<1> SUFFICES ASSUME TypeInv, OrderSafe, ForgetSafe, ListSafe, LoadSafe, [Next]_vars
             PROVE  ListSafe' /\ LoadSafe'
  OBVIOUS
<1>1. CASE UNCHANGED vars \/ Corrupt
  <2>1. /\ UNCHANGED <<dbVars, diskVars, pc, localVars, told>>
        /\ \A p \in Process : pc[p] # "idle" => corrupt' = corrupt
    BY <1>1 DEF vars, Corrupt
  <2>2. ListSafe'
    BY <1>1, <2>1 DEF ListSafe, ListInv, Corrupt, vars, dbVars, diskVars, localVars
  <2>3. LoadSafe'
    BY <2>1 DEF LoadSafe, Loadable, Purging, dbVars, diskVars, localVars
  <2> QED BY <2>2, <2>3
<1>2. ASSUME NEW p \in Process, Open(p) PROVE ListSafe' /\ LoadSafe'
  BY <1>2, OpenList, OpenLoad
<1>3. ASSUME NEW p \in Process, AddRepo(p) PROVE ListSafe' /\ LoadSafe'
  BY <1>3, AddList, AddLoad
<1>4. ASSUME NEW p \in Process, RemoveRepo(p) PROVE ListSafe' /\ LoadSafe'
  BY <1>4, RemoveList, RemoveLoad
<1>5. ASSUME NEW p \in Process, PersistManifest(p) PROVE ListSafe' /\ LoadSafe'
  BY <1>5, PersistList, PersistLoad
<1>6. ASSUME NEW p \in Process, ResetRuntime(p) PROVE ListSafe' /\ LoadSafe'
  BY <1>6, ResetList, ResetLoad
<1>7. ASSUME NEW p \in Process, Stop(p) PROVE FALSE
  BY <1>7 DEF Stop, NoStops, TypeInv, TypeOK
<1> QED
  BY <1>1, <1>2, <1>3, <1>4, <1>5, <1>6, <1>7, RequestList, RequestLoad DEF Next

LEMMA ShownAlways ==
  ASSUME OneProcess, NoStops
  PROVE  Spec => [](TypeInv /\ OrderSafe /\ ForgetSafe /\ ListSafe /\ LoadSafe)
BY InitType, TypeStep, SafeInit, SafeStep, ShownInit, ShownStep, PTL DEF Spec

\* With one process that is never stopped in an operation, a repository whose
\* registration was answered is in the table of every later request until it is
\* removed, whenever the database is damaged: the backup names it, and a table
\* that is not empty after the open has come from it.
THEOREM AddedStaysListed ==
  ASSUME OneProcess, NoStops
  PROVE  Spec => []AddedIsListed
<1>1. ListSafe => AddedIsListed
  BY DEF ListSafe, ListInv, AddedIsListed
<1> QED BY <1>1, ShownAlways, PTL

\* With one process that is never stopped in an operation, last_snapshot_id of
\* every repository that a request sees names a manifest on disk, also where it
\* comes from the backup: only the files of a repository whose row is gone are
\* deleted, and the backup follows before the answer.
THEOREM LastCanBeLoaded ==
  ASSUME OneProcess, NoStops
  PROVE  Spec => []LastIsLoadable
<1>1. TypeInv /\ LoadSafe => LastIsLoadable
  BY DEF TypeInv, TypeOK, LoadSafe, Loadable, LastIsLoadable
<1> QED BY <1>1, ShownAlways, PTL

-----------------------------------------------------------------------------
(* What the registry promises                                              *)

Owned(r) == \E s \in files : RepoOf(s) = r

\* The backup and the table name the same repositories but for owners of
\* manifests and, while an operation changes it, one repository.
Matching(others) ==
    \A r \in Repo \ others : Owned(r) \/ (r \in backup.repos <=> r \in repos)

RegistryInv(p) ==
    /\ pc[p] \notin {"reset_state", "reset_data"}
    /\ pc[p] # "idle" => op[p].kind # "reset"
    /\ pc[p] \in {"idle", "open", "restore_check"} => corrupt \/ repos = {} \/ Matching({})
    /\ pc[p] = "restore" => repos \union pending[p] = backup.repos
    /\ pc[p] \in {"scan", "reindex", "body"} \union IndexPhases => Matching({})
    /\ pc[p] \in PurgePhases \union SnapshotPhases \union SyncPhases => Matching({op[p].repo})

\* What Recoverable says of one repository.
Found(p, r) ==
    \/ Owned(r) \/ r \in pending[p]
    \/ IF Rows = {} THEN r \in backup.repos ELSE r \in Rows

\* A step changes what is found of the repository that its operation is about.
OthersFound(p) ==
    \A r \in Repo : pc[p] = "idle" \/ r # op[p].repo => (Found(p, r)' <=> Found(p, r))

\* The state of the registry with one process and no reset-runtime.
RegistrySafe == TypeInv /\ OrderSafe /\ ForgetSafe /\ ListSafe /\ \A p \in Process : RegistryInv(p)

\* Request: at most one repository is found or lost.
LEMMA RequestRegistry ==
  ASSUME NEW p, Process = {p}, "reset" \notin Kinds, RegistrySafe,
         (Begin(p) \/ BeginReset(p) \/ AnswerRead(p) \/ ShowRepo(p) \/ RepoNotFound(p)
            \/ SetBuffer(p) \/ ClearBuffer(p) \/ SyncList(p) \/ SyncWrite(p))
  PROVE  (RegistryInv(p))' /\ OthersFound(p)
<1> USE DEF RegistrySafe, TypeInv, TypeOK, PhaseOK, ListSafe, ListInv, RegistryInv, Matching, OthersFound,
      Found, Owned, Rows, PurgePhases, SyncPhases, SnapshotPhases, IndexPhases, Goto,
      dbVars, diskVars, localVars, boundVars
<1>1. CASE Begin(p)
  BY <1>1 DEF Begin, WellFormed
<1>2. CASE BeginReset(p)
  BY <1>2 DEF BeginReset, WellFormed
<1>3. CASE AnswerRead(p)
  BY <1>3 DEF AnswerRead, Finish
<1>4. CASE ShowRepo(p)
  BY <1>4 DEF ShowRepo
<1>5. CASE RepoNotFound(p)
  BY <1>5 DEF RepoNotFound, Finish
<1>6. CASE SetBuffer(p)
  BY <1>6 DEF SetBuffer, Finish
<1>7. CASE ClearBuffer(p)
  BY <1>7 DEF ClearBuffer, Finish
<1>8. CASE SyncList(p)
  BY <1>8 DEF SyncList
<1>9. CASE SyncWrite(p)
  BY <1>9 DEF SyncWrite, Finish
<1> QED BY <1>1, <1>2, <1>3, <1>4, <1>5, <1>6, <1>7, <1>8, <1>9

\* Open: at most one repository is found or lost.
LEMMA OpenRegistry ==
  ASSUME NEW p, Process = {p}, "reset" \notin Kinds, RegistrySafe,
         Open(p)
  PROVE  (RegistryInv(p))' /\ OthersFound(p)
<1> USE DEF RegistrySafe, TypeInv, TypeOK, PhaseOK, ListSafe, ListInv, RegistryInv, Matching, OthersFound,
      Found, Owned, Rows, PurgePhases, SyncPhases, SnapshotPhases, IndexPhases, Goto,
      dbVars, diskVars, localVars, boundVars
<1>1. CASE OpenConnection(p)
  BY <1>1 DEF OpenConnection
<1>2. CASE CheckRestore(p)
  BY <1>2 DEF CheckRestore, Image
<1>3. CASE RestoreRow(p)
  BY <1>3 DEF RestoreRow, Image
<1>4. CASE RestoreDone(p)
  BY <1>4 DEF RestoreDone
<1>5. CASE ScanManifests(p)
  BY <1>5 DEF ScanManifests
<1>6. CASE ReadManifest(p)
  BY <1>6 DEF ReadManifest
<1>7. CASE IndexRepoRow(p)
  BY <1>7 DEF IndexRepoRow, OrderSafe, OrderInv, RepoOf, Snapshot
<1>8. CASE IndexManifestRow(p)
  BY <1>8 DEF IndexManifestRow
<1>9. CASE OpenDone(p)
  BY <1>9 DEF OpenDone
<1> QED BY <1>1, <1>2, <1>3, <1>4, <1>5, <1>6, <1>7, <1>8, <1>9 DEF Open

\* Add: at most one repository is found or lost.
LEMMA AddRegistry ==
  ASSUME NEW p, Process = {p}, "reset" \notin Kinds, RegistrySafe,
         AddRepo(p)
  PROVE  (RegistryInv(p))' /\ OthersFound(p)
<1> USE DEF RegistrySafe, TypeInv, TypeOK, PhaseOK, ListSafe, ListInv, RegistryInv, Matching, OthersFound,
      Found, Owned, Rows, PurgePhases, SyncPhases, SnapshotPhases, IndexPhases, Goto,
      dbVars, diskVars, localVars, boundVars
<1>1. CASE InsertRepo(p)
  BY <1>1 DEF InsertRepo
<1>2. CASE AlreadyRegistered(p)
  BY <1>2 DEF AlreadyRegistered, Finish
<1> QED BY <1>1, <1>2 DEF AddRepo

\* Remove: at most one repository is found or lost.
LEMMA RemoveRegistry ==
  ASSUME NEW p, Process = {p}, "reset" \notin Kinds, RegistrySafe,
         RemoveRepo(p)
  PROVE  (RegistryInv(p))' /\ OthersFound(p)
<1> USE DEF RegistrySafe, TypeInv, TypeOK, PhaseOK, ListSafe, ListInv, RegistryInv, Matching, OthersFound,
      Found, Owned, Rows, PurgePhases, SyncPhases, SnapshotPhases, IndexPhases, Goto,
      dbVars, diskVars, localVars, boundVars
<1>1. CASE DeleteRepo(p)
  BY <1>1 DEF DeleteRepo
<1>2. CASE NothingToRemove(p)
  BY <1>2 DEF NothingToRemove, Finish
<1>3. CASE PurgeManifestRows(p)
  BY <1>3 DEF PurgeManifestRows
<1>4. CASE PurgeBuffers(p)
  BY <1>4 DEF PurgeBuffers
<1>5. CASE PurgeFile(p)
  BY <1>5 DEF PurgeFile, SnapshotsOf, RepoOf, Snapshot
<1>6. CASE PurgeDirDone(p)
  BY <1>6 DEF PurgeDirDone
<1> QED BY <1>1, <1>2, <1>3, <1>4, <1>5, <1>6 DEF RemoveRepo

\* Persist: at most one repository is found or lost.
LEMMA PersistRegistry ==
  ASSUME NEW p, Process = {p}, "reset" \notin Kinds, RegistrySafe,
         PersistManifest(p)
  PROVE  (RegistryInv(p))' /\ OthersFound(p)
<1> USE DEF RegistrySafe, TypeInv, TypeOK, PhaseOK, ListSafe, ListInv, RegistryInv, Matching, OthersFound,
      Found, Owned, Rows, PurgePhases, SyncPhases, SnapshotPhases, IndexPhases, Goto,
      dbVars, diskVars, localVars, boundVars
<1>1. CASE RenameManifest(p)
  BY <1>1 DEF RenameManifest, OpSnapshot, RepoOf
<1>2. CASE UpsertManifestRow(p)
  BY <1>2 DEF UpsertManifestRow
<1>3. CASE UpdateLastSnapshot(p)
  BY <1>3 DEF UpdateLastSnapshot
<1> QED BY <1>1, <1>2, <1>3 DEF PersistManifest

LEMMA RecoverableIs ==
  ASSUME NEW p, Process = {p}, TypeInv
  PROVE  /\ Recoverable \subseteq Repo
         /\ \A r \in Repo : r \in Recoverable <=> Found(p, r)
<1>1. UNION {pending[q] : q \in Process} = pending[p]
  OBVIOUS
<1>2. \A r : r \in {RepoOf(s) : s \in files} <=> Owned(r)
  BY DEF Owned
<1>3. \A s \in files : RepoOf(s) \in Repo
  BY DEF TypeInv, TypeOK, Snapshot, RepoOf
<1>4. pending[p] \subseteq Repo /\ Rows \subseteq Repo /\ backup.repos \subseteq Repo
  BY DEF TypeInv, TypeOK, Rows, Image
<1>5. Recoverable \subseteq Repo
  BY <1>1, <1>3, <1>4 DEF Recoverable
<1>6. ASSUME NEW r \in Repo PROVE r \in Recoverable <=> Found(p, r)
  BY <1>1, <1>2 DEF Recoverable, Found
<1> QED BY <1>5, <1>6

\* The same of the next state.
LEMMA RecoverableBecomes ==
  ASSUME NEW p, Process = {p}, TypeInv'
  PROVE  /\ Recoverable' \subseteq Repo
         /\ \A r \in Repo : r \in Recoverable' <=> Found(p, r)'
<1>1. (UNION {pending[q] : q \in Process})' = pending'[p]
  OBVIOUS
<1>2. \A r : r \in {RepoOf(s) : s \in files'} <=> Owned(r)'
  BY DEF Owned
<1>3. \A s \in files' : RepoOf(s) \in Repo
  BY DEF TypeInv, TypeOK, Snapshot, RepoOf
<1>4. pending'[p] \subseteq Repo /\ Rows' \subseteq Repo /\ backup'.repos \subseteq Repo
  BY DEF TypeInv, TypeOK, Rows, Image
<1>5. Recoverable' \subseteq Repo
  BY <1>1, <1>3, <1>4 DEF Recoverable
<1>6. ASSUME NEW r \in Repo PROVE r \in Recoverable' <=> Found(p, r)'
  BY <1>1, <1>2 DEF Recoverable, Found
<1> QED BY <1>5, <1>6

LEMMA RegistryInit ==
  ASSUME NEW p, Process = {p}
  PROVE  Init => RegistrySafe /\ Recoverable = {}
<1> SUFFICES ASSUME Init PROVE RegistrySafe /\ Recoverable = {}
  OBVIOUS
<1>1. TypeInv /\ OrderSafe /\ ForgetSafe /\ ListSafe
  BY InitType, SafeInit, ShownInit
<1>2. RegistryInv(p)
  BY DEF Init, EmptyImage, RegistryInv, PurgePhases, SnapshotPhases, SyncPhases, IndexPhases
<1>3. \A r \in Repo : ~Found(p, r)
  BY DEF Init, EmptyImage, Found, Owned, Rows
<1> QED BY <1>1, <1>2, <1>3, RecoverableIs DEF RegistrySafe

LEMMA RegistryStep ==
  ASSUME NEW p, Process = {p}, NoStops, "reset" \notin Kinds, RegistrySafe, [Next]_vars
  PROVE  RegistrySafe' /\ OthersFound(p)
<1> USE DEF RegistrySafe
<1>1. TypeInv' /\ OrderSafe' /\ ForgetSafe'
  BY TypeStep, SafeStep DEF OneProcess
<1>2. CASE UNCHANGED vars
  <2>1. UNCHANGED <<dbVars, corrupt, diskVars, pc, localVars, told>>
    BY <1>2 DEF vars
  <2>2. ListSafe'
    BY <2>1 DEF ListSafe, ListInv, dbVars, diskVars, localVars
  <2>3. RegistryInv(p)' /\ OthersFound(p)
    BY <2>1 DEF RegistryInv, Matching, Owned, OthersFound, Found, Rows, dbVars, diskVars, localVars
  <2> QED BY <1>1, <2>2, <2>3
<1>3. CASE Corrupt
  <2>1. UNCHANGED <<dbVars, diskVars, pc, localVars, told>> /\ pc[p] = "idle" /\ corrupt' = TRUE
    BY <1>3 DEF Corrupt
  <2>2. ListSafe'
    BY <2>1 DEF ListSafe, ListInv, dbVars, diskVars, localVars
  <2>3. RegistryInv(p)' /\ OthersFound(p)
    BY <2>1 DEF RegistryInv, Matching, Owned, OthersFound, Found, Rows, dbVars, diskVars, localVars,
                PurgePhases, SnapshotPhases, SyncPhases, IndexPhases
  <2> QED BY <1>1, <2>2, <2>3
<1>4. ASSUME Open(p) PROVE ListSafe' /\ RegistryInv(p)' /\ OthersFound(p)
  BY <1>4, OpenList, OpenRegistry DEF OneProcess
<1>5. ASSUME AddRepo(p) PROVE ListSafe' /\ RegistryInv(p)' /\ OthersFound(p)
  BY <1>5, AddList, AddRegistry DEF OneProcess
<1>6. ASSUME RemoveRepo(p) PROVE ListSafe' /\ RegistryInv(p)' /\ OthersFound(p)
  BY <1>6, RemoveList, RemoveRegistry DEF OneProcess
<1>7. ASSUME PersistManifest(p) PROVE ListSafe' /\ RegistryInv(p)' /\ OthersFound(p)
  BY <1>7, PersistList, PersistRegistry DEF OneProcess
<1>8. ASSUME ResetRuntime(p) PROVE FALSE
  BY <1>8 DEF ResetRuntime, ResetDatabase, ResetBackup, ResetStateDone, ResetFile, ResetDataDone,
              AnswerReset, RegistryInv
<1>9. ASSUME Stop(p) PROVE FALSE
  BY <1>9 DEF Stop, NoStops, TypeInv, TypeOK
<1>10. ASSUME \/ Begin(p) \/ BeginReset(p) \/ AnswerRead(p) \/ ShowRepo(p) \/ RepoNotFound(p)
              \/ SetBuffer(p) \/ ClearBuffer(p) \/ SyncList(p) \/ SyncWrite(p)
       PROVE  ListSafe' /\ RegistryInv(p)' /\ OthersFound(p)
  BY <1>10, RequestList, RequestRegistry DEF OneProcess
<1> QED BY <1>1, <1>2, <1>3, <1>4, <1>5, <1>6, <1>7, <1>8, <1>9, <1>10 DEF Next

\* With one process that is never stopped in an operation, and until the
\* runtime is reset, what can be recovered of the registry implements the
\* promise to the callers: opening the store, indexing the manifests again,
\* restoring the backup and damage to the database change nothing of it, and an
\* operation adds or drops the one repository that it names.
THEOREM RegistryIsKept ==
  ASSUME NEW p, Process = {p}, NoStops, "reset" \notin Kinds
  PROVE  Spec => RegistryKept
<1>1. Init => RegistrySafe /\ Promise!Init
  BY RegistryInit DEF Promise!Init
<1>2. RegistrySafe /\ [Next]_vars => RegistrySafe'
  BY RegistryStep
<1>3. RegistrySafe /\ [Next]_vars => [Promise!Next]_Recoverable
  <2> SUFFICES ASSUME RegistrySafe, [Next]_vars, Recoverable' # Recoverable
               PROVE  \E r \in Repo : Recoverable' = Recoverable \union {r} \/ Recoverable' = Recoverable \ {r}
    BY DEF Promise!Next, Promise!Add, Promise!Remove
  <2>1. RegistrySafe' /\ OthersFound(p)
    BY RegistryStep
  <2>2. TypeInv /\ TypeInv'
    BY <2>1 DEF RegistrySafe
  <2>3. /\ Recoverable \subseteq Repo /\ \A r \in Repo : r \in Recoverable <=> Found(p, r)
        /\ Recoverable' \subseteq Repo /\ \A r \in Repo : r \in Recoverable' <=> Found(p, r)'
    BY <2>2, RecoverableIs, RecoverableBecomes
  <2>4. pc[p] # "idle" /\ op[p].repo \in Repo
    <3>1. pc[p] # "idle"
      BY <2>1, <2>3 DEF OthersFound
    <3> QED BY <2>2, <3>1 DEF TypeInv, PhaseOK, Op
  <2>5. \A r \in Repo : r # op[p].repo => (r \in Recoverable' <=> r \in Recoverable)
    BY <2>1, <2>3, <2>4 DEF OthersFound
  <2> QED BY <2>3, <2>4, <2>5
<1> QED BY <1>1, <1>2, <1>3, PTL DEF Spec, RegistryKept, Promise!Spec
=============================================================================
