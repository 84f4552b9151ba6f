------------------------------ MODULE Snapshots ------------------------------
(***************************************************************************)
(* snapshots_create, _read_file and _diff: the daemon composes a snapshot  *)
(* of a git repository out of the files of the HEAD commit, an overlay of  *)
(* what git status reports as changed on disk, and an overlay of unsaved   *)
(* editor buffers (state.rs create_snapshot, git-state inspect.rs and      *)
(* status.rs, hyperindex-snapshot).  HEAD, the status and every changed    *)
(* file are read one after the other, while somebody edits the files,      *)
(* stages and commits.  The daemon serves one request at a time, so the    *)
(* buffers stand still meanwhile.                                          *)
(***************************************************************************)
EXTENDS Naturals, FiniteSets

CONSTANTS
    Path,            \* repo-relative paths
    Ignored,         \* paths that .gitignore matches
    Text,            \* texts of files and buffers, but for trailing space
    Binary,          \* contents that are not UTF-8
    Buffer,          \* buffer ids
    BufferVersions,  \* versions an editor gives a buffer
    None,            \* no file, no commit, no buffer, no snapshot
    MaxEdits,        \* bound: edits of the repository and of buffers
    MaxSnapshots,    \* bound: requests
    MaxGitFailures   \* bound: git status commands that fail

ASSUME PathsAssumption == Ignored \subseteq Path
ASSUME SnapshotBounds == {MaxEdits, MaxSnapshots, MaxGitFailures} \subseteq Nat
ASSUME ContentsAssumption == None \notin (Text \X BOOLEAN) \union Binary \union Buffer

\* A text and whether blanks or a newline follow it.
Readable == Text \X BOOLEAN
File == Readable \union Binary \union {None}
Tree == [Path -> File]

VARIABLES
    head, index, work,  \* the HEAD commit (or None), git's index, the disk
    buffers,            \* table buffers of this repository
    pc,                 \* where the request is
    want,               \* its include_working_tree and buffer_ids
    commit, status,     \* what it has read: HEAD and git's status
    toRead, entries,    \* changed files still to read, and the overlay
    outcome,            \* of the last request: "none", "failed" or "taken"
    latest,             \* the snapshot that it has taken, in a set
    taken,              \* the persisted snapshots
    seen,               \* contents a path had on disk meanwhile (history)
    moved,              \* HEAD has moved since the request began (history)
    edits, requests, gitFailures

repoVars == <<head, index, work>>
requestVars == <<pc, want, commit, status, toRead, entries, outcome, latest, taken>>
boundVars == <<edits, requests, gitFailures>>
vars == <<repoVars, buffers, requestVars, seen, moved, boundVars>>

BufferRow == [path : Path, version : BufferVersions, contents : Readable]
Status == [dirty : SUBSET Path, untracked : SUBSET Path, deleted : SUBSET Path,
           renamed : SUBSET (Path \X Path)]
CleanStatus == [dirty |-> {}, untracked |-> {}, deleted |-> {}, renamed |-> {}]
Entry == [path : Path, kind : {"upsert", "delete"}, contents : Readable \union {None}]
NoRequest == [tree |-> FALSE, ids |-> {}]

TypeOK ==
    /\ head \in Tree \union {None} /\ index \in Tree /\ work \in Tree
    /\ buffers \in [Buffer -> BufferRow \union {None}]
    /\ pc \in {"idle", "head", "status", "base", "overlay", "buffers", "compose"}
    /\ want \in [tree : BOOLEAN, ids : SUBSET Buffer]
    /\ commit \in Tree \union {None} /\ status \in Status
    /\ toRead \subseteq Path /\ entries \subseteq Entry
    /\ \A s \in taken : /\ s.commit \in Tree /\ s.tree \subseteq Entry
                        /\ s.base \in [Path -> Readable \union {None}]
    /\ outcome \in {"none", "failed", "taken"} /\ latest \subseteq taken
    /\ seen \in [Path -> SUBSET File]
    /\ moved \in BOOLEAN
    /\ edits <= MaxEdits /\ requests <= MaxSnapshots /\ gitFailures <= MaxGitFailures

\* Any clean repository, or one without a commit.
Init ==
    /\ work \in Tree
    /\ \/ head = work /\ index = work
       \/ head = None /\ index = [p \in Path |-> None] /\ work = index
    /\ buffers = [b \in Buffer |-> None]
    /\ pc = "idle" /\ want = NoRequest
    /\ commit = None /\ status = CleanStatus
    /\ toRead = {} /\ entries = {}
    /\ outcome = "none" /\ latest = {} /\ taken = {}
    /\ seen = [p \in Path |-> {}] /\ moved = FALSE
    /\ edits = 0 /\ requests = 0 /\ gitFailures = 0

-----------------------------------------------------------------------------
(* git                                                                     *)

Committed(p) == IF head = None THEN None ELSE head[p]

\* The two letters of git status --porcelain=v1.
X(p) == CASE Committed(p) = index[p]                    -> " "
          [] Committed(p) = None /\ index[p] # None     -> "A"
          [] Committed(p) # None /\ index[p] = None     -> "D"
          [] OTHER                                      -> "M"
Y(p) == CASE index[p] \in {work[p], None}                     -> " "
          [] index[p] \notin {work[p], None} /\ work[p] = None -> "D"
          [] OTHER                                            -> "M"

\* --find-renames pairs files that are gone from the index with new ones
\* that are like them.
Alike(f, g) == f = g \/ (f \in Readable /\ g \in Readable /\ f[1] = g[1])
Renames == {pair \in {p \in Path : X(p) = "D"} \X {p \in Path : X(p) = "A"} :
              Alike(Committed(pair[1]), index[pair[2]])}
Pairing(pairs) ==
    \A a, b \in pairs : (a[1] = b[1] \/ a[2] = b[2]) => a = b
Pairings == {pairs \in SUBSET Renames :
               /\ Pairing(pairs)
               /\ \A extra \in Renames \ pairs : ~Pairing(pairs \union {extra})}

\* A line: two letters, a path, and the old path of a rename.
StatusLines(pairs) ==
    {[code |-> <<"R", Y(pair[2])>>, path |-> pair[2], from |-> pair[1]] : pair \in pairs}
    \union {[code |-> <<X(p), Y(p)>>, path |-> p, from |-> None] :
              p \in {q \in Path : /\ <<X(q), Y(q)>> # <<" ", " ">>
                                  /\ \A pair \in pairs : q \notin {pair[1], pair[2]}}}
    \union {[code |-> IF p \in Ignored THEN <<"!", "!">> ELSE <<"?", "?">>,
             path |-> p, from |-> None] :
              p \in {q \in Path : index[q] = None /\ work[q] # None}}

-----------------------------------------------------------------------------
(* The repository and the buffers change                                   *)

\* Bound: nobody edits after the last request, nor between two steps of which
\* the later reads nothing that edits change.
Edit ==
    /\ edits < MaxEdits /\ edits' = edits + 1
    /\ pc \in {"head", "status", "overlay"} \/ (pc = "idle" /\ requests < MaxSnapshots)
Watching == pc # "idle" /\ want.tree
Look == [p \in Path |-> IF Watching THEN seen[p] \union {work'[p]} ELSE seen[p]]

Write(p, f) ==
    /\ Edit /\ f # work[p]
    /\ work' = [work EXCEPT ![p] = f]
    /\ seen' = Look
    /\ UNCHANGED <<head, index, buffers, requestVars, moved, requests, gitFailures>>

\* git add, git rm --cached
Stage(p, f) ==
    /\ Edit /\ f \in {work[p], None} \ {index[p]}
    /\ index' = [index EXCEPT ![p] = f]
    /\ UNCHANGED <<head, work, buffers, requestVars, seen, moved, requests, gitFailures>>

\* git mv
Move(p, q) ==
    /\ Edit /\ index[p] # None /\ index[q] = None /\ work[p] # None /\ work[q] = None
    /\ index' = [index EXCEPT ![p] = None, ![q] = index[p]]
    /\ work' = [work EXCEPT ![p] = None, ![q] = work[p]]
    /\ seen' = Look
    /\ UNCHANGED <<head, buffers, requestVars, moved, requests, gitFailures>>

Commit ==
    /\ Edit /\ head # index
    /\ head' = index
    /\ moved' = (moved \/ Watching)
    /\ UNCHANGED <<index, work, buffers, requestVars, seen, requests, gitFailures>>

\* buffers_set, buffers_clear
SetBuffer(b, row) ==
    /\ Edit /\ pc = "idle" /\ row # buffers[b]
    /\ buffers' = [buffers EXCEPT ![b] = row]
    /\ UNCHANGED <<repoVars, requestVars, seen, moved, requests, gitFailures>>

-----------------------------------------------------------------------------
(* snapshots_create                                                        *)

Goto(label) == pc' = label

Answer(result) ==
    /\ Goto("idle")
    /\ commit' = None /\ status' = CleanStatus
    /\ toRead' = {} /\ entries' = {}
    /\ outcome' = IF result = {} THEN "failed" ELSE "taken"
    /\ latest' = result /\ taken' = taken \union result
    /\ UNCHANGED want

Fail == Answer({})

Begin ==
    /\ pc = "idle" /\ requests < MaxSnapshots
    /\ requests' = requests + 1
    /\ want' \in [tree : BOOLEAN, ids : SUBSET Buffer]
    /\ Goto("head")
    /\ outcome' = "none" /\ latest' = {}
    /\ seen' = [p \in Path |-> IF want'.tree THEN {work[p]} ELSE {}] /\ moved' = FALSE
    /\ UNCHANGED <<repoVars, buffers, commit, status, toRead, entries, taken,
                   edits, gitFailures>>

\* git rev-parse HEAD
ReadHead ==
    /\ pc = "head"
    /\ IF head = None
         THEN Fail
         ELSE /\ commit' = head
              /\ Goto("status")
              /\ UNCHANGED <<want, status, toRead, entries, outcome, latest, taken>>
    /\ UNCHANGED <<repoVars, buffers, seen, moved, boundVars>>

\* The first that applies: untracked, ignored, renamed, deleted, dirty.
ParsePorcelain(lines) ==
    LET code(letters) == {l \in lines : l.code[1] \in letters \/ l.code[2] \in letters}
        renamed == {l \in lines : l.code[1] = "R"}
        deleted == code({"D"}) \ renamed
        paths(some) == {l.path : l \in some}
    IN [untracked |-> paths(code({"?"})), deleted |-> paths(deleted),
        renamed |-> {<<l.from, l.path>> : l \in renamed},
        dirty |-> paths(lines \ (code({"?", "!"}) \union renamed \union deleted))]

\* A git status that fails counts as one that reports nothing.
ReadStatus ==
    /\ pc = "status"
    /\ \/ /\ \E pairs \in Pairings : status' = ParsePorcelain(StatusLines(pairs))
          /\ UNCHANGED gitFailures
       \/ /\ gitFailures < MaxGitFailures /\ gitFailures' = gitFailures + 1
          /\ status' = CleanStatus
    /\ Goto("base")
    /\ UNCHANGED <<repoVars, buffers, want, commit, toRead, entries, outcome,
                   latest, taken, seen, moved, edits, requests>>

\* git show prints a file of the commit; what follows its text is trimmed.
Trim(f) == IF f \in Readable THEN <<f[1], FALSE>> ELSE f
Renamed(i) == {pair[i] : pair \in status.renamed}

\* Commits do not change: listing and printing their files is one step.
BuildBase ==
    /\ pc = "base"
    /\ IF \E p \in Path : commit[p] \in Binary
         THEN Fail
         ELSE /\ Goto(IF want.tree THEN "overlay" ELSE "buffers")
              /\ toRead' = IF want.tree
                             THEN status.dirty \union status.untracked \union Renamed(2)
                             ELSE {}
              /\ UNCHANGED <<want, commit, status, entries, outcome, latest, taken>>
    /\ UNCHANGED <<repoVars, buffers, seen, moved, boundVars>>

\* Mutant: a file that is gone by now is left out of the overlay.
ReadChangedFileLenient ==
    /\ pc = "overlay"
    /\ \E p \in toRead :
          /\ toRead' = toRead \ {p}
          /\ entries' = IF work[p] \in Readable
                THEN entries \union {[path |-> p, kind |-> "upsert", contents |-> work[p]]}
                ELSE entries
          /\ UNCHANGED <<pc, want, commit, status, outcome, latest, taken>>
    /\ UNCHANGED <<repoVars, buffers, seen, moved, boundVars>>

\* The order of the reads is that of git's lists; here it is any.
ReadChangedFile ==
    /\ pc = "overlay"
    /\ \E p \in toRead :
          IF work[p] \notin Readable
            THEN Fail
            ELSE /\ toRead' = toRead \ {p}
                 /\ entries' = entries \union
                       {[path |-> p, kind |-> "upsert", contents |-> work[p]]}
                 /\ UNCHANGED <<pc, want, commit, status, outcome, latest, taken>>
    /\ UNCHANGED <<repoVars, buffers, seen, moved, boundVars>>

OverlayDone ==
    /\ pc = "overlay" /\ toRead = {}
    /\ entries' = entries \union
          {[path |-> p, kind |-> "delete", contents |-> None] :
             p \in status.deleted \union Renamed(1)}
    /\ Goto("buffers")
    /\ UNCHANGED <<repoVars, buffers, want, commit, status, toRead, outcome, latest, taken,
                   seen, moved, boundVars>>

\* load_buffers and build_buffer_overlays: a missing buffer or two buffers
\* of one path are errors.
OnePerPath(rows) == \A a, b \in rows : a.path = b.path => a = b
BufferOverlay == {[buffer |-> b, path |-> buffers[b].path, version |-> buffers[b].version,
                   contents |-> buffers[b].contents] : b \in want.ids}

LoadBuffers ==
    /\ pc = "buffers"
    /\ IF (\E b \in want.ids : buffers[b] = None) \/ ~OnePerPath(BufferOverlay)
         THEN Fail
         ELSE /\ Goto("compose")
              /\ UNCHANGED <<want, commit, status, toRead, entries, outcome, latest, taken>>
    /\ UNCHANGED <<repoVars, buffers, seen, moved, boundVars>>

Composed == [commit |-> commit, base |-> [p \in Path |-> Trim(commit[p])],
             tree |-> entries, buffers |-> BufferOverlay, read |-> want.tree]

\* Mutant: a path may be both changed and deleted.
ComposeUnchecked ==
    /\ pc = "compose"
    /\ Answer({Composed})
    /\ UNCHANGED <<repoVars, buffers, seen, moved, boundVars>>

\* compose and persist_manifest.
Compose ==
    /\ pc = "compose"
    /\ IF OnePerPath(entries)
         THEN Answer({Composed})
         ELSE Fail
    /\ UNCHANGED <<repoVars, buffers, seen, moved, boundVars>>

Next ==
    \/ \E p \in Path, f \in File : Write(p, f) \/ Stage(p, f)
    \/ \E p, q \in Path : Move(p, q)
    \/ Commit
    \/ \E b \in Buffer, row \in BufferRow \union {None} : SetBuffer(b, row)
    \/ Begin \/ ReadHead \/ ReadStatus \/ BuildBase \/ ReadChangedFile
    \/ OverlayDone \/ LoadBuffers \/ Compose

Spec == Init /\ [][Next]_vars

-----------------------------------------------------------------------------
(* Reading snapshots                                                       *)

\* Mutant: a digest of what lies over the commit.
SnapshotIdOfOverlays(s) ==
    <<{<<e.kind, e.path, e.contents>> : e \in s.tree},
      {<<b.buffer, b.path, b.version, b.contents>> : b \in s.buffers}>>

\* The components whose digest is the snapshot id.
SnapshotId(s) ==
    <<s.commit, {<<e.kind, e.path, e.contents>> : e \in s.tree},
      {<<b.buffer, b.path, b.version, b.contents>> : b \in s.buffers}>>

\* resolve_file takes the first entry of a path; an upsert sorts first.
ResolveFile(s, p) ==
    LET buffer == {b \in s.buffers : b.path = p}
        upsert == {e \in s.tree : e.path = p /\ e.kind = "upsert"}
        delete == {e \in s.tree : e.path = p /\ e.kind = "delete"}
    IN CASE buffer # {} -> (CHOOSE b \in buffer : TRUE).contents
         [] buffer = {} /\ upsert # {} -> (CHOOSE e \in upsert : TRUE).contents
         [] buffer \union upsert = {} /\ delete # {} -> None
         [] OTHER -> s.base[p]

\* materialize_without_buffers applies all of them in turn.
WithoutBuffers(s) ==
    [p \in Path |->
       LET upsert == {e \in s.tree : e.path = p /\ e.kind = "upsert"}
       IN IF \E e \in s.tree : e.path = p /\ e.kind = "delete" THEN None
          ELSE IF upsert # {} THEN (CHOOSE e \in upsert : TRUE).contents
          ELSE s.base[p]]

WithBuffers(s) ==
    [p \in Path |->
       LET buffer == {b \in s.buffers : b.path = p}
       IN IF buffer # {} THEN (CHOOSE b \in buffer : TRUE).contents
                         ELSE WithoutBuffers(s)[p]]

Diff(left, right) ==
    LET l == WithBuffers(left)
        r == WithBuffers(right)
        changed == {p \in Path : l[p] # r[p]}
    IN [changed |-> changed,
        added |-> {p \in changed : l[p] = None},
        deleted |-> {p \in changed : l[p] # None /\ r[p] = None},
        bufferOnly |-> {p \in changed : WithoutBuffers(left)[p] = WithoutBuffers(right)[p]}]

-----------------------------------------------------------------------------
(* Properties                                                              *)

\* What a snapshot shows of a path, trailing blanks and buffers aside, the
\* path had on disk while the request ran; an ignored path may be missing.
ShowsWhatWasThere(s) ==
    \A p \in Path :
        \/ Trim(WithoutBuffers(s)[p]) \in {Trim(f) : f \in seen[p]}
        \/ p \in Ignored /\ WithoutBuffers(s)[p] = None

\* create_snapshot reads HEAD, the status and each file at different times.
\* As long as HEAD stays and git answers, every file of the snapshot is one
\* that was there at some time in between, however many files are written.
CapturedWhileTaken ==
    \A s \in latest : (s.read /\ ~moved /\ gitFailures = 0) => ShowsWhatWasThere(s)

\* snapshot ids identify contents: two manifests with one id, of which the
\* later replaces the earlier, hold the same files.
SameIdSameFiles ==
    \A s, t \in taken : SnapshotId(s) = SnapshotId(t) => WithBuffers(s) = WithBuffers(t)

\* A client that compares what it reads from two snapshots, path by path,
\* finds just the differences that snapshots_diff reports.
DiffMatchesRead ==
    \A s, t \in taken : LET diff == Diff(s, t) IN
        /\ diff.changed = {p \in Path : ResolveFile(s, p) # ResolveFile(t, p)}
        /\ diff.added = {p \in diff.changed : ResolveFile(s, p) = None}
        /\ diff.deleted = {p \in diff.changed : ResolveFile(t, p) = None}

=============================================================================
