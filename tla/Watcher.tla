------------------------------- MODULE Watcher -------------------------------
(***************************************************************************)
(* hyperindex-watcher: WatcherService::watch_once polls a repository until *)
(* its timeout, compares each scan with the one before, merges the raw     *)
(* events of a path as long as they are pending, drains what has been      *)
(* pending for the debounce window, and flushes the rest at the end        *)
(* (watcher.rs, normalize.rs).  A scan lists the files and then reads them *)
(* one after the other, while they are written, removed and moved.  One    *)
(* directory is modelled, and the files that no ignore pattern matches.    *)
(***************************************************************************)
EXTENDS Naturals, FiniteSets

CONSTANTS
    Paths,       \* number of paths, which are numbered in the order of their names
    Content,     \* contents of files; fingerprints of two contents differ
    None,        \* no file, no path, no event
    BatchMax,    \* batch_max_events
    MaxEdits,    \* bound: edits of files
    MaxPolls     \* bound: polls before the timeout

VARIABLES
    disk,            \* the files
    pc,              \* where watch_once is
    toVisit, found,  \* the files listed and not yet read, and those read
    previous,        \* previous_snapshot
    pending,         \* by path, with the polls since the last update
    dropped,         \* dropped_events is not 0
    known,           \* the files, for one who rereads what events name (history)
    renamedAway,     \* paths that a raw event has renamed (history)
    edits, polls

scanVars == <<toVisit, found>>
streamVars == <<previous, pending, dropped, known, renamedAway>>
vars == <<disk, pc, scanVars, streamVars, edits, polls>>

Path == 1..Paths
Files == [Path -> Content \union {None}]
Kind == {"created", "modified", "removed", "renamed"}
Event == [path : Path, kind : Kind, from : Path \union {None}, age : 0..MaxPolls]

ASSUME WatcherAssumption == {Paths, BatchMax, MaxEdits} \subseteq Nat /\ MaxPolls \in Nat \ {0}
ASSUME NoneAssumption == None \notin Content \union Path \union Event

TypeOK ==
    /\ disk \in Files /\ found \in Files /\ previous \in Files /\ known \in Files
    /\ pc \in {"sleeping", "scanning", "flushing", "done", "failed"}
    /\ toVisit \subseteq Path /\ renamedAway \subseteq Path
    /\ \A p \in Path : pending[p] \in Event \union {None}
    /\ \A p \in Path : pending[p] # None =>
          /\ pending[p].path = p
          /\ (pending[p].kind = "renamed") = (pending[p].from # None)
    /\ dropped \in BOOLEAN
    /\ edits \in 0..MaxEdits /\ polls \in 0..MaxPolls

NoFiles == [p \in Path |-> None]

\* The watcher has scanned the files once.
Init ==
    /\ disk \in Files /\ previous = disk /\ known = disk
    /\ pc = "sleeping"
    /\ toVisit = {} /\ found = NoFiles
    /\ pending = NoFiles /\ dropped = FALSE
    /\ renamedAway = {}
    /\ edits = 0 /\ polls = 0

-----------------------------------------------------------------------------
(* The files change                                                        *)

Edit ==
    /\ pc \in {"sleeping", "scanning"}
    /\ edits < MaxEdits /\ edits' = edits + 1
    /\ UNCHANGED <<pc, scanVars, streamVars, polls>>

Write(p, f) == Edit /\ f # disk[p] /\ disk' = [disk EXCEPT ![p] = f]

Move(p, q) ==
    /\ Edit /\ p # q /\ disk[p] # None
    /\ disk' = [disk EXCEPT ![p] = None, ![q] = disk[p]]

-----------------------------------------------------------------------------
(* Comparing scans                                                         *)

Created(old, new) == {p \in Path : old[p] = None /\ new[p] # None}
Removed(old, new) == {p \in Path : old[p] # None /\ new[p] = None}
Modified(old, new) == {p \in Path : old[p] # None /\ new[p] # None /\ old[p] # new[p]}

\* A rename: of all created and removed files only these two have the
\* fingerprint.
RenamedPairs(old, new) ==
    {pair \in Removed(old, new) \X Created(old, new) :
       /\ old[pair[1]] = new[pair[2]]
       /\ \A p \in Removed(old, new) : old[p] = old[pair[1]] => p = pair[1]
       /\ \A p \in Created(old, new) : new[p] = new[pair[2]] => p = pair[2]}

Raw(p, kind, from) == [path |-> p, kind |-> kind, from |-> from, age |-> 0]

\* diff_snapshots: by path, for no path has two.
DiffSnapshots(old, new) ==
    LET pairs == RenamedPairs(old, new)
    IN  [p \in Path |->
           CASE p \in Created(old, new) /\ (\E pair \in pairs : pair[2] = p) ->
                    Raw(p, "renamed", (CHOOSE pair \in pairs : pair[2] = p)[1])
             [] p \in Created(old, new) /\ (\A pair \in pairs : pair[2] # p) -> Raw(p, "created", None)
             [] p \in Modified(old, new) -> Raw(p, "modified", None)
             [] p \in Removed(old, new) /\ (\A pair \in pairs : pair[1] # p) -> Raw(p, "removed", None)
             [] OTHER -> None]

-----------------------------------------------------------------------------
(* The stream                                                              *)

MergeRename(existing, event) ==
    CASE existing.kind = "created" -> [event EXCEPT !.kind = "created", !.from = None]
      [] existing.kind = "renamed" -> [event EXCEPT !.from = existing.from]
      [] OTHER -> event

\* Mutant: the first event of a path is the one that counts.
MergeEventsFirst(existing, event) ==
    IF existing.kind = "created" /\ event.kind = "removed" THEN None
    ELSE [existing EXCEPT !.age = 0]

\* Mutant: a file that is removed and created again has not changed.
MergeEventsCancelling(existing, event) ==
    CASE existing.kind \in {"created", "renamed"} /\ event.kind = "modified" ->
            [existing EXCEPT !.age = 0]
      [] {existing.kind, event.kind} = {"created", "removed"} -> None
      [] OTHER -> event

MergeEvents(existing, event) ==
    CASE existing.kind \in {"created", "renamed"} /\ event.kind = "modified" ->
            [existing EXCEPT !.age = 0]
      [] existing.kind = "created" /\ event.kind = "removed" -> None
      [] existing.kind = "removed" /\ event.kind \in {"created", "modified"} ->
            Raw(event.path, "modified", None)
      [] OTHER -> event

Waiting(some) == {p \in Path : some[p] # None}

\* insert_pending: a full stream drops the event of a path that has none.
InsertPending(stream, event) ==
    IF Cardinality(Waiting(stream.pending)) >= BatchMax /\ stream.pending[event.path] = None
      THEN [stream EXCEPT !.dropped = TRUE]
      ELSE [stream EXCEPT !.pending[event.path] = event]

\* push_raw_event: an event meets the one of its path, and a rename before
\* that the one of the path it has left.
Merge(stream, event) ==
    LET existing == stream.pending[event.path]
        merged == MergeEvents(existing, event)
        without == [stream EXCEPT !.pending[event.path] = None]
    IN  IF existing = None THEN InsertPending(stream, event)
        ELSE IF merged = None THEN without
        ELSE InsertPending(without, merged)

Push(stream, raw) ==
    IF raw.kind = "renamed" /\ stream.pending[raw.from] # None
    THEN Merge([stream EXCEPT !.pending[raw.from] = None], MergeRename(stream.pending[raw.from], raw))
    ELSE Merge(stream, raw)

\* push_raw_batch, in the order of paths.
PushRawBatch(first, raw) ==
    LET streams[p \in 0..Paths] ==
            IF p = 0 THEN first
            ELSE IF raw[p] = None THEN streams[p - 1]
            ELSE Push(streams[p - 1], raw[p])
    IN  streams[Paths]

\* The files that are reread: those that the events name.
Named(events) == {e.path : e \in events} \union {e.from : e \in events}
Reread(events, files) ==
    [p \in Path |-> IF p \in Named(events) THEN files[p] ELSE known[p]]

-----------------------------------------------------------------------------
(* watch_once                                                              *)

\* read_dir
StartScan ==
    /\ pc = "sleeping"
    /\ pc' = "scanning"
    /\ toVisit' = {p \in Path : disk[p] # None}
    /\ found' = NoFiles
    /\ UNCHANGED <<disk, streamVars, edits, polls>>

\* The next file is read; one that is gone by now is passed over.
Visit ==
    /\ pc = "scanning" /\ toVisit # {}
    /\ \E p \in toVisit :
          /\ \A q \in toVisit : p <= q
          /\ found' = [found EXCEPT ![p] = disk[p]]
          /\ toVisit' = toVisit \ {p}
    /\ UNCHANGED <<disk, pc, streamVars, edits, polls>>

\* A file or directory cannot be read: what has been drained is lost.
ScanFails ==
    /\ pc = "scanning"
    /\ pc' = "failed"
    /\ UNCHANGED <<disk, scanVars, streamVars, edits, polls>>

\* The debounce window is any number of polls, and may take more of them at
\* one time than at another.
Poll ==
    /\ pc = "scanning" /\ toVisit = {}
    /\ LET raw == DiffSnapshots(previous, found)
           older == [p \in Path |-> IF pending[p] = None THEN None
                                    ELSE [pending[p] EXCEPT !.age = @ + 1]]
           stream == PushRawBatch([pending |-> older, dropped |-> dropped], raw)
       IN \E window \in 0..(MaxPolls + 1) :
            LET ready == {p \in Waiting(stream.pending) : stream.pending[p].age >= window}
            IN /\ pending' = [p \in Path |-> IF p \in ready THEN None ELSE stream.pending[p]]
               /\ known' = Reread({stream.pending[p] : p \in ready}, found)
               /\ dropped' = stream.dropped
               /\ renamedAway' = renamedAway \union
                     {pair[1] : pair \in RenamedPairs(previous, found)}
    /\ previous' = found
    /\ found' = NoFiles
    /\ polls' = polls + 1
    /\ \/ pc' = "sleeping" /\ polls' < MaxPolls
       \/ pc' = "flushing"
    /\ UNCHANGED <<disk, toVisit, edits>>

\* flush_all, after the timeout.
Flush ==
    /\ pc = "flushing"
    /\ pc' = "done"
    /\ known' = Reread({pending[p] : p \in Waiting(pending)}, previous)
    /\ pending' = NoFiles
    /\ UNCHANGED <<disk, scanVars, previous, dropped, renamedAway, edits, polls>>

Next ==
    \/ \E p \in Path, f \in Content \union {None} : Write(p, f)
    \/ \E p, q \in Path : Move(p, q)
    \/ StartScan \/ Visit \/ ScanFails \/ Poll \/ Flush

Spec == Init /\ [][Next]_vars

-----------------------------------------------------------------------------
(* Properties                                                              *)

\* Whatever events of a path have been merged in push_raw_event, and
\* whichever were dropped, the pending event says of the path what the last
\* scan saw: removed if it is gone, anything else if it is there.
PendingIsTrue ==
    \A p \in Waiting(pending) : (pending[p].kind = "removed") = (previous[p] = None)

\* A watch that ends without having dropped an event has named every path
\* whose file the last scan saw differently from the first, since the file
\* last changed; paths that are gone by a rename aside.
FilesReported ==
    pc = "done" /\ ~dropped =>
        \A p \in Path : previous[p] # None \/ p \notin renamedAway => known[p] = previous[p]

=============================================================================
