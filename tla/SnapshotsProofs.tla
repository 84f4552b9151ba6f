---------------------------- MODULE SnapshotsProofs ----------------------------
(***************************************************************************)
(* Proofs about Snapshots: what is true of every snapshot that is taken,   *)
(* for any paths, contents and buffers and any number of edits, requests   *)
(* and failures of git.                                                    *)
(***************************************************************************)
EXTENDS Snapshots, TLAPS

OverlayRow == [buffer : Buffer, path : Path, version : BufferVersions, contents : Readable]

\* What compose makes sure of, and build_snapshot_id relies on.
Composite(s) ==
    /\ s.base = [p \in Path |-> Trim(s.commit[p])]
    /\ s.tree \subseteq Entry /\ OnePerPath(s.tree)
    /\ s.buffers \subseteq OverlayRow

\* Buffers stand still while a request runs, so what was loaded is composed.
ComposeInv ==
    /\ buffers \in [Buffer -> BufferRow \union {None}]
    /\ want \in [tree : BOOLEAN, ids : SUBSET Buffer]
    /\ status \in Status
    /\ toRead \subseteq Path /\ entries \subseteq Entry
    /\ pc = "compose" => \A b \in want.ids : buffers[b] # None
    /\ \A s \in taken : Composite(s)

LEMMA InitInv == Init => ComposeInv
BY DEF Init, ComposeInv, NoRequest, CleanStatus, Status

-----------------------------------------------------------------------------
(* What git status says                                                    *)

LEMMA NoLetterR == ASSUME NEW p PROVE X(p) # "R"
BY Zenon DEF X

\* Every line names paths, and a renamed one both of them.
LEMMA LinesName ==
  ASSUME NEW pairs \in Pairings, NEW l \in StatusLines(pairs)
  PROVE  l.path \in Path /\ (l.code[1] = "R" => l.from \in Path)
<1>1. \A pair \in pairs : pair[1] \in Path /\ pair[2] \in Path
  BY DEF Pairings, Renames
<1>2. CASE \E pair \in pairs : l = [code |-> <<"R", Y(pair[2])>>, path |-> pair[2], from |-> pair[1]]
  <2>1. PICK pair \in pairs : l = [code |-> <<"R", Y(pair[2])>>, path |-> pair[2], from |-> pair[1]]
    BY <1>2
  <2> QED BY <1>1, <2>1
<1>3. CASE \E p \in Path : l = [code |-> <<X(p), Y(p)>>, path |-> p, from |-> None]
  <2>1. PICK p \in Path : l = [code |-> <<X(p), Y(p)>>, path |-> p, from |-> None]
    BY <1>3, Zenon
  <2>2. X(p) # "R"
    BY NoLetterR
  <2>3. l.path = p /\ l.code[1] = X(p)
    BY <2>1
  <2> QED BY <2>2, <2>3
<1>4. CASE \E p \in Path : l = [code |-> IF p \in Ignored THEN <<"!", "!">> ELSE <<"?", "?">>,
                                path |-> p, from |-> None]
  BY <1>4
<1> QED BY <1>2, <1>3, <1>4, Zenon DEF StatusLines

LEMMA ParsedIsStatus ==
  ASSUME NEW pairs \in Pairings
  PROVE  ParsePorcelain(StatusLines(pairs)) \in Status
<1> DEFINE lines == StatusLines(pairs)
           read == ParsePorcelain(lines)
<1>1. /\ \A l \in lines : l.path \in Path
      /\ \A l \in lines : l.code[1] = "R" => l.from \in Path
  BY LinesName
<1> HIDE DEF lines
<1>2. /\ read.untracked \subseteq Path /\ read.deleted \subseteq Path /\ read.dirty \subseteq Path
      /\ read.renamed \subseteq Path \X Path
      /\ read = [untracked |-> read.untracked, deleted |-> read.deleted,
                 renamed |-> read.renamed, dirty |-> read.dirty]
  BY <1>1 DEF ParsePorcelain
<1> HIDE DEF read
<1> QED BY <1>2 DEF Status, lines, read

-----------------------------------------------------------------------------
(* Steps                                                                   *)

\* A request that fails leaves the snapshots as they are.
LEMMA AnswerInv ==
  ASSUME ComposeInv, UNCHANGED buffers, NEW result,
         \A s \in result : Composite(s), Answer(result)
  PROVE  ComposeInv'
BY DEF ComposeInv, Answer, Goto, CleanStatus, Status, Composite, OnePerPath, Trim

LEMMA RequestInv ==
  ASSUME ComposeInv,
         \/ Begin \/ ReadHead \/ ReadStatus \/ BuildBase \/ ReadChangedFile
         \/ OverlayDone \/ LoadBuffers \/ Compose
  PROVE  ComposeInv'
<1> USE DEF Goto, repoVars, boundVars
<1>0. CASE Fail /\ UNCHANGED buffers
  BY <1>0, AnswerInv DEF Fail
<1>1. CASE Begin
  BY <1>1 DEF Begin, ComposeInv
<1>2. CASE ReadHead
  BY <1>0, <1>2 DEF ReadHead, ComposeInv
<1>3. CASE ReadStatus
  <2>1. status' \in Status
    BY <1>3, ParsedIsStatus DEF ReadStatus, CleanStatus, Status
  <2> QED BY <1>3, <2>1 DEF ReadStatus, ComposeInv
<1>4. CASE BuildBase
  <2>1. status.dirty \union status.untracked \union Renamed(2) \subseteq Path
    BY DEF ComposeInv, Status, Renamed
  <2> QED BY <1>0, <1>4, <2>1 DEF BuildBase, ComposeInv
<1>5. CASE ReadChangedFile
  <2>1. PICK p \in toRead :
          IF work[p] \notin Readable
            THEN Fail
            ELSE /\ toRead' = toRead \ {p}
                 /\ entries' = entries \union
                       {[path |-> p, kind |-> "upsert", contents |-> work[p]]}
                 /\ UNCHANGED <<pc, want, commit, status, outcome, latest, taken>>
    BY <1>5 DEF ReadChangedFile
  <2>2. CASE work[p] \in Readable
    <3>1. [path |-> p, kind |-> "upsert", contents |-> work[p]] \in Entry
      BY <2>2 DEF ComposeInv, Entry
    <3> QED BY <1>5, <2>1, <2>2, <3>1 DEF ReadChangedFile, ComposeInv
  <2> QED BY <1>0, <1>5, <2>1, <2>2 DEF ReadChangedFile
<1>6. CASE OverlayDone
  <2>1. {[path |-> p, kind |-> "delete", contents |-> None] :
           p \in status.deleted \union Renamed(1)} \subseteq Entry
    BY DEF ComposeInv, Status, Renamed, Entry
  <2> QED BY <1>6, <2>1 DEF OverlayDone, ComposeInv
<1>7. CASE LoadBuffers
  BY <1>0, <1>7 DEF LoadBuffers, ComposeInv
<1>8. CASE Compose
  <2>1. CASE OnePerPath(entries)
    <3>1. BufferOverlay \subseteq OverlayRow
      BY <1>8 DEF Compose, BufferOverlay, ComposeInv, BufferRow, OverlayRow
    <3>2. Composite(Composed)
      BY <2>1, <3>1 DEF Composed, Composite, ComposeInv
    <3> QED BY <1>8, <2>1, <3>2, AnswerInv DEF Compose
  <2> QED BY <1>0, <1>8, <2>1 DEF Compose
<1> QED BY <1>1, <1>2, <1>3, <1>4, <1>5, <1>6, <1>7, <1>8

LEMMA StepInv == ComposeInv /\ [Next]_vars => ComposeInv'
<1> SUFFICES ASSUME ComposeInv, [Next]_vars PROVE ComposeInv'
  OBVIOUS
<1> USE DEF repoVars, requestVars, boundVars
<1>1. CASE UNCHANGED <<buffers, requestVars>>
  BY <1>1 DEF ComposeInv
<1>2. ASSUME NEW b \in Buffer, NEW r \in BufferRow \union {None}, SetBuffer(b, r)
      PROVE  ComposeInv'
  <2>1. /\ pc = "idle" /\ buffers' = [buffers EXCEPT ![b] = r] /\ UNCHANGED requestVars
    BY <1>2 DEF SetBuffer
  <2> QED BY <2>1 DEF ComposeInv
<1> QED BY <1>1, <1>2, RequestInv DEF Next, vars, Write, Stage, Move, Commit

LEMMA InvAlways == Spec => []ComposeInv
BY InitInv, StepInv, PTL DEF Spec

-----------------------------------------------------------------------------
(* Ids and differences                                                     *)

EntryKey(e) == <<e.kind, e.path, e.contents>>
RowKey(b) == <<b.buffer, b.path, b.version, b.contents>>

\* The overlays of two snapshots with one id: none has a row of its own.
LEMMA SameIdNoMore ==
  ASSUME NEW s, NEW t, Composite(s), Composite(t), SnapshotId(s) = SnapshotId(t)
  PROVE  s.base = t.base /\ s.tree \subseteq t.tree /\ s.buffers \subseteq t.buffers
<1>1. s.base = t.base
  BY DEF Composite, SnapshotId
<1>2. /\ {EntryKey(e) : e \in s.tree} = {EntryKey(e) : e \in t.tree}
      /\ {RowKey(b) : b \in s.buffers} = {RowKey(b) : b \in t.buffers}
  BY DEF SnapshotId, EntryKey, RowKey
<1>3. ASSUME NEW e \in s.tree PROVE e \in t.tree
  <2>1. EntryKey(e) \in {EntryKey(f) : f \in t.tree}
    BY <1>2, Zenon
  <2>2. PICK f \in t.tree : EntryKey(e) = EntryKey(f)
    BY <2>1, Zenon
  <2>3. e \in Entry /\ f \in Entry
    BY DEF Composite
  <2> QED BY <2>2, <2>3 DEF EntryKey, Entry
<1>4. ASSUME NEW b \in s.buffers PROVE b \in t.buffers
  <2>1. RowKey(b) \in {RowKey(c) : c \in t.buffers}
    BY <1>2, Zenon
  <2>2. PICK c \in t.buffers : RowKey(b) = RowKey(c)
    BY <2>1, Zenon
  <2>3. b \in OverlayRow /\ c \in OverlayRow
    BY DEF Composite
  <2> QED BY <2>2, <2>3 DEF RowKey, OverlayRow
<1> QED BY <1>1, <1>3, <1>4

\* The files depend on the base and the overlays only.
Overlaid(base, tree) ==
    [p \in Path |->
       LET upsert == {e \in tree : e.path = p /\ e.kind = "upsert"}
       IN IF \E e \in tree : e.path = p /\ e.kind = "delete" THEN None
          ELSE IF upsert # {} THEN (CHOOSE e \in upsert : TRUE).contents
          ELSE base[p]]
Buffered(files, rows) ==
    [p \in Path |->
       LET buffer == {b \in rows : b.path = p}
       IN IF buffer # {} THEN (CHOOSE b \in buffer : TRUE).contents
                         ELSE files[p]]

LEMMA FilesOfOverlays ==
  ASSUME NEW s
  PROVE  /\ WithoutBuffers(s) = Overlaid(s.base, s.tree)
         /\ WithBuffers(s) = Buffered(WithoutBuffers(s), s.buffers)
<1>1. WithoutBuffers(s) = Overlaid(s.base, s.tree)
  BY DEF WithoutBuffers, Overlaid
<1>2. WithBuffers(s) = Buffered(WithoutBuffers(s), s.buffers)
  BY DEF WithBuffers, Buffered
<1> QED BY <1>1, <1>2

\* For any contents, edits and failures: two snapshots with one id hold the
\* same files, though the names, the times and the order of the reads are not
\* part of the id.
THEOREM EqualIdsEqualFiles == Spec => []SameIdSameFiles
<1>1. ComposeInv => SameIdSameFiles
  <2> SUFFICES ASSUME ComposeInv, NEW s \in taken, NEW t \in taken, SnapshotId(s) = SnapshotId(t)
               PROVE  WithBuffers(s) = WithBuffers(t)
    BY DEF SameIdSameFiles
  <2>1. Composite(s) /\ Composite(t)
    BY DEF ComposeInv
  <2>2. s.base = t.base /\ s.tree = t.tree /\ s.buffers = t.buffers
    <3>1. s.base = t.base /\ s.tree \subseteq t.tree /\ s.buffers \subseteq t.buffers
      BY <2>1, SameIdNoMore, Zenon
    <3>2. t.tree \subseteq s.tree /\ t.buffers \subseteq s.buffers
      BY <2>1, SameIdNoMore, Zenon
    <3> QED BY <3>1, <3>2
  <2>3. WithoutBuffers(s) = WithoutBuffers(t)
    BY <2>2, FilesOfOverlays
  <2> QED BY <2>2, <2>3, FilesOfOverlays
<1> QED BY <1>1, InvAlways, PTL

\* Reading a path takes the first entry of it, and a diff all of them in turn:
\* as compose refuses two entries of a path, they find the same.
LEMMA ReadIsMaterialized ==
  ASSUME NEW s, Composite(s), NEW p \in Path
  PROVE  ResolveFile(s, p) = WithBuffers(s)[p]
<1> DEFINE buffer == {b \in s.buffers : b.path = p}
           upsert == {e \in s.tree : e.path = p /\ e.kind = "upsert"}
           delete == {e \in s.tree : e.path = p /\ e.kind = "delete"}
<1>1. upsert = {} \/ delete = {}
  BY DEF Composite, OnePerPath
<1>2. WithoutBuffers(s)[p] = IF delete # {} THEN None
                             ELSE IF upsert # {} THEN (CHOOSE e \in upsert : TRUE).contents
                             ELSE s.base[p]
  BY DEF WithoutBuffers
<1>3. WithBuffers(s)[p] = IF buffer # {} THEN (CHOOSE b \in buffer : TRUE).contents
                          ELSE WithoutBuffers(s)[p]
  BY DEF WithBuffers
<1>4. ResolveFile(s, p) = CASE buffer # {} -> (CHOOSE b \in buffer : TRUE).contents
         [] buffer = {} /\ upsert # {} -> (CHOOSE e \in upsert : TRUE).contents
         [] buffer \union upsert = {} /\ delete # {} -> None
         [] OTHER -> s.base[p]
  BY DEF ResolveFile
<1> HIDE DEF buffer, upsert, delete
<1> QED BY <1>1, <1>2, <1>3, <1>4

\* For any two snapshots ever taken, snapshots_diff reports as changed, added
\* and deleted just the paths of which snapshots_read_file tells the same.
THEOREM DiffIsWhatIsRead == Spec => []DiffMatchesRead
<1>1. ComposeInv => DiffMatchesRead
  <2> SUFFICES ASSUME ComposeInv, NEW s \in taken, NEW t \in taken
               PROVE  LET diff == Diff(s, t) IN
                      /\ diff.changed = {p \in Path : ResolveFile(s, p) # ResolveFile(t, p)}
                      /\ diff.added = {p \in diff.changed : ResolveFile(s, p) = None}
                      /\ diff.deleted = {p \in diff.changed : ResolveFile(t, p) = None}
    BY DEF DiffMatchesRead
  <2>1. \A p \in Path : /\ ResolveFile(s, p) = WithBuffers(s)[p]
                        /\ ResolveFile(t, p) = WithBuffers(t)[p]
    BY ReadIsMaterialized DEF ComposeInv
  <2> QED BY <2>1 DEF Diff
<1> QED BY <1>1, InvAlways, PTL

-----------------------------------------------------------------------------
(* A snapshot shows what was there                                         *)

\* What a status says is gone, and what it says is to be read.
Gone(s) == s.deleted \union {pair[1] : pair \in s.renamed}
Changed(s) == s.dirty \union s.untracked \union {pair[2] : pair \in s.renamed}

\* What a status says of a path is so, or has been since the request began:
\* a path that is gone was not there, unless it is to be read or is ignored,
\* and one that is not named was as it is in the commit.
Told(s, tree, p) ==
    /\ p \in Gone(s) => p \in Changed(s) \/ None \in seen[p] \/ p \in Ignored
    /\ p \notin Gone(s) \union Changed(s) =>
          tree[p] \in seen[p] \/ (p \in Ignored /\ tree[p] = None)

LEMMA Letters ==
  ASSUME NEW p
  PROVE  /\ X(p) \in {" ", "A", "D", "M"} /\ Y(p) \in {" ", "D", "M"}
         /\ X(p) = "D" => index[p] = None
         /\ X(p) = " " => Committed(p) = index[p]
         /\ Y(p) = "D" => work[p] = None
         /\ Y(p) = " " => index[p] = work[p] \/ index[p] = None
<1>1. X(p) \in {" ", "A", "D", "M"} /\ (X(p) = "D" => index[p] = None)
      /\ (X(p) = " " => Committed(p) = index[p])
  BY DEF X
<1>2. Y(p) \in {" ", "D", "M"} /\ (Y(p) = "D" => work[p] = None)
      /\ (Y(p) = " " => index[p] = work[p] \/ index[p] = None)
  BY DEF Y
<1> QED BY <1>1, <1>2

RenameLine(pair) == [code |-> <<"R", Y(pair[2])>>, path |-> pair[2], from |-> pair[1]]
ChangeLine(p) == [code |-> <<X(p), Y(p)>>, path |-> p, from |-> None]
OtherLine(p) == [code |-> IF p \in Ignored THEN <<"!", "!">> ELSE <<"?", "?">>, path |-> p, from |-> None]

LEMMA LineIs ==
  ASSUME NEW pairs, NEW l
  PROVE  l \in StatusLines(pairs) <=>
            \/ \E pair \in pairs : l = RenameLine(pair)
            \/ \E p \in Path : /\ <<X(p), Y(p)>> # <<" ", " ">>
                               /\ \A pair \in pairs : p \notin {pair[1], pair[2]}
                               /\ l = ChangeLine(p)
            \/ \E p \in Path : index[p] = None /\ work[p] # None /\ l = OtherLine(p)
BY Zenon DEF StatusLines, RenameLine, ChangeLine, OtherLine

\* The letters of the lines.
LEMMA RenameCode ==
  ASSUME NEW pair
  PROVE  /\ RenameLine(pair).code[1] = "R" /\ RenameLine(pair).code[2] \in {" ", "D", "M"}
         /\ RenameLine(pair).path = pair[2] /\ RenameLine(pair).from = pair[1]
BY Letters DEF RenameLine

LEMMA ChangeCode ==
  ASSUME NEW p
  PROVE  ChangeLine(p).code[1] = X(p) /\ ChangeLine(p).code[2] = Y(p) /\ ChangeLine(p).path = p
BY DEF ChangeLine

LEMMA OtherCode ==
  ASSUME NEW p
  PROVE  /\ OtherLine(p).code[1] = OtherLine(p).code[2] /\ OtherLine(p).path = p
         /\ OtherLine(p).code[1] \in {"!", "?"} /\ (p \notin Ignored => OtherLine(p).code[1] = "?")
BY DEF OtherLine

\* What parse_porcelain makes of the lines.
LEMMA ParsedIs ==
  ASSUME NEW lines, NEW q
  PROVE  LET s == ParsePorcelain(lines) IN
         /\ q \in s.untracked <=> \E l \in lines : q = l.path /\ (l.code[1] = "?" \/ l.code[2] = "?")
         /\ q \in s.deleted <=> \E l \in lines : /\ q = l.path /\ l.code[1] # "R"
                                                 /\ l.code[1] = "D" \/ l.code[2] = "D"
         /\ q \in s.renamed <=> \E l \in lines : l.code[1] = "R" /\ q = <<l.from, l.path>>
         /\ q \in s.dirty <=> \E l \in lines : /\ q = l.path /\ l.code[1] \notin {"R", "?", "!", "D"}
                                               /\ l.code[2] \notin {"?", "!", "D"}
<1> DEFINE s == ParsePorcelain(lines)
<1>1. q \in s.untracked <=> \E l \in lines : q = l.path /\ (l.code[1] = "?" \/ l.code[2] = "?")
  BY DEF ParsePorcelain
<1>2. q \in s.deleted <=> \E l \in lines : /\ q = l.path /\ l.code[1] # "R"
                                           /\ l.code[1] = "D" \/ l.code[2] = "D"
  BY DEF ParsePorcelain
<1>3. q \in s.renamed <=> \E l \in lines : l.code[1] = "R" /\ q = <<l.from, l.path>>
  BY DEF ParsePorcelain
<1>4. q \in s.dirty <=> \E l \in lines : /\ q = l.path /\ l.code[1] \notin {"R", "?", "!", "D"}
                                         /\ l.code[2] \notin {"?", "!", "D"}
  BY DEF ParsePorcelain
<1> QED BY <1>1, <1>2, <1>3, <1>4

\* A status is true of every path at the moment it is made.
LEMMA StatusIsTrue ==
  ASSUME NEW pairs \in Pairings, head # None, \A q \in Path : work[q] \in seen[q], NEW p \in Path
  PROVE  Told(ParsePorcelain(StatusLines(pairs)), head, p)
<1> DEFINE lines == StatusLines(pairs)
           s == ParsePorcelain(lines)
<1>1. \A pair \in pairs : X(pair[1]) = "D"
  BY DEF Pairings, Renames
<1>2. index[p] = None /\ work[p] # None => p \in s.untracked \/ p \in Ignored
  <2> SUFFICES ASSUME index[p] = None, work[p] # None, p \notin Ignored PROVE p \in s.untracked
    OBVIOUS
  <2>1. OtherLine(p) \in lines
    BY LineIs
  <2>2. OtherLine(p).path = p /\ OtherLine(p).code[1] = "?"
    BY OtherCode
  <2> QED BY <2>1, <2>2, ParsedIs
<1>3. p \in s.deleted => index[p] = None \/ work[p] = None
  <2> SUFFICES ASSUME p \in s.deleted PROVE index[p] = None \/ work[p] = None
    OBVIOUS
  <2>1. PICK l \in lines : p = l.path /\ l.code[1] # "R" /\ (l.code[1] = "D" \/ l.code[2] = "D")
    BY ParsedIs
  <2>2. ASSUME NEW pair \in pairs, l = RenameLine(pair) PROVE FALSE
    BY <2>1, <2>2, RenameCode
  <2>3. ASSUME NEW q \in Path, l = OtherLine(q) PROVE FALSE
    <3>1. l.code[1] = l.code[2] /\ l.code[1] \in {"!", "?"}
      BY <2>3, OtherCode
    <3> QED BY <2>1, <3>1
  <2>4. PICK q \in Path : l = ChangeLine(q)
    BY <2>2, <2>3, LineIs
  <2>5. X(p) = "D" \/ Y(p) = "D"
    BY <2>1, <2>4, ChangeCode
  <2> QED BY <2>5, Letters
<1>4. ASSUME NEW pair \in pairs
      PROVE  pair \in s.renamed /\ index[pair[1]] = None
  <2>1. RenameLine(pair) \in lines
    BY LineIs
  <2>2. <<pair[1], pair[2]>> \in s.renamed
    <3>1. RenameLine(pair).code[1] = "R" /\ RenameLine(pair).path = pair[2]
          /\ RenameLine(pair).from = pair[1]
      BY RenameCode
    <3> QED BY <2>1, <3>1, ParsedIs
  <2>3. pair = <<pair[1], pair[2]>>
    BY DEF Pairings, Renames
  <2> QED BY <1>1, <2>2, <2>3, Letters
<1>5. ASSUME NEW q \in s.renamed PROVE q \in pairs
  <2>1. PICK l \in lines : l.code[1] = "R" /\ q = <<l.from, l.path>>
    BY ParsedIs
  <2>2. ASSUME NEW r \in Path, l = ChangeLine(r) \/ l = OtherLine(r) PROVE FALSE
    <3>1. X(r) # "R"
      BY NoLetterR
    <3>2. ChangeLine(r).code[1] = X(r)
      BY ChangeCode
    <3>3. OtherLine(r).code[1] \in {"!", "?"}
      BY OtherCode
    <3> QED BY <2>1, <2>2, <3>1, <3>2, <3>3
  <2>3. PICK pair \in pairs : l = RenameLine(pair)
    BY <2>2, LineIs
  <2>4. q = <<pair[1], pair[2]>>
    BY <2>1, <2>3, RenameCode
  <2> QED BY <2>4 DEF Pairings, Renames
<1>6. <<X(p), Y(p)>> # <<" ", " ">> /\ (\A pair \in pairs : p \notin {pair[1], pair[2]})
         => p \in s.deleted \union s.dirty
  <2> SUFFICES ASSUME <<X(p), Y(p)>> # <<" ", " ">>, \A pair \in pairs : p \notin {pair[1], pair[2]}
               PROVE  p \in s.deleted \union s.dirty
    OBVIOUS
  <2>1. ChangeLine(p) \in lines
    BY LineIs
  <2>2. /\ ChangeLine(p).code[1] = X(p) /\ ChangeLine(p).code[2] = Y(p) /\ ChangeLine(p).path = p
        /\ X(p) \in {" ", "A", "D", "M"} /\ Y(p) \in {" ", "D", "M"}
    BY ChangeCode, Letters
  <2>3. CASE X(p) = "D" \/ Y(p) = "D"
    <3>1. \E l \in lines : p = l.path /\ l.code[1] # "R" /\ (l.code[1] = "D" \/ l.code[2] = "D")
      BY <2>1, <2>2, <2>3
    <3> QED BY <3>1, ParsedIs
  <2>4. CASE X(p) # "D" /\ Y(p) # "D"
    <3>1. \E l \in lines : p = l.path /\ l.code[1] \notin {"R", "?", "!", "D"}
                           /\ l.code[2] \notin {"?", "!", "D"}
      BY <2>1, <2>2, <2>4
    <3> QED BY <3>1, ParsedIs
  <2> QED BY <2>3, <2>4
<1> HIDE DEF lines, s
<1>7. p \in Gone(s) => p \in Changed(s) \/ None \in seen[p] \/ p \in Ignored
  <2> SUFFICES ASSUME p \in Gone(s), p \notin Changed(s), p \notin Ignored PROVE None \in seen[p]
    OBVIOUS
  <2>1. index[p] = None \/ work[p] = None
    BY <1>3, <1>4, <1>5 DEF Gone
  <2>2. work[p] = None
    BY <1>2, <2>1 DEF Changed
  <2> QED BY <2>2
<1>8. p \notin Gone(s) \union Changed(s) => head[p] \in seen[p] \/ (p \in Ignored /\ head[p] = None)
  <2> SUFFICES ASSUME p \notin Gone(s) \union Changed(s)
               PROVE  head[p] \in seen[p] \/ (p \in Ignored /\ head[p] = None)
    OBVIOUS
  <2>1. \A pair \in pairs : p \notin {pair[1], pair[2]}
    BY <1>4 DEF Gone, Changed
  <2>2. X(p) = " " /\ Y(p) = " "
    BY <1>6, <2>1 DEF Gone, Changed
  <2>3. head[p] = index[p] /\ (index[p] = work[p] \/ index[p] = None)
    BY <2>2, Letters DEF Committed
  <2> QED BY <1>2, <2>3 DEF Changed
<1> QED BY <1>7, <1>8 DEF Told, s, lines

\* As long as nothing disturbs the request: HEAD stays and git answers.
Undisturbed == ~moved /\ gitFailures = 0
Reading == {"base", "overlay", "buffers", "compose"}

\* The overlay that is being read: contents that were there, one of each path
\* that is not still to be read ...
OverlayInv ==
    /\ \A e \in entries : e.kind = "upsert" => e.contents \in seen[e.path]
    /\ pc = "overlay" =>
          /\ \A e \in entries : e.kind = "upsert"
          /\ \A p \in Changed(status) : p \in toRead \/ \E e \in entries : e.path = p /\ e.kind = "upsert"
    /\ pc \in {"buffers", "compose"} =>
          /\ \A e \in entries : e.kind = "upsert" \/ (e.kind = "delete" /\ e.path \in Gone(status))
          /\ \A p \in Changed(status) : \E e \in entries : e.path = p /\ e.kind = "upsert"
          /\ \A p \in Gone(status) : \E e \in entries : e.path = p /\ e.kind = "delete"

\* ... and the state of a request that reads the working tree.
CaptureInv ==
    /\ gitFailures \in Nat
    /\ pc \in {"idle", "head", "status", "base"} => entries = {}
    /\ pc # "idle" => latest = {}
    /\ pc = "idle" => CapturedWhileTaken
    /\ Watching =>
          /\ \A p \in Path : work[p] \in seen[p]
          /\ Undisturbed =>
                /\ pc = "status" => commit = head /\ head # None
                /\ pc \in Reading => \A p \in Path : Told(status, commit, p)
                /\ pc \in Reading \ {"base"} => OverlayInv

LEMMA CaptureInit == Init => CaptureInv
BY DEF Init, CaptureInv, CapturedWhileTaken, Watching, NoRequest

\* Edits of files: what was seen is not forgotten.
LEMMA FilesCapture ==
  ASSUME CaptureInv, ComposeInv, seen' = Look, UNCHANGED <<head, requestVars, moved, gitFailures>>
  PROVE  CaptureInv'
<1> USE DEF requestVars
<1>1. \A p \in Path : seen[p] \subseteq seen'[p]
  BY DEF Look
<1>2. ~Watching => \A p \in Path : seen'[p] = seen[p]
  BY DEF Look
<1>3. pc = "idle" => CapturedWhileTaken'
  <2> SUFFICES ASSUME pc = "idle", NEW s \in latest, s.read, ~moved, gitFailures = 0
               PROVE  ShowsWhatWasThere(s)'
    BY DEF CapturedWhileTaken
  <2>1. ShowsWhatWasThere(s)
    BY DEF CaptureInv, CapturedWhileTaken
  <2>2. \A p \in Path : seen'[p] = seen[p]
    BY <1>2 DEF Watching
  <2> QED BY <2>1, <2>2 DEF ShowsWhatWasThere, WithoutBuffers, Trim
<1>4. Watching => \A p \in Path : work'[p] \in seen'[p]
  BY DEF Look
<1>5. ASSUME Watching, Undisturbed
      PROVE  /\ pc \in Reading => \A p \in Path : Told(status, commit, p)'
             /\ pc \in Reading \ {"base"} => OverlayInv'
  <2>1. pc \in Reading => \A p \in Path : Told(status, commit, p)'
    BY <1>1, <1>5 DEF CaptureInv, Told
  <2>2. \A e \in entries : e.path \in Path
    BY DEF ComposeInv, Entry
  <2>3. pc \in Reading \ {"base"} => OverlayInv'
    BY <1>1, <1>5, <2>2 DEF CaptureInv, OverlayInv
  <2> QED BY <2>1, <2>3
<1> QED BY <1>3, <1>4, <1>5 DEF CaptureInv, Watching, Undisturbed

\* Steps that change none of what a request looks at.
LEMMA FrameCapture ==
  ASSUME CaptureInv, UNCHANGED <<head, work, requestVars, seen, moved, gitFailures>>
  PROVE  CaptureInv'
<1> USE DEF requestVars
<1>1. pc = "idle" => CapturedWhileTaken'
  BY DEF CaptureInv, CapturedWhileTaken, ShowsWhatWasThere, WithoutBuffers, Trim
<1>2. OverlayInv => OverlayInv'
  BY DEF OverlayInv
<1>3. \A p \in Path : Told(status, commit, p) => Told(status, commit, p)'
  BY DEF Told
<1> QED BY <1>1, <1>2, <1>3 DEF CaptureInv, Watching, Undisturbed

LEMMA CommitCapture ==
  ASSUME CaptureInv, Commit
  PROVE  CaptureInv'
<1> USE DEF requestVars
<1>1. pc = "idle" => CapturedWhileTaken'
  BY DEF Commit, CaptureInv, CapturedWhileTaken, ShowsWhatWasThere, WithoutBuffers, Trim
<1>2. Watching => ~Undisturbed' /\ UNCHANGED <<work, seen, Watching>>
  BY DEF Commit, Undisturbed, Watching
<1> QED BY <1>1, <1>2 DEF Commit, CaptureInv, Watching, Undisturbed

\* A request that is answered, with a snapshot that shows what was there.
LEMMA AnswerCapture ==
  ASSUME CaptureInv, NEW result, Answer(result), UNCHANGED <<seen, moved, gitFailures>>,
         \A s \in result : s.read /\ Undisturbed => ShowsWhatWasThere(s)
  PROVE  CaptureInv'
<1>1. CapturedWhileTaken'
  <2> SUFFICES ASSUME NEW s \in result, s.read, Undisturbed PROVE ShowsWhatWasThere(s)'
    BY DEF Answer, CapturedWhileTaken, Undisturbed
  <2> QED BY DEF ShowsWhatWasThere, WithoutBuffers, Trim
<1> QED BY <1>1 DEF Answer, Goto, CaptureInv, Watching

\* What is composed of an overlay in which a path has one entry.
LEMMA ComposedShows ==
  ASSUME CaptureInv, pc = "compose", want.tree, Undisturbed, OnePerPath(entries)
  PROVE  ShowsWhatWasThere(Composed)
<1>1. OverlayInv /\ \A p \in Path : Told(status, commit, p)
  BY DEF CaptureInv, Watching, Reading
<1> SUFFICES ASSUME NEW p \in Path
             PROVE  \/ Trim(WithoutBuffers(Composed)[p]) \in {Trim(f) : f \in seen[p]}
                    \/ p \in Ignored /\ WithoutBuffers(Composed)[p] = None
  BY DEF ShowsWhatWasThere
<1> DEFINE upsert == {e \in entries : e.path = p /\ e.kind = "upsert"}
           shown == WithoutBuffers(Composed)[p]
<1>2. shown = IF \E e \in entries : e.path = p /\ e.kind = "delete" THEN None
              ELSE IF upsert # {} THEN (CHOOSE e \in upsert : TRUE).contents
              ELSE Trim(commit[p])
  BY DEF WithoutBuffers, Composed
<1>3. Trim(Trim(commit[p])) = Trim(commit[p]) /\ Trim(None) = None
  BY ContentsAssumption DEF Trim, Readable
<1> HIDE DEF shown
<1>4. CASE p \in Gone(status)
  <2>1. p \notin Changed(status) /\ shown = None
    BY <1>1, <1>2, <1>4 DEF OverlayInv, OnePerPath
  <2>2. None \in seen[p] \/ p \in Ignored
    BY <1>1, <1>4, <2>1 DEF Told
  <2> QED BY <2>1, <2>2 DEF shown
<1>5. CASE p \notin Gone(status) /\ upsert # {}
  <2>1. shown = (CHOOSE e \in upsert : TRUE).contents
    BY <1>1, <1>2, <1>5 DEF OverlayInv
  <2>2. (CHOOSE e \in upsert : TRUE) \in upsert
    BY <1>5
  <2>3. shown \in seen[p]
    BY <1>1, <2>1, <2>2 DEF OverlayInv
  <2> QED BY <2>3 DEF shown
<1>6. CASE p \notin Gone(status) /\ upsert = {}
  <2>1. shown = Trim(commit[p])
    BY <1>1, <1>2, <1>6 DEF OverlayInv
  <2>2. p \notin Changed(status)
    BY <1>1, <1>6 DEF OverlayInv
  <2>3. commit[p] \in seen[p] \/ (p \in Ignored /\ commit[p] = None)
    BY <1>1, <1>6, <2>2 DEF Told
  <2> QED BY <1>3, <2>1, <2>3 DEF shown
<1> QED BY <1>4, <1>5, <1>6

LEMMA RequestCapture ==
  ASSUME CaptureInv, ComposeInv,
         \/ Begin \/ ReadHead \/ ReadStatus \/ BuildBase \/ ReadChangedFile
         \/ OverlayDone \/ LoadBuffers \/ Compose
  PROVE  CaptureInv'
<1> USE DEF Goto, repoVars, boundVars, Reading
<1>0. CASE Fail /\ UNCHANGED <<seen, moved, gitFailures>>
  BY <1>0, AnswerCapture DEF Fail
<1>1. CASE Begin
  BY <1>1 DEF Begin, CaptureInv, Watching, Undisturbed
<1>2. CASE ReadHead
  <2>1. CASE head # None
    BY <1>2, <2>1 DEF ReadHead, CaptureInv, Watching, Undisturbed
  <2> QED BY <1>0, <1>2, <2>1 DEF ReadHead
<1>3. CASE ReadStatus
  <2>1. /\ pc = "status" /\ pc' = "base"
        /\ UNCHANGED <<repoVars, want, commit, entries, latest, seen, moved>>
    BY <1>3 DEF ReadStatus
  <2>2. gitFailures' \in Nat /\ (gitFailures' = 0 => gitFailures = 0)
    BY <1>3 DEF ReadStatus, CaptureInv
  <2>3. ASSUME Watching, Undisturbed', NEW p \in Path PROVE Told(status', commit, p)
    <3>1. gitFailures = 0 /\ UNCHANGED gitFailures
      BY <1>3, <2>2, <2>3 DEF ReadStatus, Undisturbed
    <3>2. PICK pairs \in Pairings : status' = ParsePorcelain(StatusLines(pairs))
      BY <1>3, <3>1 DEF ReadStatus
    <3>3. commit = head /\ head # None /\ \A q \in Path : work[q] \in seen[q]
      BY <2>1, <2>3, <3>1 DEF CaptureInv, Undisturbed
    <3> QED BY <3>2, <3>3, StatusIsTrue
  <2>4. ASSUME Watching, Undisturbed', NEW p \in Path PROVE Told(status, commit, p)'
    BY <2>1, <2>3, <2>4 DEF Told
  <2> QED BY <2>1, <2>2, <2>4 DEF CaptureInv, Watching
<1>4. CASE BuildBase
  <2>1. CASE ~(\E p \in Path : commit[p] \in Binary)
    <3>1. /\ pc = "base" /\ pc' = IF want.tree THEN "overlay" ELSE "buffers"
          /\ want.tree => toRead' = Changed(status)
          /\ UNCHANGED <<repoVars, want, commit, status, entries, latest, seen, moved, gitFailures>>
      BY <1>4, <2>1 DEF BuildBase, Changed, Renamed
    <3>2. Watching => OverlayInv'
      BY <3>1 DEF Watching, CaptureInv, OverlayInv, Changed
    <3>3. \A p \in Path : Told(status, commit, p) => Told(status, commit, p)'
      BY <3>1 DEF Told
    <3> QED BY <3>1, <3>2, <3>3 DEF CaptureInv, Watching, Undisturbed
  <2> QED BY <1>0, <1>4, <2>1 DEF BuildBase
<1>5. CASE ReadChangedFile
  <2>1. PICK p \in toRead :
          IF work[p] \notin Readable
            THEN Fail
            ELSE /\ toRead' = toRead \ {p}
                 /\ entries' = entries \union
                       {[path |-> p, kind |-> "upsert", contents |-> work[p]]}
                 /\ UNCHANGED <<pc, want, commit, status, outcome, latest, taken>>
    BY <1>5 DEF ReadChangedFile
  <2>2. CASE work[p] \in Readable
    <3>1. /\ pc = "overlay" /\ toRead' = toRead \ {p}
          /\ entries' = entries \union {[path |-> p, kind |-> "upsert", contents |-> work[p]]}
          /\ UNCHANGED <<repoVars, pc, want, commit, status, latest, seen, moved, gitFailures>>
      BY <1>5, <2>1, <2>2 DEF ReadChangedFile
    <3>2. p \in Path
      BY DEF ComposeInv
    <3>3. ASSUME Watching, Undisturbed PROVE OverlayInv'
      <4> DEFINE entry == [path |-> p, kind |-> "upsert", contents |-> work[p]]
      <4>1. OverlayInv /\ work[p] \in seen[p]
        BY <3>1, <3>2, <3>3 DEF CaptureInv
      <4>2. entry.path = p /\ entry.kind = "upsert" /\ entry.contents = work[p]
        OBVIOUS
      <4>3. entries' = entries \union {entry}
        BY <3>1
      <4> HIDE DEF entry
      <4>4. \A e \in entries' : e.kind = "upsert" /\ e.contents \in seen[e.path]
        BY <3>1, <4>1, <4>2, <4>3 DEF OverlayInv
      <4>5. \A q \in Changed(status) : q \in toRead' \/ \E e \in entries' : e.path = q /\ e.kind = "upsert"
        BY <3>1, <4>1, <4>2, <4>3 DEF OverlayInv
      <4> QED BY <3>1, <4>4, <4>5 DEF OverlayInv
    <3>4. \A q \in Path : Told(status, commit, q) => Told(status, commit, q)'
      BY <3>1 DEF Told
    <3> QED BY <3>1, <3>3, <3>4 DEF CaptureInv, Watching, Undisturbed
  <2> QED BY <1>0, <1>5, <2>1, <2>2 DEF ReadChangedFile
<1>6. CASE OverlayDone
  <2>1. /\ pc = "overlay" /\ toRead = {} /\ pc' = "buffers"
        /\ entries' = entries \union
              {[path |-> p, kind |-> "delete", contents |-> None] : p \in Gone(status)}
        /\ UNCHANGED <<repoVars, want, commit, status, latest, seen, moved, gitFailures>>
    BY <1>6 DEF OverlayDone, Gone, Renamed
  <2>2. ASSUME Watching, Undisturbed PROVE OverlayInv'
    <3> DEFINE deletes == {[path |-> p, kind |-> "delete", contents |-> None] : p \in Gone(status)}
    <3>1. OverlayInv
      BY <2>1, <2>2 DEF CaptureInv
    <3>2. /\ \A e \in deletes : e.kind = "delete" /\ e.path \in Gone(status)
          /\ \A p \in Gone(status) : \E e \in deletes : e.path = p /\ e.kind = "delete"
      <4>1. ASSUME NEW e \in deletes PROVE e.kind = "delete" /\ e.path \in Gone(status)
        <5>1. PICK p \in Gone(status) : e = [path |-> p, kind |-> "delete", contents |-> None]
          BY <4>1, Zenon
        <5> QED BY <5>1
      <4>2. ASSUME NEW p \in Gone(status) PROVE \E e \in deletes : e.path = p /\ e.kind = "delete"
        <5>1. [path |-> p, kind |-> "delete", contents |-> None] \in deletes
          BY Zenon
        <5> HIDE DEF deletes
        <5> QED BY <5>1
      <4> QED BY <4>1, <4>2
    <3>3. entries' = entries \union deletes
      BY <2>1
    <3> HIDE DEF deletes
    <3>4. /\ \A e \in entries' : e.kind = "upsert" => e.contents \in seen[e.path]
          /\ \A e \in entries' : e.kind = "upsert" \/ (e.kind = "delete" /\ e.path \in Gone(status))
      BY <2>1, <3>1, <3>2, <3>3 DEF OverlayInv
    <3>5. \A p \in Changed(status) : \E e \in entries' : e.path = p /\ e.kind = "upsert"
      BY <2>1, <3>1, <3>3 DEF OverlayInv
    <3>6. \A p \in Gone(status) : \E e \in entries' : e.path = p /\ e.kind = "delete"
      BY <3>2, <3>3
    <3> QED BY <2>1, <3>4, <3>5, <3>6 DEF OverlayInv
  <2>3. \A q \in Path : Told(status, commit, q) => Told(status, commit, q)'
    BY <2>1 DEF Told
  <2> QED BY <2>1, <2>2, <2>3 DEF CaptureInv, Watching, Undisturbed
<1>7. CASE LoadBuffers
  <2>1. CASE ~Fail
    <3>1. /\ pc = "buffers" /\ pc' = "compose"
          /\ UNCHANGED <<repoVars, want, commit, status, entries, latest, seen, moved, gitFailures>>
      BY <1>7, <2>1 DEF LoadBuffers
    <3>2. Watching /\ Undisturbed => OverlayInv'
      BY <3>1 DEF CaptureInv, OverlayInv
    <3>3. \A q \in Path : Told(status, commit, q) => Told(status, commit, q)'
      BY <3>1 DEF Told
    <3> QED BY <3>1, <3>2, <3>3 DEF CaptureInv, Watching, Undisturbed
  <2> QED BY <1>0, <1>7, <2>1 DEF LoadBuffers
<1>8. CASE Compose
  <2>1. CASE OnePerPath(entries)
    <3>1. Answer({Composed}) /\ pc = "compose" /\ UNCHANGED <<seen, moved, gitFailures>>
      BY <1>8, <2>1 DEF Compose
    <3>2. Composed.read /\ Undisturbed => ShowsWhatWasThere(Composed)
      BY <2>1, <3>1, ComposedShows DEF Composed
    <3>3. \A s \in {Composed} : s.read /\ Undisturbed => ShowsWhatWasThere(s)
      BY <3>2
    <3> QED BY <3>1, <3>3, AnswerCapture
  <2> QED BY <1>0, <1>8, <2>1 DEF Compose
<1> QED BY <1>1, <1>2, <1>3, <1>4, <1>5, <1>6, <1>7, <1>8

LEMMA StepCapture == CaptureInv /\ ComposeInv /\ [Next]_vars => CaptureInv'
<1> SUFFICES ASSUME CaptureInv, ComposeInv, [Next]_vars PROVE CaptureInv'
  OBVIOUS
<1>1. ASSUME NEW p \in Path, NEW f \in File, Write(p, f) PROVE CaptureInv'
  BY <1>1, FilesCapture DEF Write
<1>2. ASSUME NEW p \in Path, NEW q \in Path, Move(p, q) PROVE CaptureInv'
  BY <1>2, FilesCapture DEF Move
<1>3. ASSUME NEW p \in Path, NEW f \in File, Stage(p, f) PROVE CaptureInv'
  BY <1>3, FrameCapture DEF Stage
<1>4. ASSUME NEW b \in Buffer, NEW r \in BufferRow \union {None}, SetBuffer(b, r) PROVE CaptureInv'
  BY <1>4, FrameCapture DEF SetBuffer, repoVars
<1>5. CASE UNCHANGED vars
  BY <1>5, FrameCapture DEF vars, repoVars, boundVars
<1> QED BY <1>1, <1>2, <1>3, <1>4, <1>5, CommitCapture, RequestCapture DEF Next

\* For any files, edits and commits: as long as HEAD stays and git answers,
\* every file that a snapshot shows was on disk at some time while its request
\* ran, though HEAD, the status and the files are read one after the other: a
\* file that git names is read later, one it does not name was as in HEAD when
\* git looked, and a path that is deleted and then there again is refused.
THEOREM SnapshotsShowTheDisk == Spec => []CapturedWhileTaken
<1>1. CaptureInv => CapturedWhileTaken
  BY DEF CaptureInv, CapturedWhileTaken
<1> QED BY InitInv, StepInv, CaptureInit, StepCapture, <1>1, PTL DEF Spec

=============================================================================
