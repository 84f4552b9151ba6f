----------------------------- MODULE SymbolIndex -----------------------------
(***************************************************************************)
(* The parse builds and the symbol index of a repository: parse_build,     *)
(* parse_status, parse_inspect_file, symbol_index_build,                   *)
(* symbol_index_status and the symbol queries of the daemon                *)
(* (daemon/symbols.rs), the parse cache and builds on disk                 *)
(* (parse_manager.rs), the refresh of the index from the snapshot indexed  *)
(* before (incremental.rs), its database (symbol_store.rs) and what        *)
(* hyperctl symbol doctor makes of it (cli/symbol.rs).                     *)
(* The daemon serves one request at a time; it may be stopped at any of    *)
(* them, its files may be damaged, and it starts again with another        *)
(* configuration or as another version.  What the facts of a file are is   *)
(* the matter of SymbolFacts: here they are named by the content and the   *)
(* configuration they come from.                                           *)
(***************************************************************************)
EXTENDS Naturals, FiniteSets

CONSTANTS
    Paths,        \* number of paths, numbered in the order of their names
    Language,     \* by path, its language; None if it is no language of the pack
    Place,        \* by path, where it lies: "own", "vendor" or "generated"
    Size,         \* by content, its bytes
    Binary,       \* contents with bytes that no text has
    Errors,       \* by content, the number of its syntax errors
    Duplicated,   \* contents whose facts have two rows of one key; see SymbolFacts
    Snapshots,    \* by snapshot id, its files
    Setups,       \* configurations and versions of hyperd
    None,         \* no file, no build, no snapshot
    Damaged,      \* a file or row that cannot be read as what it should be
    MaxRequests,  \* bound: requests
    MaxFaults     \* bound: stops and damages

Path == 1..Paths
Content == DOMAIN Errors
SnapshotId == DOMAIN Snapshots

\* Where resolve_file finds a path is in its record: in the commit, or in the
\* working tree and the buffers.
SnapshotFile == [content : Content, from : {"base", "overlay"}]

ASSUME BoundsAssumption == {Paths, MaxRequests, MaxFaults} \subseteq Nat
ASSUME ContentAssumption ==
    /\ \A c \in Content : Errors[c] \in Nat /\ Size[c] \in Nat
    /\ Duplicated \union Binary \subseteq Content
    /\ DOMAIN Language = Path /\ Place \in [Path -> {"own", "vendor", "generated"}]
ASSUME SnapshotsAssumption ==
    \A s \in SnapshotId : Snapshots[s] \in [Path -> SnapshotFile \union {None}]
ASSUME SetupsAssumption ==
    \A u \in Setups : /\ u.ignored \subseteq Path
                      /\ {u.maxBytes, u.limit, u.schema} \subseteq Nat
                      /\ None \notin u.languages

VARIABLES
    setup,        \* configuration and version of the running daemon
    manifests,    \* snapshots whose manifests the repo store lists
    unreadable,   \* those of them whose manifest file cannot be loaded
    cache,        \* parse cache: by cache id, a unit
    builds,       \* build.json: by snapshot and configuration
    facts,        \* by snapshot, the rows of its files
    indexed,      \* indexed_snapshot_state
    request,      \* the request that is served
    pc,           \* where it is
    toParse,      \* files that build_snapshot has yet to parse
    parsed,       \* and those it has
    answer,       \* what it is answered
    halfIndexed,  \* a stop left new facts under the record of others (history)
    requests, faults

diskVars == <<cache, builds, facts, indexed>>
envVars == <<setup, manifests, unreadable>>
countVars == <<requests, faults>>
vars == <<envVars, diskVars, request, pc, toParse, parsed, answer, halfIndexed, countVars>>

Least(a, b) == IF a <= b THEN a ELSE b

-----------------------------------------------------------------------------
(* Configurations, the catalog of a snapshot, and parsing                  *)

\* ParseEligibilityRules::from_runtime_config: with no language enabled, all are.
EnabledLanguages(u) ==
    IF u.languages = {} THEN {Language[p] : p \in Path} \ {None} ELSE u.languages
Rules(u) == [ignored |-> u.ignored, languages |-> EnabledLanguages(u), maxBytes |-> u.maxBytes]

\* parser_config_digest of parse_manager.rs and, of the same parts, that of
\* incremental.rs: what of the configuration is digested.
ParserConfigDigest(u) == [rules |-> Rules(u), limit |-> u.limit]
IndexConfigDigest(u) == [rules |-> Rules(u), limit |-> u.limit]
Digest == {ParserConfigDigest(u) : u \in Setups}

ContentAt(s, p) == IF Snapshots[s][p] = None THEN None ELSE Snapshots[s][p].content

\* is_vendor_path and is_generated_path
IsOwn(p) == Place[p] \notin {"vendor", "generated"}

\* SnapshotFileCatalog::build: the files that are parsed.
Eligible(s, u) ==
    {p \in Path : /\ ContentAt(s, p) # None
                  /\ p \notin Rules(u).ignored
                  /\ IsOwn(p)
                  /\ Language[p] \in Rules(u).languages
                  /\ Size[ContentAt(s, p)] <= Rules(u).maxBytes
                  /\ ContentAt(s, p) \notin Binary}

\* collect_diagnostics: a file that may have none still gets one for its errors.
CollectDiagnostics(errors, limit) ==
    IF errors > 0 /\ limit = 0 THEN 1 ELSE Least(errors, limit)

\* ParseCore::parse_contents, with the diagnostics it keeps.
ParseContents(f, u) ==
    [content |-> f.content, from |-> f.from,
     diagnostics |-> CollectDiagnostics(Errors[f.content], u.limit)]

\* parse_file_from_snapshot: whether the file is eligible does not matter.
ParseFileFromSnapshot(s, p, u) ==
    IF Language[p] = None \/ Snapshots[s][p] = None THEN None
    ELSE ParseContents(Snapshots[s][p], u)

\* CachedParseUnit: the file's source is not in it, into_file_record adds it.
FromArtifact(file) == [content |-> file.content, diagnostics |-> file.diagnostics]
IntoFileRecord(unit, from) ==
    [content |-> unit.content, from |-> from, diagnostics |-> unit.diagnostics]

\* Mutant: the cache is shared by all configurations.
CacheIdForAnyConfig(u, p, content) == <<CHOOSE d \in Digest : TRUE, p, content>>
CacheId(u, p, content) == <<ParserConfigDigest(u), p, content>>
BuildId(s, u) == <<s, ParserConfigDigest(u)>>
CacheIds == Digest \X Path \X Content
BuildIds == SnapshotId \X Digest

\* SnapshotAssembler::diff; see Snapshots.
Changed(s, t) == {p \in Path : ContentAt(s, p) # ContentAt(t, p)}

-----------------------------------------------------------------------------
(* What is stored, and what is answered                                    *)

Diagnostics == {CollectDiagnostics(Errors[c], u.limit) : c \in Content, u \in Setups}
FileRecord == [content : Content, from : {"base", "overlay"}, diagnostics : Diagnostics]
CachedUnit == [content : Content, diagnostics : Diagnostics]
Files == UNION {[paths -> FileRecord] : paths \in SUBSET Path}
Mode == {"loaded", "full_rebuild", "incremental"}
Reason == {"no_prior_snapshot", "schema_version_changed", "incompatible_config_change",
           "cache_or_index_corruption", "unresolved_consistency_issue"}
IndexRecord == [digest : Digest, schema : Nat, count : 0..Paths, mode : Mode]

ASSUME NoneAssumption ==
    /\ None # Damaged
    /\ None \notin Content \union SnapshotFile \union SnapshotId \union Mode \union Reason
    /\ None \notin IndexRecord
    /\ {None, Damaged} \intersect (Files \union FileRecord \union CachedUnit) = {}

NoRequest == [op |-> None, snapshot |-> None, force |-> FALSE, path |-> None]
NoFiles == [p \in {} |-> None]
NoAnswer == [op |-> None, snapshot |-> None, mode |-> None, reason |-> None, files |-> NoFiles,
             facts |-> None]

TypeOK ==
    /\ setup \in Setups
    /\ manifests \subseteq SnapshotId /\ unreadable \subseteq manifests
    /\ DOMAIN cache = CacheIds /\ DOMAIN builds = BuildIds
    /\ DOMAIN facts = SnapshotId /\ DOMAIN indexed = SnapshotId
    /\ \A i \in CacheIds : cache[i] \in CachedUnit \/ cache[i] \in {None, Damaged}
    /\ \A i \in BuildIds : builds[i] \in Files \/ builds[i] \in {None, Damaged}
    /\ \A s \in SnapshotId :
          /\ facts[s] \in Files \/ facts[s] \in {None, Damaged}
          /\ indexed[s] \in IndexRecord \/ indexed[s] = None
          /\ indexed[s] # None => facts[s] # None
    /\ pc \in {"idle", "parse", "parsing", "load", "refresh", "record", "answered"}
    /\ (pc = "idle") = (request = NoRequest)
    /\ toParse \subseteq Path /\ parsed \in Files /\ answer.files \in Files
    /\ answer.mode \in Mode \union {"failed", None}
    /\ halfIndexed \in BOOLEAN
    /\ requests \in 0..MaxRequests /\ faults \in 0..MaxFaults

Init ==
    /\ setup \in Setups
    /\ manifests = {} /\ unreadable = {}
    /\ cache = [i \in CacheIds |-> None]
    /\ builds = [i \in BuildIds |-> None]
    /\ facts = [s \in SnapshotId |-> None]
    /\ indexed = [s \in SnapshotId |-> None]
    /\ request = NoRequest /\ pc = "idle"
    /\ toParse = {} /\ parsed = NoFiles
    /\ answer = NoAnswer /\ halfIndexed = FALSE
    /\ requests = 0 /\ faults = 0

Idle == pc = "idle"

Answers(mode, reason, files) ==
    /\ answer' = [op |-> request.op, snapshot |-> request.snapshot,
                  mode |-> mode, reason |-> reason, files |-> files, facts |-> None]
    /\ pc' = "answered"

-----------------------------------------------------------------------------
(* Snapshots, configurations and faults                                    *)

\* snapshots_create persists the manifest.
CreateSnapshot(s) ==
    /\ Idle /\ s \notin manifests
    /\ manifests' = manifests \union {s}
    /\ UNCHANGED <<setup, unreadable, diskVars, request, pc, toParse, parsed, answer,
                   halfIndexed, countVars>>

Fault == faults < MaxFaults /\ faults' = faults + 1

\* The manifest file is lost or cannot be read; its row is still listed.
LoseManifest(s) ==
    /\ Idle /\ s \in manifests \ unreadable /\ Fault
    /\ unreadable' = unreadable \union {s}
    /\ UNCHANGED <<setup, manifests, diskVars, request, pc, toParse, parsed, answer,
                   halfIndexed, requests>>

\* The daemon starts again, with this configuration and version.
Restart(u) ==
    /\ Idle /\ u # setup
    /\ setup' = u
    /\ UNCHANGED <<manifests, unreadable, diskVars, request, pc, toParse, parsed, answer,
                   halfIndexed, countVars>>

Damage ==
    /\ Idle /\ Fault
    /\ \/ \E i \in CacheIds : /\ cache[i] \notin {None, Damaged}
                              /\ cache' = [cache EXCEPT ![i] = Damaged]
                              /\ UNCHANGED <<builds, facts>>
       \/ \E i \in BuildIds : /\ builds[i] \notin {None, Damaged}
                              /\ builds' = [builds EXCEPT ![i] = Damaged]
                              /\ UNCHANGED <<cache, facts>>
       \/ \E s \in SnapshotId : /\ facts[s] \notin {None, Damaged}
                                /\ facts' = [facts EXCEPT ![s] = Damaged]
                                /\ UNCHANGED <<cache, builds>>
    /\ UNCHANGED <<envVars, indexed, request, pc, toParse, parsed, answer, halfIndexed,
                   requests>>

-----------------------------------------------------------------------------
(* The database of the index                                               *)

\* load_indexed_snapshot_state
IsIndexed(s) == indexed[s] # None

\* load_snapshot_facts: a snapshot without rows has no files.
LoadSnapshotFacts(s) == IF facts[s] = None THEN NoFiles ELSE facts[s]

\* delete_snapshot_rows: what is left of a snapshot.
DeleteSnapshotRows(s) == NoFiles

\* insert_snapshot_files: no two rows have one key.
Insertable(rows, files) ==
    /\ DOMAIN rows \intersect DOMAIN files = {}
    /\ \A p \in DOMAIN files : files[p].content \notin Duplicated
InsertSnapshotFiles(rows, files) ==
    [p \in DOMAIN rows \union DOMAIN files |-> IF p \in DOMAIN rows THEN rows[p] ELSE files[p]]

-----------------------------------------------------------------------------
(* Requests                                                                *)

\* A request begins with ensure_parse_build, or with load_symbol_graph.
RequestFor(op, s, force, path, first) ==
    /\ Idle /\ s \in manifests \ unreadable
    /\ requests < MaxRequests /\ requests' = requests + 1
    /\ request' = [op |-> op, snapshot |-> s, force |-> force, path |-> path]
    /\ pc' = first
    /\ UNCHANGED <<envVars, diskVars, toParse, parsed, answer, halfIndexed, faults>>
Request(op, s, force, first) == RequestFor(op, s, force, None, first)

ParseBuild(s, force) == Request("parse_build", s, force, "parse")
ParseStatus(s) == Request("parse_status", s, FALSE, "parse")
ParseInspectFile(s, p) == RequestFor("parse_inspect", s, FALSE, p, "parse")
\* hyperctl symbol rebuild is a forced build, of the daemon or without it.
SymbolIndexBuild(s, force) == Request("symbol_build", s, force, "parse")
SymbolIndexStatus(s) == Request("symbol_status", s, FALSE, "load")

\* search, show, definitions, references and resolve; what they make of the
\* facts is the matter of SymbolSearch.
Query(s) == Request("query", s, FALSE, "parse")

\* The answer has been written.
Finish ==
    /\ pc = "answered"
    /\ request' = NoRequest /\ pc' = "idle" /\ answer' = NoAnswer
    /\ UNCHANGED <<envVars, diskVars, toParse, parsed, halfIndexed, countVars>>

\* force of a symbol_index_build does not reach the parse build.
ForcedParse == request.op = "parse_build" /\ request.force

\* inspect_file, of the files of the build
InspectFile(files) == [p \in DOMAIN files \intersect {request.path} |-> files[p]]

\* extract_file_facts, which parses the file once more
ExtractFileFacts(s, p) ==
    LET file == ParseFileFromSnapshot(s, p, setup) IN
    IF file = None THEN None ELSE file.content

\* parse_inspect_file, when there is a build
Inspected(mode, files) ==
    /\ pc' = "answered"
    /\ answer' =
          [op |-> request.op, snapshot |-> request.snapshot,
           mode |-> IF request.path \in DOMAIN files THEN mode ELSE "failed", reason |-> None,
           files |-> InspectFile(files),
           facts |-> IF request.path \in DOMAIN files
                     THEN ExtractFileFacts(request.snapshot, request.path) ELSE None]

\* Where a request goes on with the files of the parse build.
ParseBuilt(mode, files) ==
    \/ /\ request.op \in {"parse_build", "parse_status"}
       /\ Answers(mode, None, files)
    \/ /\ request.op = "parse_inspect"
       /\ Inspected(mode, files)
    \/ /\ request.op = "symbol_status"
       /\ Answers("loaded", None, LoadSnapshotFacts(request.snapshot))
    \/ /\ request.op \in {"symbol_build", "query"}
       /\ pc' = "load" /\ UNCHANGED answer

\* persist_cached_unit, under the name of the content and of the configuration
PersistCachedUnit(id, file) == cache' = [cache EXCEPT ![id] = FromArtifact(file)]

\* load_build_status: what cannot be read is removed.
LoadBuildStatus ==
    LET id == BuildId(request.snapshot, setup) IN
    /\ pc = "parse" /\ ~ForcedParse
    /\ \/ /\ builds[id] \notin {None, Damaged}
          /\ ParseBuilt("loaded", builds[id])
          /\ UNCHANGED <<builds, toParse, parsed>>
       \/ /\ builds[id] \in {None, Damaged}
          /\ builds' = [builds EXCEPT ![id] = None]
          /\ IF request.op = "parse_status"
             THEN /\ Answers(None, None, NoFiles)
                  /\ UNCHANGED <<toParse, parsed>>
             ELSE /\ pc' = "parsing" /\ UNCHANGED answer
                  /\ toParse' = Eligible(request.snapshot, setup) /\ parsed' = NoFiles
    /\ UNCHANGED <<envVars, cache, facts, indexed, request, halfIndexed, countVars>>

ForceParse ==
    /\ pc = "parse" /\ ForcedParse
    /\ pc' = "parsing"
    /\ toParse' = Eligible(request.snapshot, setup) /\ parsed' = NoFiles
    /\ UNCHANGED <<envVars, diskVars, request, answer, halfIndexed, countVars>>

\* The file that build_snapshot takes next, and its cache entry.
NextPath == CHOOSE p \in toParse : \A q \in toParse : p <= q
NextFile == Snapshots[request.snapshot][NextPath]
NextCacheId == CacheId(setup, NextPath, NextFile.content)
NextCached == ~ForcedParse /\ cache[NextCacheId] \notin {None, Damaged}
ParsedWith(file) ==
    [p \in DOMAIN parsed \union {NextPath} |-> IF p = NextPath THEN file ELSE parsed[p]]

ParseFile ==
    /\ pc = "parsing" /\ toParse # {}
    /\ toParse' = toParse \ {NextPath}
    /\ IF NextCached
       THEN /\ parsed' = ParsedWith(IntoFileRecord(cache[NextCacheId], NextFile.from))
            /\ UNCHANGED cache
       ELSE LET file == ParseContents(NextFile, setup) IN
            /\ parsed' = ParsedWith(file)
            /\ PersistCachedUnit(NextCacheId, file)
    /\ UNCHANGED <<envVars, builds, facts, indexed, request, pc, answer, halfIndexed, countVars>>

PersistBuildStatus ==
    /\ pc = "parsing" /\ toParse = {}
    /\ builds' = [builds EXCEPT ![BuildId(request.snapshot, setup)] = parsed]
    /\ ParseBuilt("full_rebuild", parsed)
    /\ parsed' = NoFiles
    /\ UNCHANGED <<envVars, cache, facts, indexed, request, toParse, halfIndexed, countVars>>

-----------------------------------------------------------------------------
(* The symbol index                                                        *)

\* load_symbol_graph looks at the schema version, not at the digest.
Loadable(s) ==
    /\ IsIndexed(s) /\ indexed[s].schema = setup.schema
    /\ LoadSnapshotFacts(s) # Damaged

\* load_symbol_graph ends with ensure_parse_build, which symbol_index_status
\* has yet to do and which finds what it left in the other operations.
LoadSymbolGraph ==
    /\ pc = "load"
    /\ LET loads == Loadable(request.snapshot) /\ ~request.force IN
       IF request.op = "symbol_status"
       THEN IF loads THEN pc' = "parse" /\ UNCHANGED answer
                     ELSE Answers(None, None, NoFiles)
       ELSE IF loads THEN Answers("loaded", None, LoadSnapshotFacts(request.snapshot))
                     ELSE pc' = "refresh" /\ UNCHANGED answer
    /\ UNCHANGED <<envVars, diskVars, request, toParse, parsed, halfIndexed, countVars>>

\* previous_indexed_snapshot: manifests come in the order of the second they
\* were made in, any of the 32 latest may be the first that is indexed.
PreviousIndexed(s) ==
    LET candidates == {t \in manifests \ (unreadable \union {s}) : IsIndexed(t)} IN
    IF candidates = {} THEN {None} ELSE candidates

\* The snapshot that ensure_symbol_graph refreshes from.
PreviousFor(s) == IF request.force THEN {None} ELSE PreviousIndexed(s)

Contents(files) == [p \in DOMAIN files |-> files[p].content]
SnapshotContents(s, u) == [p \in Eligible(s, u) |-> Snapshots[s][p].content]

\* Mutant: plan_refresh does not compare configurations and versions.
FallbackReasonForAnyConfig(previous) ==
    IF previous = None THEN "no_prior_snapshot"
    ELSE IF LoadSnapshotFacts(previous) = Damaged THEN "cache_or_index_corruption"
    ELSE IF Contents(LoadSnapshotFacts(previous)) # SnapshotContents(previous, setup)
    THEN "unresolved_consistency_issue"
    ELSE None

\* plan_refresh: why the index is built from nothing, None if it is not.
FallbackReason(previous) ==
    IF previous = None THEN "no_prior_snapshot"
    ELSE IF indexed[previous].schema # setup.schema THEN "schema_version_changed"
    ELSE IF indexed[previous].digest # IndexConfigDigest(setup) THEN "incompatible_config_change"
    ELSE IF LoadSnapshotFacts(previous) = Damaged THEN "cache_or_index_corruption"
    ELSE IF \/ Contents(LoadSnapshotFacts(previous)) # SnapshotContents(previous, setup)
            \/ indexed[previous].count # Cardinality(DOMAIN LoadSnapshotFacts(previous))
    THEN "unresolved_consistency_issue"
    ELSE None

\* run_full_rebuild
Rebuilt(s, u) == [p \in Eligible(s, u) |-> ParseContents(Snapshots[s][p], u)]

\* run_incremental: the loop over the files of the catalog.  A reused file
\* keeps its artifact, with where the file was found then.
Reusable(previous, s, p) ==
    /\ p \in DOMAIN LoadSnapshotFacts(previous)
    /\ LoadSnapshotFacts(previous)[p].content = Snapshots[s][p].content
Reuses(previous, s) ==
    \A p \in Eligible(s, setup) \ Changed(previous, s) : Reusable(previous, s, p)
\* Mutant: every file that has facts is reused.
RefreshedByPath(previous, s) ==
    [p \in Eligible(s, setup) |->
        IF p \notin DOMAIN LoadSnapshotFacts(previous) THEN ParseContents(Snapshots[s][p], setup)
        ELSE LoadSnapshotFacts(previous)[p]]
Refreshed(previous, s) ==
    [p \in Eligible(s, setup) |->
        IF p \in Changed(previous, s) THEN ParseContents(Snapshots[s][p], setup)
        ELSE LoadSnapshotFacts(previous)[p]]

\* The facts of a refresh, how they are made, and why.
Refresh(previous, s) ==
    LET reason == FallbackReason(previous) IN
    IF reason = None /\ Reuses(previous, s)
    THEN [mode |-> "incremental", reason |-> None, files |-> Refreshed(previous, s)]
    ELSE [mode |-> "full_rebuild",
          reason |-> IF reason = None THEN "unresolved_consistency_issue" ELSE reason,
          files |-> Rebuilt(s, setup)]

\* persist_facts, one transaction
PersistFacts ==
    /\ pc = "refresh"
    /\ \E previous \in PreviousFor(request.snapshot) :
          LET next == Refresh(previous, request.snapshot)
              rows == DeleteSnapshotRows(request.snapshot) IN
          IF Insertable(rows, next.files)
          THEN /\ facts' = [facts EXCEPT ![request.snapshot] =
                               InsertSnapshotFiles(rows, next.files)]
               /\ answer' = [op |-> request.op, snapshot |-> request.snapshot, mode |-> next.mode,
                             reason |-> next.reason, files |-> next.files, facts |-> None]
               /\ pc' = "record"
          ELSE Answers("failed", None, NoFiles) /\ UNCHANGED facts
    /\ UNCHANGED <<envVars, cache, builds, indexed, request, toParse, parsed, halfIndexed,
                   countVars>>

\* The record that run_full_rebuild and run_incremental make.
\* Mutant: the record of the index that was there is kept.
IndexedStateKept(files, mode) ==
    IF IsIndexed(request.snapshot) THEN indexed[request.snapshot]
    ELSE [digest |-> IndexConfigDigest(setup), schema |-> setup.schema,
          count |-> Cardinality(DOMAIN files), mode |-> mode]
IndexedState(files, mode) ==
    [digest |-> IndexConfigDigest(setup), schema |-> setup.schema,
     count |-> Cardinality(DOMAIN files), mode |-> mode]

RecordIndexedSnapshotState ==
    /\ pc = "record"
    /\ indexed' = [indexed EXCEPT ![request.snapshot] = IndexedState(answer.files, answer.mode)]
    /\ pc' = "answered"
    /\ UNCHANGED <<envVars, cache, builds, facts, request, toParse, parsed, answer,
                   halfIndexed, countVars>>

\* hyperd is stopped: a file it is writing may be left half written.
Stop ==
    /\ pc \notin {"idle", "answered"} /\ Fault
    /\ request' = NoRequest /\ pc' = "idle" /\ answer' = NoAnswer
    /\ toParse' = {} /\ parsed' = NoFiles
    /\ halfIndexed' = (halfIndexed \/ (pc = "record" /\ indexed[request.snapshot] # None))
    /\ \/ UNCHANGED <<cache, builds>>
       \/ /\ pc = "parsing" /\ toParse # {} /\ ~NextCached
          /\ cache' = [cache EXCEPT ![NextCacheId] = Damaged]
          /\ UNCHANGED builds
       \/ /\ pc = "parsing" /\ toParse = {}
          /\ builds' = [builds EXCEPT ![BuildId(request.snapshot, setup)] = Damaged]
          /\ UNCHANGED cache
    /\ UNCHANGED <<envVars, facts, indexed, requests>>

-----------------------------------------------------------------------------
(* hyperctl symbol doctor                                                  *)

\* What it finds in the facts of a file: the content, or that it is not parsed.
FileIssues(s, files) ==
    {p \in DOMAIN files : \/ p \notin Eligible(s, setup)
                          \/ files[p].content # ContentAt(s, p)}

\* Numbers of files: what was recorded, the rows, and the facts that load.
CountIssues(s, files) ==
    {n \in {indexed[s].count, Cardinality(DOMAIN files)} : n # Cardinality(Eligible(s, setup))}

\* inspect_local_symbol_state finds no issue with the index of a snapshot, where
\* the database opens and the repository's last manifest is there.
Healthy(s) ==
    /\ IsIndexed(s)
    /\ indexed[s].schema = setup.schema
    /\ LoadSnapshotFacts(s) # Damaged
    /\ CountIssues(s, LoadSnapshotFacts(s)) = {}
    /\ FileIssues(s, LoadSnapshotFacts(s)) = {}

-----------------------------------------------------------------------------
(* Properties                                                              *)

\* The files of an answer are what parsing them under the configuration of now
\* gives, whatever came from the cache or from a build on disk, which
\* parse_manager.rs trusts for their names, and a build has all of the snapshot's.
ParseIsFresh ==
    LET fresh == Rebuilt(answer.snapshot, setup) IN
    pc = "answered" /\ answer.mode \notin {"failed", None} =>
        /\ answer.op \in {"parse_build", "parse_status"} => answer.files = fresh
        /\ answer.op = "parse_inspect" =>
              \A p \in DOMAIN answer.files : /\ answer.files[p] = fresh[p]
                                             /\ answer.facts = fresh[p].content

\* The facts stored for a snapshot are those of the files it has, with the
\* contents it has, although most were copied from the facts of other snapshots
\* and those from others: run_incremental must not carry a file over an edit.
FactsMatchSnapshot ==
    \A s \in SnapshotId : facts[s] \notin {None, Damaged} =>
        /\ \A p \in DOMAIN facts[s] : facts[s][p].content = ContentAt(s, p)
        /\ \E u \in Setups : DOMAIN facts[s] = Eligible(s, u)

\* What an incremental refresh stores is what a full rebuild would store, but
\* for where a file was found; unless a stop has left facts of one configuration
\* under the record of another, which plan_refresh cannot see.
KeptAsRebuilt(files) ==
    [p \in DOMAIN files |-> <<files[p].content, files[p].diagnostics>>]
RefreshIsRebuild ==
    (pc = "answered" /\ answer.mode = "incremental" /\ ~halfIndexed)
        => KeptAsRebuilt(answer.files) = KeptAsRebuilt(Rebuilt(answer.snapshot, setup))

\* The doctor and the daemon judge the index by different rules.  What the doctor
\* advises, to rebuild, leaves it nothing to find, and what it finds healthy the
\* daemon answers from, with the files of now: which load_symbol_graph alone,
\* looking at the schema version only, does not see to.
DoctorIsRight ==
    /\ (pc = "answered" /\ answer.op = "symbol_build" /\ request.force
            /\ answer.mode # "failed")
           => Healthy(answer.snapshot)
    /\ (pc = "answered" /\ answer.op = "query" /\ Healthy(answer.snapshot))
           => DOMAIN answer.files = Eligible(answer.snapshot, setup)
    /\ (pc = "refresh" /\ ~request.force) => ~Healthy(request.snapshot)

-----------------------------------------------------------------------------

Next ==
    \/ \E s \in SnapshotId : CreateSnapshot(s) \/ LoseManifest(s)
    \/ \E u \in Setups : Restart(u)
    \/ Damage \/ Stop
    \/ \E s \in SnapshotId, force \in BOOLEAN : ParseBuild(s, force) \/ SymbolIndexBuild(s, force)
    \/ \E s \in SnapshotId : ParseStatus(s) \/ SymbolIndexStatus(s) \/ Query(s)
    \/ \E s \in SnapshotId, p \in Path : ParseInspectFile(s, p)
    \/ LoadBuildStatus \/ ForceParse \/ ParseFile \/ PersistBuildStatus
    \/ LoadSymbolGraph \/ PersistFacts \/ RecordIndexedSnapshotState
    \/ Finish

Spec == Init /\ [][Next]_vars
=============================================================================
