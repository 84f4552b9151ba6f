---------------------------- MODULE SemanticIndex ----------------------------
(***************************************************************************)
(* The semantic index of a repository: semantic_build, semantic_status and *)
(* semantic_query of the daemon (daemon/semantic.rs), the refresh from the *)
(* snapshot built before (semantic/incremental.rs), the chunks of files    *)
(* (chunker.rs), the embedding pipeline with its cache                     *)
(* (embedding_pipeline.rs), the database (semantic_store.rs) with its      *)
(* vector index (vector_index.rs), and the doctor of hyperctl              *)
(* (commands/semantic.rs).  SemanticSearch has the ranking of hits.        *)
(* A file is one chunk here; its text is its path, its content and the     *)
(* name of its package.  Requests are served one at a time; the daemon may *)
(* be stopped in a build, the embedding provider may fail, rows may be     *)
(* damaged, and hyperd may start again with another configuration.         *)
(***************************************************************************)
EXTENDS SemanticSearch, SequencesExt

CONSTANTS
    Path,         \* paths of source files
    Contents,     \* their contents
    Snapshots,    \* by snapshot id, its files and the name in its package.json
    Setups,       \* configurations of hyperd
    None,         \* no file, package, build or record
    Damaged,      \* a row that cannot be read
    Words,        \* by path, content and package name, the terms of its text
    Similarity,   \* by content, its score against the vector of a query
    Queries,      \* queries; see SemanticSearch
    MaxSearchLimit, \* of the daemon's configuration
    MaxRequests,  \* bound: requests
    MaxFaults     \* bound: stops, damages and lost manifests

SnapshotId == DOMAIN Snapshots
Packages == {Snapshots[s].package : s \in SnapshotId}
SemanticDigest == {u.digest : u \in Setups}

\* What a text is made of, and the rows of a build in the database.
Texts == [path : Path, content : Contents, package : Packages]
Vectors == SemanticDigest \X Texts
Rows(V) == UNION {[paths -> V \union {Damaged}] : paths \in SUBSET Path}
Builds == [digest : SemanticDigest, chunkCount : Nat, embeddingCount : Nat, vectorCount : Nat,
           chunks : Rows(Texts), vectors : Rows(Vectors)]

ASSUME BoundsAssumption == {MaxRequests, MaxFaults} \subseteq Nat /\ IsFiniteSet(Path)
ASSUME SnapshotsAssumption ==
    \A s \in SnapshotId : Snapshots[s].files \in [Path -> Contents \union {None}]
ASSUME SetupsAssumption == \A u \in Setups : u.excluded \subseteq Path
ASSUME WordsAssumption == \A x \in DOMAIN Words : Words[x] \subseteq Term
ASSUME QueriesAssumption == \A q \in Queries : IsQuery(q)
ASSUME NoneAssumption ==
    /\ None \notin Contents /\ None \notin SnapshotId /\ None \notin Builds
    /\ None \notin {"build", "status", "query", "inspect_chunk"}
    /\ Damaged \notin Texts /\ Damaged \notin Vectors /\ Damaged # None

VARIABLES
    setup,       \* configuration of the running daemon
    unreadable,  \* snapshots whose manifest file cannot be loaded
    facts,       \* by snapshot, the files of its symbol index; see SymbolIndex
    embeddings,  \* embedding_cache: by cache key, a vector
    builds,      \* by snapshot, its build with the rows of chunks and vectors
    request,     \* the request that is served
    pc,          \* where it is
    draft,       \* what the build has made so far
    answer,      \* what the request is answered
    requests, faults

envVars == <<setup, unreadable, facts>>
diskVars == <<embeddings, builds>>
countVars == <<requests, faults>>
vars == <<envVars, diskVars, request, pc, draft, answer, countVars>>

-----------------------------------------------------------------------------
(* Files, chunks and vectors                                               *)

FilesOf(s, paths) ==
    [p \in {q \in paths : Snapshots[s].files[q] # None} |-> Snapshots[s].files[p]]

\* The files the symbol index has, and those the scaffold builder parses: it
\* knows nothing of the rules by which files are left out.
IndexedFiles(s, u) == FilesOf(s, Path \ u.excluded)
ScaffoldFiles(s) == FilesOf(s, Path)

\* SnapshotAssembler::diff; see Snapshots.
Changed(s, t) == {p \in Path : Snapshots[s].files[p] # Snapshots[t].files[p]}

\* build_for_files: the chunk has the name of the package of its path.
Chunk(s, files, p) == [path |-> p, content |-> files[p], package |-> Snapshots[s].package]
ChunksFor(s, files, paths) == [p \in paths |-> Chunk(s, files, p)]

\* What the provider of a configuration makes of a text.
Embed(digest, text) == <<digest, text>>
QueryText == None

\* Mutant: the key does not tell the provider.
CacheKeyOfText(digest, text) == text
CacheKey(digest, text) == <<digest, text>>

Keys == {CacheKey(d, t) : d \in SemanticDigest, t \in Texts \union {QueryText}}

\* load_embeddings_with_connection: a corrupt row is deleted, and is a miss.
Cached(key) == embeddings[key] \notin {None, Damaged}

\* resolve_embeddings: cached vectors, and what the provider answers else,
\* which persist_embeddings stores.
Vector(text) ==
    LET key == CacheKey(setup.digest, text) IN
    IF Cached(key) THEN embeddings[key] ELSE Embed(setup.digest, text)
Misses(texts) == {t \in texts : ~Cached(CacheKey(setup.digest, t))}
KeysOf(texts) == {CacheKey(setup.digest, t) : t \in texts}
EmbeddingsWith(texts) ==
    [key \in Keys |->
        IF key \in KeysOf(texts)
        THEN Vector(CHOOSE t \in texts : key = CacheKey(setup.digest, t))
        ELSE embeddings[key]]
Cleaned(texts) ==
    [key \in Keys |-> IF key \in KeysOf(texts) /\ ~Cached(key) THEN None ELSE embeddings[key]]

Values(f) == {f[x] : x \in DOMAIN f}

-----------------------------------------------------------------------------

NoRequest == [op |-> None, snapshot |-> None, force |-> FALSE]
NoRows == [p \in {} |-> None]
NoDraft == [mode |-> None, files |-> NoRows, paths |-> {}, previous |-> None,
            chunks |-> NoRows, vectors |-> NoRows]
NoAnswer == [op |-> None, snapshot |-> None, result |-> None]

IsChunks(rows) ==
    \A p \in DOMAIN rows : rows[p] \in Texts \union {Damaged} /\ (rows[p] # Damaged => rows[p].path = p)

TypeOK ==
    /\ setup \in Setups /\ unreadable \subseteq SnapshotId
    /\ \A s \in SnapshotId :
          /\ facts[s] # None => \E u \in Setups : facts[s] = IndexedFiles(s, u)
          /\ builds[s] # None =>
                /\ builds[s].digest \in SemanticDigest
                /\ IsChunks(builds[s].chunks)
                /\ builds[s].chunkCount = Cardinality(DOMAIN builds[s].chunks)
    /\ DOMAIN embeddings = Keys
    /\ pc \in {"idle", "start", "plan", "embed", "reuse", "persist", "answered"}
    /\ (pc = "idle") = (request = NoRequest)
    /\ draft.paths \subseteq DOMAIN draft.files
    /\ IsChunks(draft.chunks) /\ DOMAIN draft.vectors \subseteq DOMAIN draft.chunks
    /\ requests \in 0..MaxRequests /\ faults \in 0..MaxFaults

Init ==
    /\ setup \in Setups /\ unreadable = {}
    /\ facts = [s \in SnapshotId |-> None]
    /\ embeddings = [key \in Keys |-> None]
    /\ builds = [s \in SnapshotId |-> None]
    /\ request = NoRequest /\ pc = "idle"
    /\ draft = NoDraft /\ answer = NoAnswer
    /\ requests = 0 /\ faults = 0

Idle == pc = "idle"
Fault == faults < MaxFaults /\ faults' = faults + 1

Answers(result) ==
    /\ answer' = [op |-> request.op, snapshot |-> request.snapshot, result |-> result]
    /\ pc' = "answered" /\ draft' = NoDraft

-----------------------------------------------------------------------------
(* Symbol indexes, configurations and faults                               *)

\* symbol_index_build of a snapshot that has no index, or with force.
SymbolIndexBuild(s) ==
    /\ Idle
    /\ facts' = [facts EXCEPT ![s] = IndexedFiles(s, setup)]
    /\ UNCHANGED <<setup, unreadable, diskVars, request, pc, draft, answer, countVars>>

Restart(u) ==
    /\ Idle /\ u # setup /\ setup' = u
    /\ UNCHANGED <<unreadable, facts, diskVars, request, pc, draft, answer, countVars>>

LoseManifest(s) ==
    /\ Idle /\ s \notin unreadable /\ Fault
    /\ unreadable' = unreadable \union {s}
    /\ UNCHANGED <<setup, facts, diskVars, request, pc, draft, answer, requests>>

\* A cached embedding, a chunk or its vector is damaged.
Damage ==
    /\ Idle /\ Fault
    /\ \/ \E key \in Keys : /\ Cached(key)
                            /\ embeddings' = [embeddings EXCEPT ![key] = Damaged]
                            /\ UNCHANGED builds
       \/ \E s \in SnapshotId :
             /\ builds[s] # None
             /\ \E p \in DOMAIN builds[s].vectors :
                   \/ builds' = [builds EXCEPT ![s].vectors[p] = Damaged]
                   \/ builds' = [builds EXCEPT ![s].chunks[p] = Damaged]
             /\ UNCHANGED embeddings
    /\ UNCHANGED <<envVars, request, pc, draft, answer, requests>>

-----------------------------------------------------------------------------
(* Status and queries                                                      *)

Request(op, s, force, first) ==
    /\ Idle
    /\ requests < MaxRequests /\ requests' = requests + 1
    /\ request' = [op |-> op, snapshot |-> s, force |-> force]
    /\ pc' = first
    /\ UNCHANGED <<envVars, diskVars, draft, answer, faults>>

SemanticBuild(s, force) == Request("build", s, force, "start")

\* list_chunks and load_chunk_vectors fail for a row that cannot be read.
ChunksList(b) == Damaged \notin Values(b.chunks)
VectorsLoad(b) == Damaged \notin Values(b.vectors)

\* from_persisted: as many vectors as the metadata of the index says.
FromPersisted(b) == Cardinality(DOMAIN b.vectors) = b.vectorCount

\* load_vector_index, of a build in the database.
IndexLoads(b) == VectorsLoad(b) /\ FromPersisted(b)

\* Mutant: the vectors are not loaded.
CompatibleByDigest(s) == builds[s] # None /\ builds[s].digest = setup.digest

\* load_compatible_existing_build
Compatible(s) ==
    /\ builds[s] # None
    /\ builds[s].digest = setup.digest
    /\ IndexLoads(builds[s])

\* The state that SemanticService::status answers.
StatusState(s, providerReady) ==
    IF builds[s] = None \/ ~providerReady THEN "not_ready"
    ELSE IF ~IndexLoads(builds[s]) THEN "not_ready"
    ELSE IF builds[s].digest # setup.digest THEN "stale"
    ELSE "ready"

SemanticStatus(s) ==
    /\ Idle /\ requests < MaxRequests /\ requests' = requests + 1
    /\ request' = [op |-> "status", snapshot |-> s, force |-> FALSE]
    /\ \E providerReady \in BOOLEAN :
          answer' = [op |-> "status", snapshot |-> s, result |-> StatusState(s, providerReady)]
    /\ pc' = "answered"
    /\ UNCHANGED <<envVars, diskVars, draft, faults>>

\* search scores each chunk by its vector.
Scores(b) == DOMAIN b.chunks \subseteq DOMAIN b.vectors

QueryResult(s) ==
    IF builds[s] = None THEN "not_ready"
    ELSE IF builds[s].digest # setup.digest THEN "stale"
    ELSE IF ~IndexLoads(builds[s]) THEN "unloadable"
    ELSE IF ~ChunksList(builds[s]) THEN "unreadable"
    ELSE IF ~Scores(builds[s]) THEN "unscored"
    ELSE "hits"

\* The metadata of a chunk that the search looks at.
Searchable(c) ==
    [path |-> c.path, packageName |-> c.package, packageRoot |-> NoValue, workspaceRoot |-> NoValue,
     language |-> NoValue, extension |-> NoValue, symbolKind |-> NoValue,
     textTerms |-> Words[c.path] \union Words[c.content] \union Words[c.package],
     pathTerms |-> Words[c.path], symbolTerms |-> {}, packageTerms |-> Words[c.package],
     chunkKind |-> "file_header", exported |-> FALSE, defaultExport |-> FALSE,
     similarity |-> Similarity[c.content]]

\* embed_queries
QueryEmbedded == EmbeddingsWith({QueryText})

\* The query's text is embedded once the index is loaded.
SemanticQuery(s) ==
    /\ Idle /\ requests < MaxRequests /\ requests' = requests + 1
    /\ request' = [op |-> "query", snapshot |-> s, force |-> FALSE]
    /\ pc' = "answered"
    /\ \/ /\ \E q \in Queries : ~IsAnswerable(q, MaxSearchLimit)
          /\ answer' = [op |-> "query", snapshot |-> s, result |-> "invalid_field"]
          /\ UNCHANGED embeddings
       \/ /\ \E q \in Queries : IsAnswerable(q, MaxSearchLimit)
          /\ answer' = [op |-> "query", snapshot |-> s, result |-> QueryResult(s)]
          /\ embeddings' = IF QueryResult(s) \in {"hits", "unscored"}
                           THEN QueryEmbedded ELSE embeddings
       \/ /\ QueryResult(s) \in {"hits", "unscored"} /\ Misses({QueryText}) # {}
          /\ answer' = [op |-> "query", snapshot |-> s, result |-> "provider_failed"]
          /\ embeddings' = Cleaned({QueryText})
    /\ UNCHANGED <<envVars, builds, draft, faults>>

\* load_chunk, of whatever build the snapshot has.
SemanticInspectChunk(s, p) ==
    /\ Idle /\ requests < MaxRequests /\ requests' = requests + 1
    /\ request' = [op |-> "inspect_chunk", snapshot |-> s, force |-> FALSE]
    /\ answer' = [op |-> "inspect_chunk", snapshot |-> s, result |->
           CASE builds[s] = None -> "not_ready"
             [] builds[s] # None /\ p \notin DOMAIN builds[s].chunks -> "not_found"
             [] OTHER -> IF builds[s].chunks[p] = Damaged THEN "unreadable" ELSE builds[s].chunks[p].content]
    /\ pc' = "answered"
    /\ UNCHANGED <<envVars, diskVars, draft, faults>>

Finish ==
    /\ pc = "answered"
    /\ request' = NoRequest /\ pc' = "idle" /\ answer' = NoAnswer
    /\ UNCHANGED <<envVars, diskVars, draft, countVars>>

-----------------------------------------------------------------------------
(* Builds                                                                  *)

LoadExisting ==
    /\ pc = "start"
    /\ IF Compatible(request.snapshot) /\ ~request.force
       THEN Answers("loaded")
       ELSE pc' = "plan" /\ UNCHANGED <<draft, answer>>
    /\ UNCHANGED <<envVars, diskVars, request, countVars>>

\* Every file is chunked, and its chunk embedded.
DraftFull(files) ==
    [NoDraft EXCEPT !.mode = "full_rebuild", !.files = files, !.paths = DOMAIN files]

\* Mutant: plan_refresh does not compare configurations.
RefreshesOnAnyConfig(previous) ==
    previous # None /\ IndexLoads(builds[previous]) /\ ChunksList(builds[previous])

\* plan_refresh: whether the build before is one to refresh.
Refreshes(previous) ==
    /\ previous # None
    /\ builds[previous].digest = setup.digest
    /\ IndexLoads(builds[previous]) /\ ChunksList(builds[previous])
    /\ builds[previous].chunkCount = Cardinality(DOMAIN builds[previous].chunks)
    /\ builds[previous].embeddingCount = Cardinality(DOMAIN builds[previous].vectors)

\* run_incremental begins with the files that changed.
DraftIncremental(previous, s) ==
    [NoDraft EXCEPT !.mode = "incremental", !.files = facts[s], !.previous = previous,
                    !.paths = Changed(previous, s) \intersect DOMAIN facts[s]]

\* run_full_rebuild, from the symbol index.
DraftRebuild(s) == DraftFull(facts[s])

DraftFor(previous, s) ==
    IF facts[s] = None THEN DraftFull(ScaffoldFiles(s))
    ELSE IF ~request.force /\ Refreshes(previous) THEN DraftIncremental(previous, s)
    ELSE DraftRebuild(s)

\* load_previous_semantic_snapshot: manifests come in the order of the second
\* they were made in; one that cannot be loaded is an error.
PreviousBuilt(s) ==
    LET candidates == {t \in SnapshotId \ {s} : builds[t] # None} IN
    IF candidates = {} THEN {None} ELSE candidates
PreviousFor(s) == IF request.force \/ facts[s] = None THEN {None} ELSE PreviousBuilt(s)

PlanBuild ==
    /\ pc = "plan"
    /\ \E previous \in PreviousFor(request.snapshot) :
          IF previous \in unreadable THEN Answers("failed")
          ELSE /\ draft' = DraftFor(previous, request.snapshot)
               /\ pc' = "embed" /\ UNCHANGED answer
    /\ UNCHANGED <<envVars, diskVars, request, countVars>>

\* finish_build, and run_incremental for the files that changed.
DraftEmbedded(chunks) ==
    [draft EXCEPT !.chunks = chunks, !.vectors = [p \in DOMAIN chunks |-> Vector(chunks[p])]]

\* embed_chunk_documents: the provider is asked for what the cache has not,
\* and its vectors are stored in one transaction when it has answered all.
EmbedChunks ==
    /\ pc = "embed"
    /\ LET chunks == ChunksFor(request.snapshot, draft.files, draft.paths) IN
       \/ /\ embeddings' = EmbeddingsWith(Values(chunks))
          /\ draft' = DraftEmbedded(chunks)
          /\ pc' = IF draft.mode = "incremental" THEN "reuse" ELSE "persist"
          /\ UNCHANGED answer
       \/ /\ Misses(Values(chunks)) # {}
          /\ Answers("failed")
          /\ embeddings' = Cleaned(Values(chunks))
    /\ UNCHANGED <<envVars, builds, request, countVars>>

\* run_incremental goes on with the files that did not change: their rows are
\* those of the build before, or there is a full rebuild after all.
ReusablePath(previous, p) ==
    /\ p \in DOMAIN builds[previous].chunks
    /\ builds[previous].chunks[p].content = draft.files[p]
    /\ p \in DOMAIN builds[previous].vectors

ReuseChunks ==
    LET before == builds[draft.previous]
        All(own, reused) == [p \in DOMAIN draft.files |-> IF p \in draft.paths THEN own[p] ELSE reused[p]] IN
    /\ pc = "reuse"
    /\ IF \A p \in DOMAIN draft.files \ draft.paths : ReusablePath(draft.previous, p)
       THEN /\ draft' = [draft EXCEPT !.chunks = All(@, before.chunks), !.vectors = All(@, before.vectors)]
            /\ pc' = "persist"
       ELSE draft' = DraftFull(draft.files) /\ pc' = "embed"
    /\ UNCHANGED <<envVars, diskVars, request, answer, countVars>>

\* The rows of a build: persist_build_row with the counts of chunks and of
\* embeddings, the chunks, and persist_vector_index_rows.
BuildRows ==
    [digest |-> setup.digest,
     chunkCount |-> Cardinality(DOMAIN draft.chunks), embeddingCount |-> Cardinality(DOMAIN draft.vectors),
     chunks |-> draft.chunks,
     vectors |-> draft.vectors, vectorCount |-> Cardinality(DOMAIN draft.vectors)]

\* persist_build_with_chunks_and_vectors; persist_build then adds a profile.
PersistBuild ==
    /\ pc = "persist"
    /\ builds' = [builds EXCEPT ![request.snapshot] = BuildRows]
    /\ answer' = [op |-> "build", snapshot |-> request.snapshot, result |-> draft.mode]
    /\ pc' = "answered" /\ draft' = NoDraft
    /\ UNCHANGED <<envVars, embeddings, request, countVars>>

\* hyperd is stopped in a build.
Stop ==
    /\ pc \notin {"idle", "answered"} /\ Fault
    /\ request' = NoRequest /\ pc' = "idle" /\ draft' = NoDraft
    /\ UNCHANGED <<envVars, diskVars, answer, requests>>

-----------------------------------------------------------------------------
(* hyperctl semantic doctor: inspect_local_semantic_state                  *)

Stale(s) == builds[s] # None /\ builds[s].digest # setup.digest
WarmLoads(s) == builds[s] # None /\ IndexLoads(builds[s])

Issues(s, providerAvailable) ==
    {code \in {"semantic_build_missing", "semantic_build_stale", "vector_index_unloadable",
               "embedding_provider_unavailable", "symbol_index_missing"} :
        CASE code = "semantic_build_missing" -> builds[s] = None
          [] code = "semantic_build_stale" -> Stale(s)
          [] code = "vector_index_unloadable" -> builds[s] # None /\ ~WarmLoads(s)
          [] code = "embedding_provider_unavailable" -> ~providerAvailable
          [] code = "symbol_index_missing" -> facts[s] = None}

\* query_ready
QueryReady(s, providerAvailable) ==
    builds[s] # None /\ ~Stale(s) /\ WarmLoads(s) /\ providerAvailable

-----------------------------------------------------------------------------
(* Properties                                                              *)

\* What the database has of a build is of one piece, whatever build it was
\* refreshed from and whatever the cache had: each chunk has the content of
\* its snapshot, and its vector is what the provider of the build's
\* configuration makes of that chunk's text.
BuildIsWhole ==
    \A s \in SnapshotId : builds[s] # None =>
        LET b == builds[s] IN
        /\ DOMAIN b.vectors = DOMAIN b.chunks
        /\ \A p \in DOMAIN b.chunks : b.chunks[p] # Damaged =>
              /\ b.chunks[p].content = Snapshots[s].files[p]
              /\ b.vectors[p] \in {Embed(b.digest, b.chunks[p]), Damaged}

\* A refresh stores what a full rebuild would have stored, except for the
\* names of packages: the chunks of the files the symbol index has, under the
\* configuration that is running.
RefreshIsRebuild ==
    answer.op = "build" /\ answer.result = "incremental" =>
        LET s == answer.snapshot IN
        /\ builds[s].digest = setup.digest
        /\ DOMAIN builds[s].chunks = DOMAIN facts[s]
        /\ \A p \in DOMAIN facts[s] : builds[s].vectors[p][1] = setup.digest

\* A build that succeeds, a status that says ready and a doctor that finds
\* nothing wrong with a build mean what they say, and doctor and status agree:
\* a query that follows finds the index, and a vector for each of its chunks.
\* Only a damaged row of a chunk is seen by none but the query.
Queryable(s) ==
    /\ QueryResult(s) \in {"hits", "unreadable"}
    /\ Issues(s, TRUE) \subseteq {"symbol_index_missing"}
ReadyIsQueryable ==
    /\ \/ answer.op = "build" /\ answer.result \in {"loaded", "full_rebuild", "incremental"}
       \/ answer.op = "status" /\ answer.result = "ready"
       => Queryable(answer.snapshot)
    /\ \A s \in SnapshotId, provider \in BOOLEAN :
          /\ QueryReady(s, provider) => Queryable(s)
          /\ QueryReady(s, provider) = (StatusState(s, provider) = "ready")

\* The filters of a query narrow what is searched and not what was found: its
\* answers are those of the same query on an index that has nothing else, so
\* that a better chunk elsewhere takes no place in them.
Unfiltered(q) == [q EXCEPT !.filters = [facet \in Facet |-> NoFilter]]
FilterIsRestriction ==
    answer.op = "query" /\ answer.result = "hits" =>
        LET all == {Searchable(c) : c \in Values(builds[answer.snapshot].chunks)} IN
        \A q \in Queries :
            LET passing == {c \in all : MatchesFilters(c, q.filters)} IN
            /\ BestHits(all, q) = BestHits(passing, Unfiltered(q))
            /\ Notice(all, q) = "semantic_query_no_candidates" <=> passing = {}

Next ==
    \/ \E s \in SnapshotId : \/ SymbolIndexBuild(s) \/ LoseManifest(s)
                            \/ SemanticStatus(s) \/ SemanticQuery(s)
                            \/ \E p \in Path : SemanticInspectChunk(s, p)
    \/ \E s \in SnapshotId, force \in BOOLEAN : SemanticBuild(s, force)
    \/ \E u \in Setups : Restart(u)
    \/ Damage \/ Finish \/ Stop
    \/ LoadExisting \/ PlanBuild \/ EmbedChunks \/ ReuseChunks \/ PersistBuild

Spec == Init /\ [][Next]_vars
=============================================================================
