------------------------- MODULE SemanticIndexProofs -------------------------
(***************************************************************************)
(* Proofs about SemanticIndex: whatever is built, refreshed and damaged in *)
(* any order and number, for any snapshots, configurations and queries.    *)
(***************************************************************************)
EXTENDS SemanticIndex, FiniteSetTheorems, TLAPS

-----------------------------------------------------------------------------
(* Chunks, vectors and the cache                                           *)

\* The rows of a build: of the snapshot's contents, each with its vector.
Whole(s, digest, chunks, vectors) ==
    /\ DOMAIN chunks = DOMAIN vectors
    /\ \A p \in DOMAIN chunks : chunks[p] # Damaged =>
          /\ chunks[p].path = p
          /\ chunks[p].content = Snapshots[s].files[p]
          /\ vectors[p] \in {Embed(digest, chunks[p]), Damaged}

\* What a build has made of some files: nothing of it is damaged.
Made(s, digest, chunks, vectors, paths) ==
    /\ paths \subseteq Path
    /\ DOMAIN chunks = paths /\ DOMAIN vectors = paths
    /\ chunks = [p \in paths |-> chunks[p]] /\ vectors = [p \in paths |-> vectors[p]]
    /\ \A p \in paths :
          /\ chunks[p] \in Texts
          /\ chunks[p].path = p
          /\ chunks[p].content = Snapshots[s].files[p]
          /\ vectors[p] = Embed(digest, chunks[p])

\* The cache holds the vectors that its keys are of.
CacheInv ==
    /\ DOMAIN embeddings = Keys
    /\ \A key \in Keys : embeddings[key] \in {key, None, Damaged}

LEMMA MadeIsWhole ==
  ASSUME NEW s \in SnapshotId, NEW digest \in SemanticDigest, NEW chunks, NEW vectors, NEW paths,
         Made(s, digest, chunks, vectors, paths)
  PROVE  /\ Whole(s, digest, chunks, vectors)
         /\ chunks \in Rows(Texts) /\ vectors \in Rows(Vectors)
         /\ Damaged \notin Values(chunks) /\ Damaged \notin Values(vectors)
<1>1. Whole(s, digest, chunks, vectors)
  BY DEF Made, Whole
<1>2. \A p \in paths : vectors[p] \in Vectors
  BY DEF Made, Embed, Vectors
<1>3. chunks \in [paths -> Texts \union {Damaged}] /\ vectors \in [paths -> Vectors \union {Damaged}]
  BY <1>2 DEF Made
<1>4. chunks \in Rows(Texts) /\ vectors \in Rows(Vectors)
  BY <1>3 DEF Made, Rows
<1>5. Damaged \notin Values(chunks) /\ Damaged \notin Values(vectors)
  BY <1>2, NoneAssumption DEF Made, Values
<1> QED BY <1>1, <1>4, <1>5

LEMMA VectorNamesProvider == \A digest, text : Embed(digest, text)[1] = digest
BY DEF Embed

LEMMA CachedIsTheVector ==
  ASSUME CacheInv, setup \in Setups, NEW text \in Texts \union {QueryText}
  PROVE  /\ CacheKey(setup.digest, text) \in Keys
         /\ Vector(text) = Embed(setup.digest, text)
<1>1. CacheKey(setup.digest, text) \in Keys
  BY DEF Keys, SemanticDigest
<1> QED BY <1>1 DEF CacheInv, Vector, Cached, CacheKey, Embed

LEMMA CacheStep ==
  ASSUME CacheInv, setup \in Setups, NEW texts \in SUBSET (Texts \union {QueryText}),
         embeddings' \in {EmbeddingsWith(texts), Cleaned(texts)}
  PROVE  CacheInv'
<1>1. CASE embeddings' = EmbeddingsWith(texts)
  <2>1. ASSUME NEW key \in Keys, key \in KeysOf(texts) PROVE embeddings'[key] = key
    <3>1. PICK v \in texts : key = CacheKey(setup.digest, v)
      BY <2>1 DEF KeysOf
    <3> DEFINE u == CHOOSE t \in texts : key = CacheKey(setup.digest, t)
    <3>2. u \in texts /\ key = CacheKey(setup.digest, u)
      BY <3>1
    <3>3. embeddings'[key] = Vector(u)
      BY <1>1, <2>1 DEF EmbeddingsWith
    <3> HIDE DEF u
    <3> QED BY <3>2, <3>3, CachedIsTheVector DEF Embed, CacheKey
  <2>2. DOMAIN embeddings' = Keys
    BY <1>1 DEF EmbeddingsWith
  <2>3. ASSUME NEW key \in Keys, key \notin KeysOf(texts) PROVE embeddings'[key] = embeddings[key]
    BY <1>1, <2>3 DEF EmbeddingsWith
  <2>4. Keys' = Keys
    BY DEF Keys
  <2> QED BY <2>1, <2>2, <2>3, <2>4 DEF CacheInv
<1>2. CASE embeddings' = Cleaned(texts)
  BY <1>2 DEF CacheInv, Cleaned
<1> QED BY <1>1, <1>2

\* The chunks of files of a snapshot, and their vectors.
LEMMA ChunksAreMade ==
  ASSUME CacheInv, setup \in Setups, NEW s \in SnapshotId, NEW all \in SUBSET Path,
         NEW paths \in SUBSET DOMAIN FilesOf(s, all), NEW chunks,
         chunks = ChunksFor(s, FilesOf(s, all), paths)
  PROVE  /\ Made(s, setup.digest, chunks, [p \in DOMAIN chunks |-> Vector(chunks[p])], paths)
         /\ Values(chunks) \subseteq Texts
<1>1. DOMAIN FilesOf(s, all) \subseteq Path
  BY DEF FilesOf
<1>2. ASSUME NEW p \in paths
      PROVE  /\ FilesOf(s, all)[p] = Snapshots[s].files[p]
             /\ Snapshots[s].files[p] \in Contents
  BY <1>1, SnapshotsAssumption DEF FilesOf
<1>3. Snapshots[s].package \in Packages
  BY DEF Packages
<1>4. DOMAIN chunks = paths /\ chunks = [p \in paths |-> chunks[p]]
  BY DEF ChunksFor
<1>5. ASSUME NEW p \in paths
      PROVE  /\ chunks[p] \in Texts /\ chunks[p].path = p
             /\ chunks[p].content = Snapshots[s].files[p]
  BY <1>1, <1>2, <1>3 DEF ChunksFor, Chunk, Texts
<1>6. \A p \in paths : Vector(chunks[p]) = Embed(setup.digest, chunks[p])
  BY <1>5, CachedIsTheVector
<1> QED BY <1>1, <1>4, <1>5, <1>6 DEF Made, Values

-----------------------------------------------------------------------------
(* The inductive invariant                                                 *)

\* Every row is of one piece, and counted.
BuildInv ==
    /\ DOMAIN builds = SnapshotId
    /\ \A s \in SnapshotId : builds[s] # None =>
          LET b == builds[s] IN
          /\ b \in Builds
          /\ Whole(s, b.digest, b.chunks, b.vectors)
          /\ b.chunkCount = Cardinality(DOMAIN b.chunks)
          /\ b.vectorCount = Cardinality(DOMAIN b.vectors)

EnvInv ==
    /\ setup \in Setups /\ unreadable \subseteq SnapshotId
    /\ DOMAIN facts = SnapshotId
    /\ \A s \in SnapshotId : facts[s] # None => \E u \in Setups : facts[s] = IndexedFiles(s, u)
    /\ requests \in 0..MaxRequests /\ faults \in 0..MaxFaults

Ops == {"build", "status", "query", "inspect_chunk"}
PcInv ==
    /\ pc \in {"idle", "start", "plan", "embed", "reuse", "persist", "answered"}
    /\ pc = "idle" => request = NoRequest
    /\ pc # "idle" => request \in [op : Ops, snapshot : SnapshotId, force : BOOLEAN]
    /\ pc # "answered" => answer = NoAnswer
    /\ pc \notin {"embed", "reuse", "persist"} => draft = NoDraft

\* Where a build is: of what files, from which build, and what it has made.
\* The build it refreshes from is still as it was when that was decided.
DraftInv ==
    pc \in {"embed", "reuse", "persist"} =>
        LET s == request.snapshot IN
        /\ draft = [mode |-> draft.mode, files |-> draft.files, paths |-> draft.paths,
                    previous |-> draft.previous, chunks |-> draft.chunks, vectors |-> draft.vectors]
        /\ draft.mode \in {"full_rebuild", "incremental"}
        /\ \E paths \in SUBSET Path : draft.files = FilesOf(s, paths)
        /\ draft.paths \subseteq DOMAIN draft.files
        /\ draft.mode = "full_rebuild" => draft.paths = DOMAIN draft.files
        /\ draft.mode = "incremental" =>
              /\ draft.files = facts[s]
              /\ draft.previous \in SnapshotId /\ builds[draft.previous] # None
              /\ builds[draft.previous].digest = setup.digest
              /\ Damaged \notin Values(builds[draft.previous].chunks)
              /\ Damaged \notin Values(builds[draft.previous].vectors)
        /\ pc = "embed" => draft.chunks = NoRows /\ draft.vectors = NoRows
        /\ pc = "reuse" => draft.mode = "incremental"
                           /\ Made(s, setup.digest, draft.chunks, draft.vectors, draft.paths)
        /\ pc = "persist" => Made(s, setup.digest, draft.chunks, draft.vectors, DOMAIN draft.files)

\* What an answer says of the build, as long as it is not written.
AnswerInv ==
    /\ RefreshIsRebuild
    /\ \/ answer.op = "build" /\ answer.result \in {"loaded", "full_rebuild", "incremental"}
       \/ answer.op = "status" /\ answer.result = "ready"
       => answer.snapshot \in SnapshotId /\ Queryable(answer.snapshot)

IInv == EnvInv /\ CacheInv /\ BuildInv /\ PcInv /\ DraftInv /\ AnswerInv

LEMMA NoAnswerInv == ASSUME answer' = NoAnswer PROVE AnswerInv'
BY NoneAssumption DEF NoAnswer, AnswerInv, RefreshIsRebuild

LEMMA FaultCounts == ASSUME faults \in 0..MaxFaults, Fault PROVE faults' \in 0..MaxFaults
BY BoundsAssumption DEF Fault

LEMMA InitInv == Init => IInv
<1> SUFFICES ASSUME Init PROVE IInv
  OBVIOUS
<1>1. EnvInv /\ BuildInv
  BY BoundsAssumption DEF Init, EnvInv, BuildInv
<1>2. CacheInv
  BY DEF Init, CacheInv
<1>3. PcInv /\ DraftInv
  BY DEF Init, PcInv, DraftInv
<1>4. AnswerInv
  BY NoneAssumption DEF Init, NoAnswer, AnswerInv, RefreshIsRebuild
<1> QED BY <1>1, <1>2, <1>3, <1>4 DEF IInv

\* An answered request without a draft: what is left to show is what it says.
LEMMA RestsInv ==
  ASSUME IInv, UNCHANGED <<setup, unreadable, facts>>, CacheInv', BuildInv',
         requests' \in 0..MaxRequests /\ faults' \in 0..MaxFaults,
         pc' = "answered", draft' = NoDraft,
         request' \in [op : Ops, snapshot : SnapshotId, force : BOOLEAN],
         AnswerInv'
  PROVE  IInv'
<1>1. EnvInv'
  BY DEF IInv, EnvInv, IndexedFiles, FilesOf
<1>2. PcInv' /\ DraftInv'
  BY DEF PcInv, DraftInv
<1> QED BY <1>1, <1>2 DEF IInv

\* What is said of builds depends on nothing but them and the configuration.
LEMMA SayingHolds ==
  ASSUME AnswerInv, UNCHANGED <<setup, facts, builds, answer>>
  PROVE  AnswerInv'
BY DEF AnswerInv, RefreshIsRebuild, Queryable, QueryResult, Issues, Stale, WarmLoads, IndexLoads,
       VectorsLoad, FromPersisted, ChunksList, Scores, Values

-----------------------------------------------------------------------------
(* Symbol indexes, configurations and faults                               *)

LEMMA EnvironmentInv ==
  ASSUME IInv,
         \/ \E s \in SnapshotId : SymbolIndexBuild(s) \/ LoseManifest(s)
         \/ \E u \in Setups : Restart(u)
  PROVE  IInv'
<1> USE DEF IInv
<1>1. /\ pc = "idle" /\ UNCHANGED <<embeddings, builds, request, pc, draft, answer>>
      /\ answer = NoAnswer
  BY DEF SymbolIndexBuild, LoseManifest, Restart, Idle, diskVars, countVars, PcInv
<1>2. CacheInv' /\ BuildInv' /\ PcInv' /\ DraftInv'
  BY <1>1 DEF CacheInv, BuildInv, PcInv, DraftInv
<1>3. AnswerInv'
  BY <1>1, NoAnswerInv
<1>4. EnvInv'
  <2>1. ASSUME NEW s \in SnapshotId, SymbolIndexBuild(s) PROVE EnvInv'
    BY <2>1 DEF SymbolIndexBuild, EnvInv, countVars
  <2>2. ASSUME NEW s \in SnapshotId, LoseManifest(s) PROVE EnvInv'
    <3>1. faults' \in 0..MaxFaults
      BY <2>2, BoundsAssumption, FaultCounts DEF LoseManifest, EnvInv
    <3> QED BY <2>2, <3>1 DEF LoseManifest, EnvInv
  <2>3. ASSUME NEW u \in Setups, Restart(u) PROVE EnvInv'
    BY <2>3 DEF Restart, EnvInv, IndexedFiles, FilesOf, countVars
  <2> QED BY <2>1, <2>2, <2>3
<1> QED BY <1>2, <1>3, <1>4

\* A damaged row is a row of the same place, and everything is counted as it was.
LEMMA DamagedRow ==
  ASSUME NEW V, NEW rows \in Rows(V), NEW p \in DOMAIN rows
  PROVE  /\ [rows EXCEPT ![p] = Damaged] \in Rows(V)
         /\ DOMAIN [rows EXCEPT ![p] = Damaged] = DOMAIN rows
BY DEF Rows

LEMMA DamageInv == ASSUME IInv, Damage PROVE IInv'
<1> USE DEF IInv
<1>1. pc = "idle" /\ UNCHANGED <<setup, unreadable, facts, request, pc, draft, answer, requests>>
  BY DEF Damage, Idle, envVars
<1>2. EnvInv'
  <2>1. faults' \in 0..MaxFaults
    BY FaultCounts DEF Damage, EnvInv
  <2> QED BY <1>1, <2>1 DEF EnvInv
<1>3. PcInv' /\ DraftInv'
  BY <1>1 DEF PcInv, DraftInv
<1>4. AnswerInv'
  BY <1>1, NoAnswerInv DEF PcInv
<1>5. CASE \E key \in Keys : /\ Cached(key)
                             /\ embeddings' = [embeddings EXCEPT ![key] = Damaged]
                             /\ UNCHANGED builds
  <2>1. CacheInv'
    BY <1>5, NoneAssumption DEF CacheInv, Keys
  <2>2. BuildInv'
    BY <1>5 DEF BuildInv
  <2> QED BY <1>2, <1>3, <1>4, <2>1, <2>2
<1>6. ASSUME NEW s \in SnapshotId, builds[s] # None, NEW p \in DOMAIN builds[s].vectors,
             \/ builds' = [builds EXCEPT ![s].vectors[p] = Damaged]
             \/ builds' = [builds EXCEPT ![s].chunks[p] = Damaged],
             UNCHANGED embeddings
      PROVE  IInv'
  <2> DEFINE b == builds[s]
             c == builds'[s]
  <2>1. /\ b \in Builds /\ Whole(s, b.digest, b.chunks, b.vectors)
        /\ b.chunkCount = Cardinality(DOMAIN b.chunks)
        /\ b.vectorCount = Cardinality(DOMAIN b.vectors)
        /\ DOMAIN builds = SnapshotId
    BY <1>6 DEF BuildInv
  <2>2. /\ DOMAIN builds' = SnapshotId
        /\ \A t \in SnapshotId : t # s => builds'[t] = builds[t]
    BY <1>6, <2>1
  <2>3. p \in DOMAIN b.chunks
    BY <1>6, <2>1 DEF Whole
  <2>4. CASE builds' = [builds EXCEPT ![s].vectors[p] = Damaged]
    <3>1. c = [b EXCEPT !.vectors = [b.vectors EXCEPT ![p] = Damaged]]
      BY <2>1, <2>4
    <3>2. b.vectors \in Rows(Vectors)
      BY <2>1 DEF Builds
    <3>3. /\ c.vectors \in Rows(Vectors) /\ DOMAIN c.vectors = DOMAIN b.vectors
          /\ c.vectors = [b.vectors EXCEPT ![p] = Damaged]
          /\ c.chunks = b.chunks /\ c.digest = b.digest /\ c.chunkCount = b.chunkCount
          /\ c.vectorCount = b.vectorCount /\ c.embeddingCount = b.embeddingCount
      BY <1>6, <2>1, <3>1, <3>2, DamagedRow DEF Builds
    <3>4. c \in Builds
      BY <2>1, <3>1, <3>3 DEF Builds
    <3>5. Whole(s, c.digest, c.chunks, c.vectors)
      BY <2>1, <3>3 DEF Whole
    <3> QED BY <2>1, <3>3, <3>4, <3>5, <2>2, <1>2, <1>3, <1>4, <1>6 DEF BuildInv, CacheInv
  <2>5. CASE builds' = [builds EXCEPT ![s].chunks[p] = Damaged]
    <3>1. c = [b EXCEPT !.chunks = [b.chunks EXCEPT ![p] = Damaged]]
      BY <2>1, <2>5
    <3>2. b.chunks \in Rows(Texts)
      BY <2>1 DEF Builds
    <3>3. /\ c.chunks \in Rows(Texts) /\ DOMAIN c.chunks = DOMAIN b.chunks
          /\ c.chunks = [b.chunks EXCEPT ![p] = Damaged]
          /\ c.vectors = b.vectors /\ c.digest = b.digest /\ c.chunkCount = b.chunkCount
          /\ c.vectorCount = b.vectorCount /\ c.embeddingCount = b.embeddingCount
      BY <2>3, <2>1, <3>1, <3>2, DamagedRow DEF Builds
    <3>4. c \in Builds
      BY <2>1, <3>1, <3>3 DEF Builds
    <3>5. Whole(s, c.digest, c.chunks, c.vectors)
      BY <2>1, <3>3 DEF Whole
    <3> QED BY <2>1, <3>3, <3>4, <3>5, <2>2, <1>2, <1>3, <1>4, <1>6 DEF BuildInv, CacheInv
  <2> QED BY <1>6, <2>4, <2>5
<1> QED BY <1>5, <1>6 DEF Damage

-----------------------------------------------------------------------------
(* Status and queries                                                      *)

\* A build whose index loads, of the running configuration, has what a query
\* looks for: a vector for each of its chunks.
LEMMA LoadedIsQueryable ==
  ASSUME BuildInv, NEW s \in SnapshotId,
         builds[s] # None, builds[s].digest = setup.digest, IndexLoads(builds[s])
  PROVE  Queryable(s)
<1>1. Scores(builds[s])
  BY DEF BuildInv, Whole, Scores
<1>2. QueryResult(s) \in {"hits", "unreadable"}
  BY <1>1 DEF QueryResult
<1>3. Issues(s, TRUE) \subseteq {"symbol_index_missing"}
  BY DEF Issues, Stale, WarmLoads
<1> QED BY <1>2, <1>3 DEF Queryable

LEMMA RequestCounts ==
  ASSUME requests \in 0..MaxRequests, requests < MaxRequests, requests' = requests + 1
  PROVE  requests' \in 0..MaxRequests
BY BoundsAssumption

\* What a request that builds nothing leaves.
Looked(s) ==
    /\ pc = "idle" /\ pc' = "answered"
    /\ UNCHANGED <<setup, unreadable, facts, builds, draft, faults>>
    /\ requests < MaxRequests /\ requests' = requests + 1
    /\ request' \in [op : Ops, snapshot : {s}, force : BOOLEAN]
    /\ answer'.op \in {"status", "query", "inspect_chunk"}
    /\ answer'.op = "status" /\ answer'.result = "ready" =>
          answer'.snapshot = s /\ \E provider \in BOOLEAN : StatusState(s, provider) = "ready"
    /\ embeddings' \in {embeddings, EmbeddingsWith({QueryText}), Cleaned({QueryText})}

LEMMA StatusLooks == ASSUME NEW s \in SnapshotId, SemanticStatus(s) PROVE Looked(s)
BY DEF SemanticStatus, Idle, envVars, diskVars, Ops, Looked

LEMMA QueryLooks == ASSUME NEW s \in SnapshotId, SemanticQuery(s) PROVE Looked(s)
BY DEF SemanticQuery, Idle, envVars, Ops, Looked, QueryEmbedded

LEMMA InspectLooks ==
  ASSUME NEW s \in SnapshotId, NEW p \in Path, SemanticInspectChunk(s, p) PROVE Looked(s)
BY DEF SemanticInspectChunk, Idle, envVars, diskVars, Ops, Looked

LEMMA LookedInv ==
  ASSUME IInv, NEW s \in SnapshotId, Looked(s)
  PROVE  IInv'
<1> USE DEF IInv
<1>1. CacheInv'
  <2>1. CASE UNCHANGED embeddings
    BY <2>1 DEF CacheInv, Keys
  <2>2. CASE embeddings' \in {EmbeddingsWith({QueryText}), Cleaned({QueryText})}
    BY <2>2, CacheStep DEF EnvInv
  <2> QED BY <2>1, <2>2 DEF Looked
<1>2. BuildInv'
  BY DEF Looked, BuildInv
<1>3. AnswerInv'
  <2>1. ~(answer'.op = "build" /\ answer'.result \in {"loaded", "full_rebuild", "incremental"})
    BY DEF Looked
  <2>2. ASSUME answer'.op = "status", answer'.result = "ready"
        PROVE  answer'.snapshot = s /\ Queryable(s)'
    <3>1. PICK provider \in BOOLEAN : StatusState(s, provider) = "ready"
      BY <2>2 DEF Looked
    <3>2. builds[s] # None /\ IndexLoads(builds[s]) /\ builds[s].digest = setup.digest
      BY <3>1 DEF StatusState
    <3>3. Queryable(s)
      BY <3>2, LoadedIsQueryable
    <3>4. Queryable(s)'
      BY <3>3 DEF Looked, Queryable, QueryResult, Issues, Stale, WarmLoads, IndexLoads,
               VectorsLoad, FromPersisted, ChunksList, Scores, Values
    <3> QED BY <2>2, <3>4 DEF Looked
  <2> QED BY <2>1, <2>2 DEF AnswerInv, RefreshIsRebuild
<1>4. requests' \in 0..MaxRequests /\ faults' \in 0..MaxFaults
  BY RequestCounts DEF Looked, EnvInv
<1>5. request' \in [op : Ops, snapshot : SnapshotId, force : BOOLEAN]
  BY DEF Looked
<1>6. draft' = NoDraft
  BY DEF Looked, PcInv
<1> QED BY <1>1, <1>2, <1>3, <1>4, <1>5, <1>6, RestsInv DEF Looked

LEMMA BeginInv ==
  ASSUME IInv, NEW s \in SnapshotId, NEW force \in BOOLEAN, SemanticBuild(s, force)
  PROVE  IInv'
<1> USE DEF IInv
<1>1. /\ pc = "idle" /\ pc' = "start" /\ UNCHANGED <<setup, unreadable, facts, embeddings, builds, draft, answer, faults>>
      /\ requests < MaxRequests /\ requests' = requests + 1
      /\ request' \in [op : Ops, snapshot : SnapshotId, force : BOOLEAN]
  BY DEF SemanticBuild, Request, Idle, envVars, diskVars, Ops
<1>2. CacheInv' /\ BuildInv' /\ PcInv' /\ DraftInv'
  BY <1>1 DEF CacheInv, BuildInv, PcInv, DraftInv
<1>3. AnswerInv'
  BY <1>1, NoAnswerInv DEF PcInv
<1>4. EnvInv'
  BY <1>1, RequestCounts DEF EnvInv
<1> QED BY <1>2, <1>3, <1>4

LEMMA FinishInv == ASSUME IInv, Finish \/ Stop PROVE IInv'
<1> USE DEF IInv
<1>1. /\ pc' = "idle" /\ request' = NoRequest /\ answer' = NoAnswer /\ draft' = NoDraft
      /\ UNCHANGED <<setup, unreadable, facts, embeddings, builds, requests>>
  BY DEF Finish, Stop, envVars, diskVars, countVars, PcInv
<1>2. CacheInv' /\ BuildInv' /\ PcInv' /\ DraftInv'
  BY <1>1 DEF CacheInv, BuildInv, PcInv, DraftInv
<1>3. AnswerInv'
  BY <1>1, NoAnswerInv
<1>4. faults' \in 0..MaxFaults
  BY FaultCounts DEF EnvInv, Finish, Stop, countVars
<1>5. EnvInv'
  BY <1>1, <1>4 DEF EnvInv
<1> QED BY <1>2, <1>3, <1>5

-----------------------------------------------------------------------------
(* Builds                                                                  *)

\* A build that ends without rows.
LEMMA FailsInv ==
  ASSUME IInv, Answers("failed"), pc # "idle", request' = request,
         UNCHANGED <<setup, unreadable, facts, builds, requests, faults>>, CacheInv'
  PROVE  IInv'
<1> USE DEF IInv
<1>1. BuildInv'
  BY DEF BuildInv
<1>2. AnswerInv'
  BY DEF Answers, AnswerInv, RefreshIsRebuild
<1>3. /\ pc' = "answered" /\ draft' = NoDraft
      /\ request' \in [op : Ops, snapshot : SnapshotId, force : BOOLEAN]
      /\ requests' \in 0..MaxRequests /\ faults' \in 0..MaxFaults
  BY DEF Answers, PcInv, EnvInv
<1> QED BY <1>1, <1>2, <1>3, RestsInv

LEMMA LoadInv == ASSUME IInv, LoadExisting PROVE IInv'
<1> USE DEF IInv
<1>1. /\ pc = "start" /\ UNCHANGED <<setup, unreadable, facts, embeddings, builds, request, requests, faults>>
      /\ request.snapshot \in SnapshotId
  BY DEF LoadExisting, envVars, diskVars, countVars, PcInv
<1>2. CacheInv' /\ BuildInv' /\ EnvInv'
  BY <1>1 DEF CacheInv, BuildInv, EnvInv
<1>3. CASE Compatible(request.snapshot) /\ Answers("loaded")
  <2> DEFINE s == request.snapshot
  <2>1. Queryable(s)
    BY <1>1, <1>3, LoadedIsQueryable DEF Compatible
  <2>2. Queryable(s)'
    BY <1>1, <2>1 DEF Queryable, QueryResult, Issues, Stale, WarmLoads, IndexLoads,
             VectorsLoad, FromPersisted, ChunksList, Scores, Values
  <2>3. AnswerInv'
    BY <1>1, <1>3, <2>2 DEF Answers, AnswerInv, RefreshIsRebuild
  <2>4. /\ pc' = "answered" /\ draft' = NoDraft
        /\ request' \in [op : Ops, snapshot : SnapshotId, force : BOOLEAN]
        /\ requests' \in 0..MaxRequests /\ faults' \in 0..MaxFaults
    BY <1>1, <1>3 DEF Answers, PcInv, EnvInv
  <2> QED BY <1>1, <1>2, <2>3, <2>4, RestsInv
<1>4. CASE pc' = "plan" /\ UNCHANGED <<draft, answer>>
  <2>1. PcInv' /\ DraftInv'
    BY <1>1, <1>4 DEF PcInv, DraftInv
  <2>2. AnswerInv'
    BY <1>1, <1>4, NoAnswerInv DEF PcInv
  <2> QED BY <1>2, <2>1, <2>2
<1> QED BY <1>3, <1>4 DEF LoadExisting

LEMMA PlanInv == ASSUME IInv, PlanBuild PROVE IInv'
<1> USE DEF IInv
<1>1. /\ pc = "plan" /\ UNCHANGED <<setup, unreadable, facts, embeddings, builds, request, requests, faults>>
      /\ request.snapshot \in SnapshotId
  BY DEF PlanBuild, envVars, diskVars, countVars, PcInv
<1>2. CacheInv' /\ BuildInv' /\ EnvInv'
  BY <1>1 DEF CacheInv, BuildInv, EnvInv
<1>3. CASE Answers("failed")
  BY <1>1, <1>2, <1>3, FailsInv
<1>4. ASSUME NEW previous \in PreviousFor(request.snapshot),
             draft' = DraftFor(previous, request.snapshot), pc' = "embed", UNCHANGED answer
      PROVE  IInv'
  <2> DEFINE s == request.snapshot
  <2>1. PcInv'
    BY <1>1, <1>4 DEF PcInv
  <2>2. AnswerInv'
    BY <1>1, <1>4, NoAnswerInv DEF PcInv
  <2>3. DraftInv'
    <3>1. \E paths \in SUBSET Path : ScaffoldFiles(s) = FilesOf(s, paths)
      BY DEF ScaffoldFiles
    <3>2. facts[s] # None => \E paths \in SUBSET Path : facts[s] = FilesOf(s, paths)
      BY <1>1 DEF EnvInv, IndexedFiles
    <3>3. ASSUME NEW files, \E paths \in SUBSET Path : files = FilesOf(s, paths),
                 draft' = DraftFull(files)
          PROVE  DraftInv'
      BY <1>1, <1>4, <3>3 DEF DraftInv, DraftFull, NoDraft
    <3>4. CASE facts[s] = None
      BY <1>4, <3>1, <3>3, <3>4 DEF DraftFor
    <3>5. CASE facts[s] # None /\ (request.force \/ ~Refreshes(previous))
      BY <1>4, <3>2, <3>3, <3>5 DEF DraftFor, DraftRebuild
    <3>6. CASE facts[s] # None /\ ~request.force /\ Refreshes(previous)
      <4>1. draft' = DraftIncremental(previous, s)
        BY <1>4, <3>6 DEF DraftFor
      <4>2. previous \in SnapshotId /\ builds[previous] # None
        BY <1>4, <3>6 DEF PreviousFor, PreviousBuilt, Refreshes
      <4>3. /\ builds[previous].digest = setup.digest
            /\ Damaged \notin Values(builds[previous].chunks)
            /\ Damaged \notin Values(builds[previous].vectors)
        BY <3>6 DEF Refreshes, IndexLoads, VectorsLoad, ChunksList
      <4>4. /\ draft' = [mode |-> "incremental", files |-> facts[s],
                         paths |-> Changed(previous, s) \intersect DOMAIN facts[s],
                         previous |-> previous, chunks |-> NoRows, vectors |-> NoRows]
        BY <4>1 DEF DraftIncremental, NoDraft
      <4> QED BY <1>1, <1>4, <3>2, <3>6, <4>2, <4>3, <4>4 DEF DraftInv, Values
    <3> QED BY <3>4, <3>5, <3>6
  <2> QED BY <1>2, <2>1, <2>2, <2>3
<1> QED BY <1>3, <1>4 DEF PlanBuild

LEMMA EmbedInv == ASSUME IInv, EmbedChunks PROVE IInv'
<1> USE DEF IInv
<1> DEFINE s == request.snapshot
           chunks == ChunksFor(s, draft.files, draft.paths)
<1>1. /\ pc = "embed" /\ UNCHANGED <<setup, unreadable, facts, builds, request, requests, faults>>
      /\ s \in SnapshotId
  BY DEF EmbedChunks, envVars, countVars, PcInv
<1>2. PICK all \in SUBSET Path : draft.files = FilesOf(s, all)
  BY <1>1 DEF DraftInv
<1>3. /\ Made(s, setup.digest, chunks, [p \in DOMAIN chunks |-> Vector(chunks[p])], draft.paths)
      /\ Values(chunks) \subseteq Texts
  BY <1>1, <1>2, ChunksAreMade DEF DraftInv, EnvInv
<1>4. BuildInv' /\ EnvInv'
  BY <1>1 DEF BuildInv, EnvInv
<1>5. embeddings' \in {EmbeddingsWith(Values(chunks)), Cleaned(Values(chunks))} => CacheInv'
  BY <1>3, CacheStep DEF EnvInv
<1> HIDE DEF chunks
<1>6. CASE /\ embeddings' = EmbeddingsWith(Values(chunks))
           /\ draft' = DraftEmbedded(chunks)
           /\ pc' = IF draft.mode = "incremental" THEN "reuse" ELSE "persist"
           /\ UNCHANGED answer
  <2>1. PcInv'
    BY <1>1, <1>6 DEF PcInv
  <2>2. AnswerInv'
    BY <1>1, <1>6, NoAnswerInv DEF PcInv
  <2>3. DraftInv'
    <3> DEFINE vectors == [p \in DOMAIN chunks |-> Vector(chunks[p])]
    <3> HIDE DEF vectors
    <3>1. draft' = [mode |-> draft.mode, files |-> draft.files, paths |-> draft.paths,
                    previous |-> draft.previous, chunks |-> chunks, vectors |-> vectors]
      BY <1>1, <1>6 DEF DraftEmbedded, DraftInv, vectors
    <3>2. Made(s, setup.digest, chunks, vectors, draft.paths)
      BY <1>3 DEF vectors
    <3>3. /\ draft.mode \in {"full_rebuild", "incremental"}
          /\ draft.paths \subseteq DOMAIN draft.files
          /\ draft.mode = "full_rebuild" => draft.paths = DOMAIN draft.files
          /\ draft.mode = "incremental" =>
                /\ draft.files = facts[s]
                /\ draft.previous \in SnapshotId /\ builds[draft.previous] # None
                /\ builds[draft.previous].digest = setup.digest
                /\ Damaged \notin Values(builds[draft.previous].chunks)
                /\ Damaged \notin Values(builds[draft.previous].vectors)
      BY <1>1 DEF DraftInv
    <3>4. draft.mode = "full_rebuild" => Made(s, setup.digest, chunks, vectors, DOMAIN draft.files)
      BY <3>2, <3>3
    <3>5. /\ pc' = "reuse" => draft.mode = "incremental"
          /\ pc' = "persist" => draft.mode = "full_rebuild"
          /\ pc' # "embed"
      BY <1>6, <3>3
    <3> HIDE DEF s
    <3>6. s' = s /\ setup' = setup /\ builds' = builds /\ facts' = facts
      BY <1>1 DEF s
    <3>7. /\ draft'.mode = draft.mode /\ draft'.files = draft.files /\ draft'.paths = draft.paths
          /\ draft'.previous = draft.previous /\ draft'.chunks = chunks /\ draft'.vectors = vectors
      BY <3>1
    <3>8. draft' = [mode |-> draft'.mode, files |-> draft'.files, paths |-> draft'.paths,
                    previous |-> draft'.previous, chunks |-> draft'.chunks, vectors |-> draft'.vectors]
      BY <3>1, <3>7
    <3>9. request'.snapshot = s
      BY <3>6 DEF s
    <3> QED BY <1>2, <3>2, <3>3, <3>4, <3>5, <3>6, <3>7, <3>8, <3>9 DEF DraftInv, Values
  <2> QED BY <1>4, <1>5, <1>6, <2>1, <2>2, <2>3
<1>7. CASE Answers("failed") /\ embeddings' = Cleaned(Values(chunks))
  BY <1>1, <1>5, <1>7, FailsInv
<1> QED BY <1>6, <1>7 DEF EmbedChunks, chunks

\* The rows of files that did not change are those of the build before.
LEMMA ReusedIsMade ==
  ASSUME BuildInv, NEW s \in SnapshotId, NEW t \in SnapshotId, builds[t] # None,
         NEW digest, builds[t].digest = digest,
         Damaged \notin Values(builds[t].chunks), Damaged \notin Values(builds[t].vectors),
         NEW all \in SUBSET Path, draft.files = FilesOf(s, all),
         NEW rest \in SUBSET DOMAIN draft.files, \A p \in rest : ReusablePath(t, p)
  PROVE  Made(s, digest, [p \in rest |-> builds[t].chunks[p]], [p \in rest |-> builds[t].vectors[p]], rest)
<1> DEFINE b == builds[t]
<1>1. /\ b \in Builds /\ Whole(t, digest, b.chunks, b.vectors)
  BY DEF BuildInv
<1>2. b.chunks \in Rows(Texts)
  BY <1>1 DEF Builds
<1>3. ASSUME NEW p \in rest
      PROVE  /\ p \in DOMAIN b.chunks
             /\ b.chunks[p] \in Texts
             /\ b.chunks[p].content = Snapshots[s].files[p]
             /\ b.vectors[p] # Damaged
  <2>1. p \in DOMAIN b.chunks /\ p \in DOMAIN b.vectors /\ b.chunks[p].content = draft.files[p]
    BY DEF ReusablePath
  <2>2. b.chunks[p] # Damaged /\ b.vectors[p] # Damaged
    BY <2>1 DEF Values
  <2>3. b.chunks[p] \in Texts \union {Damaged}
    BY <1>2, <2>1 DEF Rows
  <2>4. draft.files[p] = Snapshots[s].files[p]
    BY DEF FilesOf
  <2> QED BY <2>1, <2>2, <2>3, <2>4
<1>4. ASSUME NEW p \in rest
      PROVE  b.chunks[p].path = p /\ b.vectors[p] = Embed(digest, b.chunks[p])
  BY <1>1, <1>3, NoneAssumption DEF Whole
<1>5. rest \subseteq Path
  BY DEF FilesOf
<1> QED BY <1>3, <1>4, <1>5 DEF Made

LEMMA ReuseInv == ASSUME IInv, ReuseChunks PROVE IInv'
<1> USE DEF IInv
<1> DEFINE s == request.snapshot
           t == draft.previous
           rest == DOMAIN draft.files \ draft.paths
           chunks == [p \in DOMAIN draft.files |->
                        IF p \in draft.paths THEN draft.chunks[p] ELSE builds[t].chunks[p]]
           vectors == [p \in DOMAIN draft.files |->
                        IF p \in draft.paths THEN draft.vectors[p] ELSE builds[t].vectors[p]]
<1>1. /\ pc = "reuse" /\ UNCHANGED <<setup, unreadable, facts, embeddings, builds, request, answer, requests, faults>>
      /\ s \in SnapshotId
  BY DEF ReuseChunks, envVars, diskVars, countVars, PcInv
<1>2. /\ CacheInv' /\ BuildInv' /\ EnvInv'
      /\ AnswerInv'
  BY <1>1, NoAnswerInv DEF CacheInv, BuildInv, EnvInv, PcInv
<1>3. PICK all \in SUBSET Path : draft.files = FilesOf(s, all)
  BY <1>1 DEF DraftInv
<1>4. /\ draft.mode = "incremental" /\ draft.files = facts[s]
      /\ t \in SnapshotId /\ builds[t] # None
      /\ builds[t].digest = setup.digest
      /\ Damaged \notin Values(builds[t].chunks)
      /\ Damaged \notin Values(builds[t].vectors)
      /\ draft.paths \subseteq DOMAIN draft.files
      /\ Made(s, setup.digest, draft.chunks, draft.vectors, draft.paths)
      /\ draft = [mode |-> draft.mode, files |-> draft.files, paths |-> draft.paths,
                  previous |-> draft.previous, chunks |-> draft.chunks, vectors |-> draft.vectors]
  BY <1>1 DEF DraftInv
<1>5. CASE /\ \A p \in rest : ReusablePath(t, p)
           /\ draft' = [draft EXCEPT !.chunks = chunks, !.vectors = vectors]
           /\ pc' = "persist"
  <2>1. Made(s, setup.digest, [p \in rest |-> builds[t].chunks[p]],
                              [p \in rest |-> builds[t].vectors[p]], rest)
    BY <1>1, <1>3, <1>4, <1>5, ReusedIsMade
  <2>2. DOMAIN draft.files \in SUBSET Path
    BY <1>3 DEF FilesOf
  <2>3. Made(s, setup.digest, chunks, vectors, DOMAIN draft.files)
    BY <1>4, <2>1, <2>2 DEF Made
  <2> HIDE DEF chunks, vectors, rest
  <2>4. draft' = [mode |-> draft.mode, files |-> draft.files, paths |-> draft.paths,
                  previous |-> t, chunks |-> chunks, vectors |-> vectors]
    BY <1>4, <1>5
  <2>5. DraftInv'
    <3>1. /\ draft'.mode = "incremental" /\ draft'.files = draft.files /\ draft'.paths = draft.paths
          /\ draft'.previous = t /\ draft'.chunks = chunks /\ draft'.vectors = vectors
      BY <1>4, <2>4
    <3>2. draft' = [mode |-> draft'.mode, files |-> draft'.files, paths |-> draft'.paths,
                    previous |-> draft'.previous, chunks |-> draft'.chunks, vectors |-> draft'.vectors]
      BY <2>4, <3>1
    <3> QED BY <1>1, <1>3, <1>4, <1>5, <2>3, <3>1, <3>2 DEF DraftInv, Values
  <2>6. PcInv'
    BY <1>1, <1>5 DEF PcInv
  <2> QED BY <1>2, <2>5, <2>6
<1>6. CASE draft' = DraftFull(draft.files) /\ pc' = "embed"
  <2>1. DraftInv'
    BY <1>1, <1>3, <1>6 DEF DraftInv, DraftFull, NoDraft
  <2>2. PcInv'
    BY <1>1, <1>6 DEF PcInv
  <2> QED BY <1>2, <2>1, <2>2
<1> QED BY <1>5, <1>6 DEF ReuseChunks

LEMMA PersistInv == ASSUME IInv, PersistBuild PROVE IInv'
<1> USE DEF IInv
<1> DEFINE s == request.snapshot
           rows == BuildRows
<1>1. /\ pc = "persist" /\ UNCHANGED <<setup, unreadable, facts, embeddings, request, requests, faults>>
      /\ s \in SnapshotId
      /\ builds' = [builds EXCEPT ![s] = rows]
      /\ answer' = [op |-> "build", snapshot |-> s, result |-> draft.mode]
      /\ pc' = "answered" /\ draft' = NoDraft
      /\ request \in [op : Ops, snapshot : SnapshotId, force : BOOLEAN]
  BY DEF PersistBuild, envVars, countVars, PcInv
<1>2. /\ Made(s, setup.digest, draft.chunks, draft.vectors, DOMAIN draft.files)
      /\ draft.mode \in {"full_rebuild", "incremental"}
      /\ draft.mode = "incremental" => draft.files = facts[s]
  BY <1>1 DEF DraftInv
<1>3. setup.digest \in SemanticDigest
  BY DEF EnvInv, SemanticDigest
<1>4. /\ Whole(s, setup.digest, draft.chunks, draft.vectors)
      /\ draft.chunks \in Rows(Texts) /\ draft.vectors \in Rows(Vectors)
      /\ Damaged \notin Values(draft.chunks) /\ Damaged \notin Values(draft.vectors)
  BY <1>1, <1>2, <1>3, MadeIsWhole
<1>5. Cardinality(DOMAIN draft.chunks) \in Nat /\ Cardinality(DOMAIN draft.vectors) \in Nat
  <2>1. DOMAIN draft.chunks \subseteq Path /\ DOMAIN draft.vectors \subseteq Path
    BY <1>2 DEF Made
  <2> QED BY <2>1, BoundsAssumption, FS_Subset, FS_CardinalityType
<1>6. /\ rows.digest = setup.digest /\ rows.chunks = draft.chunks /\ rows.vectors = draft.vectors
      /\ rows.chunkCount = Cardinality(DOMAIN draft.chunks)
      /\ rows.vectorCount = Cardinality(DOMAIN draft.vectors)
  BY DEF BuildRows
<1>7. rows \in Builds /\ rows # None
  BY <1>3, <1>4, <1>5, NoneAssumption DEF BuildRows, Builds
<1> HIDE DEF rows
<1>8. BuildInv'
  <2>1. DOMAIN builds' = SnapshotId /\ builds'[s] = rows
        /\ \A t \in SnapshotId : t # s => builds'[t] = builds[t]
    BY <1>1 DEF BuildInv
  <2> HIDE DEF s
  <2> QED BY <2>1, <1>1, <1>4, <1>6, <1>7 DEF BuildInv
<1>9. AnswerInv'
  <2>1. builds'[s] = rows
    BY <1>1 DEF BuildInv
  <2>2. RefreshIsRebuild'
    <3>1. ASSUME draft.mode = "incremental"
          PROVE  /\ DOMAIN rows.chunks = DOMAIN facts[s]
                 /\ \A p \in DOMAIN facts[s] : rows.vectors[p][1] = setup.digest
      <4>1. DOMAIN draft.vectors = DOMAIN facts[s] /\ DOMAIN draft.chunks = DOMAIN facts[s]
        BY <1>2, <3>1 DEF Made
      <4>2. \A p \in DOMAIN facts[s] : draft.vectors[p] = Embed(setup.digest, draft.chunks[p])
        BY <1>2, <3>1 DEF Made
      <4>3. \A p \in DOMAIN facts[s] : draft.vectors[p][1] = setup.digest
        BY <4>2, VectorNamesProvider
      <4> QED BY <1>6, <4>1, <4>3
    <3>2. /\ answer'.snapshot = s /\ answer'.result = draft.mode
          /\ facts' = facts /\ setup' = setup
      BY <1>1
    <3> HIDE DEF s
    <3>3. ASSUME answer'.result = "incremental"
          PROVE  /\ builds'[s].digest = setup'.digest
                 /\ DOMAIN builds'[s].chunks = DOMAIN facts'[s]
                 /\ \A p \in DOMAIN facts'[s] : builds'[s].vectors[p][1] = setup'.digest
      BY <1>6, <2>1, <3>1, <3>2, <3>3
    <3> QED BY <3>2, <3>3 DEF RefreshIsRebuild
  <2>3. Queryable(s)'
    <3>1. IndexLoads(rows) /\ ChunksList(rows) /\ Scores(rows)
      BY <1>4, <1>6 DEF IndexLoads, VectorsLoad, FromPersisted, ChunksList, Scores, Whole
    <3> HIDE DEF s
    <3>2. s' = s /\ setup' = setup /\ s \in SnapshotId
      BY <1>1 DEF s
    <3>3. QueryResult(s)' = "hits"
      BY <1>6, <1>7, <2>1, <3>1, <3>2 DEF QueryResult, IndexLoads, VectorsLoad, FromPersisted, ChunksList, Scores, Values
    <3>4. Issues(s, TRUE)' \subseteq {"symbol_index_missing"}
      BY <1>6, <1>7, <2>1, <3>1, <3>2 DEF Issues, Stale, WarmLoads, IndexLoads, VectorsLoad, FromPersisted, Values
    <3> QED BY <3>3, <3>4 DEF Queryable
  <2> QED BY <1>1, <2>2, <2>3 DEF AnswerInv
<1>10. CacheInv'
  BY <1>1 DEF CacheInv
<1> QED BY <1>1, <1>8, <1>9, <1>10, RestsInv DEF EnvInv

LEMMA StepInv == IInv /\ [Next]_vars => IInv'
<1> SUFFICES ASSUME IInv, [Next]_vars PROVE IInv'
  OBVIOUS
<1>1. CASE UNCHANGED vars
  <2>1. EnvInv' /\ CacheInv' /\ BuildInv' /\ PcInv' /\ DraftInv'
    BY <1>1 DEF IInv, EnvInv, CacheInv, BuildInv, PcInv, DraftInv, vars, envVars, diskVars, countVars
  <2>2. AnswerInv'
    BY <1>1, SayingHolds DEF IInv, vars, envVars, diskVars, countVars
  <2> QED BY <2>1, <2>2 DEF IInv
<1>2. CASE Next
  <2>1. ASSUME NEW s \in SnapshotId,
               \/ SymbolIndexBuild(s) \/ LoseManifest(s) \/ SemanticStatus(s) \/ SemanticQuery(s)
               \/ \E p \in Path : SemanticInspectChunk(s, p)
        PROVE  IInv'
    BY <2>1, EnvironmentInv, StatusLooks, QueryLooks, InspectLooks, LookedInv
  <2>2. ASSUME NEW s \in SnapshotId, NEW force \in BOOLEAN, SemanticBuild(s, force) PROVE IInv'
    BY <2>2, BeginInv
  <2>3. ASSUME NEW u \in Setups, Restart(u) PROVE IInv'
    BY <2>3, EnvironmentInv
  <2>4. CASE Damage \/ Finish \/ Stop
    BY <2>4, DamageInv, FinishInv
  <2>5. CASE LoadExisting \/ PlanBuild \/ EmbedChunks \/ ReuseChunks \/ PersistBuild
    BY <2>5, LoadInv, PlanInv, EmbedInv, ReuseInv, PersistInv
  <2> QED BY <1>2, <2>1, <2>2, <2>3, <2>4, <2>5 DEF Next
<1> QED BY <1>1, <1>2

LEMMA InvAlways == Spec => []IInv
<1>1. Init => IInv
  BY InitInv
<1>2. IInv /\ [Next]_vars => IInv'
  BY StepInv
<1> QED BY <1>1, <1>2, PTL DEF Spec

-----------------------------------------------------------------------------
(* Theorems                                                                *)

\* A build in the database is of one piece: after any refreshes of refreshes,
\* with whatever is damaged, cached, lost or stopped, its chunks have the
\* contents of its snapshot, and each vector is the one its text has from the
\* provider that the build names.
THEOREM BuildsAreWhole == Spec => []BuildIsWhole
<1>1. IInv => BuildIsWhole
  BY DEF IInv, BuildInv, Whole, BuildIsWhole
<1> QED BY <1>1, InvAlways, PTL

\* An incremental refresh ends with the files that a full rebuild would index,
\* and with vectors of the running configuration only.
THEOREM RefreshesRebuild == Spec => []RefreshIsRebuild
<1>1. IInv => RefreshIsRebuild
  BY DEF IInv, AnswerInv
<1> QED BY <1>1, InvAlways, PTL

\* What status, doctor and a build that succeeds call ready, the next query
\* finds an index and a vector for every chunk of.
THEOREM ReadyMeansQueryable == Spec => []ReadyIsQueryable
<1>1. IInv => ReadyIsQueryable
  <2> SUFFICES ASSUME IInv PROVE ReadyIsQueryable
    OBVIOUS
  <2>1. ASSUME NEW s \in SnapshotId, NEW provider \in BOOLEAN
        PROVE  /\ QueryReady(s, provider) => Queryable(s)
               /\ QueryReady(s, provider) = (StatusState(s, provider) = "ready")
    <3>1. QueryReady(s, provider) => Queryable(s)
      BY LoadedIsQueryable DEF IInv, QueryReady, Stale, WarmLoads
    <3>2. QueryReady(s, provider) <=> StatusState(s, provider) = "ready"
      BY DEF QueryReady, StatusState, Stale, WarmLoads
    <3>3. QueryReady(s, provider) \in BOOLEAN /\ (StatusState(s, provider) = "ready") \in BOOLEAN
      BY DEF QueryReady, Stale
    <3> QED BY <3>1, <3>2, <3>3
  <2> QED BY <2>1 DEF IInv, AnswerInv, ReadyIsQueryable
<1> QED BY <1>1, InvAlways, PTL

-----------------------------------------------------------------------------
(* Filters                                                                 *)

\* Without filters a query scores as it does with them.
LEMMA UnfilteredQuery ==
  ASSUME NEW q, IsQuery(q)
  PROVE  /\ Unfiltered(q).terms = q.terms /\ Unfiltered(q).limit = q.limit
         /\ Unfiltered(q).mode = q.mode
         /\ Unfiltered(q).filters = [facet \in Facet |-> NoFilter]
BY DEF IsQuery, Unfiltered

LEMMA ScoreIgnoresFilters ==
  ASSUME NEW q, IsQuery(q), NEW c
  PROVE  Hit(Unfiltered(q), c) = Hit(q, c)
<1>1. \A terms : Overlap(Unfiltered(q), terms) = Overlap(q, terms)
  BY UnfilteredQuery DEF Overlap
<1>2. Bonus(Unfiltered(q), c) = Bonus(q, c)
  <2>1. /\ LexicalPoints(Unfiltered(q), c) = LexicalPoints(q, c)
        /\ PathPoints(Unfiltered(q), c) = PathPoints(q, c)
        /\ SymbolPoints(Unfiltered(q), c) = SymbolPoints(q, c)
        /\ PackagePoints(Unfiltered(q), c) = PackagePoints(q, c)
    BY <1>1 DEF LexicalPoints, PathPoints, SymbolPoints, PackagePoints
  <2>2. SymbolKindPoints(Unfiltered(q), c) = SymbolKindPoints(q, c)
    BY <1>1 DEF SymbolKindPoints
  <2>3. ChunkKindPoints(Unfiltered(q), c) = ChunkKindPoints(q, c)
    BY UnfilteredQuery DEF ChunkKindPoints
  <2> QED BY <2>1, <2>2, <2>3 DEF Bonus
<1> QED BY <1>2, UnfilteredQuery DEF Hit, Score

\* A query searches what its filters leave as a query without filters would.
LEMMA FilterFirst ==
  ASSUME NEW q, IsQuery(q), NEW all,
         NEW passing, passing = {c \in all : MatchesFilters(c, q.filters)}
  PROVE  BestHits(all, q) = BestHits(passing, Unfiltered(q))
<1>1. Candidates(passing, Unfiltered(q)) = passing
  BY UnfilteredQuery DEF Candidates, MatchesFilters, Passes
<1>2. Candidates(all, q) = passing
  BY DEF Candidates
<1>3. {Hit(Unfiltered(q), c) : c \in passing} = {Hit(q, c) : c \in passing}
  BY ScoreIgnoresFilters
<1> QED BY <1>1, <1>2, <1>3, UnfilteredQuery DEF BestHits

\* The answers of a query are those of an index that has nothing but what
\* passes its filters, and it says that there is nothing exactly if nothing does.
THEOREM FiltersRestrict == Spec => []FilterIsRestriction
<1>1. FilterIsRestriction
  <2>1. ASSUME NEW all, NEW q \in Queries,
               NEW passing, passing = {c \in all : MatchesFilters(c, q.filters)}
        PROVE  /\ BestHits(all, q) = BestHits(passing, Unfiltered(q))
               /\ Notice(all, q) = "semantic_query_no_candidates" <=> passing = {}
    <3>1. IsQuery(q)
      BY QueriesAssumption
    <3>2. Notice(all, q) = "semantic_query_no_candidates" <=> passing = {}
      <4>1. Candidates(all, q) = passing
        BY <2>1 DEF Candidates
      <4> QED BY <4>1, <3>1 DEF Notice, IsQuery
    <3> QED BY <2>1, <3>1, <3>2, FilterFirst
  <2> QED BY <2>1 DEF FilterIsRestriction
<1> QED BY <1>1, PTL
=============================================================================
