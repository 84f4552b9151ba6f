-------------------------- MODULE SymbolIndexProofs --------------------------
(***************************************************************************)
(* Proofs about SymbolIndex: for any snapshots, configurations, versions   *)
(* and files, and any number of requests, stops and damages.               *)
(***************************************************************************)
EXTENDS SymbolIndex, FiniteSetTheorems, TLAPS

-----------------------------------------------------------------------------
(* The inductive invariant                                                 *)

EnvInv ==
    /\ setup \in Setups
    /\ manifests \subseteq SnapshotId /\ unreadable \subseteq manifests
    /\ halfIndexed \in BOOLEAN
    /\ requests \in 0..MaxRequests /\ faults \in 0..MaxFaults

\* The cache holds what parsing the content of its id gives.
UnitFor(digest, c) == [content |-> c, diagnostics |-> CollectDiagnostics(Errors[c], digest.limit)]
CacheInv ==
    /\ DOMAIN cache = CacheIds
    /\ \A digest \in Digest, p \in Path, c \in Content :
          cache[<<digest, p, c>>] \in {None, Damaged, UnitFor(digest, c)}

\* A build on disk has what parsing the snapshot gives.
BuildInv ==
    /\ DOMAIN builds = BuildIds
    /\ \A s \in SnapshotId, u \in Setups : builds[BuildId(s, u)] \in {None, Damaged, Rebuilt(s, u)}

\* The rows of a snapshot are of its files, those of some configuration.
OfSnapshot(s, files) == \A p \in DOMAIN files : files[p].content = ContentAt(s, p)
FactsInv ==
    /\ DOMAIN facts = SnapshotId
    /\ \A s \in SnapshotId : facts[s] \notin {None, Damaged} =>
          /\ facts[s] \in Files /\ OfSnapshot(s, facts[s])
          /\ \E u \in Setups : DOMAIN facts[s] = Eligible(s, u)

\* They are of the configuration that is recorded, but while they are being
\* replaced and after a stop in between.
Diagnosed(files, limit) ==
    \A p \in DOMAIN files : files[p].diagnostics = CollectDiagnostics(Errors[files[p].content], limit)
RecordInv ==
    /\ DOMAIN indexed = SnapshotId
    /\ \A s \in SnapshotId : indexed[s] # None =>
          /\ indexed[s] \in IndexRecord /\ facts[s] # None
          /\ (~halfIndexed /\ facts[s] # Damaged /\ ~(pc = "record" /\ request.snapshot = s))
                => Diagnosed(facts[s], indexed[s].digest.limit)

Ops == {"parse_build", "parse_status", "parse_inspect", "symbol_build", "symbol_status", "query"}
PcInv ==
    /\ pc \in {"idle", "parse", "parsing", "load", "refresh", "record", "answered"}
    /\ pc = "idle" => request = NoRequest
    /\ pc # "idle" =>
          /\ request \in [op : Ops, snapshot : SnapshotId, force : BOOLEAN, path : Path \union {None}]
          /\ request.force => request.op \in {"parse_build", "symbol_build"}
    /\ pc \notin {"record", "answered"} => answer = NoAnswer
    /\ pc \in {"parse", "parsing"} /\ request.op = "symbol_status" => Loadable(request.snapshot)
    /\ pc = "load" => request.op \in {"symbol_build", "symbol_status", "query"}
    /\ pc \in {"refresh", "record"} => request.op \in {"symbol_build", "query"}
    /\ pc = "refresh" /\ ~request.force => ~Healthy(request.snapshot)

\* What build_snapshot has parsed so far.
ParsingInv ==
    /\ pc # "parsing" => toParse = {} /\ parsed = NoFiles
    /\ pc = "parsing" =>
          /\ toParse \subseteq Eligible(request.snapshot, setup)
          /\ parsed = [p \in Eligible(request.snapshot, setup) \ toParse |->
                          ParseContents(Snapshots[request.snapshot][p], setup)]

\* An answer that has refreshed the index.
Stored == answer.mode \in {"incremental", "full_rebuild"} /\ answer.op \in {"symbol_build", "query"}

\* What is stored then is what was answered, of the configuration of now.
StoredInv ==
    /\ facts[answer.snapshot] = answer.files
    /\ DOMAIN answer.files = Eligible(answer.snapshot, setup)
    /\ ~halfIndexed => Diagnosed(answer.files, setup.limit)

AnswerInv ==
    /\ pc \in {"record", "answered"} =>
          /\ answer.op = request.op /\ answer.snapshot = request.snapshot
          /\ answer.files \in Files
          /\ answer.mode \in Mode \union {"failed", None}
          /\ answer.mode = "incremental" => Stored
          /\ Stored => StoredInv
    /\ pc = "record" => Stored
    /\ pc = "answered" =>
          /\ Stored => indexed[answer.snapshot] = IndexedState(answer.files, answer.mode)
          /\ answer.op = "query" => \/ Stored
                                    \/ answer.mode = "loaded" /\ answer.files = LoadSnapshotFacts(answer.snapshot)
                                    \/ ~Healthy(answer.snapshot)
          /\ answer.op = "symbol_build" /\ request.force => Stored \/ answer.mode = "failed"
          /\ ParseIsFresh

IInv == EnvInv /\ CacheInv /\ BuildInv /\ FactsInv /\ RecordInv /\ PcInv /\ ParsingInv /\ AnswerInv

-----------------------------------------------------------------------------
(* Files, digests and what parsing gives                                   *)

LEMMA FilesAre ==
  ASSUME NEW paths \in SUBSET Path, NEW fs, fs = [p \in paths |-> fs[p]],
         \A p \in paths : fs[p] \in FileRecord
  PROVE  fs \in Files /\ DOMAIN fs = paths
<1>1. fs \in [paths -> FileRecord]
  OBVIOUS
<1> QED BY <1>1 DEF Files

LEMMA FilesHave ==
  ASSUME NEW fs \in Files
  PROVE  /\ DOMAIN fs \subseteq Path /\ fs = [p \in DOMAIN fs |-> fs[p]]
         /\ \A p \in DOMAIN fs : fs[p] \in FileRecord
         /\ fs \notin {None, Damaged}
<1>1. PICK paths \in SUBSET Path : fs \in [paths -> FileRecord]
  BY DEF Files
<1> QED BY <1>1, NoneAssumption

LEMMA NoFilesAre == NoFiles \in Files /\ DOMAIN NoFiles = {} /\ NoFiles \notin {None, Damaged}
<1>1. NoFiles \in Files /\ DOMAIN NoFiles = {}
  <2>1. NoFiles \in [{} -> FileRecord]
    BY DEF NoFiles
  <2> QED BY <2>1 DEF Files
<1> QED BY <1>1, FilesHave

\* A file that is eligible is there, has a language and can be parsed.
LEMMA EligibleFile ==
  ASSUME NEW s \in SnapshotId, NEW u \in Setups, NEW p \in Eligible(s, u)
  PROVE  /\ p \in Path /\ Language[p] # None
         /\ Snapshots[s][p] \in SnapshotFile /\ Snapshots[s][p] # None
         /\ ContentAt(s, p) = Snapshots[s][p].content /\ Snapshots[s][p].content \in Content
         /\ ParseContents(Snapshots[s][p], u) \in FileRecord
<1>1. p \in Path /\ ContentAt(s, p) # None /\ Language[p] \in EnabledLanguages(u)
  BY DEF Eligible, Rules
<1>2. Language[p] # None
  BY <1>1, SetupsAssumption DEF EnabledLanguages
<1>3. /\ Snapshots[s][p] \in SnapshotFile /\ Snapshots[s][p] # None
      /\ ContentAt(s, p) = Snapshots[s][p].content
  BY <1>1, SnapshotsAssumption, NoneAssumption DEF ContentAt
<1>4. Snapshots[s][p].content \in Content /\ Snapshots[s][p].from \in {"base", "overlay"}
  BY <1>3 DEF SnapshotFile
<1>5. CollectDiagnostics(Errors[Snapshots[s][p].content], u.limit) \in Diagnostics
  BY <1>4 DEF Diagnostics
<1>6. ParseContents(Snapshots[s][p], u) \in FileRecord
  BY <1>4, <1>5 DEF ParseContents, FileRecord
<1> QED BY <1>1, <1>2, <1>3, <1>4, <1>6

\* Parsing a snapshot gives files of it, as the configuration has them.
LEMMA RebuiltFiles ==
  ASSUME NEW s \in SnapshotId, NEW u \in Setups
  PROVE  /\ Rebuilt(s, u) \in Files /\ DOMAIN Rebuilt(s, u) = Eligible(s, u)
         /\ OfSnapshot(s, Rebuilt(s, u)) /\ Diagnosed(Rebuilt(s, u), u.limit)
<1>1. Eligible(s, u) \subseteq Path
  BY DEF Eligible
<1>2. DOMAIN Rebuilt(s, u) = Eligible(s, u)
  BY DEF Rebuilt
<1>3. ASSUME NEW p \in Eligible(s, u)
      PROVE  /\ Rebuilt(s, u)[p] \in FileRecord /\ Rebuilt(s, u)[p].content = ContentAt(s, p)
             /\ Rebuilt(s, u)[p].diagnostics = CollectDiagnostics(Errors[Rebuilt(s, u)[p].content], u.limit)
  <2>1. Rebuilt(s, u)[p] = ParseContents(Snapshots[s][p], u)
    BY DEF Rebuilt
  <2> QED BY <2>1, EligibleFile DEF ParseContents
<1>4. Rebuilt(s, u) = [p \in Eligible(s, u) |-> Rebuilt(s, u)[p]]
  BY DEF Rebuilt
<1>5. Rebuilt(s, u) \in Files
  BY <1>1, <1>3, <1>4, FilesAre
<1> QED BY <1>2, <1>3, <1>5 DEF OfSnapshot, Diagnosed

\* Configurations of one digest parse alike: builds and cached units are found
\* by digest.
LEMMA DigestDecides ==
  ASSUME NEW s \in SnapshotId, NEW u \in Setups, NEW v \in Setups,
         ParserConfigDigest(u) = ParserConfigDigest(v)
  PROVE  Rebuilt(s, u) = Rebuilt(s, v)
<1>1. Rules(u) = Rules(v) /\ u.limit = v.limit
  BY DEF ParserConfigDigest
<1>2. Eligible(s, u) = Eligible(s, v)
  BY <1>1 DEF Eligible
<1>3. \A f : ParseContents(f, u) = ParseContents(f, v)
  BY <1>1 DEF ParseContents
<1> QED BY <1>2, <1>3 DEF Rebuilt

LEMMA DigestOfSetup ==
  ASSUME NEW u \in Setups
  PROVE  /\ ParserConfigDigest(u) \in Digest /\ ParserConfigDigest(u).limit = u.limit
         /\ IndexConfigDigest(u) = ParserConfigDigest(u)
BY DEF Digest, ParserConfigDigest, IndexConfigDigest

LEMMA BuildIdIs ==
  ASSUME NEW s \in SnapshotId, NEW u \in Setups
  PROVE  BuildId(s, u) \in BuildIds
BY DigestOfSetup DEF BuildId, BuildIds

LEMMA PathsAreFinite ==
  ASSUME NEW paths \in SUBSET Path
  PROVE  IsFiniteSet(paths) /\ Cardinality(paths) \in 0..Paths
<1>1. Paths \in Nat
  BY BoundsAssumption
<1>2. IsFiniteSet(Path) /\ Cardinality(Path) = Paths
  BY <1>1, FS_Interval DEF Path
<1>3. IsFiniteSet(paths) /\ Cardinality(paths) <= Cardinality(Path)
  BY <1>2, FS_Subset
<1>4. Cardinality(paths) \in Nat
  BY <1>3, FS_CardinalityType
<1> QED BY <1>1, <1>2, <1>3, <1>4

LEMMA Smallest ==
  ASSUME NEW numbers \in SUBSET Nat, numbers # {}
  PROVE  \E x \in numbers : \A y \in numbers : x <= y
<1> DEFINE R == OpToRel(<, Nat)
<1>1. IsWellFoundedOn(R, Nat)
  BY NatLessThanWellFounded, Zenon
<1>2. \A x, y \in Nat : x < y => <<x, y>> \in R
  BY DEF OpToRel
<1> HIDE DEF R
<1>3. PICK x \in numbers : \A y \in numbers : ~(<<y, x>> \in R)
  BY <1>1, WFMin
<1>4. ASSUME NEW y \in numbers PROVE x <= y
  <2>1. ~(y < x)
    BY <1>2, <1>3
  <2> QED BY <2>1
<1> QED BY <1>4

-----------------------------------------------------------------------------
(* The invariant holds initially, and requests come and go                 *)

LEMMA InitInv == Init => IInv
<1> SUFFICES ASSUME Init PROVE IInv
  OBVIOUS
<1> USE DEF Init
<1>1. EnvInv
  <2>1. halfIndexed \in BOOLEAN
    BY Zenon
  <2> QED BY <2>1, BoundsAssumption DEF EnvInv
<1>2. CacheInv
  <2>1. \A digest \in Digest, p \in Path, c \in Content : <<digest, p, c>> \in CacheIds
    BY DEF CacheIds
  <2> QED BY <2>1 DEF CacheInv
<1>3. BuildInv
  BY BuildIdIs DEF BuildInv
<1>4. FactsInv /\ RecordInv
  BY DEF FactsInv, RecordInv
<1>5. PcInv /\ ParsingInv /\ AnswerInv
  BY DEF PcInv, ParsingInv, AnswerInv
<1> QED BY <1>1, <1>2, <1>3, <1>4, <1>5 DEF IInv

\* What is said of the index holds as long as nothing it is said of changes.
LEMMA HealthKept ==
  ASSUME UNCHANGED <<facts, indexed, setup, request, answer>>
  PROVE  /\ Healthy(request.snapshot)' = Healthy(request.snapshot)
         /\ Healthy(answer.snapshot)' = Healthy(answer.snapshot)
         /\ Loadable(request.snapshot)' = Loadable(request.snapshot)
         /\ LoadSnapshotFacts(answer.snapshot)' = LoadSnapshotFacts(answer.snapshot)
BY DEF Healthy, Loadable, IsIndexed, LoadSnapshotFacts, CountIssues, FileIssues

\* Steps that leave the request alone.
LEMMA PcKept ==
  ASSUME PcInv, UNCHANGED <<facts, indexed, setup, request, answer, pc>>
  PROVE  PcInv'
BY HealthKept DEF PcInv

LEMMA AnswerKept ==
  ASSUME AnswerInv, UNCHANGED <<facts, indexed, setup, request, answer, pc, halfIndexed>>
  PROVE  AnswerInv'
<1>1. StoredInv' = StoredInv /\ Stored' = Stored /\ ParseIsFresh' = ParseIsFresh
  BY DEF StoredInv, Stored, Diagnosed, ParseIsFresh
<1>2. IndexedState(answer.files, answer.mode)' = IndexedState(answer.files, answer.mode)
  BY DEF IndexedState
<1> QED BY <1>1, <1>2, HealthKept DEF AnswerInv

LEMMA IndexKept ==
  ASSUME FactsInv, RecordInv, UNCHANGED <<facts, indexed, halfIndexed>>,
         pc = "record" => pc' = "record" /\ request' = request
  PROVE  FactsInv' /\ RecordInv'
<1>1. FactsInv'
  BY DEF FactsInv, OfSnapshot
<1>2. RecordInv'
  BY DEF RecordInv, Diagnosed
<1> QED BY <1>1, <1>2

LEMMA DiskKept ==
  ASSUME CacheInv, BuildInv, UNCHANGED <<cache, builds>>
  PROVE  CacheInv' /\ BuildInv'
BY DEF CacheInv, BuildInv, UnitFor

LEMMA ParsingKept ==
  ASSUME ParsingInv, UNCHANGED <<setup, request, pc, toParse, parsed>>
  PROVE  ParsingInv'
BY DEF ParsingInv

LEMMA StutterInv ==
  ASSUME IInv, UNCHANGED vars
  PROVE  IInv'
<1> USE DEF vars, envVars, diskVars, countVars, IInv
<1>1. EnvInv'
  BY DEF EnvInv
<1> QED BY <1>1, DiskKept, IndexKept, PcKept, ParsingKept, AnswerKept

LEMMA SnapshotInv ==
  ASSUME IInv, NEW s \in SnapshotId, CreateSnapshot(s) \/ LoseManifest(s)
  PROVE  IInv'
<1> USE DEF CreateSnapshot, LoseManifest, Fault, diskVars, countVars, IInv
<1>1. EnvInv'
  BY BoundsAssumption DEF EnvInv
<1>2. UNCHANGED <<setup, cache, builds, facts, indexed, request, pc, toParse, parsed, answer, halfIndexed>>
  OBVIOUS
<1> QED BY <1>1, <1>2, DiskKept, IndexKept, PcKept, ParsingKept, AnswerKept

\* While nothing is asked for.
LEMMA IdleInv ==
  ASSUME PcInv, ParsingInv, Idle, UNCHANGED <<request, pc, toParse, parsed, answer>>
  PROVE  PcInv' /\ ParsingInv' /\ AnswerInv'
BY DEF PcInv, ParsingInv, AnswerInv, Idle, NoRequest

LEMMA RestartInv ==
  ASSUME IInv, NEW u \in Setups, Restart(u)
  PROVE  IInv'
<1> USE DEF Restart, diskVars, countVars, IInv
<1>1. EnvInv'
  BY DEF EnvInv
<1> QED BY <1>1, DiskKept, IndexKept, IdleInv

LEMMA DamageInv ==
  ASSUME IInv, Damage
  PROVE  IInv'
<1> USE DEF Damage, Fault, envVars, IInv
<1>1. EnvInv'
  BY BoundsAssumption DEF EnvInv
<1>2. CacheInv'
  <2>1. CASE UNCHANGED cache
    BY <2>1 DEF CacheInv, UnitFor
  <2>2. CASE \E i \in CacheIds : cache' = [cache EXCEPT ![i] = Damaged]
    <3>1. PICK i \in CacheIds : cache' = [cache EXCEPT ![i] = Damaged]
      BY <2>2
    <3>2. DOMAIN cache' = CacheIds /\ \A j \in CacheIds : cache'[j] \in {cache[j], Damaged}
      BY <3>1 DEF CacheInv
    <3>3. \A digest \in Digest, p \in Path, c \in Content : <<digest, p, c>> \in CacheIds
      BY DEF CacheIds
    <3> QED BY <3>2, <3>3 DEF CacheInv, UnitFor
  <2> QED BY <2>1, <2>2
<1>3. BuildInv'
  <2>1. CASE UNCHANGED builds
    BY <2>1 DEF BuildInv
  <2>2. CASE \E i \in BuildIds : builds' = [builds EXCEPT ![i] = Damaged]
    <3>1. PICK i \in BuildIds : builds' = [builds EXCEPT ![i] = Damaged]
      BY <2>2
    <3>2. DOMAIN builds' = BuildIds /\ \A j \in BuildIds : builds'[j] \in {builds[j], Damaged}
      BY <3>1 DEF BuildInv
    <3> QED BY <3>2, BuildIdIs DEF BuildInv
  <2> QED BY <2>1, <2>2
<1>4. DOMAIN facts' = SnapshotId /\ \A s \in SnapshotId : facts'[s] = facts[s] \/ facts'[s] = Damaged
  BY DEF FactsInv
<1>5. FactsInv'
  BY <1>4 DEF FactsInv, OfSnapshot
<1>6. RecordInv'
  BY <1>4, NoneAssumption DEF RecordInv, Diagnosed, Idle
<1> QED BY <1>1, <1>2, <1>3, <1>5, <1>6, IdleInv

LEMMA RequestInv ==
  ASSUME IInv, NEW op \in Ops, NEW s \in SnapshotId, NEW force \in BOOLEAN,
         force => op \in {"parse_build", "symbol_build"},
         NEW path \in Path \union {None}, NEW first,
         first = IF op = "symbol_status" THEN "load" ELSE "parse",
         RequestFor(op, s, force, path, first)
  PROVE  IInv'
<1> USE DEF RequestFor, envVars, diskVars, IInv
<1>1. EnvInv'
  BY BoundsAssumption DEF EnvInv
<1>2. PcInv'
  BY DEF PcInv, Idle, Ops
<1>3. ParsingInv' /\ AnswerInv'
  BY DEF ParsingInv, AnswerInv, Idle
<1> QED BY <1>1, <1>2, <1>3, DiskKept, IndexKept DEF Idle

LEMMA FinishInv ==
  ASSUME IInv, Finish
  PROVE  IInv'
<1> USE DEF Finish, envVars, diskVars, countVars, IInv
<1>1. EnvInv'
  BY DEF EnvInv
<1>2. PcInv' /\ ParsingInv' /\ AnswerInv'
  BY DEF PcInv, ParsingInv, AnswerInv
<1> QED BY <1>1, <1>2, DiskKept, IndexKept

-----------------------------------------------------------------------------
(* Parsing                                                                 *)

\* What the index has for a snapshot are files, where they can be read.
LEMMA LoadedFacts ==
  ASSUME FactsInv, NEW s \in SnapshotId, LoadSnapshotFacts(s) # Damaged
  PROVE  /\ LoadSnapshotFacts(s) \in Files
         /\ OfSnapshot(s, LoadSnapshotFacts(s))
         /\ facts[s] # Damaged /\ facts[s] # None => LoadSnapshotFacts(s) = facts[s]
BY NoFilesAre DEF FactsInv, LoadSnapshotFacts, OfSnapshot

\* A file that is inspected.
LEMMA InspectedFiles ==
  ASSUME NEW s \in SnapshotId, NEW u \in Setups
  PROVE  /\ InspectFile(Rebuilt(s, u)) \in Files
         /\ DOMAIN InspectFile(Rebuilt(s, u)) = Eligible(s, u) \intersect {request.path}
         /\ \A p \in DOMAIN InspectFile(Rebuilt(s, u)) :
               InspectFile(Rebuilt(s, u))[p] = Rebuilt(s, u)[p]
<1> DEFINE fs == InspectFile(Rebuilt(s, u))
           paths == Eligible(s, u) \intersect {request.path}
<1>1. fs = [p \in paths |-> Rebuilt(s, u)[p]]
  BY RebuiltFiles DEF InspectFile
<1>2. \A p \in paths : Rebuilt(s, u)[p] \in FileRecord
  BY RebuiltFiles, FilesHave
<1>3. paths \subseteq Path
  BY DEF Eligible
<1> HIDE DEF fs, paths
<1>4. fs = [p \in paths |-> fs[p]] /\ \A p \in paths : fs[p] = Rebuilt(s, u)[p]
  BY <1>1
<1>5. fs \in Files /\ DOMAIN fs = paths
  BY <1>2, <1>3, <1>4, FilesAre
<1> QED BY <1>4, <1>5 DEF fs, paths

LEMMA AnsweredParse ==
  ASSUME IInv, pc \in {"parse", "parsing"}, NEW mode \in {"loaded", "full_rebuild"},
         request.op \in {"parse_build", "parse_status", "parse_inspect", "symbol_status"},
         ParseBuilt(mode, Rebuilt(request.snapshot, setup)),
         UNCHANGED <<facts, indexed, setup, request, halfIndexed>>
  PROVE  PcInv' /\ AnswerInv'
<1> DEFINE s == request.snapshot
           fresh == Rebuilt(s, setup)
<1>1. setup \in Setups /\ s \in SnapshotId /\ request.force \in BOOLEAN
  BY DEF IInv, EnvInv, PcInv
<1>2. fresh \in Files /\ DOMAIN fresh = Eligible(s, setup)
  BY <1>1, RebuiltFiles
<1>3. pc' = "answered" /\ answer'.op = request.op /\ answer'.snapshot = s
  BY DEF ParseBuilt, Answers, Inspected
<1>4. PcInv'
  BY <1>3 DEF IInv, PcInv
<1>5. answer'.mode \in Mode \union {"failed", None} /\ ~Stored'
  BY <1>3 DEF ParseBuilt, Answers, Inspected, Mode, Stored
<1>6. answer'.mode # "incremental"
  BY NoneAssumption DEF ParseBuilt, Answers, Inspected
<1>7. answer'.files \in Files /\ ParseIsFresh'
  <2>1. CASE request.op \in {"parse_build", "parse_status"}
    <3>1. answer'.files = fresh
      BY <2>1 DEF ParseBuilt, Answers
    <3> QED BY <2>1, <3>1, <1>2, <1>3 DEF ParseIsFresh
  <2>2. CASE request.op = "parse_inspect"
    <3>1. answer'.files = InspectFile(fresh)
      BY <2>2 DEF ParseBuilt, Inspected
    <3>2. answer'.files \in Files
      BY <3>1, <1>1, InspectedFiles
    <3>3. ASSUME NEW p \in DOMAIN answer'.files
          PROVE  answer'.files[p] = fresh[p] /\ answer'.facts = fresh[p].content
      <4>1. p = request.path /\ p \in Eligible(s, setup) /\ answer'.files[p] = fresh[p]
        BY <3>1, <1>1, InspectedFiles
      <4>2. answer'.facts = ExtractFileFacts(s, p)
        BY <2>2, <4>1, <1>2 DEF ParseBuilt, Inspected
      <4>3. fresh[p] = ParseContents(Snapshots[s][p], setup)
        BY <4>1 DEF Rebuilt
      <4>4. ParseFileFromSnapshot(s, p, setup) = fresh[p] /\ fresh[p] \in FileRecord
        BY <4>1, <4>3, <1>1, EligibleFile DEF ParseFileFromSnapshot
      <4>5. fresh[p] # None
        BY <4>4, NoneAssumption
      <4> QED BY <4>1, <4>2, <4>4, <4>5 DEF ExtractFileFacts
    <3> QED BY <2>2, <3>2, <3>3, <1>3 DEF ParseIsFresh
  <2>3. CASE request.op = "symbol_status"
    <3>1. answer'.files = LoadSnapshotFacts(s)
      BY <2>3 DEF ParseBuilt, Answers
    <3>2. answer'.files \in Files
      BY <2>3, <3>1, <1>1, LoadedFacts DEF IInv, PcInv, Loadable
    <3> QED BY <2>3, <3>2, <1>3 DEF ParseIsFresh
  <2> QED BY <2>1, <2>2, <2>3
<1> HIDE DEF s, fresh
<1>8. AnswerInv'
  BY <1>3, <1>5, <1>6, <1>7 DEF AnswerInv, s
<1> QED BY <1>4, <1>8

LEMMA ParseBuiltInv ==
  ASSUME IInv, pc \in {"parse", "parsing"}, NEW mode \in {"loaded", "full_rebuild"},
         ParseBuilt(mode, Rebuilt(request.snapshot, setup)),
         UNCHANGED <<facts, indexed, setup, request, halfIndexed>>
  PROVE  /\ PcInv' /\ AnswerInv'
         /\ pc' \in {"answered", "load"}
<1>1. CASE request.op \in {"symbol_build", "query"}
  <2>1. pc' = "load" /\ answer' = NoAnswer
    BY <1>1 DEF ParseBuilt, IInv, PcInv
  <2> QED BY <1>1, <2>1 DEF IInv, PcInv, AnswerInv
<1>2. CASE request.op \notin {"symbol_build", "query"}
  <2>1. request.op \in {"parse_build", "parse_status", "parse_inspect", "symbol_status"}
    BY <1>2 DEF ParseBuilt
  <2>2. pc' = "answered"
    BY <1>2 DEF ParseBuilt, Answers, Inspected
  <2> QED BY <2>1, <2>2, AnsweredParse
<1> QED BY <1>1, <1>2

LEMMA LoadBuildInv ==
  ASSUME IInv, LoadBuildStatus
  PROVE  IInv'
<1> DEFINE s == request.snapshot
           id == BuildId(s, setup)
<1> USE DEF IInv
<1>1. setup \in Setups /\ s \in SnapshotId /\ pc = "parse" /\ ~ForcedParse
  BY DEF LoadBuildStatus, EnvInv, PcInv
<1>2. UNCHANGED <<setup, manifests, unreadable, cache, facts, indexed, request, halfIndexed, requests, faults>>
  BY DEF LoadBuildStatus, envVars, countVars
<1>3. EnvInv'
  BY <1>2 DEF EnvInv
<1>4. CASE builds[id] \notin {None, Damaged}
  <2>1. builds[id] = Rebuilt(s, setup)
    BY <1>1, <1>4 DEF BuildInv
  <2>2. ParseBuilt("loaded", Rebuilt(s, setup)) /\ UNCHANGED <<builds, toParse, parsed>>
    BY <1>4, <2>1 DEF LoadBuildStatus
  <2>3. PcInv' /\ AnswerInv' /\ pc' \in {"answered", "load"}
    BY <1>1, <1>2, <2>2, ParseBuiltInv
  <2>4. ParsingInv'
    BY <1>1, <2>2, <2>3 DEF ParsingInv
  <2> QED BY <1>1, <1>2, <1>3, <2>2, <2>3, <2>4, DiskKept, IndexKept
<1>5. CASE builds[id] \in {None, Damaged}
  <2>1. /\ builds' = [builds EXCEPT ![id] = None]
        /\ IF request.op = "parse_status"
           THEN /\ Answers(None, None, NoFiles)
                /\ UNCHANGED <<toParse, parsed>>
           ELSE /\ pc' = "parsing" /\ UNCHANGED answer
                /\ toParse' = Eligible(request.snapshot, setup) /\ parsed' = NoFiles
    BY <1>5 DEF LoadBuildStatus
  <2>2. BuildInv' /\ CacheInv'
    <3>1. DOMAIN builds' = BuildIds /\ \A j \in BuildIds : builds'[j] \in {builds[j], None}
      BY <2>1 DEF BuildInv
    <3>2. BuildInv'
      BY <3>1, BuildIdIs DEF BuildInv
    <3> QED BY <1>2, <3>2 DEF CacheInv, UnitFor
  <2>3. CASE request.op = "parse_status"
    <3>1. PcInv'
      BY <1>1, <1>2, <2>1, <2>3 DEF PcInv, Answers
    <3>2. ParsingInv'
      BY <1>1, <1>2, <2>1, <2>3 DEF ParsingInv, Answers
    <3>3. AnswerInv'
      <4>1. /\ pc' = "answered" /\ answer'.op = "parse_status" /\ answer'.snapshot = s
            /\ answer'.mode = None /\ answer'.files = NoFiles
        BY <2>1, <2>3 DEF Answers
      <4>2. ~Stored' /\ ParseIsFresh'
        BY <4>1 DEF Stored, ParseIsFresh
      <4>3. answer'.mode # "incremental" \/ Stored'
        BY <4>1, NoneAssumption DEF Mode
      <4> QED BY <1>2, <2>3, <4>1, <4>2, <4>3, NoFilesAre DEF AnswerInv
    <3> QED BY <1>1, <1>2, <1>3, <2>2, <3>1, <3>2, <3>3, IndexKept
  <2>4. CASE request.op # "parse_status"
    <3>1. PcInv' /\ AnswerInv'
      <4>1. Loadable(s)' = Loadable(s)
        BY <1>2 DEF Loadable, IsIndexed, LoadSnapshotFacts
      <4> QED BY <1>1, <1>2, <2>1, <2>4, <4>1 DEF PcInv, AnswerInv
    <3>2. ParsingInv'
      BY <1>1, <1>2, <2>1, <2>4 DEF ParsingInv, NoFiles
    <3> QED BY <1>1, <1>2, <1>3, <2>1, <2>2, <2>4, <3>1, <3>2, IndexKept
  <2> QED BY <2>3, <2>4
<1> QED BY <1>4, <1>5

LEMMA ForceParseInv ==
  ASSUME IInv, ForceParse
  PROVE  IInv'
<1> USE DEF ForceParse, ForcedParse, envVars, diskVars, countVars, IInv
<1>1. EnvInv'
  BY DEF EnvInv
<1>2. PcInv' /\ AnswerInv'
  BY DEF PcInv, AnswerInv
<1>3. ParsingInv'
  BY DEF ParsingInv, NoFiles
<1> QED BY <1>1, <1>2, <1>3, DiskKept, IndexKept

LEMMA NextPathIs ==
  ASSUME toParse \subseteq Path, toParse # {}
  PROVE  NextPath \in toParse
<1>1. toParse \in SUBSET Nat
  BY BoundsAssumption DEF Path
<1>2. \E p \in toParse : \A q \in toParse : p <= q
  BY <1>1, Smallest
<1> QED BY <1>2 DEF NextPath

LEMMA NextFileIs ==
  ASSUME IInv, pc = "parsing", toParse # {}
  PROVE  /\ NextPath \in toParse /\ NextPath \in Eligible(request.snapshot, setup)
         /\ NextFile = Snapshots[request.snapshot][NextPath]
         /\ NextFile.content \in Content
         /\ NextCacheId = <<ParserConfigDigest(setup), NextPath, NextFile.content>>
         /\ NextCacheId \in CacheIds
<1>1. request.snapshot \in SnapshotId /\ setup \in Setups
  BY DEF IInv, PcInv, EnvInv
<1>2. toParse \subseteq Eligible(request.snapshot, setup)
  BY DEF IInv, ParsingInv
<1>3. Eligible(request.snapshot, setup) \subseteq Path
  BY DEF Eligible
<1>4. NextPath \in toParse
  BY <1>2, <1>3, NextPathIs
<1>5. NextFile.content \in Content
  BY <1>1, <1>2, <1>4, EligibleFile DEF NextFile
<1> QED BY <1>1, <1>2, <1>3, <1>4, <1>5, DigestOfSetup DEF NextFile, NextCacheId, CacheId, CacheIds

\* A unit goes into the cache under its id, or breaks there.
LEMMA CacheWrite ==
  ASSUME CacheInv, NEW u \in Setups, NEW p \in Path, NEW f, f.content \in Content,
         NEW unit \in {FromArtifact(ParseContents(f, u)), Damaged},
         cache' = [cache EXCEPT ![<<ParserConfigDigest(u), p, f.content>>] = unit]
  PROVE  CacheInv'
<1>1. FromArtifact(ParseContents(f, u)) = UnitFor(ParserConfigDigest(u), f.content)
  BY DigestOfSetup DEF FromArtifact, ParseContents, UnitFor
<1>2. ASSUME NEW digest \in Digest, NEW q \in Path, NEW c \in Content
      PROVE  cache'[<<digest, q, c>>] \in {None, Damaged, UnitFor(digest, c)}
  <2>1. <<digest, q, c>> \in CacheIds
    BY DEF CacheIds
  <2>2. CASE <<digest, q, c>> = <<ParserConfigDigest(u), p, f.content>>
    <3>1. digest = ParserConfigDigest(u) /\ c = f.content
      BY <2>2
    <3>2. cache'[<<digest, q, c>>] = unit
      BY <2>1, <2>2 DEF CacheInv
    <3> QED BY <1>1, <3>1, <3>2
  <2>3. CASE <<digest, q, c>> # <<ParserConfigDigest(u), p, f.content>>
    BY <2>1, <2>3 DEF CacheInv
  <2> QED BY <2>2, <2>3
<1>3. DOMAIN cache' = CacheIds
  BY DEF CacheInv
<1> QED BY <1>2, <1>3 DEF CacheInv, UnitFor

LEMMA ParseFileInv ==
  ASSUME IInv, ParseFile
  PROVE  IInv'
<1> DEFINE s == request.snapshot
           eligible == Eligible(s, setup)
           f == Snapshots[s][NextPath]
<1>1. setup \in Setups /\ s \in SnapshotId /\ pc = "parsing" /\ toParse # {}
  BY DEF ParseFile, IInv, EnvInv, PcInv
<1>2. /\ NextPath \in toParse /\ NextPath \in eligible /\ NextPath \in Path
      /\ NextFile = f /\ f.content \in Content /\ f \in SnapshotFile
      /\ NextCacheId = <<ParserConfigDigest(setup), NextPath, f.content>>
  BY <1>1, NextFileIs, EligibleFile
<1>3. /\ UNCHANGED <<setup, manifests, unreadable, builds, facts, indexed, request, pc, answer,
                     halfIndexed, requests, faults>>
      /\ toParse' = toParse \ {NextPath}
  BY DEF ParseFile, envVars, countVars
<1>4. CacheInv' /\ parsed' = ParsedWith(ParseContents(f, setup))
  <2>1. CASE NextCached
    <3>1. UNCHANGED cache /\ parsed' = ParsedWith(IntoFileRecord(cache[NextCacheId], f.from))
      BY <1>2, <2>1 DEF ParseFile
    <3>2. cache[NextCacheId] = UnitFor(ParserConfigDigest(setup), f.content)
      BY <1>1, <1>2, <2>1, DigestOfSetup DEF IInv, CacheInv, NextCached
    <3>3. IntoFileRecord(cache[NextCacheId], f.from) = ParseContents(f, setup)
      BY <1>1, <3>2, DigestOfSetup DEF IntoFileRecord, UnitFor, ParseContents
    <3>4. CacheInv'
      BY <3>1 DEF IInv, CacheInv, UnitFor
    <3> QED BY <3>1, <3>3, <3>4
  <2>2. CASE ~NextCached
    <3>1. /\ parsed' = ParsedWith(ParseContents(f, setup))
          /\ cache' = [cache EXCEPT ![NextCacheId] = FromArtifact(ParseContents(f, setup))]
      BY <1>2, <2>2 DEF ParseFile, PersistCachedUnit
    <3>2. CacheInv'
      BY <1>1, <1>2, <3>1, CacheWrite DEF IInv
    <3> QED BY <3>1, <3>2
  <2> QED BY <2>1, <2>2
<1>5. ParsingInv'
  <2>1. /\ toParse \subseteq eligible
        /\ parsed = [p \in eligible \ toParse |-> ParseContents(Snapshots[s][p], setup)]
    BY <1>1 DEF IInv, ParsingInv
  <2>2. parsed' = [p \in (eligible \ toParse) \union {NextPath} |->
                      IF p = NextPath THEN ParseContents(f, setup) ELSE parsed[p]]
    BY <1>4, <2>1 DEF ParsedWith
  <2>3. (eligible \ toParse) \union {NextPath} = eligible \ toParse'
    BY <1>2, <1>3
  <2> HIDE DEF eligible
  <2>4. parsed' = [p \in eligible \ toParse' |-> ParseContents(Snapshots[s][p], setup)]
    BY <2>1, <2>2, <2>3
  <2> QED BY <1>1, <1>3, <2>1, <2>4 DEF ParsingInv, eligible
<1>6. EnvInv' /\ BuildInv'
  BY <1>3 DEF IInv, EnvInv, BuildInv
<1> QED BY <1>3, <1>4, <1>5, <1>6, PcKept, AnswerKept, IndexKept DEF IInv

LEMMA PersistBuildInv ==
  ASSUME IInv, PersistBuildStatus
  PROVE  IInv'
<1> DEFINE s == request.snapshot
<1> USE DEF IInv
<1>1. setup \in Setups /\ s \in SnapshotId /\ pc = "parsing" /\ toParse = {}
  BY DEF PersistBuildStatus, EnvInv, PcInv
<1>2. parsed = Rebuilt(s, setup)
  BY <1>1 DEF ParsingInv, Rebuilt
<1>3. /\ builds' = [builds EXCEPT ![BuildId(s, setup)] = Rebuilt(s, setup)]
      /\ ParseBuilt("full_rebuild", Rebuilt(s, setup))
      /\ parsed' = NoFiles
      /\ UNCHANGED <<setup, manifests, unreadable, cache, facts, indexed, request, toParse, halfIndexed,
                     requests, faults>>
  BY <1>2 DEF PersistBuildStatus, envVars, countVars
<1>4. PcInv' /\ AnswerInv' /\ pc' \in {"answered", "load"}
  BY <1>1, <1>3, ParseBuiltInv
<1>5. ParsingInv'
  BY <1>1, <1>3, <1>4 DEF ParsingInv
<1>6. BuildInv'
  <2>1. DOMAIN builds' = BuildIds
    BY <1>3 DEF BuildInv
  <2>2. ASSUME NEW t \in SnapshotId, NEW u \in Setups
        PROVE  builds'[BuildId(t, u)] \in {None, Damaged, Rebuilt(t, u)}
    <3>1. BuildId(t, u) \in BuildIds
      BY BuildIdIs
    <3>2. CASE BuildId(t, u) = BuildId(s, setup)
      <4>1. t = s /\ ParserConfigDigest(u) = ParserConfigDigest(setup)
        BY <3>2 DEF BuildId
      <4>2. Rebuilt(t, u) = Rebuilt(s, setup)
        BY <1>1, <4>1, DigestDecides
      <4>3. builds'[BuildId(t, u)] = Rebuilt(s, setup)
        BY <1>3, <3>1, <3>2 DEF BuildInv
      <4> QED BY <4>2, <4>3
    <3>3. CASE BuildId(t, u) # BuildId(s, setup)
      BY <1>3, <3>1, <3>3 DEF BuildInv
    <3> QED BY <3>2, <3>3
  <2> QED BY <2>1, <2>2 DEF BuildInv
<1>7. EnvInv' /\ CacheInv'
  BY <1>3 DEF EnvInv, CacheInv, UnitFor
<1> QED BY <1>1, <1>3, <1>4, <1>5, <1>6, <1>7, IndexKept

-----------------------------------------------------------------------------
(* The index                                                               *)

LEMMA LoadGraphInv ==
  ASSUME IInv, LoadSymbolGraph
  PROVE  IInv'
<1> DEFINE s == request.snapshot
           loads == Loadable(s) /\ ~request.force
<1> USE DEF IInv
<1>1. /\ s \in SnapshotId /\ pc = "load" /\ answer = NoAnswer
      /\ request.op \in {"symbol_build", "symbol_status", "query"}
      /\ request.force \in BOOLEAN
  BY DEF LoadSymbolGraph, PcInv
<1>2. /\ UNCHANGED <<setup, manifests, unreadable, cache, builds, facts, indexed, request, toParse,
                     parsed, halfIndexed, requests, faults>>
      /\ IF request.op = "symbol_status"
         THEN IF loads THEN pc' = "parse" /\ UNCHANGED answer
                       ELSE Answers(None, None, NoFiles)
         ELSE IF loads THEN Answers("loaded", None, LoadSnapshotFacts(s))
                       ELSE pc' = "refresh" /\ UNCHANGED answer
  BY DEF LoadSymbolGraph, envVars, diskVars, countVars
<1>3. EnvInv' /\ ParsingInv'
  BY <1>1, <1>2 DEF EnvInv, ParsingInv, Answers
<1>4. Loadable(s)' = Loadable(s) /\ Healthy(s)' = Healthy(s)
  BY <1>2 DEF Loadable, Healthy, IsIndexed, LoadSnapshotFacts, CountIssues, FileIssues
<1>5. Healthy(s) => Loadable(s)
  BY DEF Healthy, Loadable
<1>6. PcInv'
  BY <1>1, <1>2, <1>4, <1>5 DEF PcInv, Answers
<1>7. AnswerInv'
  <2>1. CASE request.op = "symbol_status" /\ ~loads
    <3>1. /\ pc' = "answered" /\ answer'.op = "symbol_status" /\ answer'.snapshot = s
          /\ answer'.mode = None /\ answer'.files = NoFiles
      BY <1>2, <2>1 DEF Answers
    <3>2. ~Stored' /\ ParseIsFresh' /\ None # "incremental"
      BY <3>1, NoneAssumption DEF Stored, ParseIsFresh, Mode
    <3> QED BY <1>2, <2>1, <3>1, <3>2, NoFilesAre DEF AnswerInv
  <2>2. CASE request.op # "symbol_status" /\ loads
    <3>1. /\ pc' = "answered" /\ answer'.op = request.op /\ answer'.snapshot = s
          /\ answer'.mode = "loaded" /\ answer'.files = LoadSnapshotFacts(s)
      BY <1>2, <2>2 DEF Answers
    <3>2. ~Stored' /\ ParseIsFresh'
      BY <1>1, <2>2, <3>1 DEF Stored, ParseIsFresh
    <3>3. answer'.files \in Files
      BY <1>1, <2>2, <3>1, LoadedFacts DEF Loadable
    <3>4. answer'.files = LoadSnapshotFacts(answer.snapshot)'
      BY <1>2, <3>1 DEF LoadSnapshotFacts
    <3> QED BY <1>2, <2>2, <3>1, <3>2, <3>3, <3>4 DEF AnswerInv, Mode
  <2>3. CASE pc' \in {"parse", "refresh"}
    BY <2>3 DEF AnswerInv
  <2> QED BY <1>2, <2>1, <2>2, <2>3
<1> QED BY <1>1, <1>2, <1>3, <1>6, <1>7, DiskKept, IndexKept

\* What a refresh makes: the files of the snapshot, of the configuration of now
\* unless a stop has mixed them up.
LEMMA RefreshMakes ==
  ASSUME IInv, NEW s \in SnapshotId, ~(pc = "record"),
         NEW previous \in PreviousFor(s), NEW next, next = Refresh(previous, s)
  PROVE  /\ next.files \in Files /\ DOMAIN next.files = Eligible(s, setup)
         /\ OfSnapshot(s, next.files)
         /\ ~halfIndexed => Diagnosed(next.files, setup.limit)
         /\ next.mode \in {"incremental", "full_rebuild"}
<1> USE DEF IInv
<1>1. setup \in Setups
  BY DEF EnvInv
<1>2. CASE ~(FallbackReason(previous) = None /\ Reuses(previous, s))
  <2>1. next.files = Rebuilt(s, setup) /\ next.mode = "full_rebuild"
    BY <1>2 DEF Refresh
  <2> QED BY <1>1, <2>1, RebuiltFiles
<1>3. CASE FallbackReason(previous) = None /\ Reuses(previous, s)
  <2> DEFINE before == LoadSnapshotFacts(previous)
             fs == next.files
             eligible == Eligible(s, setup)
  <2>1. /\ previous # None
        /\ indexed[previous].digest = IndexConfigDigest(setup)
        /\ before # Damaged
    BY <1>3, NoneAssumption DEF FallbackReason, Reason
  <2>2. previous \in SnapshotId /\ indexed[previous] # None
    BY <2>1 DEF PreviousFor, PreviousIndexed, IsIndexed, EnvInv
  <2>3. before = facts[previous] /\ before \in Files /\ OfSnapshot(previous, before)
    <3>1. facts[previous] # None
      BY <2>2 DEF RecordInv
    <3> QED BY <2>1, <2>2, <3>1, LoadedFacts DEF LoadSnapshotFacts
  <2>4. ~halfIndexed => Diagnosed(before, setup.limit)
    BY <1>1, <2>1, <2>2, <2>3, DigestOfSetup DEF RecordInv
  <2>5. fs = Refreshed(previous, s) /\ next.mode = "incremental"
    BY <1>3 DEF Refresh
  <2>6. ASSUME NEW p \in eligible
        PROVE  /\ fs[p] \in FileRecord /\ fs[p].content = ContentAt(s, p)
               /\ ~halfIndexed => fs[p].diagnostics = CollectDiagnostics(Errors[fs[p].content], setup.limit)
    <3>1. CASE p \in Changed(previous, s)
      <4>1. fs[p] = ParseContents(Snapshots[s][p], setup)
        BY <2>5, <3>1 DEF Refreshed
      <4> QED BY <4>1, <1>1, EligibleFile DEF ParseContents
    <3>2. CASE p \notin Changed(previous, s)
      <4>1. fs[p] = before[p]
        BY <2>5, <3>2 DEF Refreshed
      <4>2. p \in DOMAIN before /\ before[p].content = Snapshots[s][p].content
        BY <1>3, <3>2 DEF Reuses, Reusable
      <4>3. before[p] \in FileRecord
        BY <2>3, <4>2, FilesHave
      <4>4. before[p].content = ContentAt(s, p)
        BY <1>1, <4>2, EligibleFile
      <4>5. ~halfIndexed => before[p].diagnostics = CollectDiagnostics(Errors[before[p].content], setup.limit)
        BY <2>4, <4>2 DEF Diagnosed
      <4> QED BY <4>1, <4>3, <4>4, <4>5
    <3> QED BY <3>1, <3>2
  <2>7. eligible \subseteq Path
    BY DEF Eligible
  <2>8. fs = [p \in eligible |-> fs[p]]
    BY <2>5 DEF Refreshed
  <2> HIDE DEF fs, eligible
  <2>9. fs \in Files /\ DOMAIN fs = eligible
    BY <2>6, <2>7, <2>8, FilesAre
  <2> QED BY <2>5, <2>6, <2>9 DEF OfSnapshot, Diagnosed, fs, eligible
<1> QED BY <1>2, <1>3

LEMMA PersistFactsInv ==
  ASSUME IInv, PersistFacts
  PROVE  IInv'
<1> DEFINE s == request.snapshot
<1> USE DEF IInv
<1>1. /\ s \in SnapshotId /\ setup \in Setups /\ pc = "refresh" /\ answer = NoAnswer
      /\ request.op \in {"symbol_build", "query"} /\ request.force \in BOOLEAN
      /\ request.op = "query" => ~Healthy(s)
  BY DEF PersistFacts, PcInv, EnvInv
<1>2. UNCHANGED <<setup, manifests, unreadable, cache, builds, indexed, request, toParse, parsed,
                  halfIndexed, requests, faults>>
  BY DEF PersistFacts, envVars, countVars
<1>3. PICK previous \in PreviousFor(s) :
          LET next == Refresh(previous, s) IN
          IF Insertable(NoFiles, next.files)
          THEN /\ facts' = [facts EXCEPT ![s] = InsertSnapshotFiles(NoFiles, next.files)]
               /\ answer' = [op |-> request.op, snapshot |-> s, mode |-> next.mode,
                             reason |-> next.reason, files |-> next.files, facts |-> None]
               /\ pc' = "record"
          ELSE Answers("failed", None, NoFiles) /\ UNCHANGED facts
  BY DEF PersistFacts, DeleteSnapshotRows
<1> DEFINE next == Refresh(previous, s)
<1>4. /\ next.files \in Files /\ DOMAIN next.files = Eligible(s, setup)
      /\ OfSnapshot(s, next.files)
      /\ ~halfIndexed => Diagnosed(next.files, setup.limit)
      /\ next.mode \in {"incremental", "full_rebuild"}
  BY <1>1, RefreshMakes
<1>5. EnvInv' /\ CacheInv' /\ BuildInv'
  BY <1>2 DEF EnvInv, CacheInv, BuildInv, UnitFor
<1>6. CASE ~Insertable(NoFiles, next.files)
  <2>1. /\ pc' = "answered" /\ answer'.op = request.op /\ answer'.snapshot = s
        /\ answer'.mode = "failed" /\ answer'.files = NoFiles
        /\ UNCHANGED facts
    BY <1>3, <1>6 DEF Answers
  <2>2. ~Stored' /\ ParseIsFresh'
    BY <2>1 DEF Stored, ParseIsFresh
  <2>3. request.op = "query" => ~Healthy(answer.snapshot)'
    BY <1>1, <1>2, <2>1 DEF Healthy, IsIndexed, LoadSnapshotFacts, CountIssues, FileIssues
  <2>4. AnswerInv'
    BY <1>1, <1>2, <2>1, <2>2, <2>3, NoFilesAre DEF AnswerInv
  <2>5. PcInv' /\ ParsingInv'
    BY <1>1, <1>2, <2>1 DEF PcInv, ParsingInv
  <2> QED BY <1>1, <1>2, <1>5, <2>1, <2>4, <2>5, IndexKept
<1>7. CASE Insertable(NoFiles, next.files)
  <2> DEFINE fs == next.files
  <2>1. InsertSnapshotFiles(NoFiles, fs) = fs
    <3>1. fs = [p \in DOMAIN fs |-> fs[p]]
      BY <1>4, FilesHave
    <3> HIDE DEF fs
    <3> QED BY <3>1, NoFilesAre DEF InsertSnapshotFiles
  <2>2. /\ facts' = [facts EXCEPT ![s] = fs] /\ pc' = "record"
        /\ answer'.op = request.op /\ answer'.snapshot = s
        /\ answer'.mode = next.mode /\ answer'.files = fs
    BY <1>3, <1>7, <2>1
  <2> HIDE DEF next, fs
  <2>3. /\ fs \in Files /\ DOMAIN fs = Eligible(s, setup) /\ OfSnapshot(s, fs)
        /\ ~halfIndexed => Diagnosed(fs, setup.limit)
        /\ next.mode \in {"incremental", "full_rebuild"}
    BY <1>4 DEF fs, next
  <2>4. /\ DOMAIN facts' = SnapshotId /\ facts'[s] = fs
        /\ \A t \in SnapshotId \ {s} : facts'[t] = facts[t]
    BY <1>1, <2>2 DEF FactsInv
  <2>5. FactsInv'
    BY <1>1, <2>3, <2>4 DEF FactsInv, OfSnapshot
  <2>6. RecordInv'
    <3>1. fs \notin {None, Damaged}
      BY <2>3, FilesHave
    <3> QED BY <1>1, <1>2, <2>2, <2>4, <3>1 DEF RecordInv, Diagnosed
  <2>7. PcInv' /\ ParsingInv'
    BY <1>1, <1>2, <2>2 DEF PcInv, ParsingInv
  <2>8. Stored' /\ StoredInv'
    BY <1>1, <1>2, <2>2, <2>3, <2>4 DEF Stored, StoredInv, Diagnosed
  <2>9. AnswerInv'
    BY <1>2, <2>2, <2>3, <2>8 DEF AnswerInv, Mode
  <2> QED BY <1>5, <2>5, <2>6, <2>7, <2>9
<1> QED BY <1>6, <1>7

LEMMA RecordOf ==
  ASSUME setup \in Setups, NEW files \in Files, NEW mode \in Mode
  PROVE  /\ IndexedState(files, mode) \in IndexRecord
         /\ IndexedState(files, mode).digest.limit = setup.limit
<1>1. DOMAIN files \in SUBSET Path
  BY FilesHave
<1>2. Cardinality(DOMAIN files) \in 0..Paths
  BY <1>1, PathsAreFinite
<1>3. setup.schema \in Nat
  BY SetupsAssumption
<1> QED BY <1>2, <1>3, DigestOfSetup DEF IndexedState, IndexRecord

LEMMA RecordIndexInv ==
  ASSUME IInv, RecordIndexedSnapshotState
  PROVE  IInv'
<1> DEFINE s == request.snapshot
           record == IndexedState(answer.files, answer.mode)
<1> USE DEF IInv
<1>1. /\ s \in SnapshotId /\ setup \in Setups /\ pc = "record" /\ halfIndexed \in BOOLEAN
      /\ Stored /\ StoredInv /\ answer.snapshot = s /\ answer.files \in Files
  BY DEF RecordIndexedSnapshotState, PcInv, AnswerInv, EnvInv
<1>2. /\ indexed' = [indexed EXCEPT ![s] = record] /\ pc' = "answered"
      /\ UNCHANGED <<setup, manifests, unreadable, cache, builds, facts, request, toParse, parsed,
                     answer, halfIndexed, requests, faults>>
  BY DEF RecordIndexedSnapshotState, envVars, countVars
<1>3. record \in IndexRecord /\ record.digest.limit = setup.limit
  BY <1>1, RecordOf DEF Stored, Mode
<1>4. /\ DOMAIN indexed' = SnapshotId /\ indexed'[s] = record
      /\ \A t \in SnapshotId \ {s} : indexed'[t] = indexed[t]
  BY <1>1, <1>2 DEF RecordInv
<1> HIDE DEF record
<1>5. RecordInv'
  <2>1. ASSUME NEW t \in SnapshotId, indexed'[t] # None
        PROVE  /\ indexed'[t] \in IndexRecord /\ facts'[t] # None
               /\ (~halfIndexed' /\ facts'[t] # Damaged) => Diagnosed(facts'[t], indexed'[t].digest.limit)
    <3>1. CASE t = s
      <4>1. facts[s] = answer.files /\ facts[s] # None
        BY <1>1, FilesHave DEF StoredInv
      <4> QED BY <1>1, <1>2, <1>3, <1>4, <3>1, <4>1 DEF StoredInv
    <3>2. CASE t # s
      BY <1>1, <1>2, <1>4, <2>1, <3>2 DEF RecordInv
    <3> QED BY <3>1, <3>2
  <2> QED BY <1>4, <2>1 DEF RecordInv, Diagnosed
<1>6. EnvInv' /\ CacheInv' /\ BuildInv' /\ FactsInv'
  BY <1>2 DEF EnvInv, CacheInv, BuildInv, UnitFor, FactsInv, OfSnapshot
<1>7. PcInv' /\ ParsingInv'
  BY <1>1, <1>2 DEF PcInv, ParsingInv
<1>8. AnswerInv'
  <2>1. Stored' /\ StoredInv'
    BY <1>1, <1>2 DEF Stored, StoredInv, Diagnosed
  <2>2. ParseIsFresh'
    BY <1>1, <1>2 DEF Stored, ParseIsFresh
  <2>3. indexed'[s] = IndexedState(answer.files, answer.mode)'
    BY <1>2, <1>4 DEF record, IndexedState
  <2> QED BY <1>1, <1>2, <2>1, <2>2, <2>3 DEF AnswerInv
<1> QED BY <1>5, <1>6, <1>7, <1>8

LEMMA StopInv ==
  ASSUME IInv, Stop
  PROVE  IInv'
<1> USE DEF IInv
<1>1. setup \in Setups /\ pc # "idle" /\ request.snapshot \in SnapshotId /\ halfIndexed \in BOOLEAN
  BY DEF Stop, PcInv, EnvInv
<1>2. /\ request' = NoRequest /\ pc' = "idle" /\ answer' = NoAnswer
      /\ toParse' = {} /\ parsed' = NoFiles
      /\ halfIndexed' = (halfIndexed \/ (pc = "record" /\ indexed[request.snapshot] # None))
      /\ UNCHANGED <<setup, manifests, unreadable, facts, indexed, requests>>
      /\ faults < MaxFaults /\ faults' = faults + 1
  BY DEF Stop, Fault, envVars
<1>3. EnvInv'
  <2>1. halfIndexed' \in BOOLEAN
    BY <1>1, <1>2
  <2> QED BY <1>2, <2>1, BoundsAssumption DEF EnvInv
<1>4. PcInv' /\ ParsingInv' /\ AnswerInv'
  BY <1>2 DEF PcInv, ParsingInv, AnswerInv
<1>5. FactsInv' /\ RecordInv'
  <2>1. FactsInv'
    BY <1>2 DEF FactsInv, OfSnapshot
  <2>2. RecordInv'
    BY <1>1, <1>2 DEF RecordInv, Diagnosed
  <2> QED BY <2>1, <2>2
<1>6. CacheInv'
  <2>1. CASE UNCHANGED cache
    BY <2>1 DEF CacheInv, UnitFor
  <2>2. CASE pc = "parsing" /\ toParse # {} /\ cache' = [cache EXCEPT ![NextCacheId] = Damaged]
    <3>1. /\ NextPath \in Path /\ NextFile.content \in Content
          /\ NextCacheId = <<ParserConfigDigest(setup), NextPath, NextFile.content>>
      BY <1>1, <2>2, NextFileIs, EligibleFile
    <3> QED BY <1>1, <2>2, <3>1, CacheWrite
  <2> QED BY <2>1, <2>2 DEF Stop
<1>7. BuildInv'
  <2>1. CASE UNCHANGED builds
    BY <2>1 DEF BuildInv
  <2>2. CASE builds' = [builds EXCEPT ![BuildId(request.snapshot, setup)] = Damaged]
    <3>1. DOMAIN builds' = BuildIds /\ \A i \in BuildIds : builds'[i] \in {builds[i], Damaged}
      BY <2>2 DEF BuildInv
    <3> QED BY <3>1, BuildIdIs DEF BuildInv
  <2> QED BY <2>1, <2>2 DEF Stop
<1> QED BY <1>3, <1>4, <1>5, <1>6, <1>7

LEMMA StepInv == IInv /\ [Next]_vars => IInv'
<1> SUFFICES ASSUME IInv, [Next]_vars PROVE IInv'
  OBVIOUS
<1>1. CASE UNCHANGED vars
  BY <1>1, StutterInv
<1>2. CASE Next
  <2>1. CASE \E s \in SnapshotId : CreateSnapshot(s) \/ LoseManifest(s)
    BY <2>1, SnapshotInv
  <2>2. CASE \E u \in Setups : Restart(u)
    BY <2>2, RestartInv
  <2>3. CASE \E s \in SnapshotId, force \in BOOLEAN : ParseBuild(s, force) \/ SymbolIndexBuild(s, force)
    <3>1. PICK s \in SnapshotId, force \in BOOLEAN : ParseBuild(s, force) \/ SymbolIndexBuild(s, force)
      BY <2>3
    <3> QED BY <3>1, RequestInv DEF ParseBuild, SymbolIndexBuild, Request, Ops
  <2>4. CASE \E s \in SnapshotId : ParseStatus(s) \/ SymbolIndexStatus(s) \/ Query(s)
    <3>1. PICK s \in SnapshotId : ParseStatus(s) \/ SymbolIndexStatus(s) \/ Query(s)
      BY <2>4
    <3> QED BY <3>1, RequestInv DEF ParseStatus, SymbolIndexStatus, Query, Request, Ops
  <2>5. CASE \E s \in SnapshotId, p \in Path : ParseInspectFile(s, p)
    <3>1. PICK s \in SnapshotId, p \in Path : ParseInspectFile(s, p)
      BY <2>5
    <3> QED BY <3>1, RequestInv DEF ParseInspectFile, Ops
  <2>6. CASE Damage \/ Stop \/ Finish
    BY <2>6, DamageInv, StopInv, FinishInv
  <2>7. CASE LoadBuildStatus \/ ForceParse \/ ParseFile \/ PersistBuildStatus
    BY <2>7, LoadBuildInv, ForceParseInv, ParseFileInv, PersistBuildInv
  <2>8. CASE LoadSymbolGraph \/ PersistFacts \/ RecordIndexedSnapshotState
    BY <2>8, LoadGraphInv, PersistFactsInv, RecordIndexInv
  <2> QED BY <1>2, <2>1, <2>2, <2>3, <2>4, <2>5, <2>6, <2>7, <2>8 DEF Next
<1> QED BY <1>1, <1>2

LEMMA InvAlways == Spec => []IInv
<1>1. Init => IInv
  BY InitInv
<1>2. IInv /\ [Next]_vars => IInv'
  BY StepInv
<1> QED BY <1>1, <1>2, PTL DEF Spec

-----------------------------------------------------------------------------
(* Theorems                                                                *)

\* What is stored and answered is of the shape that the code reads it as.
THEOREM TypeCorrect == Spec => []TypeOK
<1>1. IInv => TypeOK
  <2> SUFFICES ASSUME IInv PROVE TypeOK
    OBVIOUS
  <2> USE DEF IInv
  <2>1. ASSUME NEW i \in CacheIds PROVE cache[i] \in CachedUnit \/ cache[i] \in {None, Damaged}
    <3>1. PICK digest \in Digest, p \in Path, c \in Content : i = <<digest, p, c>>
      BY DEF CacheIds
    <3>2. PICK u \in Setups : digest = ParserConfigDigest(u)
      BY DEF Digest
    <3>3. UnitFor(digest, c) \in CachedUnit
      BY <3>2, DigestOfSetup DEF UnitFor, CachedUnit, Diagnostics
    <3> QED BY <3>1, <3>3 DEF CacheInv
  <2>2. ASSUME NEW i \in BuildIds PROVE builds[i] \in Files \/ builds[i] \in {None, Damaged}
    <3>1. PICK s \in SnapshotId, digest \in Digest : i = <<s, digest>>
      BY DEF BuildIds
    <3>2. PICK u \in Setups : digest = ParserConfigDigest(u)
      BY DEF Digest
    <3>3. builds[i] \in {None, Damaged, Rebuilt(s, u)}
      BY <3>1, <3>2 DEF BuildInv, BuildId
    <3> QED BY <3>3, RebuiltFiles
  <2>3. toParse \subseteq Path /\ parsed \in Files
    <3>1. CASE pc # "parsing"
      BY <3>1, NoFilesAre DEF ParsingInv
    <3>2. CASE pc = "parsing"
      <4> DEFINE eligible == Eligible(request.snapshot, setup)
      <4>1. request.snapshot \in SnapshotId /\ setup \in Setups
        BY <3>2 DEF PcInv, EnvInv
      <4>2. eligible \subseteq Path
        BY DEF Eligible
      <4>3. parsed = [p \in eligible \ toParse |-> ParseContents(Snapshots[request.snapshot][p], setup)]
            /\ toParse \subseteq eligible
        BY <3>2 DEF ParsingInv
      <4>4. \A p \in eligible \ toParse : ParseContents(Snapshots[request.snapshot][p], setup) \in FileRecord
        BY <4>1, EligibleFile
      <4> HIDE DEF eligible
      <4>5. parsed = [p \in eligible \ toParse |-> parsed[p]]
            /\ \A p \in eligible \ toParse : parsed[p] \in FileRecord
        BY <4>3, <4>4
      <4> QED BY <4>2, <4>3, <4>5, FilesAre
    <3> QED BY <3>1, <3>2
  <2>4. (pc = "idle") = (request = NoRequest)
    <3>1. pc # "idle" => request # NoRequest
      BY NoneAssumption DEF PcInv, NoRequest
    <3>2. pc = "idle" <=> request = NoRequest
      BY <3>1 DEF PcInv
    <3> QED BY <3>2
  <2>5. answer.files \in Files /\ answer.mode \in Mode \union {"failed", None}
    BY NoFilesAre DEF PcInv, AnswerInv, NoAnswer
  <2>6. /\ setup \in Setups /\ manifests \subseteq SnapshotId /\ unreadable \subseteq manifests
        /\ halfIndexed \in BOOLEAN /\ requests \in 0..MaxRequests /\ faults \in 0..MaxFaults
    BY DEF EnvInv
  <2>7. /\ DOMAIN cache = CacheIds /\ DOMAIN builds = BuildIds
        /\ DOMAIN facts = SnapshotId /\ DOMAIN indexed = SnapshotId
        /\ pc \in {"idle", "parse", "parsing", "load", "refresh", "record", "answered"}
    BY DEF CacheInv, BuildInv, FactsInv, RecordInv, PcInv
  <2>8. \A s \in SnapshotId : /\ facts[s] \in Files \/ facts[s] \in {None, Damaged}
                              /\ indexed[s] \in IndexRecord \/ indexed[s] = None
                              /\ indexed[s] # None => facts[s] # None
    BY DEF FactsInv, RecordInv
  <2> QED BY <2>1, <2>2, <2>3, <2>4, <2>5, <2>6, <2>7, <2>8 DEF TypeOK
<1> QED BY <1>1, InvAlways, PTL

\* The files that a parse build, its status or an inspection answers with are
\* those that parsing gives, although units and builds on disk are trusted for
\* their names, other versions have written them, and stops and damage have been
\* at them.
THEOREM ParseAnswersAreFresh == Spec => []ParseIsFresh
<1>1. IInv => ParseIsFresh
  BY DEF IInv, AnswerInv, ParseIsFresh
<1> QED BY <1>1, InvAlways, PTL

\* However many refreshes of refreshes the facts of a snapshot were copied
\* through, they are of its contents.
THEOREM FactsAreOfSnapshot == Spec => []FactsMatchSnapshot
<1>1. IInv => FactsMatchSnapshot
  BY DEF IInv, FactsInv, OfSnapshot, FactsMatchSnapshot
<1> QED BY <1>1, InvAlways, PTL

\* An incremental refresh ends with the files that a full rebuild would have,
\* unless a stop has left facts under the record of another configuration.
THEOREM RefreshesRebuild == Spec => []RefreshIsRebuild
<1>1. IInv => RefreshIsRebuild
  <2> SUFFICES ASSUME IInv, pc = "answered", answer.mode = "incremental", ~halfIndexed
               PROVE  KeptAsRebuilt(answer.files) = KeptAsRebuilt(Rebuilt(answer.snapshot, setup))
    BY DEF RefreshIsRebuild
  <2> DEFINE s == answer.snapshot
             fresh == Rebuilt(s, setup)
  <2>1. Stored /\ StoredInv /\ setup \in Setups /\ s \in SnapshotId
    BY DEF IInv, AnswerInv, EnvInv, PcInv
  <2>2. answer.files \in Files
    BY DEF IInv, AnswerInv
  <2>3. OfSnapshot(s, answer.files)
    BY <2>1, <2>2, FilesHave DEF IInv, FactsInv, StoredInv
  <2>4. DOMAIN answer.files = DOMAIN fresh /\ OfSnapshot(s, fresh) /\ Diagnosed(fresh, setup.limit)
    BY <2>1, RebuiltFiles DEF StoredInv
  <2>5. Diagnosed(answer.files, setup.limit)
    BY <2>1 DEF StoredInv
  <2>6. \A p \in DOMAIN fresh : /\ answer.files[p].content = fresh[p].content
                                /\ answer.files[p].diagnostics = fresh[p].diagnostics
    BY <2>3, <2>4, <2>5 DEF OfSnapshot, Diagnosed
  <2>7. ASSUME NEW fs, NEW gs, DOMAIN fs = DOMAIN gs,
               \A p \in DOMAIN gs : fs[p].content = gs[p].content /\ fs[p].diagnostics = gs[p].diagnostics
        PROVE  KeptAsRebuilt(fs) = KeptAsRebuilt(gs)
    BY <2>7 DEF KeptAsRebuilt
  <2> QED BY <2>4, <2>6, <2>7
<1> QED BY <1>1, InvAlways, PTL

\* A rebuild leaves the doctor nothing to find, and what it finds healthy the
\* daemon does not refresh and answers from, with the files of now.
THEOREM DoctorAgrees == Spec => []DoctorIsRight
<1>1. IInv => DoctorIsRight
  <2> SUFFICES ASSUME IInv PROVE DoctorIsRight
    OBVIOUS
  <2> USE DEF IInv
  <2> DEFINE s == answer.snapshot
  <2>1. ASSUME pc = "answered", Stored
        PROVE  Healthy(s)
    <3>1. /\ StoredInv /\ setup \in Setups /\ s \in SnapshotId /\ answer.files \in Files
          /\ indexed[s] = IndexedState(answer.files, answer.mode)
      BY <2>1 DEF AnswerInv, EnvInv, PcInv
    <3>2. facts[s] = answer.files /\ facts[s] \notin {None, Damaged} /\ DOMAIN facts[s] = Eligible(s, setup)
      BY <3>1, FilesHave DEF StoredInv
    <3>3. LoadSnapshotFacts(s) = facts[s]
      BY <3>2 DEF LoadSnapshotFacts
    <3>4. IndexedState(answer.files, answer.mode) \in [digest : {IndexConfigDigest(setup)}, schema : {setup.schema},
              count : {Cardinality(Eligible(s, setup))}, mode : {answer.mode}]
      BY <3>2 DEF IndexedState
    <3>5. /\ indexed[s] # None /\ indexed[s].schema = setup.schema
          /\ indexed[s].count = Cardinality(Eligible(s, setup))
      <4>1. indexed[s] # None
        <5>1. IndexedState(answer.files, answer.mode) \in IndexRecord
          BY <2>1, <3>1, RecordOf DEF Stored, Mode
        <5> QED BY <3>1, <5>1, NoneAssumption
      <4> QED BY <3>1, <3>4, <4>1
    <3>6. CountIssues(s, facts[s]) = {}
      BY <3>2, <3>5 DEF CountIssues
    <3>7. FileIssues(s, facts[s]) = {}
      BY <3>1, <3>2 DEF FileIssues, FactsInv, OfSnapshot
    <3> QED BY <3>2, <3>3, <3>5, <3>6, <3>7 DEF Healthy, IsIndexed
  <2>2. ASSUME pc = "answered", answer.op = "query", Healthy(s)
        PROVE  DOMAIN answer.files = Eligible(s, setup)
    <3>1. CASE Stored
      BY <2>2, <3>1 DEF AnswerInv, StoredInv
    <3>2. CASE answer.files = LoadSnapshotFacts(s)
      <4> DEFINE fs == LoadSnapshotFacts(s)
      <4>1. FileIssues(s, fs) = {} /\ CountIssues(s, fs) = {}
        BY <2>2 DEF Healthy
      <4>2. DOMAIN fs \subseteq Eligible(s, setup)
        BY <4>1 DEF FileIssues
      <4>3. Cardinality(DOMAIN fs) = Cardinality(Eligible(s, setup))
        BY <4>1 DEF CountIssues
      <4>4. IsFiniteSet(Eligible(s, setup))
        BY PathsAreFinite DEF Eligible
      <4> QED BY <3>2, <4>2, <4>3, <4>4, FS_Subset
    <3> QED BY <2>2, <3>1, <3>2 DEF AnswerInv
  <2>3. ASSUME pc = "answered", answer.op = "symbol_build", request.force, answer.mode # "failed"
        PROVE  Healthy(s)
    BY <2>1, <2>3 DEF AnswerInv
  <2>4. pc = "refresh" /\ ~request.force => ~Healthy(request.snapshot)
    BY DEF PcInv
  <2> QED BY <2>2, <2>3, <2>4 DEF DoctorIsRight
<1> QED BY <1>1, InvAlways, PTL

=============================================================================
