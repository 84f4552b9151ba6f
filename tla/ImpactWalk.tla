------------------------------ MODULE ImpactWalk ------------------------------
(***************************************************************************)
(* The traversal that finds what a change of a symbol or a file may reach  *)
(* (impact_engine.rs), with the resolution of its target (impact_model.rs) *)
(* and the policies of the change scenarios.                               *)
(*                                                                         *)
(* Nodes are symbols and files; hits may be packages and tests too.  The   *)
(* edges of reason paths are left out but for the last, so that ties which *)
(* their texts break can go either way.  A frame that a better one of its  *)
(* node supersedes, which the code skips when its turn comes, leaves the   *)
(* queue at once.                                                          *)
(***************************************************************************)
EXTENDS ImpactPlan

CONSTANTS
    Worlds,    \* programs with their packages: [program, package]
    Names,     \* names of symbols that may be asked for
    Requests   \* [scenario, depth, nodes, edges, candidates]: what is asked

Scenario == {"modify_behavior", "signature_change", "rename", "delete"}

ASSUME RequestsAssumption ==
    \A r \in Requests : r.scenario \in Scenario /\ {r.depth, r.nodes, r.edges, r.candidates} \subseteq Nat

\* Programs are sequences of nodes, in trees.
ASSUME WorldsAssumption ==
    /\ IsFiniteSet(File)
    /\ \A w \in Worlds : \A f \in File :
          /\ w.program[f] \in Seq(Range(w.program[f]))
          /\ \A i \in Places(w.program, f) :
                IsNode(w.program[f][i], f) /\ w.program[f][i].parent \in 0..(i - 1)

VARIABLES
    world,    \* the program and the packages of the snapshot
    plan,     \* its enrichment plan
    request,  \* what is asked
    seed,     \* the resolved target
    queue,    \* frames to visit, in turn
    best,     \* by node, its best frame
    hits,     \* by entity, its best candidate
    frame,    \* the frame whose steps are taken
    steps,    \* its steps not yet taken, if any
    visited,  \* nodes_visited
    edges,    \* edges_traversed
    cutoffs   \* cutoffs_triggered

traversal == <<world, plan, request, seed, queue, best, hits, frame, steps, visited, edges, cutoffs>>
inputs == <<world, plan, request, seed>>

-----------------------------------------------------------------------------
(* Orders                                                                  *)

Position(sequence, x) == CHOOSE i \in DOMAIN sequence : sequence[i] = x
CertaintyRank(c) == Position(<<"certain", "likely", "possible">>, c)
RelationshipRank(r) ==
    Position(<<"seed", "references", "imports", "exports", "declared_in_file", "contains", "imported_by_file",
               "referenced_by_file", "test_reference", "package_member", "test_affinity">>, r)
EntityKindRank(e) == Position(<<"symbol", "file", "test", "package">>, e[1])

\* The first difference decides.
Less(x, y) == \E i \in DOMAIN x : x[i] < y[i] /\ \A j \in 1..(i - 1) : x[j] = y[j]

\* Mutant: the last step's certainty is the path's.
LastCertainty(c, d) == d

\* combine_certainty.
Worse(c, d) == IF CertaintyRank(c) >= CertaintyRank(d) THEN c ELSE d

\* frame_cmp_key, without the text of the path.
FrameKey(f) == <<CertaintyRank(f.certainty), f.depth, 1000 - f.score>>

\* candidate_cmp_key, as far as candidates of one entity differ in it.
HitKey(h) == <<CertaintyRank(h.certainty), h.depth, RelationshipRank(h.reason), h.relevance, 1000 - h.score>>
StepKey(s) == <<CertaintyRank(s.certainty), RelationshipRank(s.reason), EntityKindRank(s.entity)>>

-----------------------------------------------------------------------------
(* Policies: scenario_policy                                               *)

ConsumerFiles == request.scenario # "modify_behavior"
HeuristicTests == request.scenario # "rename"
ScenarioDepth == IF request.scenario \in {"modify_behavior", "rename"} THEN 3 ELSE 4
ScenarioNodes ==
    CASE request.scenario = "modify_behavior" -> 96 [] request.scenario = "signature_change" -> 160
      [] request.scenario = "rename" -> 128 [] OTHER -> 192
ScenarioEdges ==
    CASE request.scenario = "modify_behavior" -> 256 [] request.scenario = "signature_change" -> 512
      [] request.scenario = "rename" -> 384 [] OTHER -> 640
ScenarioCandidates ==
    CASE request.scenario = "modify_behavior" -> 192 [] request.scenario = "signature_change" -> 320
      [] request.scenario = "rename" -> 256 [] OTHER -> 384

\* Requests tighten the limits.
MaxDepth == Min({ScenarioDepth, request.depth})
MaxNodes == Min({ScenarioNodes, request.nodes})
MaxEdges == Min({ScenarioEdges, request.edges})
MaxCandidates == Min({ScenarioCandidates, request.candidates})

\* file_certainty_for_symbol_consumers, file_certainty_for_file_consumers.
ConsumerCertainty == IF request.scenario = "modify_behavior" THEN "likely" ELSE "certain"
HeuristicCertainty == IF request.scenario = "signature_change" THEN "likely" ELSE "possible"

-----------------------------------------------------------------------------
(* Targets: ImpactModel                                                    *)

\* resolve_symbol_target: a name in a file, or anywhere; what its symbols
\* stand for must be one symbol.
TargetSymbols(w, p, name, path) ==
    LET Named(f) == {Id(w.program, f, i) : i \in {j \in Kept(w.program, f) : w.program[f][j].name = name}}
    IN  {p.canonical[s] : s \in UNION {Named(f) : f \in IF path = None THEN File ELSE {path}}}

SeedTargets(w, p) ==
    {<<"file", f>> : f \in Present(w.program)} \union
    {<<"symbol", s>> : s \in UNION {found \in {TargetSymbols(w, p, n, f) : n \in Names, f \in File \union {None}} :
                                        Cardinality(found) = 1}}

-----------------------------------------------------------------------------
(* Steps: expand_node                                                      *)

Found(index, x) == {e[2] : e \in {d \in index : d[1] = x}}

Step(entity, open, certainty, reason, score, detail) ==
    [entity |-> entity, open |-> open, certainty |-> certainty, reason |-> reason,
     score |-> score, detail |-> detail]

SymbolEntity(s) == <<"symbol", plan.canonical[s]>>
PackageSteps(f) ==
    {Step(<<"package", k>>, FALSE, "likely", "package_member", 620, <<>>) : k \in Found(plan.packages, f)}

\* test_step.
TestEvidence(a) ==
    CASE a.evidence = "imports" -> [certainty |-> "certain", reason |-> "test_reference", score |-> 880]
      [] a.evidence = "references" -> [certainty |-> "certain", reason |-> "test_reference", score |-> 890]
      [] a.evidence = "heuristic" -> [certainty |-> HeuristicCertainty, reason |-> "test_affinity", score |-> 420]
TestSteps(associations, scope) ==
    {LET e == TestEvidence(a)
     IN  Step(<<"test", a.test, a.owner>>, FALSE, e.certainty, e.reason, e.score, <<a.evidence, a.role, scope>>) :
        a \in {x \in associations : x.evidence = "heuristic" => HeuristicTests}}

\* Mutant: what is used at the top of a file has no one to report.
OwnedReferencesOnly(s, r) ==
    IF r.owner = None THEN {}
    ELSE {Step(SymbolEntity(r.owner), TRUE, "certain", "references", 950, <<r.file, r.at>>)}

ReferenceSteps(s, r) ==
    {Step(SymbolEntity(o), TRUE, "certain", "references", 950, <<r.file, r.at>>) :
        o \in {x \in {r.owner} \ {None} : plan.canonical[x] # s}}
    \union
    {Step(<<"file", r.file>>, r.file \notin TestFile, ConsumerCertainty, "referenced_by_file", 760, <<r.file, r.at>>) :
        x \in {y \in {1} : ConsumerFiles \/ r.owner = None}}

ImportSteps(importer) ==
    {Step(SymbolEntity(importer), TRUE, "certain", "imports", 930, <<>>)}
    \union
    {Step(<<"file", f>>, TRUE, ConsumerCertainty, "imported_by_file", 770, <<f>>) :
        f \in IF ConsumerFiles THEN {FileOf(plan.canonical[importer])} ELSE {}}

\* expand_symbol_node, of a canonical symbol.
SymbolSteps(s) ==
    LET f == FileOf(s) IN
    {Step(<<"file", f>>, TRUE, "certain", "declared_in_file", 900, <<>>)}
    \union PackageSteps(f)
    \union (UNION {ReferenceSteps(s, r) : r \in Found(plan.references, s)})
    \union (UNION {ImportSteps(i) : i \in Found(plan.imports, s)})
    \union {Step(SymbolEntity(x), TRUE, "certain", "exports", 920, <<>>) : x \in Found(plan.exports, s)}
    \union TestSteps(Found(plan.symbolTests, s), "")
    \union TestSteps(Found(plan.fileTests, f), "scope")

\* expand_file_node.
FileSteps(f) ==
    {Step(SymbolEntity(s), TRUE, "certain", "contains", 900, <<>>) : s \in Found(plan.symbols, f)}
    \union PackageSteps(f)
    \union {IF g \in TestFile
            THEN Step(<<"test", g, None>>, FALSE, "certain", "test_reference", 880, <<g>>)
            ELSE Step(<<"file", g>>, TRUE, ConsumerCertainty, "imported_by_file", 860, <<g>>) :
               g \in Found(plan.dependents, f)}
    \union TestSteps(Found(plan.fileTests, f), "")

\* filter_self_steps.
StepsFrom(node) ==
    {s \in IF node[1] = "symbol" THEN SymbolSteps(node[2]) ELSE FileSteps(node[2]) : s.entity # node}

-----------------------------------------------------------------------------
(* The traversal: analyze_inputs                                           *)

Frame(node, certainty, depth, score) ==
    [node |-> node, certainty |-> certainty, depth |-> depth, score |-> score]

\* test_relevance_rank.
Relevance(s) ==
    IF s.entity[1] # "test" THEN 0
    ELSE CASE s.reason = "test_affinity" -> 3
           [] s.detail[1] = "references" -> 0
           [] OTHER -> 1

DepthPenalty(score, depth) == Max({0, score - 40 * (depth - 1)})

Candidate(s) ==
    [certainty |-> Worse(frame.certainty, s.certainty), reason |-> s.reason, depth |-> frame.depth + 1,
     score |-> DepthPenalty(s.score, frame.depth + 1), relevance |-> Relevance(s)]

TraversalInit ==
    /\ world \in Worlds
    /\ plan = EnrichmentPlan(world.program, world.package)
    /\ request \in Requests
    /\ seed \in SeedTargets(world, plan)
    /\ queue = <<Frame(seed, "certain", 0, 1000)>>
    /\ best = [n \in {seed} |-> queue[1]]
    /\ hits = [e \in {seed} |->
                 [certainty |-> "certain", reason |-> "seed", depth |-> 0, score |-> 1000, relevance |-> 0]]
    /\ frame = None /\ steps = {}
    /\ visited = 0 /\ edges = 0
    /\ cutoffs = {}

Stop(cutoff) ==
    /\ cutoffs' = cutoffs \union {cutoff}
    /\ queue' = <<>> /\ frame' = None /\ steps' = {}
    /\ UNCHANGED <<inputs, best, hits, visited, edges>>

\* A frame at the depth limit is visited and not expanded.
Visit ==
    /\ steps = {} /\ queue # <<>>
    /\ visited < MaxNodes
    /\ visited' = visited + 1
    /\ queue' = Tail(queue)
    /\ LET next == Head(queue)
           found == IF next.depth >= MaxDepth THEN {} ELSE StepsFrom(next.node)
       IN  /\ steps' = found
           /\ frame' = IF found = {} THEN None ELSE next
    /\ UNCHANGED <<inputs, best, hits, edges, cutoffs>>

VisitTooMany ==
    /\ steps = {} /\ queue # <<>>
    /\ visited >= MaxNodes
    /\ Stop("nodes_visited")

\* candidates_considered counts the seed and every edge.
TakeTooMany ==
    /\ steps # {}
    /\ \/ edges >= MaxEdges /\ Stop("edges_traversed")
       \/ edges < MaxEdges /\ edges + 1 >= MaxCandidates /\ Stop("candidates_considered")

\* BTreeMap::insert.
Insert(map, key, value) == [x \in {key} \union DOMAIN map |-> IF x = key THEN value ELSE map[x]]

\* add_candidate.
AddCandidate(s) ==
    LET candidate == Candidate(s)
        better == s.entity \notin DOMAIN hits \/ Less(HitKey(candidate), HitKey(hits[s.entity]))
    IN  hits' = IF s.entity # seed /\ better THEN Insert(hits, s.entity, candidate) ELSE hits

\* The queue without the frame of a node, if there is one.
Without(node) ==
    LET at == {i \in DOMAIN queue : queue[i].node = node}
    IN  IF at = {} THEN queue ELSE RemoveAt(queue, CHOOSE i \in at : TRUE)

Enqueue(next) ==
    /\ best' = Insert(best, next.node, next)
    /\ queue' = Append(Without(next.node), next)

\* The text of the reason path decides between frames that are as good.
Follow(s) ==
    LET candidate == Candidate(s)
        next == Frame(s.entity, candidate.certainty, candidate.depth, candidate.score)
        known == next.node \in DOMAIN best
    IN  \/ /\ s.open
           /\ known => ~Less(FrameKey(best[next.node]), FrameKey(next))
           /\ Enqueue(next)
        \/ /\ s.open => known /\ ~Less(FrameKey(next), FrameKey(best[next.node]))
           /\ UNCHANGED <<queue, best>>

Take(s) ==
    /\ s \in steps
    /\ edges < MaxEdges /\ edges + 1 < MaxCandidates
    /\ \A o \in steps : ~Less(StepKey(o), StepKey(s))
    /\ edges' = edges + 1
    /\ steps' = steps \ {s}
    /\ frame' = IF steps' = {} THEN None ELSE frame
    /\ AddCandidate(s)
    /\ Follow(s)
    /\ UNCHANGED <<inputs, visited, cutoffs>>

TraversalNext == Visit \/ VisitTooMany \/ TakeTooMany \/ \E s \in steps : Take(s)

Traversal == TraversalInit /\ [][TraversalNext]_traversal

Done == steps = {} /\ queue = <<>>

TraversalTypeOK ==
    /\ seed \in DOMAIN hits /\ seed \in DOMAIN best
    /\ \A n \in DOMAIN best : n[1] \in {"symbol", "file"}
    /\ \A i \in DOMAIN queue : best[queue[i].node] = queue[i]
    /\ \A e \in DOMAIN hits : hits[e].depth \in 0..MaxDepth
    /\ visited \in 0..MaxNodes /\ edges \in 0..MaxEdges
    /\ Cardinality(cutoffs) <= 1

-----------------------------------------------------------------------------
(* Properties                                                              *)

\* What certain steps lead to, from the seed, in at most n steps.
CertainSteps(nodes) == {s \in UNION {StepsFrom(n) : n \in nodes} : s.certainty = "certain"}
CertainNodes(n) ==
    LET in[m \in 0..n] ==
            IF m = 0 THEN {seed}
            ELSE in[m - 1] \union {s.entity : s \in {x \in CertainSteps(in[m - 1]) : x.open}}
    IN  in[n]
CertainEntities ==
    IF MaxDepth = 0 THEN {} ELSE {s.entity : s \in CertainSteps(CertainNodes(MaxDepth - 1))}

\* A hit is certain just when some path of certain steps leads to it within
\* the depth limit, whatever less certain path was found before it, and
\* however the traversal came to revisit what is on the path.  A traversal
\* that was cut off says so, and its certain hits are certain all the same.
CertainIsExact ==
    LET certain == {e \in DOMAIN hits : hits[e].certainty = "certain"} \ {seed}
    IN  /\ certain \subseteq CertainEntities
        /\ Done /\ cutoffs = {} => certain = CertainEntities \ {seed}

\* Every use of a symbol that the symbol queries list is in its blast radius:
\* what the use is in, be it a symbol or, at the top of a file, the file.
UsesAreImpacted ==
    Done /\ cutoffs = {} /\ MaxDepth > 0 /\ seed[1] = "symbol" =>
        \A o \in ReferenceOccurrences(world.program, seed[2]) :
            o.role = "reference" =>
                LET owner == Owner(world.program, o.file, o.at)
                IN  (IF owner = None THEN <<"file", o.file>> ELSE SymbolEntity(owner)) \in DOMAIN hits

=============================================================================
