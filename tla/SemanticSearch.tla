---------------------------- MODULE SemanticSearch ----------------------------
(***************************************************************************)
(* How a semantic query filters, scores, orders and cuts the chunks of a   *)
(* build (semantic_query.rs, semantic_rerank.rs).  Texts are the sets of   *)
(* terms that ordered_terms finds in them, glob patterns the paths that    *)
(* they match, and the score of a vector against the query's is given;     *)
(* ties that only the text of paths and ids break can go any way.          *)
(***************************************************************************)
EXTENDS Integers, FiniteSets

CONSTANTS
    Term,       \* terms of texts
    KindTerms,  \* by symbol kind, its terms
    NoFilter,   \* a filter without values
    NoValue     \* what a chunk says nothing of

ASSUME TermAssumption == IsFiniteSet(Term)
ASSUME KindTermsAssumption == \A kind \in DOMAIN KindTerms : KindTerms[kind] \subseteq Term
ASSUME NoValueAssumption == NoValue \notin DOMAIN KindTerms

Facet == {"path", "packageName", "packageRoot", "workspaceRoot", "language", "extension", "symbolKind"}

IsQuery(q) ==
    /\ DOMAIN q = {"terms", "characters", "longest", "filters", "limit", "mode"}
    /\ q.terms \subseteq Term /\ q.limit \in Nat
    /\ q.mode \in {"hybrid", "off"} /\ DOMAIN q.filters = Facet

-----------------------------------------------------------------------------
(* What may be asked: SemanticService::query                               *)

\* low_signal_query, by the letters and digits of the text and its longest run.
LowSignal(q) == q.characters < 3 \/ q.longest < 2

IsAnswerable(q, maxLimit) == ~LowSignal(q) /\ q.limit \in 1..maxLimit

-----------------------------------------------------------------------------
(* Filters                                                                 *)

\* What a chunk says nothing of passes no filter.
Passes(value, filter) == filter = NoFilter \/ (value # NoValue /\ value \in filter)
MatchesFilters(c, filters) == \A facet \in Facet : Passes(c[facet], filters[facet])
Candidates(chunks, q) == {c \in chunks : MatchesFilters(c, q.filters)}

-----------------------------------------------------------------------------
(* Scores: SemanticReranker                                                *)

\* overlap_terms, counted.
Overlap(q, terms) == Cardinality(q.terms \intersect terms)

LexicalPoints(q, c) == 2500 * Overlap(q, c.textTerms)
PathPoints(q, c) == 3500 * Overlap(q, c.pathTerms)
SymbolPoints(q, c) == 4500 * Overlap(q, c.symbolTerms)
PackagePoints(q, c) == 1750 * Overlap(q, c.packageTerms)

\* symbol_kind_signal
SymbolKindPoints(q, c) ==
    IF c.symbolKind = NoValue \/ Overlap(q, KindTerms[c.symbolKind]) = 0 THEN 0
    ELSE 2000 + 500 * Overlap(q, KindTerms[c.symbolKind])

\* export_signal
ExportPoints(c) == IF c.defaultExport THEN 1500 ELSE IF c.exported THEN 900 ELSE 0

\* chunk_kind_signal
ChunkKindPoints(q, c) ==
    CASE c.chunkKind = "route_file" /\ "route" \in q.terms -> 3000
      [] c.chunkKind = "config_file" /\ q.terms \intersect {"config", "policy"} # {} -> 2500
      [] c.chunkKind = "test_file" /\ "test" \in q.terms -> 2500
      [] OTHER -> 0

Bonus(q, c) ==
    LexicalPoints(q, c) + PathPoints(q, c) + SymbolPoints(q, c) + PackagePoints(q, c)
        + SymbolKindPoints(q, c) + ExportPoints(c) + ChunkKindPoints(q, c)

Score(q, c) == IF q.mode = "hybrid" THEN c.similarity + Bonus(q, c) ELSE c.similarity

Hit(q, c) == [chunk |-> c, score |-> Score(q, c)]

-----------------------------------------------------------------------------
(* Search: search_loaded                                                   *)

\* The order of hits, up to the texts.
Ahead(h, g) ==
    h.score > g.score \/ (h.score = g.score /\ h.chunk.similarity > g.chunk.similarity)

\* What may be left of the hits of some chunks, sorted and cut.
Best(hits, limit) ==
    {answer \in SUBSET hits :
        /\ Cardinality(answer) = IF Cardinality(hits) < limit THEN Cardinality(hits) ELSE limit
        /\ \A h \in answer, g \in hits \ answer : ~Ahead(g, h)}

\* Mutant: what the filters leave of the best hits.
BestHitsFilteredLast(chunks, q) ==
    {{h \in answer : MatchesFilters(h.chunk, q.filters)} :
        answer \in Best({Hit(q, c) : c \in chunks}, q.limit)}
BestHits(chunks, q) == Best({Hit(q, c) : c \in Candidates(chunks, q)}, q.limit)

\* The diagnostic that goes with an answer.
Notice(chunks, q) ==
    CASE Candidates(chunks, q) = {} -> "semantic_query_no_candidates"
      [] Candidates(chunks, q) # {} /\ q.mode = "hybrid" -> "semantic_rerank_applied"
      [] OTHER -> "none"

=============================================================================
