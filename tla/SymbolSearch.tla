----------------------------- MODULE SymbolSearch -----------------------------
(***************************************************************************)
(* The search for symbols by name: SymbolQueryEngine::search and the       *)
(* scores it ranks by (symbol_query.rs), of a program as SymbolFacts has   *)
(* it.  How a name is like a text that is searched for, cases apart, is    *)
(* given; ties that only the text of paths and ids break can go any way.   *)
(***************************************************************************)
EXTENDS SymbolFacts

CONSTANTS
    Text,      \* texts that are searched for
    Likeness,  \* by name and text: "exact", "prefix", "substring" or None
    SameCase,  \* pairs of a name and a text that agree in their cases too
    StemOf,    \* by file, the texts that its name without extension is
    DefaultLimit, MaxLimit  \* of the daemon's configuration

Mode == {"exact", "prefix", "substring"}

ASSUME LikenessAssumption ==
    \A name \in DOMAIN Likeness : \A t \in Text : Likeness[name][t] \in Mode \union {None}

ASSUME LimitAssumption == DefaultLimit \in Nat /\ MaxLimit \in Nat

\* text, mode, kinds in the order they are preferred, the files that the path
\* prefix leaves, and how many hits are asked for.
IsQuery(q) ==
    q \in [text : Text, mode : Mode, kinds : Seq(STRING), within : SUBSET File, limit : Nat]

-----------------------------------------------------------------------------
(* Symbols as the search sees them, each by its file and place             *)

SymbolPlaces(p) ==
    UNION {{<<f, i>> : i \in Kept(p, f) \union {0}} : f \in Present(p)}

DisplayName(p, x) == IF x[2] = 0 THEN x[1] ELSE p[x[1]][x[2]].name
KindOf(p, x) == IF x[2] = 0 THEN "module" ELSE SymbolKind(p[x[1]][x[2]])
ContainerDepth(p, x) == IF x[2] = 0 THEN 0 ELSE Cardinality(Around(p, x[1], x[2]))

\* promote_visibility: an export by default stays, whatever comes after it.
Visibility(p, x) ==
    LET as == {ExportedName(p[x[1]][i]) = "default" :
                  i \in {j \in Exporting(p, x[1]) : Exports(p, x[1], j) = Id(p, x[1], x[2])}}
    IN  CASE TRUE \in as -> "default_export" [] as = {FALSE} -> "exported" [] OTHER -> "local"

-----------------------------------------------------------------------------
(* Scores: rank_symbol                                                     *)

\* classify_match: a mode finds what is as much like the text or more.
Classify(mode, likeness) ==
    CASE likeness = "exact" -> "exact"
      [] likeness = "prefix" /\ mode # "exact" -> "prefix"
      [] likeness = "substring" /\ mode = "substring" -> "substring"
      [] OTHER -> None

\* Mutant: a prefix is worth nearly as much as the whole name.
GenerousMatchPoints(match) ==
    CASE match = "exact" -> 1000 [] match = "prefix" -> 900 [] match = "substring" -> 400
MatchPoints(match) ==
    CASE match = "exact" -> 1000 [] match = "prefix" -> 700 [] match = "substring" -> 400

\* A place in the list of kinds below the second is worth nothing.
KindPoints(rank) == CASE rank = 0 -> 100 [] rank = 1 -> 50 [] OTHER -> 0
VisibilityPoints(visibility) ==
    CASE visibility = "default_export" -> 25 [] visibility = "exported" -> 20 [] OTHER -> 0
DepthPoints(depth) == IF depth < 10 THEN 10 - depth ELSE 0

Flag(condition, points) == IF condition THEN points ELSE 0

\* The score of a match with its factors.
Score(match, sameCase, rank, visibility, filename, depth) ==
    MatchPoints(match) + Flag(sameCase, 40) + KindPoints(rank) + VisibilityPoints(visibility)
        + Flag(filename, 10) + DepthPoints(depth)

\* kind_preference_rank, past the end for a query of no kinds.
KindRank(q, kind) ==
    IF q.kinds = <<>> THEN 1000
    ELSE (CHOOSE n \in DOMAIN q.kinds : q.kinds[n] = kind /\ \A m \in 1..(n - 1) : q.kinds[m] # kind) - 1

\* The hit of a symbol that matches.
RankSymbol(p, q, x) ==
    LET name == DisplayName(p, x)
        match == Classify(q.mode, Likeness[name][q.text])
        rank == KindRank(q, KindOf(p, x))
    IN  [at |-> x, match |-> match, rank |-> rank,
         score |-> Score(match, <<name, q.text>> \in SameCase, rank, Visibility(p, x),
                         q.text \in StemOf[x[1]], ContainerDepth(p, x))]

-----------------------------------------------------------------------------
(* Search                                                                  *)

\* candidate_symbols: the exact mode looks names up in the index of the graph.
Candidates(p, q) ==
    IF q.mode = "exact"
    THEN {x \in SymbolPlaces(p) : Likeness[DisplayName(p, x)][q.text] = "exact"}
    ELSE SymbolPlaces(p)

Hits(p, q) ==
    {RankSymbol(p, q, x) : x \in
        {y \in Candidates(p, q) :
            /\ y[1] \in q.within
            /\ q.kinds # <<>> => \E n \in DOMAIN q.kinds : q.kinds[n] = KindOf(p, y)
            /\ Classify(q.mode, Likeness[DisplayName(p, y)][q.text]) # None}}

\* compare_ranked_hits, up to the texts.
Ahead(h, g) == h.score > g.score \/ (h.score = g.score /\ h.rank < g.rank)

\* search_limit of the daemon.
SearchLimit(requested) ==
    Min({IF requested = 0 THEN Max({DefaultLimit, 1}) ELSE requested, Max({MaxLimit, 1})})

\* The hits that may be left when the answer is sorted and cut.
Search(p, q) ==
    LET hits == Hits(p, q) IN
    {answer \in SUBSET hits :
        /\ Cardinality(answer) = Min({SearchLimit(q.limit), Cardinality(hits)})
        /\ \A h \in answer, g \in hits \ answer : ~Ahead(g, h)}

=============================================================================
