------------------------------ MODULE ImpactPlan ------------------------------
(***************************************************************************)
(* What impact analysis derives from the symbol graph of a program: the    *)
(* reverse indexes of impact_enrichment.rs, and the same put together from *)
(* what each file contributes, so that a file whose signature is unchanged *)
(* need not be looked at again (incremental.rs).                           *)
(*                                                                         *)
(* A program p is as in SymbolFacts; k gives the package of each file, by  *)
(* the package.json files of the snapshot.  Occurrences are named by their *)
(* file and place, associations of tests by their evidence.                *)
(***************************************************************************)
EXTENDS SymbolFacts

CONSTANTS
    TestFile,  \* files whose paths are those of tests
    Stem       \* by file, its name without suffixes (file_source_stem)

ASSUME TestFileAssumption == TestFile \subseteq File

-----------------------------------------------------------------------------
(* The symbols behind aliases, and owners of occurrences                   *)

\* The symbols a walk along aliases ends in: one, or those of a cycle.
Loop(walk) == {walk[m] : m \in {n \in 1..Len(walk) : \E j \in 1..n : walk[j] = Last(walk)}}

\* canonical_symbol_map: of a cycle the member that the order of ids takes
\* first stands for all of them.
CanonicalMap(p) ==
    LET edges == AliasEdges(p)
    IN  [s \in AllSymbols(p) |-> CHOOSE c \in Loop(Walk(edges, s)) : TRUE]

\* owner_symbol_for_span: the narrowest symbol around an occurrence.
Owner(p, f, i) ==
    LET around == (Around(p, f, i) \union {i}) \intersect Kept(p, f)
    IN  IF i = 0 \/ around = {} THEN None ELSE Id(p, f, Max(around))

FileOf(s) == s[1]

-----------------------------------------------------------------------------
(* Files: imports between them, packages and tests                         *)

\* The files that a file imports or re-exports from.
Dependencies(p, f) ==
    {p[f][i].from : i \in {j \in Places(p, f) : p[f][j].kind \in {"import", "reexport"}}} \intersect Present(p)

\* source_candidates_by_package_and_stem, for a test file.
HeuristicCandidates(p, k, f) ==
    IF f \in TestFile /\ k[f] # None
    THEN {g \in Present(p) \ TestFile : k[g] = k[f] /\ Stem[g] = Stem[f]} ELSE {}
HeuristicTarget(candidates) == IF Cardinality(candidates) = 1 THEN candidates ELSE {}

\* Occurrences of a file, with the symbols they stand for and their owners.
Uses(p, c, f, roles) ==
    {[role |-> o.role, symbol |-> o.symbol, to |-> c[o.symbol], file |-> f, at |-> o.at,
      owner |-> Owner(p, f, o.at)] : o \in {q \in Occurrences(p, f) : q.role \in roles}}
UseRoles == {"reference", "import", "export"}

Reference(u) == [file |-> u.file, at |-> u.at, owner |-> u.owner]
Association(f, evidence, role, owner) == [test |-> f, evidence |-> evidence, role |-> role, owner |-> owner]

-----------------------------------------------------------------------------
(* The plan, from the whole graph: ImpactEnrichmentPlanner                 *)

\* package_indexes.
PackageByFile(p, k) == {<<f, k[f]>> : f \in {g \in Present(p) : k[g] # None}}

\* reverse_edge_indexes: what is looked up, with what is found there.
ReverseEdges(p, c) ==
    [imports |-> {<<c[e[2]], e[1]>> : e \in BindingEdges(p, {"import"})},
     exports |-> {<<c[e[2]], e[1]>> : e \in BindingEdges(p, {"reexport"})},
     dependents |-> UNION {{<<g, f>> : g \in Dependencies(p, f)} : f \in Present(p)}]

\* reverse_reference_indexes.
ReverseReferences(p, c) ==
    {<<u.to, Reference(u)>> : u \in UNION {Uses(p, c, f, {"reference"}) : f \in Present(p)}}

\* test_associations.
TestAssociations(p, k, c) ==
    LET tests == Present(p) \intersect TestFile
        elsewhere == UNION {{u \in Uses(p, c, f, UseRoles) : FileOf(u.to) # f} : f \in tests}
        Found(u) == Association(u.file, "references", u.role, u.owner)
    IN  [symbolTests |-> {<<u.to, Found(u)>> : u \in elsewhere},
         fileTests |->
            {<<FileOf(u.to), Found(u)>> : u \in elsewhere} \union
            UNION {{<<g, Association(f, "imports", "", None)>> : g \in Dependencies(p, f)} \union
                   {<<g, Association(f, "heuristic", "", None)>> :
                        g \in HeuristicTarget(HeuristicCandidates(p, k, f))} : f \in tests}]

EnrichmentPlan(p, k) ==
    LET c == CanonicalMap(p)
        edges == ReverseEdges(p, c)
        tests == TestAssociations(p, k, c)
    IN  [canonical |-> c,
         packages |-> PackageByFile(p, k),
         symbols |-> UNION {{f} \X Symbols(p, f) : f \in Present(p)},
         references |-> ReverseReferences(p, c),
         imports |-> edges.imports, exports |-> edges.exports, dependents |-> edges.dependents,
         symbolTests |-> tests.symbolTests, fileTests |-> tests.fileTests]

-----------------------------------------------------------------------------
(* The plan, from what each file contributes: IncrementalImpactBuilder     *)

\* symbol_edge_signature_targets, symbol_edge_contributions.
LinkTargets(p, c, f, kind) ==
    {<<e[1], c[e[2]]>> : e \in {d \in BindingEdges(p, {kind}) : d[1] \in Symbols(p, f)}}

SignatureRoles(f) == IF f \in TestFile THEN UseRoles ELSE {"reference"}

FileSignature(p, k, c, f) ==
    [owned |-> Symbols(p, f),
     uses |-> Uses(p, c, f, SignatureRoles(f)),
     files |-> Dependencies(p, f),
     imports |-> LinkTargets(p, c, f, "import"), exports |-> LinkTargets(p, c, f, "reexport"),
     package |-> k[f], candidates |-> HeuristicCandidates(p, k, f)]

\* test_contributions.
TestContribution(p, k, uses, f) ==
    LET elsewhere == {u \in uses : FileOf(u.to) # f}
        Found(u) == Association(f, "references", u.role, u.owner)
    IN  IF f \notin TestFile THEN [symbolTests |-> {}, fileTests |-> {}]
        ELSE [symbolTests |-> {<<u.to, Found(u)>> : u \in elsewhere},
              fileTests |->
                 {<<g, Association(f, "imports", "", None)>> : g \in Dependencies(p, f)} \union
                 {<<FileOf(u.to), Found(u)>> : u \in elsewhere} \union
                 {<<g, Association(f, "heuristic", "", None)>> :
                     g \in HeuristicTarget(HeuristicCandidates(p, k, f))}]

\* build_file_contribution.
Contribution(p, k, c, f) ==
    LET uses == Uses(p, c, f, UseRoles)
        tests == TestContribution(p, k, uses, f)
    IN  [signature |-> FileSignature(p, k, c, f),
         references |-> {<<u.to, Reference(u)>> : u \in {v \in uses : v.role = "reference"}},
         imports |-> {<<l[2], l[1]>> : l \in LinkTargets(p, c, f, "import")},
         exports |-> {<<l[2], l[1]>> : l \in LinkTargets(p, c, f, "reexport")},
         dependents |-> {<<g, f>> : g \in Dependencies(p, f)},
         symbolTests |-> tests.symbolTests, fileTests |-> tests.fileTests]

\* build_full: a contribution of every file.
AllContributions(p, k) == LET c == CanonicalMap(p) IN [f \in Present(p) |-> Contribution(p, k, c, f)]

\* touched_files: what the snapshots differ in, and what has another signature.
Touched(changed, before, fresh) ==
    {f \in DOMAIN before \union DOMAIN fresh :
        \/ f \in changed
        \/ f \notin DOMAIN before \intersect DOMAIN fresh
        \/ before[f].signature # fresh[f].signature}

\* build_incremental: of the contributions that the files would have now, only
\* those of touched files are built.
Refreshed(changed, before, fresh) ==
    LET touched == Touched(changed, before, fresh)
    IN  [f \in DOMAIN fresh |-> IF f \in touched THEN fresh[f] ELSE before[f]]

\* assemble_plan.
Assemble(p, k, contributions) ==
    LET All(index) == UNION {contributions[f][index] : f \in DOMAIN contributions}
    IN  [canonical |-> CanonicalMap(p),
         packages |-> PackageByFile(p, k),
         symbols |-> UNION {{f} \X Symbols(p, f) : f \in Present(p)},
         references |-> All("references"), imports |-> All("imports"), exports |-> All("exports"),
         dependents |-> All("dependents"), symbolTests |-> All("symbolTests"),
         fileTests |-> All("fileTests")]

=============================================================================
