----------------------------- MODULE SymbolFacts -----------------------------
(***************************************************************************)
(* What the symbol index says of a program: the facts of its files         *)
(* (symbols/facts.rs), the graph that links them across files              *)
(* (symbol_graph.rs) and the queries on definitions and references         *)
(* (symbol_query.rs), as functions of the program.                         *)
(*                                                                         *)
(* A program is, by file, the sequence of its syntax nodes: declarations,  *)
(* imports, clauses of export statements and uses of identifiers.  The     *)
(* place of a node in its file is its span.  Module specifiers are given   *)
(* by the file they resolve to, or None; an empty file is not there.       *)
(***************************************************************************)
EXTENDS Naturals, FiniteSets, FiniteSetsExt, SequencesExt, Functions

CONSTANTS
    File,      \* paths of the program's files
    None       \* no file, no symbol

\* kind    what the node is
\* name    the name it declares, binds, exports or uses
\* other   import: the imported name, "*" for all; export: the local name
\* export  a declaration's export: "no", "named" or "default"
\* from    import, reexport: the file its specifier resolves to
\* sig     what of the declaration is digested
\* broken  an exported function in text that the grammar makes nothing of
Kind == {"import", "function", "class", "method", "export", "reexport", "ref", "broken"}

IsNode(n, f) ==
    /\ n.kind \in Kind
    /\ n.from \in (File \ {f}) \union {None}
    /\ n.export \in {"no", "named", "default"}

ASSUME NoneAssumption == None \notin File

Declares(n) == n.kind \in {"function", "class", "method"}

-----------------------------------------------------------------------------
(* Symbols: walk and its handlers, with seed_module_symbol                 *)

Places(p, f) == DOMAIN p[f]

\* The nodes around a node, from the module (place 0) to its parent.
Around(p, f, i) ==
    LET up[j \in 0..Len(p[f])] == IF j = 0 THEN {0} ELSE {j} \union up[p[f][j].parent]
    IN  up[p[f][i].parent]

\* A file that the grammar allows: methods are in classes, imports and exports
\* at the top, and a node is within what is still open where it stands.
WellFormed(p, f) ==
    \A i \in Places(p, f) :
        LET n == p[f][i] IN
        /\ n.parent < i
        /\ n.parent # 0 => Declares(p[f][n.parent])
        /\ i > 1 => n.parent \in Around(p, f, i - 1) \union {i - 1}
        /\ n.kind = "method" => n.parent # 0 /\ p[f][n.parent].kind = "class"
        /\ n.parent # 0 /\ p[f][n.parent].kind = "class" => n.kind \in {"method", "ref"}
        /\ n.kind \in {"import", "export", "reexport", "broken"} => n.parent = 0
        /\ n.export # "no" => n.parent = 0

\* handle_import, collect_export_bindings: what makes a symbol, and its kind.
MakesSymbol(n) == Declares(n) \/ n.kind \in {"import", "reexport"}
SymbolKind(n) ==
    CASE n.kind = "method" /\ n.name = "constructor" -> "constructor"
      [] n.kind \in {"import", "reexport"} -> "import_binding"
      [] n.kind = "broken" -> "function"
      [] OTHER -> n.kind

\* signature_source of push_symbol, in the handlers that call it.
Signature(n) ==
    IF n.kind \in {"import", "reexport"} THEN <<n.kind, n.from, n.other, n.name>>
    ELSE <<n.kind, n.name, n.sig>>

ModuleId(f) == <<f, "module">>

\* Mutant: the place is digested too.
SymbolIdAtPlace(p, f, i) == <<f, SymbolKind(p[f][i]), i, p[f][i].name, Signature(p[f][i])>>

\* symbol_id: the file, the kind, the container, the name and the signature.
SymbolId(p, f, i) ==
    LET id[j \in 0..Len(p[f])] ==
            IF j = 0 THEN ModuleId(f)
            ELSE <<f, SymbolKind(p[f][j]), id[p[f][j].parent], p[f][j].name, Signature(p[f][j])>>
    IN  id[i]

Id(p, f, i) == IF i = 0 THEN ModuleId(f) ELSE SymbolId(p, f, i)

\* recover_broken_export_bindings_from_source: in the text of a file with
\* errors, what has the name of no symbol at the top of the file.
Recovered(p, f) ==
    {i \in Places(p, f) :
        /\ p[f][i].kind = "broken"
        /\ \A j \in Places(p, f) \ {i} :
              p[f][j].parent = 0 /\ p[f][j].name = p[f][i].name =>
                \/ ~MakesSymbol(p[f][j]) /\ (p[f][j].kind = "broken" => i < j)
                \/ p[f][j].kind = "reexport"}

\* push_symbol keeps the first of the symbols with one id.
Made(p, f) == {i \in Places(p, f) : MakesSymbol(p[f][i])} \union Recovered(p, f)
Kept(p, f) ==
    LET made == Made(p, f)
        id == [i \in made |-> Id(p, f, i)]
    IN  {i \in made : \A j \in made : j < i => id[j] # id[i]}

Present(p) == {f \in File : p[f] # <<>>}
Symbols(p, f) ==
    {ModuleId(g) : g \in {f} \intersect Present(p)} \union {Id(p, f, i) : i \in Made(p, f)}
AllSymbols(p) == UNION {Symbols(p, f) : f \in File}
Container(p, f, i) == Id(p, f, p[f][i].parent)

-----------------------------------------------------------------------------
(* Exports: handle_export_statement, finalize_pending_exports              *)

ExportedName(n) == IF n.export = "default" THEN "default" ELSE n.name

\* Mutant: an export clause has its turn where it stands.
NamedSoFar(p, f, name, k) ==
    {Id(p, f, i) : i \in {j \in Kept(p, f) : p[f][j].parent = 0 /\ p[f][j].name = name /\ j < k}}

\* top_level_symbols_by_name when the export clause at k has its turn: the
\* reexports before it have symbols by then.
TopLevelNamed(p, f, name, k) ==
    {Id(p, f, i) : i \in {j \in Kept(p, f) : /\ p[f][j].parent = 0 /\ p[f][j].name = name
                                             /\ p[f][j].kind = "reexport" => j < k}}

\* The symbol that the node exports, None if it exports none.
Exports(p, f, i) ==
    LET n == p[f][i] IN
    CASE (Declares(n) /\ n.export # "no") \/ n.kind = "reexport" \/ i \in Recovered(p, f) -> Id(p, f, i)
      [] n.kind = "export" ->
            LET candidates == TopLevelNamed(p, f, n.other, i) IN
            IF Cardinality(candidates) = 1 THEN CHOOSE s \in candidates : TRUE ELSE None
      [] OTHER -> None

Exporting(p, f) == {i \in Places(p, f) : Exports(p, f, i) # None}

Imports(p, f) == {i \in Places(p, f) : p[f][i].kind = "import"}

-----------------------------------------------------------------------------
(* References: walk_references, resolve_reference_symbol                   *)

\* find_owned_symbol finds no symbol for a declaration that was skipped as a
\* duplicate, and its body is not walked.
Walked(p, f, i) == \A j \in Around(p, f, i) \ {0} : j \in Kept(p, f)

\* The symbols of a name in a container that begin before the use.
Owned(p, f, container, name, at) ==
    {j \in Kept(p, f) : /\ Container(p, f, j) = container
                        /\ p[f][j].name = name /\ j <= at}

\* Containers are tried from the innermost: itself, then the last it owns.
BindingAt(p, f, name, at, c) ==
    IF c # 0 /\ p[f][c].name = name THEN {c}
    ELSE LET owned == Owned(p, f, Id(p, f, c), name, at) IN
         IF owned = {} THEN {} ELSE {Max(owned)}
ResolveReference(p, f, at) ==
    LET bound == [c \in Around(p, f, at) |-> BindingAt(p, f, p[f][at].name, at, c)]
        having == {c \in DOMAIN bound : bound[c] # {}}
    IN  IF having = {} THEN None ELSE Id(p, f, CHOOSE i \in bound[Max(having)] : TRUE)

Occurrence(s, role, f, i) == [symbol |-> s, role |-> role, file |-> f, at |-> i]

\* The occurrences of a file: push_define_occurrence, push_occurrence_at_span,
\* push_reference_occurrence.
Occurrences(p, f) ==
    {Occurrence(ModuleId(g), "definition", g, 0) : g \in {f} \intersect Present(p)}
    \union {Occurrence(Id(p, f, i), "definition", f, i) : i \in {j \in Places(p, f) : Declares(p[f][j])} \union Recovered(p, f)}
    \union {Occurrence(Id(p, f, i), "import", f, i) : i \in Imports(p, f)}
    \union {o \in {Occurrence(Exports(p, f, i), "export", f, i) : i \in Places(p, f)}
                \union {Occurrence(ResolveReference(p, f, i), "reference", f, i) :
                            i \in {j \in Places(p, f) : p[f][j].kind = "ref" /\ Walked(p, f, j)}} :
               o.symbol # None}
AllOccurrences(p) == UNION {Occurrences(p, f) : f \in File}

-----------------------------------------------------------------------------
(* The graph: SymbolGraphBuilder                                           *)

ExportedAs(p, f, name) ==
    {Exports(p, f, i) : i \in {j \in Places(p, f) : ExportedName(p[f][j]) = name}} \ {None}

\* unique_exported_symbol, of a file that the resolver has found.
UniqueExportedSymbol(p, f, name) ==
    LET exported == IF f = None THEN {} ELSE ExportedAs(p, f, name)
    IN  IF Cardinality(exported) = 1 THEN exported ELSE {}

\* The edges from the bindings of some kinds to what they stand for.
BindingEdges(p, kinds) ==
    UNION {UNION {{<<Id(p, f, i), s>> : s \in UniqueExportedSymbol(p, p[f][i].from, p[f][i].other)} :
                      i \in {j \in Places(p, f) : p[f][j].kind \in kinds /\ p[f][j].other # "*"}} : f \in File}
AliasEdges(p) == BindingEdges(p, {"import", "reexport"})

Targets(edges, s) == {e[2] : e \in {d \in edges : d[1] = s}}

\* canonical_symbol_id: edges are followed while there is one to follow and it
\* leads to a symbol not yet seen.
Walk(edges, s) ==
    LET N == Cardinality(edges) + 1
        walk[n \in 0..N] ==
            IF n = 0 THEN <<s>>
            ELSE LET before == walk[n - 1]
                     next == Targets(edges, Last(before)) IN
                 IF Cardinality(next) # 1 \/ \E m \in 1..(Len(before) - 1) : before[m] = Last(before)
                 THEN before ELSE Append(before, CHOOSE t \in next : TRUE)
    IN  walk[N]
CanonicalIn(edges, s) == Last(Walk(edges, s))
Canonical(p, s) == CanonicalIn(AliasEdges(p), s)

\* reference_occurrences: the symbols that lead to a symbol, along any edges.
Upstream(p, s) ==
    LET edges == AliasEdges(p)
        up[n \in 0..Cardinality(edges)] ==
            IF n = 0 THEN {s}
            ELSE LET above == up[n - 1] IN above \union {e[1] : e \in {d \in edges : d[2] \in above}}
    IN  up[Cardinality(edges)]

-----------------------------------------------------------------------------
(* Queries                                                                 *)

Having(p, s, roles) == {o \in AllOccurrences(p) : o.symbol = s /\ o.role \in roles}

DefinitionOccurrences(p, s) ==
    LET canonical == Canonical(p, s)
        definitions == Having(p, canonical, {"definition"}) IN
    IF definitions = {} /\ canonical = s THEN Having(p, s, {"import"}) ELSE definitions

\* Mutant: only the symbol's own occurrences.
OwnReferenceOccurrences(p, s) == Having(p, Canonical(p, s), {"reference", "export"})
ReferenceOccurrences(p, s) ==
    LET canonical == Canonical(p, s)
        upstream == Upstream(p, canonical)
    IN  {o \in AllOccurrences(p) :
            /\ o.symbol \in upstream
            /\ o.role \in {"reference", "export"} \/ (o.role = "import" /\ o.symbol # canonical)}

\* best_occurrence_for_line_column: at the place of a node, the occurrence of
\* the narrowest span, that of the module being the whole file, and among those
\* of one span the first by role.
RoleRank(role) ==
    CASE role = "definition" -> 0 [] role = "import" -> 1
      [] role = "reference" -> 2 [] role = "export" -> 3
Resolve(p, f, i) ==
    LET around == {o \in Occurrences(p, f) : o.at \in {i, 0}}
        narrowest == {o \in around : o.at = i \/ \A q \in around : q.at = 0}
    IN  CHOOSE o \in narrowest : \A q \in narrowest : RoleRank(o.role) <= RoleRank(q.role)

=============================================================================
