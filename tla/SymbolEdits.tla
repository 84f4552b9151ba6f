----------------------------- MODULE SymbolEdits -----------------------------
(***************************************************************************)
(* A program that is written one node at a time, anywhere in any file, and *)
(* what the symbol index says of it after every edit.                      *)
(***************************************************************************)
EXTENDS SemanticChunks

CONSTANTS
    Nodes,     \* syntax nodes to choose from, by file
    Queries,   \* searches
    MaxSize    \* bound: nodes of a program

ASSUME NodesAssumption == IsFiniteSet(File) /\ \A f \in File : \A n \in Nodes[f] : IsNode(n, f)
ASSUME QueriesAssumption == \A q \in Queries : IsQuery(q)
ASSUME SizeAssumption == MaxSize \in Nat

VARIABLE program  \* by file, its nodes in order, each with its parent's place

\* Nodes of a program.
Size(p) == MapThenSumSet(LAMBDA f : Len(p[f]), File)

EditsInit == program = [f \in File |-> <<>>]

Placed(n, parent) ==
    [kind |-> n.kind, name |-> n.name, other |-> n.other, export |-> n.export, from |-> n.from,
     sig |-> n.sig, parent |-> parent]

\* What is at a place or after it moves down.
Moved(n, i) == IF n.parent >= i THEN [n EXCEPT !.parent = @ + 1] ELSE n

\* A node is written at some place of a file.
Write(f, i, n, parent) ==
    /\ Size(program) < MaxSize
    /\ program' = [program EXCEPT ![f] =
          [j \in 1..(Len(@) + 1) |->
              IF j < i THEN @[j] ELSE IF j = i THEN Placed(n, parent) ELSE Moved(@[j - 1], i)]]
    /\ WellFormed(program', f)

EditsNext ==
    \E f \in File : \E i \in 1..(Len(program[f]) + 1) : \E n \in Nodes[f] :
        \E parent \in 0..(i - 1) : Write(f, i, n, parent)

Edits == EditsInit /\ [][EditsNext]_program

-----------------------------------------------------------------------------
(* Properties                                                              *)

\* Writing code anywhere in a program, above, below or inside what is there,
\* takes no symbol its id: ids outlive the movement of lines, so what another
\* snapshot says of a symbol can be compared with what this one says.  Only what
\* was recovered from broken text gives way, to a symbol of its name.
IdsAreStable ==
    [][AllSymbols(program) \subseteq
          AllSymbols(program') \union
          UNION {{Id(program, f, i) : i \in Recovered(program, f)} : f \in File}]_program

\* No use of a symbol is lost: whatever place the cursor is at, what it
\* resolves to lists that occurrence among its definitions or its references,
\* through any chain of imports and re-exports, also a cyclic one.
EveryUseIsFound ==
    \A f \in File : \A i \in Places(program, f) :
        LET o == Resolve(program, f, i) IN
        \/ o \in DefinitionOccurrences(program, o.symbol)
        \/ o \in ReferenceOccurrences(program, o.symbol)

\* Names as the modules of the language bind them, each name of a file bound
\* and exported once.  The graph cannot follow a local export in a file that
\* also re-exports something under the name of the local symbol.
Bindings(p, f) == {i \in Places(p, f) : p[f][i].parent = 0 /\ (Declares(p[f][i]) \/ p[f][i].kind = "import")}
Clauses(p, f) ==
    {i \in Places(p, f) : p[f][i].kind \in {"export", "reexport"} \/ (Declares(p[f][i]) /\ p[f][i].export # "no")}
Regular(p, f) ==
    /\ \A i, j \in Bindings(p, f) : p[f][i].name = p[f][j].name => i = j
    /\ \A i, j \in Clauses(p, f) : ExportedName(p[f][i]) = ExportedName(p[f][j]) => i = j
    /\ \A i, j \in Clauses(p, f) :
          p[f][i].kind = "export" /\ p[f][j].kind = "reexport" => p[f][i].other # p[f][j].name
    /\ \A i \in Places(p, f) : p[f][i].kind # "broken"

\* The places in its file that give an exported name its meaning.
Meant(p, file, name) ==
    IF file = None THEN {}
    ELSE UNION {IF p[file][i].kind = "export" THEN {j \in Bindings(p, file) : p[file][j].name = p[file][i].other}
                ELSE {i} : i \in {k \in Clauses(p, file) : ExportedName(p[file][k]) = name}}

Sources(p, f, places) ==
    {<<p[f][i].from, p[f][i].other>> :
        i \in {j \in places : p[f][j].kind \in {"import", "reexport"} /\ p[f][j].other # "*"}}

\* The declarations that a name exported by a file stands for: those among
\* what it means, and what that is imported or re-exported from means.
StandsFor(p, file, name) ==
    LET sought == {<<file, name>>} \union UNION {Sources(p, f, Places(p, f)) : f \in File}
        next == [x \in sought |-> Sources(p, x[1], Meant(p, x[1], x[2]))]
        found == {x \in sought : \A S \in SUBSET sought : <<file, name>> \in S /\ (\A y \in S : next[y] \subseteq S) => x \in S}
    IN  UNION {{Id(p, x[1], i) : i \in {j \in Meant(p, x[1], x[2]) : Declares(p[x[1]][j])}} : x \in found}

\* In a program whose names are unambiguous the definition of an import is
\* the declaration that the language binds it to, through re-exports, renamed
\* exports and exports of imports; and an import of what is nowhere declared
\* has no definition but itself.
ImportsFindDeclarations ==
    (\A f \in File : Regular(program, f)) =>
        \A f \in File : \A i \in Imports(program, f) :
            LET n == program[f][i]
                found == {o \in DefinitionOccurrences(program, Id(program, f, i)) : o.role = "definition"} IN
            n.other # "*" => {o.symbol : o \in found} = StandsFor(program, n.from, n.other)

\* A wider search never hides what a narrower one would show: when the limit
\* cuts the answer in a wider mode, what matches as in the narrower mode is in
\* it, or nothing else is; however kinds, exports, file names and nesting are
\* scored.
NarrowModesAgree ==
    \A q \in Queries : \A m \in Mode :
        q.mode = "substring" /\ m # "substring" =>
            LET narrow == Hits(program, [q EXCEPT !.mode = m]) IN
            \A answer \in Search(program, q) : narrow \subseteq answer \/ answer \subseteq narrow

\* The chunks of a file are made of that file alone: SemanticIndex keeps those
\* of a file that did not change, whatever its imports now lead to.  And no
\* symbol that is declared is left out of the chunks of its file.
Alone(f) == [g \in File |-> IF g = f THEN program[f] ELSE <<>>]
ChunksAreLocal ==
    \A f \in File :
        /\ Chunks(program, f) = Chunks(Alone(f), f)
        /\ \A i \in Places(program, f) : Declares(program[f][i]) =>
              \E c \in Chunks(program, f) : c.symbol = Id(program, f, i)

=============================================================================
