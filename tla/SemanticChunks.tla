---------------------------- MODULE SemanticChunks ----------------------------
(***************************************************************************)
(* The chunks that the semantic index makes of a program (chunker.rs):     *)
(* one for each symbol that matters, with what is said around it, and one  *)
(* for a file that has none.  Comments and the packages of files are left  *)
(* out; lists are never so long that they are cut.                         *)
(***************************************************************************)
EXTENDS SymbolSearch

\* is_major_symbol, of the kinds of symbols that programs have here.
IsMajorSymbol(kind) == kind \in {"class", "function", "method", "constructor"}
MajorSymbols(p, f) == {i \in Kept(p, f) : IsMajorSymbol(SymbolKind(p[f][i]))}

\* Mutant: imports are named by what they stand for.
ResolvedImportContext(p, f) == {Canonical(p, Id(p, f, i)) : i \in Imports(p, f)}

\* import_context: the specifiers.
ImportContext(p, f) == {p[f][i].from : i \in Imports(p, f)}

\* export_context_for_symbol and export_context_for_file.
ExportContext(p, f, symbols) ==
    {<<ExportedName(p[f][i]), p[f][i].name, p[f][i].from>> :
        i \in {j \in Exporting(p, f) : Exports(p, f, j) \in symbols}}

\* container_chain, without the module.
ContainerChain(p, f, i) == {Id(p, f, j) : j \in Around(p, f, i) \ {0}}

\* slice_for_span: the nodes of the symbol, and of the file.
Slice(p, f, i) ==
    {<<j, p[f][j]>> : j \in {k \in Places(p, f) : i \in Around(p, f, k) \union {k}}}

\* serialize_symbol_chunk: what its text is put together from.
SymbolChunk(p, f, i) ==
    [path |-> f, at |-> i, kind |-> "symbol_body", symbol |-> Id(p, f, i), visibility |-> Visibility(p, <<f, i>>),
     containers |-> ContainerChain(p, f, i), imports |-> ImportContext(p, f),
     exports |-> ExportContext(p, f, {Id(p, f, i)}), source |-> Slice(p, f, i)]

\* serialize_file_chunk; what kind of file it is, its path tells.
FileChunk(p, f) ==
    [path |-> f, at |-> 0, kind |-> "file", symbol |-> None, visibility |-> None,
     containers |-> {}, imports |-> ImportContext(p, f),
     exports |-> ExportContext(p, f, Symbols(p, f)), source |-> Slice(p, f, 0)]

\* build_for_files, for a file with contents.
Chunks(p, f) ==
    IF p[f] = <<>> THEN {}
    ELSE IF MajorSymbols(p, f) = {} THEN {FileChunk(p, f)}
    ELSE {SymbolChunk(p, f, i) : i \in MajorSymbols(p, f)}

=============================================================================
