--------------------------- MODULE MCSemanticIndex ---------------------------
(* An edit of one of two files, then a new name for the package and the     *)
(* removal of a file; two embedding providers, and a configuration that     *)
(* excludes a file.  Queries for the better and for the worse of two chunks *)
(* alone, for both, and for too many.                                       *)
EXTENDS SemanticIndex, TLC

MCSnapshots ==
    "s1" :> [files |-> [a |-> "x", b |-> "y"], package |-> "p"] @@
    "s2" :> [files |-> [a |-> "z", b |-> "y"], package |-> "p"] @@
    "s3" :> [files |-> [a |-> "z", b |-> None], package |-> "q"]
MCSetups == {[digest |-> "A", excluded |-> {}], [digest |-> "B", excluded |-> {}],
             [digest |-> "A", excluded |-> {"b"}]}

MCWords == "a" :> {"a"} @@ "b" :> {} @@ "x" :> {"a", "t"} @@ "y" :> {"t"} @@ "z" :> {} @@ "p" :> {} @@ "q" :> {"t"}
MCSimilarity == "x" :> 700 @@ "y" :> 900 @@ "z" :> 900
Only(facet, values) == [f \in Facet |-> IF f = facet THEN values ELSE NoFilter]
Query(filters, limit, mode) ==
    [terms |-> {"a", "t"}, characters |-> 4, longest |-> 3, filters |-> filters, limit |-> limit, mode |-> mode]
MCQueries ==
    {Query(Only("path", {p}), 1, mode) : p \in Path, mode \in {"hybrid", "off"}}
    \union {Query(Only("packageName", {"q"}), 1, "hybrid"), Query(Only("symbolKind", {"class"}), 2, "off"),
            Query(Only("path", NoFilter), 3, "off")}
MCKindTerms == [kind \in {"class"} |-> {}]
=============================================================================
