--------------------------- MODULE MCSymbolEdits ---------------------------
(* Two files that import from one another, and names a and b. *)
EXTENDS SymbolEdits, TLC

Node(kind, name, other, export, from, sig) ==
    [kind |-> kind, name |-> name, other |-> other, export |-> export, from |-> from, sig |-> sig]
Declaration(kind, name, export) == Node(kind, name, "", export, None, "")

MCNodes == [f \in File |->
    LET g == CHOOSE h \in File : h # f IN
    {Node("import", "a", x, "no", g, "") : x \in {"a", "default"}}
    \union {Node("import", "b", "*", "no", g, "")}
    \union {Declaration("function", "a", x) : x \in {"no", "default"}}
    \union {Declaration("class", "a", "no"), Declaration("method", "b", "no")}
    \union {Node("export", "a", "a", "no", None, ""), Node("export", "b", "a", "no", None, "")}
    \union {Node("reexport", "a", "a", "no", g, ""), Node("reexport", "b", "a", "no", g, "")}
    \union {Node("ref", "a", "", "no", None, ""), Node("broken", "a", "", "named", None, "broken")}]

\* The text is a name of a file, and a in capitals; b stands for a name that
\* begins with it.
MCLikeness == [x \in {"a", "b"} \union File |->
    [t \in Text |-> IF x = "a" THEN "exact" ELSE IF x = "b" THEN "prefix" ELSE "substring"]]
MCSameCase == {"b"} \X Text
MCStemOf == [f \in File |-> Text]
MCQueries ==
    {[text |-> t, mode |-> "substring", kinds |-> kinds, within |-> File, limit |-> 0] :
        t \in Text, kinds \in {<<"import_binding", "function">>}}

Files == Permutations(File)
=============================================================================
