---------------------------- MODULE MCSymbolIndex ----------------------------
(* An edit, a file that moves from the overlay into the commit, a removal   *)
(* and a file whose facts cannot be stored; a configuration with one        *)
(* language and no long files, one that keeps more diagnostics than the     *)
(* one that is said to keep none, and a version with a new schema.          *)
EXTENDS SymbolIndex, TLC

MCLanguage == <<"ts", "tsx">>
MCPlace == <<"own", "own">>
MCErrors == "fine" :> 0 @@ "errors" :> 2 @@ "twice" :> 0
MCSize == "fine" :> 1 @@ "errors" :> 2 @@ "twice" :> 1
Base(c) == [content |-> c, from |-> "base"]
Overlay(c) == [content |-> c, from |-> "overlay"]
MCSnapshots ==
    "s1" :> <<Base("fine"), Overlay("errors")>> @@
    "s2" :> <<Base("errors"), Base("errors")>> @@
    "s3" :> <<Overlay("twice"), None>>
Plain == [ignored |-> {}, languages |-> {}, maxBytes |-> 2, limit |-> 0, schema |-> 1]
MCSetups == {Plain, [Plain EXCEPT !.languages = {"ts"}, !.maxBytes = 1],
             [Plain EXCEPT !.limit = 2],
             [Plain EXCEPT !.schema = 2]}
=============================================================================
