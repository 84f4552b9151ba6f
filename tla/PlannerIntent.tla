----------------------------- MODULE PlannerIntent -----------------------------
(***************************************************************************)
(* What the planner takes a text for: extract_features of                  *)
(* intent_router.rs.  A text is its words and the form they are written    *)
(* in; the shape of a word (camel case, dots, slashes) is a set it is in.  *)
(***************************************************************************)
EXTENDS PlannerLists

CONSTANTS
    Identifiers,      \* words written as names are: invalidateSession
    Qualified,        \* names of members: Store.get
    Paths             \* names of files

None == "none"

\* unique_preserve_order, push_route.
Unique(items) == Picked(items, {i \in DOMAIN items : \A j \in 1..(i - 1) : items[j] # items[i]})

First(words, set) == LET found == Kept(words, set) IN IF found = <<>> THEN None ELSE found[1]

Says(words, phrase) ==
    \E i \in 0 .. Len(words) - Len(phrase) : SubSeq(words, i + 1, i + Len(phrase)) = phrase

-----------------------------------------------------------------------------
(* Words                                                                   *)

QuestionWords == {"where", "how", "what", "which", "who", "why", "when"}
ActionWords ==
    {"invalidate", "rename", "delete", "remove", "change", "changes", "modify", "break", "breaks", "affect", "affects"}
StopWords ==
    {"a", "an", "the", "and", "or", "to", "of", "in", "on", "for", "with", "if", "i", "we", "do", "does",
     "this", "that", "it"} \union QuestionWords \union ActionWords
SymbolKeywords ==
    {"definition", "definitions", "reference", "references", "caller", "callers", "method", "class", "symbol",
     "member", "namespace"}
ImpactPhrases ==
    {<<"what", "breaks">>, <<"blast", "radius">>, <<"who", "depends", "on">>, <<"what", "depends", "on">>,
     <<"if", "i", "rename">>, <<"if", "i", "delete">>, <<"if", "i", "change">>, <<"affected", "by">>, <<"impact", "of">>}

IsNaturalLanguageQuestion(words) ==
    \/ words # <<>> /\ words[1] \in QuestionWords
    \/ \E phrase \in {<<"which", "file">>, <<"implementation">>, <<"what", "breaks">>} : Says(words, phrase)

SubjectTerms(words) == Kept(Unique(words), Range(words) \ StopWords)

\* How the subject is resolved: looks_like_path of the joined terms, with
\* a dot or a slash anywhere; only a path on its own is one of a file.
SubjectShape(words) ==
    LET terms == SubjectTerms(words)
    IN  CASE terms = <<>> -> None
          [] Range(terms) \cap (Paths \union Qualified) # {} -> IF Len(terms) = 1 /\ terms[1] \in Paths THEN "path" ELSE "dotted"
          [] OTHER -> "words"

\* The seed of a symbol lookup: a member's name, then any name; a single
\* word is one.
QualifiedSeed(text) == First(text.words, Qualified)
IdentifierSeed(text) ==
    IF text.form = "plain" /\ Len(Unique(text.words)) = 1 /\ text.words[1] \notin Paths \union Qualified
    THEN text.words[1]
    ELSE First(text.words, Identifiers)

ExactQuery(text) ==
    CASE text.form # "plain" -> text.form
      [] text.form = "plain" /\ First(text.words, Paths) # None -> "path"
      [] OTHER -> None

\* A text as the router, the policy and the routes see it.
ExtractFeatures(text) ==
    [exact    |-> ExactQuery(text),
     name     |-> IF QualifiedSeed(text) # None THEN QualifiedSeed(text) ELSE IdentifierSeed(text),
     keyword  |-> Range(text.words) \cap SymbolKeywords # {},
     question |-> IsNaturalLanguageQuestion(text.words),
     tokens   |-> Len(Unique(text.words)),
     phrase   |-> \E phrase \in ImpactPhrases : Says(text.words, phrase),
     action   |-> Range(text.words) \cap ActionWords # {},
     subject  |-> SubjectShape(text.words),
     terms    |-> SubjectTerms(text.words)]
=============================================================================
