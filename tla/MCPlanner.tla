------------------------------- MODULE MCPlanner -------------------------------
\* Texts of every kind, each query deviating from a plain one in one or, for
\* one text, two respects, over symbols that share a name, a place or neither.
EXTENDS Planner

CONSTANT Limits

Hit(symbol, path, span, score, fits) == [symbol |-> symbol, path |-> path, span |-> span, score |-> score, fits |-> fits]

MCNamed == {Hit(1, 1, <<0, 50>>, 1100, Filter), Hit(2, 1, <<55, 90>>, 1090, {"path", "language"})}

Chunk(n, symbol, path, span, score, fits) ==
    [chunk |-> n, symbol |-> symbol, path |-> path, span |-> span, score |-> score, fits |-> fits]

MCSemanticAnswers ==
    {<<Chunk(1, 1, 1, <<0, 50>>, 900000, Filter)>>,
     <<Chunk(2, 0, 1, <<40, 60>>, 990000, Filter), Chunk(3, 3, 1, <<55, 90>>, 700000, {"path", "package"})>>,
     <<Chunk(4, 0, 2, <<>>, 600000, {"package"})>>}

Reached(n, symbol, path, score, fits) == [entity |-> n, symbol |-> symbol, path |-> path, score |-> score, fits |-> fits]

MCImpactAnswers ==
    {<<Reached(1, 1, 1, 1000, {"path"}), Reached(2, 0, 2, 720, {}), Reached(3, 0, 0, 600, {"package"})>>,
     <<Reached(4, 2, 2, 985, {"path"})>>}

MCIdentifiers == {"invalidateSession", "Session"}
MCNames == MCIdentifiers \union {"Store.get"}

Plainly(words) == [form |-> "plain", words |-> words]

Texts ==
    {Plainly(<<"invalidateSession">>),
     [form |-> "regex", words |-> <<"session">>],
     Plainly(<<"where", "is", "Store.get", "used">>),
     Plainly(<<"rename", "invalidateSession">>),
     Plainly(<<"what", "breaks", "if", "i", "rename", "invalidateSession">>),
     Plainly(<<"where", "do", "we", "invalidate", "sessions">>),
     Plainly(<<"what", "breaks", "in", "src/a.ts">>),
     Plainly(<<"delete", "invalidateSession", "in", "src/a.ts">>),
     Plainly(<<"session", "cleanup">>),
     Plainly(<<"class", "Session", "src/a.ts">>)}

DefaultBudget ==
    [total |-> 15, routes |-> [exact |-> [timeout |-> 1, max |-> 4], symbol |-> [timeout |-> 3, max |-> 4],
                               semantic |-> [timeout |-> 4, max |-> 4], impact |-> [timeout |-> 6, max |-> 4]]]

Budgets ==
    {DefaultBudget, [DefaultBudget EXCEPT !.total = 7], [DefaultBudget EXCEPT !.total = 3],
     [DefaultBudget EXCEPT !.routes["semantic"].max = 0], [total |-> 5, routes |-> [symbol |-> [timeout |-> 6, max |-> 1]]]}

Plain(text) ==
    [method |-> "query", loaded |-> TRUE, text |-> text, selected |-> None, target |-> None, override |-> None, preferred |-> <<>>, disabled |-> {},
     filters |-> {}, exactSeed |-> FALSE, limit |-> 3, budget |-> DefaultBudget, explain |-> FALSE]

Deviations(q) ==
    {[q EXCEPT !.selected = c] : c \in Context} \union {[q EXCEPT !.target = c] : c \in {"file", "package"}}
    \union {[q EXCEPT !.override = r] : r \in Route} \union {[q EXCEPT !.disabled = {r}] : r \in Route}
    \union {[q EXCEPT !.preferred = s] : s \in {<<"impact">>, <<"semantic", "exact">>}}
    \union {[q EXCEPT !.filters = f] : f \in {{"path"}, {"package"}, {"kind", "language"}}}
    \union {[q EXCEPT !.exactSeed = TRUE]} \union {[q EXCEPT !.budget = b] : b \in Budgets}
    \union {[q EXCEPT !.limit = n, !.explain = e] : n \in Limits, e \in BOOLEAN}

    \union {[q EXCEPT !.method = "explain"]}

Others ==
    {[Plain(t) EXCEPT !.method = m, !.loaded = l] :
        t \in {Plainly(<<"session">>), Plainly(<<>>)}, m \in {"query", "status", "runtime status"}, l \in BOOLEAN}

\* A text whose seed has to be looked up, with any two deviations.
Renaming == Plain(Plainly(<<"rename", "invalidateSession">>))

MCRequests ==
    Others \union UNION {Deviations(Plain(t)) : t \in Texts} \union UNION {Deviations(q) : q \in Deviations(Renaming)}
Configured(routes, semantic, impact) ==
    [planner |-> TRUE, engines |-> Route \ {"exact"}, routes |-> routes, semantic |-> semantic, impact |-> impact]

MCEngines ==
    {Configured(Route, "ready", "stale"), Configured(Route, "stale", "ready"),
     Configured({"semantic", "impact"}, "ready", "not ready"), Configured({"exact", "semantic"}, "failed", "ready"),
     [Configured(Route, "ready", "ready") EXCEPT !.planner = FALSE]}
=============================================================================
