-------------------------------- MODULE Planner --------------------------------
(***************************************************************************)
(* A unified query of the planner: what its text and its context are taken *)
(* for (intent_router.rs), which routes are planned, selected and afforded *)
(* (route_policy.rs, route_registry.rs), how they are consulted one by one *)
(* through the daemon's adapters (daemon/src/planner.rs), and what is      *)
(* answered (planner_engine.rs).                                           *)
(*                                                                         *)
(* Styles and modes have the names of their routes.  Engines answer        *)
(* anything of small sets; the symbols of the names in a text are fixed,   *)
(* as a snapshot is.                                                       *)
(***************************************************************************)
EXTENDS PlannerFusion, PlannerIntent

CONSTANTS
    Requests,         \* [method, loaded, text, selected, target, override, preferred, disabled, filters, exactSeed, limit,
                      \*  budget, explain]
    Engines,          \* [planner, engines, routes, semantic, impact]: what is configured, states of the engines
    Names,            \* words that are names of symbols
    Named,            \* symbols a lookup of such a name may find
    SemanticAnswers,  \* what the semantic engine may find, best first
    ImpactAnswers,    \* what the impact engine may find, best first
    DefaultMode,      \* planner.default_mode
    MaxLimit          \* planner.max_limit

Context == {None, "symbol", "span", "file", "impact", "impact package", "package"}
Filter == {"path", "package", "language", "kind"}

\* What the engines tell of a hit.
Span == {<<>>} \union (Nat \X Nat)
SymbolHit == [symbol : Nat, path : Nat, span : Span, score : Nat, fits : SUBSET Filter]
SemanticHit == [chunk : Nat, symbol : Nat, path : Nat, span : Span, score : Nat, fits : SUBSET Filter]
ImpactHit == [entity : Nat, symbol : Nat, path : Nat, score : Nat, fits : SUBSET Filter]

ASSUME LimitAssumption == MaxLimit \in Nat \ {0}
ASSUME ModeAssumption == DefaultMode \in Route \union {"auto"}
ASSUME EnginesAssumption ==
    \A e \in Engines : /\ e.planner \in BOOLEAN /\ e.engines \subseteq Route \ {"exact"} /\ e.routes \subseteq Route
                       /\ {e.semantic, e.impact} \subseteq {"ready", "stale", "not ready", "failed"}
ASSUME HitsAssumption ==
    /\ IsFiniteSet(Named) /\ Named \subseteq SymbolHit
    /\ SemanticAnswers \subseteq Seq(SemanticHit) /\ ImpactAnswers \subseteq Seq(ImpactHit)
ASSUME ContextAssumption == \A q \in Requests : /\ q.method \in {"query", "explain", "status", "runtime status"}
                        /\ {q.selected, q.target} \subseteq Context /\ q.filters \subseteq Filter
ASSUME HintsAssumption ==
    \A q \in Requests : /\ {q.loaded, q.exactSeed, q.explain} \subseteq BOOLEAN
                        /\ q.override \in Route \union {None} /\ q.preferred \in Seq(Route) /\ q.disabled \subseteq Route
                        /\ q.limit \in Nat /\ q.budget.total \in Nat
                        /\ \A r \in DOMAIN q.budget.routes :
                              q.budget.routes[r].timeout \in Nat /\ q.budget.routes[r].max \in Nat

VARIABLES
    request,     \* the query
    engines,     \* how they are
    named,       \* symbols of the name, best first
    phase,       \* "asked", "classified", "routing" or "answered"
    features,    \* what its text is taken for, or None
    plan,        \* [kind, selected, lowSignal, run, exhausted]
    trace,       \* by route, [status, why]
    todo,        \* routes still to consult
    candidates,  \* of the routes so far
    raw,         \* candidates before filters
    ambiguity,   \* None, "seeds" or "groups"
    seed,        \* derived_context, or None
    answer       \* [groups, noAnswer, ambiguity, shown, state]

vars == <<request, engines, named, phase, features, plan, trace, todo, candidates, raw, ambiguity, seed, answer>>
inputs == <<request, engines, named>>

-----------------------------------------------------------------------------
(* Intent: IntentRouter                                                    *)

Text == features
ContextBias(style) ==
    CASE style = "symbol" /\ request.selected = "symbol"                                  -> 2
      [] style = "impact" /\ request.selected \in {"impact", "impact package"}            -> 3
      [] style = "symbol" /\ request.selected \in {"file", "span"}                        -> 1
      [] style = "semantic" /\ request.selected \in {"file", "span", "package"}           -> 1
      [] style = "impact" /\ request.selected \in {"symbol", "file"}                      -> 1
      [] OTHER                                                                            -> 0

When(condition, score) == IF condition THEN score ELSE 0
HasSymbolSeed == Text.name # None
IsQuestion == Text.question
HasAction == Text.action

\* classify: the signals of each style.
Score(style) ==
    ContextBias(style) +
    CASE style = "exact" -> When(Text.exact # None, 6)
      [] style = "symbol" ->
            When(Text.name \in Qualified, 6) + When(HasSymbolSeed /\ Text.name \notin Qualified, 4) + When(Text.keyword, 2)
            + When(Text.exact = "path", 1) + When(request.filters # {}, 1)
      [] style = "semantic" ->
            When(IsQuestion, 4) + When(Text.tokens >= 3, 2) + When(~HasSymbolSeed /\ Text.exact # "path", 1)
      [] style = "impact" ->
            When(Text.phrase, 6) + When(HasAction, 6) + When(IsQuestion /\ HasAction, 1)
            + When(request.target # None, 1)

\* style_priority.
StyleRank == [impact |-> 0, exact |-> 1, symbol |-> 2, semantic |-> 3]
Ranked ==
    LET Rank(s) == <<-Score(s), StyleRank[s]>>
    IN  Ordered(<<"exact", "symbol", "semantic", "impact">>,
                <<Rank("exact"), Rank("symbol"), Rank("semantic"), Rank("impact")>>)

\* normalize_default_mode.
DefaultStyle == IF DefaultMode = "auto" THEN "semantic" ELSE DefaultMode

Styles ==
    LET ranked == Ranked
        best == Score(ranked[1])
    IN  IF request.override # None THEN <<request.override>>
        ELSE IF best = 0 THEN <<DefaultStyle>>
        ELSE Kept(ranked, {s \in Route : Score(s) > 0 /\ Score(s) + 1 >= best})

Primary(styles) == styles[1]
WantsExact == Text.exact # None \/ request.exactSeed
HasImpactQuery == Text.phrase \/ HasAction \/ request.override = "impact"

\* What a style asks of the routes, first to last.
RoutesOfStyle(style) ==
    LET exactToo == IF WantsExact THEN <<"exact">> ELSE <<>>
    IN  CASE style = "exact"    -> <<"exact", "symbol", "semantic">>
          [] style = "symbol"   -> <<"symbol">> \o exactToo \o <<"semantic">>
          [] style = "semantic" -> <<"semantic", "symbol">> \o exactToo
          [] style = "impact"   -> <<"symbol", "semantic", "impact">>

\* planned_routes_for_styles, planned_routes_for_override.
PlannedRoutes(styles) ==
    LET asked == FlattenSeq([i \in DOMAIN styles |-> RoutesOfStyle(styles[i])])
        withExact == asked \o (IF WantsExact THEN <<"exact">> ELSE <<>>)
        routes == IF request.override # None
                  THEN styles
                  ELSE Unique(<<withExact[1]>> \o request.preferred \o withExact)
    IN  Kept(routes, Route \ request.disabled)

-----------------------------------------------------------------------------
(* Policy: plan_route_policy                                               *)

\* impact_target_from_context: a package is no target.
IsTarget(context) == context \in {"symbol", "span", "file", "impact"}

\* has_direct_context_seed.
Direct(context) == IsTarget(context) \/ context = "impact package"

\* impact_has_direct_seed: a subject with a dot looks like a path.
HasDirectSeed ==
    \/ Direct(request.selected) \/ Direct(request.target)
    \/ Text.exact = "path"
    \/ (HasImpactQuery /\ Text.subject \in {"path", "dotted"})

\* is_low_signal_query.
LowSignal(primary) ==
    /\ primary = "semantic" /\ request.override = None
    /\ request.selected = None /\ request.target = None
    /\ Text.exact = None /\ ~HasSymbolSeed /\ ~HasImpactQuery
    /\ Text.tokens <= 3

Present(routes, planned) == Kept(routes, Range(planned))
ImpactUnseeded(primary) == request.override = None /\ primary = "impact" /\ ~HasDirectSeed /\ ~HasSymbolSeed

SelectedRoutes(primary, planned) ==
    LET Only(r) == Present(<<r>>, planned)
    IN  IF request.override # None \/ primary # "impact" THEN planned
        ELSE IF HasDirectSeed THEN Only("impact")
        ELSE IF HasSymbolSeed THEN Present(<<"symbol", "semantic", "impact">>, planned)
        ELSE IF Only("semantic") # <<>> THEN Only("semantic") ELSE Only("impact")

PolicyKind(styles, selected) ==
    IF Len(selected) <= 1 THEN "single"
    ELSE IF Primary(styles) = "impact" THEN "seed"
    ELSE IF Len(styles) > 1 THEN "multi" ELSE "staged"

-----------------------------------------------------------------------------
(* Budgets: select_budgeted_routes                                         *)

\* budget_for_route.
Budget(r) ==
    IF r \in DOMAIN request.budget.routes
    THEN request.budget.routes[r]
    ELSE [timeout |-> request.budget.total, max |-> 10]

NoBudget(r) == Budget(r).timeout = 0 \/ Budget(r).max = 0

\* The first route may take more than the total only if nothing else runs.
Affordable(routes) ==
    LET Fits(n, spent) == ~NoBudget(routes[n]) /\ spent + Budget(routes[n]).timeout <= request.budget.total
        reserved[n \in 0..Len(routes)] ==
            IF n = 0 THEN 0
            ELSE reserved[n - 1] + When(Fits(n, reserved[n - 1]), Budget(routes[n]).timeout)
        run == {n \in DOMAIN routes : Fits(n, reserved[n - 1])}
        late == {n \in DOMAIN routes : ~NoBudget(routes[n])}
    IN  Picked(routes, IF run # {} THEN run ELSE {n \in late : \A m \in late : m <= n})

\* What became of a route that is not run: the trace of a first route over
\* the budget stays planned.
Unaffordable(r, selected, run) ==
    LET earlier == SelectInSeq(selected, LAMBDA s : s = r)
        runBefore == {s \in Range(run) : SelectInSeq(selected, LAMBDA t : t = s) < earlier}
    IN  CASE NoBudget(r) -> [status |-> "skipped", why |-> "no budget"]
          [] ~NoBudget(r) /\ runBefore = {} -> [status |-> "planned", why |-> None]
          [] OTHER -> [status |-> "skipped", why |-> "total spent"]

\* initialize_traces.
FirstTrace(r, selected, run) ==
    CASE r \in request.disabled -> [status |-> "skipped", why |-> "hint"]
      [] r \notin request.disabled /\ r \notin Range(selected) -> [status |-> "skipped", why |-> "mode"]
      [] r \in Range(selected) /\ r \in Range(run) -> [status |-> "planned", why |-> None]
      [] OTHER -> Unaffordable(r, selected, run)

-----------------------------------------------------------------------------
(* Routes: attempt_route and the adapters                                  *)

\* route_enabled of runtime_context: there is no switch of an exact engine.
RouteEnabled(r) == r \in engines.routes /\ r \in engines.engines \union {"exact"}

\* What can be consulted: there is no exact engine, symbols are indexed and
\* a stale impact build is refreshed on demand, semantic builds are not.
ExactAvailable == FALSE
SymbolAvailable == RouteEnabled("symbol")
SemanticAvailable == RouteEnabled("semantic") /\ engines.semantic = "ready"
ImpactAvailable == RouteEnabled("impact") /\ engines.impact \in {"ready", "stale"}

\* Capabilities of the registry.
Available ==
    {r \in Route : CASE r = "exact"    -> ExactAvailable
                     [] r = "symbol"   -> SymbolAvailable
                     [] r = "semantic" -> SemanticAvailable
                     [] r = "impact"   -> ImpactAvailable}

\* query_state_for_routes, of planner_status.
QueryState ==
    CASE ~engines.planner -> "disabled"
      [] engines.planner /\ Available \ {"exact"} # {} -> "ready"
      [] OTHER -> "degraded"

\* query_state, of the daemon's status: nothing is read.
RuntimeState ==
    CASE ~engines.planner -> "disabled"
      [] engines.planner /\ \E r \in Route \ {"exact"} : RouteEnabled(r) -> "ready"
      [] OTHER -> "degraded"

Unsupported == [exact |-> {}, symbol |-> {"package"}, semantic |-> {}, impact |-> {"language", "kind"}]
Consultable(r) == r \in Available /\ request.filters \cap Unsupported[r] = {}
Limit(r) == Min({Max({1, request.limit}), MaxLimit, Budget(r).max})
FirstOf(found, n) == SubSeq(found, 1, Min({n, Len(found)}))
Fitting(found, filters) == Kept(found, {c \in Range(found) : filters \subseteq c.fits})

\* What engines return, as candidates: ids sort by route, what an engine
\* does not tell fits no filter.
Normal(hits, CandidateOf(_, _)) == [i \in DOMAIN hits |-> CandidateOf(hits[i], i)]

SymbolCandidate(hit, rank) ==
    [id |-> 200 + hit.symbol, route |-> "symbol", anchor |-> "symbol", symbol |-> hit.symbol, path |-> hit.path,
     span |-> hit.span, raw |-> hit.score, rank |-> rank, fits |-> hit.fits \ {"package"}]

SemanticCandidate(hit, rank) ==
    [id |-> 100 + hit.chunk, route |-> "semantic",
     anchor |-> IF hit.symbol # 0 THEN "symbol" ELSE IF hit.span # <<>> THEN "span" ELSE "file",
     symbol |-> hit.symbol, path |-> hit.path, span |-> hit.span, raw |-> hit.score, rank |-> rank, fits |-> hit.fits]

ImpactCandidate(hit, rank) ==
    [id |-> hit.entity, route |-> "impact", anchor |-> "impact", symbol |-> hit.symbol, path |-> hit.path,
     span |-> <<>>, raw |-> hit.score, rank |-> rank, fits |-> hit.fits \ Unsupported["impact"]]

\* An exact search for a name, by kind.
Lookup(name, n) == IF name \in Names THEN FirstOf(Fitting(named, request.filters \cap {"kind"}), n) ELSE <<>>

\* resolve_impact_target: only the first context given is looked at, and
\* the target is looked up with the limit of the impact route.
ContextInUse == IF request.selected # None THEN request.selected
                ELSE IF request.target # None THEN request.target ELSE seed

Subjects ==
    IF HasImpactQuery /\ Text.subject = "words" /\ Len(Text.terms) = 1
    THEN Lookup(Text.terms[1], Min({Max({1, Budget("impact").max}), 4}))
    ELSE <<>>

TargetIsFound ==
    IsTarget(ContextInUse) \/ (HasImpactQuery /\ (Text.subject = "path" \/ Len(Subjects) = 1))

TargetIsAmbiguous == ~IsTarget(ContextInUse) /\ HasImpactQuery /\ Len(Subjects) > 1

\* Where a target is found; no file has the dotted name of a symbol.
Analysis(limit) == IF TargetIsFound THEN {FirstOf(found, limit) : found \in ImpactAnswers} ELSE {}

\* What a route may find before the planner's own filters; an engine that
\* fails finds nothing.
SymbolFindings == {Normal(Lookup(Text.name, Limit("symbol")), SymbolCandidate)}
SemanticFindings ==
    {Normal(FirstOf(Fitting(found, request.filters), Limit("semantic")), SemanticCandidate) : found \in SemanticAnswers}
ImpactFindings == {Normal(found, ImpactCandidate) : found \in Analysis(Limit("impact"))}

Findings(r) ==
    {<<>>} \union CASE ~Consultable(r) -> {}
                    [] Consultable(r) /\ r = "symbol"   -> SymbolFindings
                    [] Consultable(r) /\ r = "semantic" -> SemanticFindings
                    [] Consultable(r) /\ r = "impact"   -> ImpactFindings

\* The contexts that may seed an analysis: candidate_context.
SeedContexts(found) == {<<c.anchor, c.symbol, c.path, c.span>> : c \in Range(found)}

Skipped(why) == [status |-> "skipped", why |-> why]
MarkSkipped(t, routes, why) ==
    [r \in Route |-> IF r \in routes /\ t[r].status = "planned" THEN Skipped(why) ELSE t[r]]

Attempted(r) ==
    LET why == IF r \in Available THEN "filters" ELSE "unavailable"
    IN  [trace EXCEPT ![r] = IF Consultable(r) THEN [status |-> "executed", why |-> None] ELSE Skipped(why)]

-----------------------------------------------------------------------------
(* A query                                                                 *)

Init ==
    /\ request \in Requests
    /\ engines \in Engines
    /\ named \in {SetToSeq(s) : s \in SUBSET Named}
    /\ phase = "asked"
    /\ features = None
    /\ plan = [kind |-> None, selected |-> <<>>, lowSignal |-> FALSE, run |-> <<>>, exhausted |-> FALSE]
    /\ trace = [r \in Route |-> [status |-> "planned", why |-> None]]
    /\ todo = <<>> /\ candidates = <<>> /\ raw = 0
    /\ ambiguity = None /\ seed = None
    /\ answer = [groups |-> <<>>, noAnswer |-> None, ambiguity |-> None, shown |-> {}, state |-> None]

results == <<features, plan, trace, todo, candidates, raw, ambiguity, seed>>
IsQuery == request.method \in {"query", "explain"}

\* Another snapshot than the one loaded, or no text: map_planner_error.
Refuse ==
    /\ phase = "asked" /\ phase' = "answered"
    /\ \/ /\ ~request.loaded /\ request.method # "runtime status"
          /\ answer' = [answer EXCEPT !.noAnswer = "mismatch"]
       \/ /\ request.loaded /\ IsQuery /\ request.text.words = <<>>
          /\ answer' = [answer EXCEPT !.noAnswer = "no text"]
    /\ UNCHANGED <<inputs, results>>

\* planner_status, planner_capabilities.
Status ==
    /\ phase = "asked" /\ phase' = "answered"
    /\ request.loaded /\ request.method = "status"
    /\ answer' = [answer EXCEPT !.state = QueryState, !.shown = Available]
    /\ UNCHANGED <<inputs, results>>

\* scan_planner_runtime_status.
RuntimeStatus ==
    /\ phase = "asked" /\ phase' = "answered"
    /\ request.method = "runtime status"
    /\ answer' = [answer EXCEPT !.state = RuntimeState, !.shown = {r \in Route \ {"exact"} : RouteEnabled(r)}]
    /\ UNCHANGED <<inputs, results>>

\* classify.
Classify ==
    /\ phase = "asked" /\ phase' = "classified"
    /\ request.loaded /\ IsQuery /\ request.text.words # <<>>
    /\ features' = ExtractFeatures(request.text)
    /\ UNCHANGED <<inputs, plan, trace, todo, candidates, raw, ambiguity, seed, answer>>

\* plan_route_policy, select_budgeted_routes, initialize_traces.
PlanRoutes ==
    /\ phase = "classified" /\ phase' = "routing"
    /\ \E styles \in {Styles} : \E planned \in {PlannedRoutes(styles)} :
       \E selected \in {SelectedRoutes(Primary(styles), planned)} : \E run \in {Affordable(selected)} :
          /\ plan' = [kind |-> PolicyKind(styles, selected), selected |-> selected, run |-> run,
                      lowSignal |-> LowSignal(Primary(styles)) \/ ImpactUnseeded(Primary(styles)),
                      exhausted |-> \E r \in Range(selected) :
                                        r \notin Range(run) \/ Budget(r).timeout > request.budget.total]
          /\ trace' = [r \in Route |-> FirstTrace(r, selected, run)]
          /\ todo' = run
    /\ seed' = IF request.selected # None THEN request.selected ELSE request.target
    /\ UNCHANGED <<inputs, features, candidates, raw, ambiguity, answer>>

\* What every attempt leaves behind.
Consult(found) ==
    /\ candidates' = candidates \o Fitting(found, request.filters)
    /\ raw' = raw + Len(found)

ImpactAmbiguity(r) == IF r = "impact" /\ Consultable(r) /\ TargetIsAmbiguous THEN "seeds" ELSE None

Satisfies(r, kept) ==
    \/ plan.kind = "single"
    \/ plan.kind = "staged" /\ (kept # <<>> \/ ImpactAmbiguity(r) # None)

\* execute_standard_policy, one route.
Standard ==
    /\ phase = "routing" /\ plan.kind # "seed" /\ todo # <<>>
    /\ LET r == Head(todo)
       IN  /\ \E found \in Findings(r) :
                 /\ Consult(found)
                 /\ IF Satisfies(r, Fitting(found, request.filters))
                    THEN /\ trace' = MarkSkipped(Attempted(r), Range(Tail(todo)), "satisfied")
                         /\ todo' = <<>>
                    ELSE trace' = Attempted(r) /\ todo' = Tail(todo)
           /\ ambiguity' = IF ambiguity = None THEN ImpactAmbiguity(r) ELSE ambiguity
    /\ UNCHANGED <<inputs, phase, features, plan, seed, answer>>

\* Mutant: the first of several anchors is taken.
FirstSeed(kept) == IF kept = <<>> THEN "none" ELSE "unique"

\* seed_context_from_candidates.
Resolution(kept) ==
    CASE SeedContexts(kept) = {} -> "none"
      [] Cardinality(SeedContexts(kept)) = 1 -> "unique"
      [] OTHER -> "ambiguous"

\* execute_seed_then_impact_policy, one seed route.
Seed ==
    /\ phase = "routing" /\ plan.kind = "seed" /\ todo # <<>>
    /\ LET r == Head(todo)
           rest == Tail(todo)
       IN  /\ r # "impact"
           /\ \E found \in Findings(r) :
                 LET kept == Fitting(found, request.filters)
                 IN  /\ Consult(found)
                     /\ CASE Resolution(kept) = "none" ->
                                /\ trace' = Attempted(r)
                                /\ todo' = rest
                                /\ UNCHANGED <<ambiguity, seed>>
                          [] Resolution(kept) = "unique" ->
                                /\ seed' = kept[1].anchor
                                /\ trace' = MarkSkipped(Attempted(r), Range(rest) \ {"impact"}, "seeded")
                                /\ todo' = Kept(rest, {"impact"})
                                /\ UNCHANGED ambiguity
                          [] OTHER ->
                                /\ ambiguity' = "seeds"
                                /\ trace' = MarkSkipped(Attempted(r), Range(rest), "ambiguous")
                                /\ todo' = <<>>
                                /\ UNCHANGED seed
    /\ UNCHANGED <<inputs, phase, features, plan, answer>>

\* execute_seed_then_impact_policy, the impact route: without any context it
\* is withheld.
Impact ==
    /\ phase = "routing" /\ plan.kind = "seed" /\ todo = <<"impact">>
    /\ todo' = <<>>
    /\ IF seed = None
       THEN /\ trace' = MarkSkipped(trace, {"impact"}, "no seed")
            /\ UNCHANGED <<candidates, raw, ambiguity>>
       ELSE /\ \E found \in Findings("impact") : Consult(found)
            /\ trace' = Attempted("impact")
            /\ ambiguity' = ImpactAmbiguity("impact")
    /\ UNCHANGED <<inputs, phase, features, plan, seed, answer>>

-----------------------------------------------------------------------------
(* The answer: build_scaffold                                              *)

\* Mutant: a route that could not be served is not missed.
PartialUnlessUnavailable ==
    /\ candidates # <<>>
    /\ \E r \in Range(plan.selected) : trace[r].status = "skipped" /\ trace[r].why \in {"ambiguous", "no seed"}

\* candidates_exist_with_missing_selected_routes: but for routes that were
\* not needed.
Partial ==
    /\ candidates # <<>>
    /\ \E r \in Range(plan.selected) : trace[r].status = "skipped" /\ trace[r].why \notin {"satisfied", "seeded"}

\* Mutant: explanations need no reason.
NoAnswerUnlessExplaining(groups) ==
    IF ambiguity # None \/ request.explain THEN None
    ELSE IF ~engines.planner THEN "disabled"
    ELSE IF groups # <<>> THEN None ELSE "no match"

\* no_answer_for.
NoAnswer(groups) ==
    IF ambiguity # None \/ (request.explain /\ candidates # <<>>) THEN None
    ELSE IF ~engines.planner THEN "disabled"
    ELSE IF groups # <<>> THEN None
    ELSE IF candidates # <<>> THEN "deferred"
    ELSE IF Range(plan.selected) \cap Available = {} THEN "no route"
    ELSE IF raw > 0 THEN "filtered" ELSE "no match"

\* query_scaffold, explain_scaffold.
Shown ==
    CASE request.method = "explain" -> {"trace", "candidates"}
      [] request.method = "query" /\ request.explain -> {"trace"}
      [] OTHER -> {}

Answer ==
    /\ phase = "routing" /\ phase' = "answered" /\ todo = <<>>
    /\ \E groups \in {Groups(candidates, request.limit)} :
           answer' = [groups |-> [i \in DOMAIN groups |-> Decorated(groups, i, plan.lowSignal, Partial, plan.exhausted)],
                      ambiguity |-> IF ambiguity = None /\ TopIsAmbiguous(groups) THEN "groups" ELSE ambiguity,
                      noAnswer |-> NoAnswer(groups), state |-> None, shown |-> Shown]
    /\ UNCHANGED <<inputs, results>>

Next == Refuse \/ Status \/ RuntimeStatus \/ Classify \/ PlanRoutes \/ Standard \/ Seed \/ Impact \/ Answer

Spec == Init /\ [][Next]_vars

-----------------------------------------------------------------------------
(* Properties                                                              *)

Answered == phase = "answered"
Found(r) == Kept(candidates, {c \in Range(candidates) : c.route = r})
Executed(r) == trace[r].status = "executed"

\* A route was not needed when one before it in the order of the policy has
\* found something and the policy stops then (an ambiguity that the analysis
\* itself meets changes nothing); impact always is.
NotNeeded(r) ==
    /\ plan.kind \in {"staged", "seed"} /\ (plan.kind = "seed" => r # "impact")
    /\ \E i, j \in DOMAIN plan.selected :
          i < j /\ plan.selected[j] = r /\ Found(plan.selected[i]) # <<>> /\ (ambiguity = None \/ Executed("impact"))

\* Results never look complete when they are not: if a selected route was
\* needed and did not run, every group warns that routes or the budget were
\* short (traces, notes and flags are kept by different functions).
OmissionsAreSaid ==
    Answered => \A r \in Range(plan.selected) :
                   \/ Executed(r) \/ NotNeeded(r)
                   \/ \A i \in DOMAIN answer.groups : answer.groups[i].warnings \cap {"partial", "budget"} # {}

\* When a seed has to be found first, an analysis is only made of the one
\* thing the seed routes returned, and never after an ambiguity.
ImpactIsNotGuessed ==
    Answered /\ plan.kind = "seed" /\ Found("impact") # <<>> =>
        /\ ambiguity = None
        /\ Cardinality(SeedContexts(Found("symbol") \o Found("semantic"))) <= 1

\* An answer without groups says why or names an ambiguity, and one with
\* groups gives no such reason; only an explanation of no groups at all
\* (limit 0) has neither.  Where planner_status says degraded, there are no
\* groups, and where a query has groups the daemon's status does not say so.
AnswerIsExplained ==
    Answered /\ engines.planner /\ IsQuery =>
        /\ (request.limit > 0 \/ ~request.explain) =>
              (answer.noAnswer # None <=> (answer.groups = <<>> /\ ambiguity = None))
        /\ "degraded" \in {QueryState, RuntimeState} => answer.groups = <<>>

\* No candidate that comes later, or that the limit cuts off, scores better
\* than a group before it.
BestFirst ==
    Answered => \A i \in DOMAIN answer.groups :
                   LET before == UNION {Range(answer.groups[j].group.evidence) : j \in 1..i}
                   IN  \A c \in Range(candidates) \ before : Normalized(c) <= answer.groups[i].group.score
=============================================================================
