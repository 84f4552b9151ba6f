----------------------------- MODULE PlannerFusion -----------------------------
(***************************************************************************)
(* How the answers of the planner's routes become one list of groups:      *)
(* score_fusion.rs, result_grouping.rs and trust_payloads.rs.              *)
(*                                                                         *)
(* Symbols, paths and ids of candidates are numbers in the order of their  *)
(* texts, 0 where there is none; a span is a pair of offsets, <<>> where   *)
(* there is none.  A candidate carries one evidence item, of its route.    *)
(***************************************************************************)
EXTENDS PlannerLists, SequencesExt, FiniteSetsExt

Route == {"exact", "symbol", "semantic", "impact"}

\* route_priority.
Priority == [exact |-> 4, symbol |-> 3, semantic |-> 2, impact |-> 1]

-----------------------------------------------------------------------------
(* Candidates of one thing                                                 *)

MaxRaw == [exact |-> 1100, symbol |-> 1100, semantic |-> 1000000, impact |-> 1000]

\* normalize_score.
Normalized(c) == Min({(c.raw * 100) \div MaxRaw[c.route], 100})

\* dedup_key_for.
Key(c) ==
    CASE c.symbol # 0               -> <<"symbol", c.symbol>>
      [] c.symbol = 0 /\ c.path = 0 -> <<"unique", c.id>>
      [] OTHER                      -> <<"path", c.path, c.span>>

\* spans_overlap.
SpansOverlap(c, d) == c.span[1] < d.span[2] /\ d.span[1] < c.span[2]

\* should_merge: the key of the first member, or the text of any.
Joins(c, members) ==
    \/ Key(c) = Key(members[1])
    \/ /\ c.path # 0
       /\ c.span # <<>>
       /\ \E m \in Range(members) : m.path = c.path /\ m.span # <<>> /\ SpansOverlap(c, m)

\* A candidate joins the first set it fits.
Placed(sets, c) ==
    LET fitting == {i \in DOMAIN sets : Joins(c, sets[i])}
    IN  IF fitting = {} THEN Append(sets, <<c>>) ELSE [sets EXCEPT ![Min(fitting)] = Append(@, c)]

\* build_fused: the best member leads, and agreeing routes add to its score.
Fused(members) ==
    LET MemberKey(c) == <<-Normalized(c), -Priority[c.route]>>
        ordered == Ordered(members, [i \in DOMAIN members |-> MemberKey(members[i])])
        routes == {c.route : c \in Range(members)}
    IN  [primary |-> ordered[1], members |-> ordered, routes |-> routes,
         score |-> Normalized(ordered[1]) + Min({2 * (Cardinality(routes) - 1), 6})]

\* fuse: the candidates one by one, then in the order of deterministic_cmp.
Sets(candidates) ==
    LET sets[n \in 0..Len(candidates)] == IF n = 0 THEN <<>> ELSE Placed(sets[n - 1], candidates[n])
    IN  sets[Len(candidates)]

FusedKey(f) == <<-f.score, -Max({Priority[r] : r \in f.routes}), f.primary.rank, f.primary.id>>
Fuse(candidates) ==
    LET sets == Sets(candidates)
        fused == [i \in DOMAIN sets |-> Fused(sets[i])]
    IN  Ordered(fused, [i \in DOMAIN fused |-> FusedKey(fused[i])])

-----------------------------------------------------------------------------
(* Groups                                                                  *)

\* grouping_key: file, standalone and symbol, in the order of their texts.
GroupKey(f) ==
    CASE f.primary.symbol # 0                         -> <<3, f.primary.symbol>>
      [] f.primary.symbol = 0 /\ f.primary.path # 0 -> <<1, f.primary.path>>
      [] OTHER                                        -> <<2, f.primary.id>>

\* build_group.
Group(key, members) ==
    LET MemberKey(f) == <<-f.score, f.primary.id>>
        ordered == Ordered(members, [i \in DOMAIN members |-> MemberKey(members[i])])
    IN  [key |-> key, score |-> ordered[1].score, best |-> ordered[1].primary,
         routes |-> UNION {f.routes : f \in Range(members)},
         evidence |-> FlattenSeq([i \in DOMAIN ordered |-> ordered[i].members])]

GroupsByKey(fused) ==
    {Group(key, Kept(fused, {f \in Range(fused) : GroupKey(f) = key})) : key \in {GroupKey(f) : f \in Range(fused)}}

\* Mutant: groups stay in the order of their keys.
UnsortedGroups(fused) ==
    LET groups == GroupsByKey(fused)
    IN  Listed(groups, {p \in groups \X groups : Less(p[1].key, p[2].key)})

AllGroups(fused) ==
    LET groups == GroupsByKey(fused)
        OfGroup(g) == <<-g.score, g.key[1], g.key[2]>>
    IN  Listed(groups, {p \in groups \X groups : Less(OfGroup(p[1]), OfGroup(p[2]))})

\* group.
Groups(candidates, limit) ==
    LET all == AllGroups(Fuse(candidates))
    IN  SubSeq(all, 1, Min({limit, Len(all)}))

-----------------------------------------------------------------------------
(* Trust                                                                   *)

\* compute_tier: what is found by a context seed is not among the evidence.
Tier(g, lowSignal) ==
    CASE "exact" \in g.routes \/ Cardinality(g.routes) >= 3 -> "high"
      [] "exact" \notin g.routes /\ Cardinality(g.routes) = 2 -> "medium"
      [] g.routes = {"symbol"} /\ ~lowSignal                -> "medium"
      [] OTHER                                              -> "low"

Close(g, h) == g.score > 0 /\ h.score > 0 /\ g.score - h.score <= 3

\* decorate_group.
Decorated(groups, i, lowSignal, partial, exhausted) ==
    [group |-> groups[i], tier |-> Tier(groups[i], lowSignal),
     warnings |-> (IF i < Len(groups) /\ Close(groups[i], groups[i + 1]) THEN {"score gap"} ELSE {})
                  \union (IF lowSignal THEN {"low signal"} ELSE {})
                  \union (IF partial THEN {"partial"} ELSE {})
                  \union (IF exhausted THEN {"budget"} ELSE {})]

\* anchors_eq: only symbols and files can be the same.
SameAnchor(c, d) ==
    /\ c.anchor = d.anchor
    /\ \/ c.anchor = "symbol" /\ c.symbol = d.symbol
       \/ c.anchor = "file" /\ c.path = d.path

\* score_gap_ambiguity.
TopIsAmbiguous(groups) ==
    Len(groups) >= 2 /\ Close(groups[1], groups[2]) /\ ~SameAnchor(groups[1].best, groups[2].best)
=============================================================================
