------------------------------ MODULE PlannerLists ------------------------------
(***************************************************************************)
(* Lists that the planner sorts and filters.  What a sorted or filtered    *)
(* list is, is said by counting what comes before each of its items, which *)
(* is all that the proofs of PlannerProofs need to know of it.             *)
(***************************************************************************)
EXTENDS Integers, Sequences, FiniteSets, Functions

\* The members of a finite set, first to last in an order given by its pairs.
Listed(set, order) ==
    LET Before(x) == {y \in set : <<y, x>> \in order}
        listed[n \in 0..Cardinality(set)] ==
            IF n = 0 THEN <<>> ELSE Append(listed[n - 1], CHOOSE x \in set : Cardinality(Before(x)) = n - 1)
    IN  listed[Cardinality(set)]

\* Items of a sequence, by their places.
At(s, places) == [n \in DOMAIN places |-> s[places[n]]]

\* Those at some places, as they come.
Picked(s, places) ==
    LET picked[n \in 0..Len(s)] ==
            IF n = 0 THEN <<>> ELSE IF n \in places THEN Append(picked[n - 1], s[n]) ELSE picked[n - 1]
    IN  picked[Len(s)]

\* Those in a set, as they come.
Kept(s, set) == Picked(s, {i \in DOMAIN s : s[i] \in set})

\* The first difference decides.
Less(x, y) == \E i \in DOMAIN x : x[i] < y[i] /\ \A j \in 1..(i - 1) : x[j] = y[j]

\* The places of a sequence by the keys of its items, equal ones as they were.
KeyOrder(keys) ==
    {p \in (DOMAIN keys) \X (DOMAIN keys) :
        Less(keys[p[1]], keys[p[2]]) \/ (keys[p[1]] = keys[p[2]] /\ p[1] < p[2])}

Ordered(s, keys) == At(s, Listed(DOMAIN keys, KeyOrder(keys)))
=============================================================================
