--------------------------- MODULE MCImpactWalk ---------------------------
(* Programs of up to four files: a source, what stands between, and a test. *)
EXTENDS ImpactWalk, TLC

CONSTANTS a, b, d, t, P, Q

Node(kind, name, other, export, from, sig, parent) ==
    [kind |-> kind, name |-> name, other |-> other, export |-> export, from |-> from,
     sig |-> sig, parent |-> parent]
Declared(name) == Node("function", name, "", "named", None, "", 0)
Import(name, from) == Node("import", name, name, "no", from, "", 0)
Reexport(name, from) == Node("reexport", name, name, "no", from, "", 0)
Ref(name, parent) == Node("ref", name, "", "no", None, "", parent)

MCStem == (a :> "a") @@ (b :> "b") @@ (d :> "d") @@ (t :> "a")
MCNames == {"x", "y", "z", "q"}
Packages == (a :> P) @@ (b :> P) @@ (d :> Q) @@ (t :> P)

World(ofA, ofB, ofD, ofT) ==
    [program |-> (a :> ofA) @@ (b :> ofB) @@ (d :> ofD) @@ (t :> ofT), package |-> Packages]

\* x is declared in a, used there by itself or not, or made of what b passes
\* on; b passes on what is in a, and d and t use what they get from b, or what
\* d makes of it.
OfA == {<<Declared("x"), Ref("x", 1)>>, <<Import("y", b), Declared("x"), Ref("y", 2)>>, <<Reexport("x", b)>>}
OfB == {<<Reexport("x", a)>>, <<Import("x", a), Declared("y"), Ref("x", 2)>>, <<Import("x", a), Ref("x", 0)>>}
OfD == {<<Import("x", b), Declared("z"), Ref("x", 2)>>, <<Import("y", b), Declared("z"), Ref("y", 2), Ref("z", 0)>>}
OfT == {<<Import("x", b), Ref("x", 0)>>, <<Import("z", d), Declared("q"), Ref("z", 2)>>}
MCWorlds == {World(n, m, l, o) : n \in OfA, m \in OfB, l \in OfD, o \in OfT}

Request(scenario, depth, nodes, edgeLimit, candidates) ==
    [scenario |-> scenario, depth |-> depth, nodes |-> nodes, edges |-> edgeLimit, candidates |-> candidates]
NoLimit == 1000
MCRequests ==
    {Request(s, n, NoLimit, NoLimit, NoLimit) : s \in Scenario, n \in {1, NoLimit}}
    \union {Request("delete", NoLimit, 3, NoLimit, NoLimit), Request("delete", NoLimit, NoLimit, 6, NoLimit),
            Request("delete", NoLimit, NoLimit, NoLimit, 6), Request("rename", 0, NoLimit, NoLimit, NoLimit)}
=============================================================================
