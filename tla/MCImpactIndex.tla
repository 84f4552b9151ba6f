--------------------------- MODULE MCImpactIndex ---------------------------
(* A source file a, a file b between it and a test t, in one or two packages. *)
EXTENDS ImpactIndex, TLC

CONSTANTS a, b, t, P, Q

Node(kind, name, other, export, from, sig, parent) ==
    [kind |-> kind, name |-> name, other |-> other, export |-> export, from |-> from,
     sig |-> sig, parent |-> parent]
Declared(name, export, sig) == Node("function", name, "", export, None, sig, 0)
Import(name, from) == Node("import", name, name, "no", from, "", 0)
Ref(name, parent) == Node("ref", name, "", "no", None, "", parent)

MCStem == (a :> "a") @@ (b :> "b") @@ (t :> "a")

X == <<Declared("x", "named", "1")>>
OfA == {X, <<Declared("y", "no", "1"), Declared("x", "named", "2"), Ref("y", 2)>>}
Barrel == <<Node("reexport", "x", "x", "no", a, "", 0)>>
Between == <<Import("x", a), Declared("z", "named", "1"), Ref("x", 2)>>
OwnX == <<Declared("x", "named", "1"), Ref("x", 0)>>
Test(from) == <<Import("x", from), Declared("q", "no", "1"), Ref("x", 2)>>

Together == (a :> P) @@ (b :> P) @@ (t :> P)
Apart == (a :> P) @@ (b :> Q) @@ (t :> Q)

Version(n, m, l, k) == [program |-> (a :> n) @@ (b :> m) @@ (t :> l), package |-> k]
MCVersions ==
    {Version(n, Barrel, Test(b), Together) : n \in OfA}
    \union {Version(X, m, Test(b), Together) : m \in {Between, OwnX}}
    \union {Version(X, Barrel, Test(b), Apart), Version(X, <<>>, Test(a), Together)}
Configs == Permutations(Config)
MCExcluded == {{}, {a}}
=============================================================================
