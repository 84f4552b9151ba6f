---------------------------- MODULE ProgramProofs ---------------------------
(***************************************************************************)
(* Proofs about what is derived from programs: the graph of their symbols, *)
(* its queries, searches and chunks while a program is edited              *)
(* (SymbolEdits), the impact index (ImpactIndex with ImpactPlan) and the   *)
(* traversal (ImpactWalk), for any programs.  The lemmas about symbols and *)
(* aliases come first; all three parts rest on them.                       *)
(***************************************************************************)
EXTENDS ImpactIndex, ImpactWalk, SymbolEdits, SequenceTheorems, FiniteSetTheorems, WellFoundedInduction,
        NaturalsInduction, TLAPS

-----------------------------------------------------------------------------
(* Induction                                                               *)

LEMMA InductionOverNat ==
  ASSUME NEW S, 0 \in S, \A n \in Nat : n \in S => n + 1 \in S
  PROVE  Nat \subseteq S
<1> DEFINE R == OpToRel(<, Nat)
           missing == Nat \ S
<1>1. IsWellFoundedOn(R, Nat)
  BY NatLessThanWellFounded, Zenon
<1>2. \A x, y \in Nat : x < y => <<x, y>> \in R
  BY DEF OpToRel
<1>3. missing \in SUBSET Nat
  OBVIOUS
<1> SUFFICES ASSUME missing # {} PROVE FALSE
  OBVIOUS
<1> HIDE DEF R, missing
<1>4. PICK x \in missing : \A y \in missing : ~(<<y, x>> \in R)
  BY <1>1, <1>3, WFMin
<1>5. x \in Nat /\ x # 0 /\ x \notin S
  BY <1>4 DEF missing
<1>6. x - 1 \in Nat /\ x - 1 < x /\ (x - 1) + 1 = x
  BY <1>5
<1>7. x - 1 \notin missing
  BY <1>2, <1>4, <1>5, <1>6
<1>8. x - 1 \in S
  BY <1>6, <1>7 DEF missing
<1> QED BY <1>5, <1>6, <1>8

-----------------------------------------------------------------------------
(* Where the edges of aliases end                                          *)

\* Of a symbol there is one thing it stands for, if there is any.
Functional(links) ==
    /\ \A e \in links : e = <<e[1], e[2]>>
    /\ \A e, g \in links : e[1] = g[1] => e[2] = g[2]

Closed(links, S) == \A e \in links : e[1] \in S => e[2] \in S
Reaches(links, x, y) == \A S : x \in S /\ Closed(links, S) => y \in S

\* What is reached from x and reached again from whatever it reaches.
Ends(links, x, y) == Reaches(links, x, y) /\ \A v : Reaches(links, y, v) => Reaches(links, v, y)

LEMMA ReachesOnward ==
  ASSUME NEW links, NEW x, NEW y, NEW v, Reaches(links, x, y), Reaches(links, y, v)
  PROVE  Reaches(links, x, v)
BY DEF Reaches

LEMMA ReachesNext ==
  ASSUME NEW links, Functional(links), NEW e \in links
  PROVE  /\ Reaches(links, e[1], e[2])
         /\ \A y : Reaches(links, e[1], y) /\ y # e[1] => Reaches(links, e[2], y)
<1>1. Reaches(links, e[1], e[2])
  BY DEF Reaches, Closed
<1>2. ASSUME NEW y, Reaches(links, e[1], y), y # e[1], NEW S, e[2] \in S, Closed(links, S)
      PROVE  y \in S
  <2>1. Closed(links, S \union {e[1]})
    BY <1>2 DEF Closed, Functional
  <2>2. y \in S \union {e[1]}
    BY <1>2, <2>1 DEF Reaches
  <2> QED BY <1>2, <2>2
<1> QED BY <1>1, <1>2 DEF Reaches

LEMMA EndsNext ==
  ASSUME NEW links, Functional(links), NEW e \in links, NEW y
  PROVE  Ends(links, e[1], y) <=> Ends(links, e[2], y)
<1>1. Reaches(links, e[1], e[2])
  BY ReachesNext
<1>2. ASSUME Ends(links, e[2], y) PROVE Ends(links, e[1], y)
  BY <1>1, <1>2, ReachesOnward DEF Ends
<1>3. ASSUME Ends(links, e[1], y) PROVE Ends(links, e[2], y)
  <2>1. CASE y = e[1]
    BY <1>1, <1>3, <2>1 DEF Ends
  <2>2. CASE y # e[1]
    BY <1>3, <2>2, ReachesNext DEF Ends
  <2> QED BY <2>1, <2>2
<1> QED BY <1>2, <1>3

-----------------------------------------------------------------------------
(* Walks                                                                   *)

\* A walk from s so far: each symbol is what the one before stands for, and
\* none but the last is met twice.
IsWalk(links, s, w) ==
    /\ w \in Seq({s} \union {e[2] : e \in links}) /\ Len(w) > 0 /\ w[1] = s
    /\ \A i \in 1..(Len(w) - 1) : <<w[i], w[i + 1]>> \in links
    /\ \A i, j \in 1..(Len(w) - 1) : w[i] = w[j] => i = j

AtEnd(links, w) ==
    \/ \A e \in links : e[1] # w[Len(w)]
    \/ \E m \in 1..(Len(w) - 1) : w[m] = w[Len(w)]

\* A walk is no longer than there are edges.
LEMMA WalkIsShort ==
  ASSUME NEW links, IsFiniteSet(links), NEW s, NEW w, IsWalk(links, s, w)
  PROVE  Len(w) - 1 <= Cardinality(links)
<1> DEFINE n == Len(w) - 1
           f == [i \in 1..n |-> <<w[i], w[i + 1]>>]
<1>1. n \in Nat
  BY DEF IsWalk
<1>2. f \in [1..n -> links]
  BY DEF IsWalk
<1>3. \A i, j \in 1..n : f[i] = f[j] => i = j
  BY DEF IsWalk
<1> HIDE DEF f
<1>4. f \in Injection(1..n, links)
  BY <1>2, <1>3 DEF Injection, IsInjective
<1>5. Cardinality(1..n) <= Cardinality(links)
  BY <1>4, FS_Injection
<1>6. Cardinality(1..n) = n
  <2> HIDE DEF n
  <2>1. Cardinality(1..n) = IF 1 > n THEN 0 ELSE n - 1 + 1
    BY <1>1, FS_Interval
  <2> QED BY <1>1, <2>1
<1> QED BY <1>5, <1>6

\* One more step of a walk, as Walk takes it.
Further(links, before) ==
    LET next == Targets(links, Last(before)) IN
    IF Cardinality(next) # 1 \/ \E m \in 1..(Len(before) - 1) : before[m] = Last(before)
    THEN before ELSE Append(before, CHOOSE t \in next : TRUE)

LEMMA FurtherIs ==
  ASSUME NEW links, Functional(links), NEW s, NEW w, IsWalk(links, s, w)
  PROVE  /\ IsWalk(links, s, Further(links, w))
         /\ AtEnd(links, w) => Further(links, w) = w
         /\ ~AtEnd(links, w) => Len(Further(links, w)) = Len(w) + 1
<1> DEFINE v == w[Len(w)]
           next == Targets(links, v)
           V == {s} \union {e[2] : e \in links}
<1>0. w \in Seq(V) /\ Len(w) \in Nat /\ Len(w) > 0 /\ Last(w) = v
  BY DEF IsWalk, Last
<1>1. CASE \A e \in links : e[1] # v
  <2>1. next = {}
    BY <1>1 DEF Targets
  <2>2. Cardinality(next) # 1
    BY <2>1, FS_EmptySet
  <2>3. Further(links, w) = w
    BY <1>0, <2>2 DEF Further
  <2> QED BY <1>1, <2>3 DEF AtEnd
<1>2. CASE \E m \in 1..(Len(w) - 1) : w[m] = v
  <2>1. Further(links, w) = w
    BY <1>0, <1>2 DEF Further
  <2> QED BY <1>2, <2>1 DEF AtEnd
<1>3. CASE /\ \E e \in links : e[1] = v
           /\ ~\E m \in 1..(Len(w) - 1) : w[m] = v
  <2>1. PICK e \in links : e[1] = v
    BY <1>3
  <2>2. next = {e[2]}
    BY <2>1 DEF Targets, Functional
  <2>3. Cardinality(next) = 1 /\ (CHOOSE t \in next : TRUE) = e[2]
    BY <2>2, FS_Singleton
  <2> HIDE DEF next
  <2>4. Further(links, w) = Append(w, e[2])
    BY <1>0, <1>3, <2>3 DEF Further, next
  <2> DEFINE longer == Append(w, e[2])
  <2>5. /\ longer \in Seq(V) /\ Len(longer) = Len(w) + 1 /\ longer[Len(w) + 1] = e[2]
        /\ \A i \in 1..Len(w) : longer[i] = w[i]
    BY <1>0
  <2>6. <<v, e[2]>> \in links
    BY <2>1 DEF Functional
  <2> HIDE DEF longer, V
  <2>7. \A i \in 1..(Len(longer) - 1) : <<longer[i], longer[i + 1]>> \in links
    <3>0. Len(longer) - 1 = Len(w)
      BY <1>0, <2>5
    <3> SUFFICES ASSUME NEW i \in 1..Len(w) PROVE <<longer[i], longer[i + 1]>> \in links
      BY <3>0, Zenon
    <3>1. CASE i = Len(w)
      BY <1>0, <2>5, <2>6, <3>1
    <3>2. CASE i # Len(w)
      <4>1. i \in 1..(Len(w) - 1) /\ i + 1 \in 1..Len(w)
        BY <1>0, <3>2
      <4>2. longer[i] = w[i] /\ longer[i + 1] = w[i + 1]
        BY <2>5, <4>1
      <4> QED BY <4>1, <4>2 DEF IsWalk
    <3> QED BY <3>1, <3>2
  <2>8. \A i, j \in 1..(Len(longer) - 1) : longer[i] = longer[j] => i = j
    <3> SUFFICES ASSUME NEW i \in 1..Len(w), NEW j \in 1..Len(w), w[i] = w[j] PROVE i = j
      BY <1>0, <2>5
    <3>1. CASE i = Len(w) \/ j = Len(w)
      BY <1>0, <1>3, <3>1
    <3>2. CASE i # Len(w) /\ j # Len(w)
      BY <1>0, <3>2 DEF IsWalk
    <3> QED BY <3>1, <3>2
  <2>9. IsWalk(links, s, longer)
    BY <1>0, <2>5, <2>7, <2>8 DEF IsWalk, V
  <2>10. ~AtEnd(links, w)
    BY <1>3 DEF AtEnd
  <2> QED BY <2>4, <2>5, <2>9, <2>10 DEF longer
<1> QED BY <1>1, <1>2, <1>3

WalksUpto(links, s, walks, n) ==
    walks = [m \in 0..n |-> IF m = 0 THEN <<s>> ELSE Further(links, walks[m - 1])]

LEMMA WalksExist ==
  ASSUME NEW links, NEW s, NEW n \in Nat
  PROVE  \E walks : WalksUpto(links, s, walks, n)
<1> DEFINE S == {k \in Nat : \E f : WalksUpto(links, s, f, k)}
<1>1. \E f : WalksUpto(links, s, f, 0)
  <2> DEFINE f == [m \in 0..0 |-> <<s>>]
  <2>1. f = [m \in 0..0 |-> IF m = 0 THEN <<s>> ELSE Further(links, f[m - 1])]
    OBVIOUS
  <2> QED BY <2>1 DEF WalksUpto
<1>2. ASSUME NEW k \in Nat, \E f : WalksUpto(links, s, f, k) PROVE \E f : WalksUpto(links, s, f, k + 1)
  <2>1. PICK f : WalksUpto(links, s, f, k)
    BY <1>2
  <2> DEFINE g == [m \in 0..(k + 1) |-> IF m = k + 1 THEN Further(links, f[k]) ELSE f[m]]
  <2>2. ASSUME NEW m \in 0..(k + 1)
        PROVE  g[m] = IF m = 0 THEN <<s>> ELSE Further(links, g[m - 1])
    <3>1. CASE m = k + 1
      BY <3>1
    <3>2. CASE m # k + 1
      <4>1. m \in 0..k /\ g[m] = f[m]
        BY <3>2
      <4>2. f[m] = IF m = 0 THEN <<s>> ELSE Further(links, f[m - 1])
        BY <2>1, <4>1 DEF WalksUpto
      <4>3. m # 0 => g[m - 1] = f[m - 1]
        BY <4>1
      <4> QED BY <4>1, <4>2, <4>3
    <3> QED BY <3>1, <3>2
  <2>3. g = [m \in 0..(k + 1) |-> g[m]]
    OBVIOUS
  <2> HIDE DEF g
  <2>4. g = [m \in 0..(k + 1) |-> IF m = 0 THEN <<s>> ELSE Further(links, g[m - 1])]
    BY <2>2, <2>3
  <2> QED BY <2>4 DEF WalksUpto
<1>3. 0 \in S /\ \A k \in Nat : k \in S => k + 1 \in S
  BY <1>1, <1>2
<1> HIDE DEF S
<1>4. n \in S
  BY <1>3, InductionOverNat
<1> QED BY <1>4 DEF S

\* Walk goes on until a symbol stands for nothing, or was met before.
LEMMA WalkIs ==
  ASSUME NEW links, IsFiniteSet(links), Functional(links), NEW s
  PROVE  IsWalk(links, s, Walk(links, s)) /\ AtEnd(links, Walk(links, s))
<1> DEFINE N == Cardinality(links) + 1
           walk[n \in 0..N] == IF n = 0 THEN <<s>>
                               ELSE LET before == walk[n - 1]
                                        next == Targets(links, Last(before)) IN
                                    IF Cardinality(next) # 1 \/ \E m \in 1..(Len(before) - 1) : before[m] = Last(before)
                                    THEN before ELSE Append(before, CHOOSE t \in next : TRUE)
<1>1. Walk(links, s) = walk[N]
  BY DEF Walk
<1>2. Cardinality(links) \in Nat /\ N \in Nat
  BY FS_CardinalityType
<1>3. PICK f : WalksUpto(links, s, f, N)
  <2> HIDE DEF N
  <2> QED BY <1>2, WalksExist
<1>4. f = [n \in 0..N |-> IF n = 0 THEN <<s>>
                          ELSE LET before == f[n - 1]
                                   next == Targets(links, Last(before)) IN
                               IF Cardinality(next) # 1 \/ \E m \in 1..(Len(before) - 1) : before[m] = Last(before)
                               THEN before ELSE Append(before, CHOOSE t \in next : TRUE)]
  BY <1>3, Zenon DEF WalksUpto, Further
<1>5. walk = [n \in 0..N |-> IF n = 0 THEN <<s>>
                             ELSE LET before == walk[n - 1]
                                      next == Targets(links, Last(before)) IN
                                  IF Cardinality(next) # 1 \/ \E m \in 1..(Len(before) - 1) : before[m] = Last(before)
                                  THEN before ELSE Append(before, CHOOSE t \in next : TRUE)]
  BY <1>4, Zenon
<1> HIDE DEF walk
<1>6. WalksUpto(links, s, walk, N)
  BY <1>5, Zenon DEF WalksUpto, Further
<1> DEFINE S == {n \in Nat : n <= N => /\ IsWalk(links, s, walk[n])
                                       /\ AtEnd(links, walk[n]) \/ Len(walk[n]) = n + 1}
<1> HIDE DEF N
<1>7. 0 \in S
  <2>1. walk[0] = <<s>>
    BY <1>2, <1>6 DEF WalksUpto
  <2>2. IsWalk(links, s, <<s>>)
    BY DEF IsWalk
  <2> QED BY <2>1, <2>2
<1>8. ASSUME NEW n \in Nat, n \in S PROVE n + 1 \in S
  <2> SUFFICES ASSUME n + 1 <= N
               PROVE  /\ IsWalk(links, s, walk[n + 1])
                      /\ AtEnd(links, walk[n + 1]) \/ Len(walk[n + 1]) = (n + 1) + 1
    OBVIOUS
  <2>1. IsWalk(links, s, walk[n]) /\ (AtEnd(links, walk[n]) \/ Len(walk[n]) = n + 1)
    BY <1>2, <1>8
  <2>2. walk[n + 1] = Further(links, walk[n])
    <3>1. n + 1 \in 0..N /\ n + 1 # 0 /\ (n + 1) - 1 = n
      BY <1>2
    <3> QED BY <1>6, <3>1 DEF WalksUpto
  <2>3. /\ IsWalk(links, s, walk[n + 1])
        /\ AtEnd(links, walk[n]) => walk[n + 1] = walk[n]
        /\ ~AtEnd(links, walk[n]) => Len(walk[n + 1]) = Len(walk[n]) + 1
    BY <2>1, <2>2, FurtherIs
  <2> QED BY <2>1, <2>3
<1> HIDE DEF S
<1>9. N \in S
  BY <1>2, <1>7, <1>8, InductionOverNat
<1>10. IsWalk(links, s, walk[N]) /\ (AtEnd(links, walk[N]) \/ Len(walk[N]) = N + 1)
  BY <1>2, <1>9 DEF S
<1>11. Len(walk[N]) - 1 <= Cardinality(links)
  BY <1>10, WalkIsShort
<1>12. Len(walk[N]) # N + 1
  BY <1>2, <1>11 DEF N
<1> QED BY <1>1, <1>10, <1>12

-----------------------------------------------------------------------------
(* What a walk ends in                                                     *)

LEMMA WalkReaches ==
  ASSUME NEW links, NEW s, NEW w, IsWalk(links, s, w), NEW i \in 1..Len(w), NEW j \in 1..Len(w), i <= j
  PROVE  Reaches(links, w[i], w[j])
<1> DEFINE S == {k \in Nat : i + k <= Len(w) => Reaches(links, w[i], w[i + k])}
<1>0. Len(w) \in Nat
  BY DEF IsWalk
<1>1. 0 \in S
  BY DEF Reaches
<1>2. ASSUME NEW k \in Nat, k \in S PROVE k + 1 \in S
  <2> SUFFICES ASSUME i + (k + 1) <= Len(w) PROVE Reaches(links, w[i], w[i + (k + 1)])
    OBVIOUS
  <2>1. i + k \in 1..(Len(w) - 1) /\ (i + k) + 1 = i + (k + 1) /\ i + k <= Len(w)
    BY <1>0
  <2>2. Reaches(links, w[i], w[i + k])
    BY <1>2, <2>1
  <2>3. <<w[i + k], w[i + (k + 1)]>> \in links
    BY <2>1 DEF IsWalk
  <2>4. Reaches(links, w[i + k], w[i + (k + 1)])
    BY <2>3 DEF Reaches, Closed
  <2> QED BY <2>2, <2>4, ReachesOnward
<1> HIDE DEF S
<1>3. j - i \in S
  BY <1>0, <1>1, <1>2, InductionOverNat
<1>4. i + (j - i) = j
  BY <1>0
<1> QED BY <1>0, <1>3, <1>4 DEF S

\* The rest of a walk is closed, from where its last symbol was met before.
LEMMA RestIsClosed ==
  ASSUME NEW links, Functional(links), NEW s, NEW w, IsWalk(links, s, w), NEW i \in 1..Len(w),
         (\A e \in links : e[1] # w[Len(w)]) \/ (\E m \in 1..(Len(w) - 1) : w[m] = w[Len(w)] /\ i <= m)
  PROVE  Closed(links, {w[k] : k \in i..Len(w)})
<1> DEFINE rest == {w[k] : k \in i..Len(w)}
<1>0. Len(w) \in Nat /\ Len(w) > 0
  BY DEF IsWalk
<1> SUFFICES ASSUME NEW e \in links, e[1] \in rest PROVE e[2] \in rest
  BY DEF Closed
<1>1. PICK k \in i..Len(w) : e[1] = w[k]
  OBVIOUS
<1>2. ASSUME NEW m \in i..(Len(w) - 1), e[1] = w[m] PROVE e[2] \in rest
  <2>1. m \in 1..(Len(w) - 1) /\ m + 1 \in i..Len(w)
    BY <1>0
  <2>2. <<w[m], w[m + 1]>> \in links
    BY <2>1 DEF IsWalk
  <2>3. e[2] = w[m + 1]
    BY <1>2, <2>2 DEF Functional
  <2> QED BY <2>1, <2>3
<1>3. CASE k # Len(w)
  <2>1. k \in i..(Len(w) - 1)
    BY <1>0, <1>3
  <2> QED BY <1>1, <1>2, <2>1
<1>4. CASE k = Len(w)
  <2>1. PICK m \in 1..(Len(w) - 1) : w[m] = w[Len(w)] /\ i <= m
    BY <1>1, <1>4
  <2>2. m \in i..(Len(w) - 1) /\ e[1] = w[m]
    BY <1>0, <1>1, <1>4, <2>1
  <2> QED BY <1>2, <2>2
<1> QED BY <1>3, <1>4

\* The loop that a walk ends in is what is reached from wherever it leads.
LEMMA LoopIsEnds ==
  ASSUME NEW links, Functional(links), NEW s, NEW w, IsWalk(links, s, w), AtEnd(links, w), NEW y
  PROVE  y \in Loop(w) <=> Ends(links, s, y)
<1> DEFINE L == Len(w)
           rest(i) == {w[k] : k \in i..L}
<1>1. L \in Nat /\ L > 0 /\ Last(w) = w[L] /\ w[1] = s /\ L \in 1..L /\ 1 \in 1..L
  BY DEF IsWalk, Last
<1>2. y \in Loop(w) <=> \E n \in 1..L : y = w[n] /\ \E j \in 1..n : w[j] = w[L]
  BY <1>1 DEF Loop
<1>3. \A i, j \in 1..L : i <= j => Reaches(links, w[i], w[j])
  BY WalkReaches
<1>4. CASE \A e \in links : e[1] # w[L]
  <2>1. y \in Loop(w) <=> y = w[L]
    <3>1. ASSUME NEW j \in 1..L, w[j] = w[L] PROVE j = L
      <4>1. j # L => <<w[j], w[j + 1]>> \in links
        BY <1>1 DEF IsWalk
      <4> QED BY <1>4, <3>1, <4>1
    <3>2. ASSUME NEW n \in 1..L, NEW j \in 1..n, w[j] = w[L] PROVE n = L
      <4>1. j \in 1..L
        BY <1>1
      <4>2. j = L
        BY <3>1, <3>2, <4>1
      <4> QED BY <1>1, <4>2
    <3> QED BY <1>1, <1>2, <3>2
  <2>2. Closed(links, {w[L]})
    BY <1>4 DEF Closed
  <2>3. \A v : Reaches(links, w[L], v) => v = w[L]
    BY <2>2 DEF Reaches
  <2>4. Reaches(links, s, w[L])
    BY <1>1, <1>3
  <2>5. Ends(links, s, w[L])
    BY <2>3, <2>4 DEF Ends
  <2>6. Ends(links, s, y) => y = w[L]
    <3>1. Closed(links, rest(1))
      BY <1>1, <1>4, RestIsClosed
    <3>2. s \in rest(1)
      BY <1>1
    <3> HIDE DEF rest
    <3>3. Ends(links, s, y) => y \in rest(1)
      BY <3>1, <3>2 DEF Ends, Reaches
    <3>4. y \in rest(1) => Reaches(links, y, w[L])
      BY <1>1, <1>3 DEF rest
    <3>5. Ends(links, s, y) => Reaches(links, w[L], y)
      BY <3>3, <3>4 DEF Ends
    <3> QED BY <2>3, <3>5
  <2> QED BY <2>1, <2>5, <2>6
<1>5. ASSUME NEW m \in 1..(L - 1), w[m] = w[L] PROVE y \in Loop(w) <=> Ends(links, s, y)
  <2>0. m \in 1..L /\ m < L
    BY <1>1
  <2>1. y \in Loop(w) <=> y \in rest(m)
    <3>1. ASSUME NEW j \in 1..L, w[j] = w[L] PROVE m <= j
      <4>1. j # L => j \in 1..(L - 1)
        BY <1>1
      <4>2. j # L => j = m
        BY <1>5, <3>1, <4>1 DEF IsWalk
      <4> QED BY <1>1, <2>0, <4>2
    <3>2. ASSUME NEW n \in 1..L, NEW j \in 1..n, w[j] = w[L] PROVE n \in m..L
      <4>1. j \in 1..L
        BY <1>1
      <4>2. m <= j
        BY <3>1, <3>2, <4>1
      <4> QED BY <1>1, <4>2
    <3>3. ASSUME NEW n \in m..L PROVE n \in 1..L /\ m \in 1..n
      BY <1>1
    <3> QED BY <1>2, <1>5, <3>2, <3>3
  <2>2. Closed(links, rest(m))
    <3>1. w[m] = w[Len(w)] /\ m <= m
      BY <1>1, <1>5
    <3> QED BY <1>1, <2>0, <3>1, RestIsClosed
  <2>3. Closed(links, rest(1))
    <3>1. w[m] = w[Len(w)] /\ 1 <= m
      BY <1>1, <1>5
    <3> QED BY <1>1, <3>1, RestIsClosed
  <2>4. w[m] \in rest(m) /\ s \in rest(1)
    BY <1>1, <2>0
  <2>5. \A v \in rest(m), u \in rest(m) : Reaches(links, v, u)
    <3> SUFFICES ASSUME NEW k \in m..L, NEW n \in m..L PROVE Reaches(links, w[k], w[n])
      OBVIOUS
    <3>1. Reaches(links, w[k], w[L]) /\ Reaches(links, w[m], w[n])
      BY <1>1, <1>3, <2>0
    <3> QED BY <1>5, <3>1, ReachesOnward
  <2>6. \A v \in rest(m) : Reaches(links, s, v)
    BY <1>1, <1>3, <2>0
  <2>7. \A v \in rest(1) : Reaches(links, v, w[m])
    <3> SUFFICES ASSUME NEW k \in 1..L PROVE Reaches(links, w[k], w[m])
      OBVIOUS
    <3> QED BY <1>1, <1>3, <1>5
  <2> HIDE DEF rest
  <2>8. ASSUME y \in rest(m) PROVE Ends(links, s, y)
    <3>1. \A v : Reaches(links, y, v) => v \in rest(m)
      BY <2>2, <2>8 DEF Reaches
    <3> QED BY <2>5, <2>6, <2>8, <3>1 DEF Ends
  <2>9. ASSUME Ends(links, s, y) PROVE y \in rest(m)
    <3>1. y \in rest(1)
      BY <2>3, <2>4, <2>9 DEF Ends, Reaches
    <3>2. Reaches(links, w[m], y)
      BY <2>7, <2>9, <3>1 DEF Ends
    <3> QED BY <2>2, <2>4, <3>2 DEF Reaches
  <2> QED BY <2>1, <2>8, <2>9
<1> QED BY <1>4, <1>5 DEF AtEnd

\* What leads to another ends in the same loop.
LEMMA ReachesLoop ==
  ASSUME NEW links, IsFiniteSet(links), Functional(links), NEW x, NEW y, Reaches(links, x, y)
  PROVE  Loop(Walk(links, x)) = Loop(Walk(links, y))
<1> DEFINE S == {v \in {x} \union {e[2] : e \in links} : \A u : Ends(links, v, u) <=> Ends(links, x, u)}
<1>1. x \in S
  OBVIOUS
<1>2. Closed(links, S)
  <2> SUFFICES ASSUME NEW e \in links, e[1] \in S PROVE e[2] \in S
    BY DEF Closed
  <2>1. \A u : Ends(links, e[1], u) <=> Ends(links, e[2], u)
    BY EndsNext
  <2> QED BY <2>1
<1>3. y \in S
  <2> HIDE DEF S
  <2> QED BY <1>1, <1>2 DEF Reaches
<1>4. \A u : u \in Loop(Walk(links, x)) <=> Ends(links, x, u)
  BY WalkIs, LoopIsEnds
<1>5. \A u : u \in Loop(Walk(links, y)) <=> Ends(links, y, u)
  BY WalkIs, LoopIsEnds
<1>6. \A u : u \in Loop(Walk(links, x)) <=> u \in Loop(Walk(links, y))
  BY <1>3, <1>4, <1>5
<1> QED BY <1>6, Zenon

\* A walk ends in its loop, and its loop is of what it leads to.
LEMMA LoopIs ==
  ASSUME NEW links, IsFiniteSet(links), Functional(links), NEW x
  PROVE  /\ Last(Walk(links, x)) \in Loop(Walk(links, x))
         /\ \A y \in Loop(Walk(links, x)) : Reaches(links, x, y)
<1> DEFINE w == Walk(links, x)
<1>1. IsWalk(links, x, w) /\ AtEnd(links, w)
  BY WalkIs
<1>2. Len(w) \in Nat /\ Len(w) > 0 /\ Last(w) = w[Len(w)]
  BY <1>1 DEF IsWalk, Last
<1> HIDE DEF w
<1>3. Last(w) \in Loop(w)
  BY <1>2 DEF Loop
<1>4. \A y \in Loop(w) : Reaches(links, x, y)
  BY <1>1, LoopIsEnds DEF Ends
<1> QED BY <1>3, <1>4 DEF w

-----------------------------------------------------------------------------
(* The identifiers of a program                                            *)

IsProgram(p) ==
    \A f \in File :
        /\ p[f] \in Seq(Range(p[f]))
        /\ \A i \in Places(p, f) : IsNode(p[f][i], f) /\ p[f][i].parent \in 0..(i - 1)

IdAt(p, f, ids, j) ==
    IF j = 0 THEN ModuleId(f)
    ELSE <<f, SymbolKind(p[f][j]), ids[p[f][j].parent], p[f][j].name, Signature(p[f][j])>>

LEMMA IdsExist ==
  ASSUME NEW p, NEW f, NEW n \in Nat, \A i \in 1..n : p[f][i].parent \in 0..(i - 1)
  PROVE  \E ids : ids = [j \in 0..n |-> IdAt(p, f, ids, j)]
<1> DEFINE S == {k \in Nat : k <= n => \E ids : ids = [j \in 0..k |-> IdAt(p, f, ids, j)]}
<1>1. 0 \in S
  <2> DEFINE ids == [j \in 0..0 |-> ModuleId(f)]
  <2>1. ids = [j \in 0..0 |-> IdAt(p, f, ids, j)]
    BY DEF IdAt
  <2> QED BY <2>1
<1>2. ASSUME NEW k \in Nat, k \in S PROVE k + 1 \in S
  <2> SUFFICES ASSUME k + 1 <= n PROVE \E ids : ids = [j \in 0..(k + 1) |-> IdAt(p, f, ids, j)]
    OBVIOUS
  <2>1. PICK old : old = [j \in 0..k |-> IdAt(p, f, old, j)]
    BY <1>2
  <2> DEFINE ids == [j \in 0..(k + 1) |-> IF j = k + 1 THEN IdAt(p, f, old, j) ELSE old[j]]
  <2>2. ASSUME NEW j \in 0..(k + 1) PROVE ids[j] = IdAt(p, f, ids, j)
    <3>1. j # 0 => p[f][j].parent \in 0..k /\ p[f][j].parent # k + 1
      <4>1. j # 0 => j \in 1..n
        OBVIOUS
      <4>2. j # 0 => p[f][j].parent \in 0..(j - 1)
        BY <4>1
      <4> QED BY <4>2
    <3>2. j # 0 => ids[p[f][j].parent] = old[p[f][j].parent]
      BY <3>1
    <3>3. IdAt(p, f, ids, j) = IdAt(p, f, old, j)
      <4> HIDE DEF ids
      <4> QED BY <3>2 DEF IdAt
    <3>4. j # k + 1 => j \in 0..k
      OBVIOUS
    <3>5. j # k + 1 => old[j] = IdAt(p, f, old, j)
      BY <2>1, <3>4
    <3> QED BY <3>3, <3>5
  <2>3. ids = [j \in 0..(k + 1) |-> ids[j]]
    OBVIOUS
  <2> HIDE DEF ids
  <2>4. ids = [j \in 0..(k + 1) |-> IdAt(p, f, ids, j)]
    BY <2>2, <2>3
  <2> QED BY <2>4
<1> HIDE DEF S
<1>3. n \in S
  BY <1>1, <1>2, InductionOverNat
<1> QED BY <1>3 DEF S

\* An identifier names the file, the container and the signature of its symbol.
LEMMA IdIs ==
  ASSUME NEW p, IsProgram(p), NEW f \in File, NEW i \in Places(p, f)
  PROVE  Id(p, f, i) =
            <<f, SymbolKind(p[f][i]), Id(p, f, p[f][i].parent), p[f][i].name, Signature(p[f][i])>>
<1> DEFINE n == Len(p[f])
           id[j \in 0..n] == IF j = 0 THEN ModuleId(f)
                             ELSE <<f, SymbolKind(p[f][j]), id[p[f][j].parent], p[f][j].name, Signature(p[f][j])>>
<1>1. n \in Nat /\ Places(p, f) = 1..n
  BY DEF IsProgram, Places
<1>2. \A j \in 1..n : p[f][j].parent \in 0..(j - 1)
  BY <1>1 DEF IsProgram
<1>3. \A j : SymbolId(p, f, j) = id[j]
  BY DEF SymbolId
<1>4. PICK ids : ids = [j \in 0..n |-> IdAt(p, f, ids, j)]
  <2> HIDE DEF n
  <2> QED BY <1>1, <1>2, IdsExist
<1>5. ids = [j \in 0..n |-> IF j = 0 THEN ModuleId(f)
                            ELSE <<f, SymbolKind(p[f][j]), ids[p[f][j].parent], p[f][j].name, Signature(p[f][j])>>]
  BY <1>4, Zenon DEF IdAt
<1>6. id = [j \in 0..n |-> IF j = 0 THEN ModuleId(f)
                           ELSE <<f, SymbolKind(p[f][j]), id[p[f][j].parent], p[f][j].name, Signature(p[f][j])>>]
  BY <1>5, Zenon
<1> HIDE DEF id
<1>7. i \in 0..n /\ i # 0
  BY <1>1
<1> HIDE DEF n
<1>8. id[i] = <<f, SymbolKind(p[f][i]), id[p[f][i].parent], p[f][i].name, Signature(p[f][i])>>
  BY <1>6, <1>7
<1>9. id[0] = ModuleId(f)
  <2>1. 0 \in 0..n
    BY <1>1
  <2> QED BY <1>6, <2>1
<1>10. \A j : Id(p, f, j) = id[j]
  BY <1>3, <1>9 DEF Id
<1> QED BY <1>8, <1>10

\* What a function gives of a finite set is finite.
LEMMA FiniteImage ==
  ASSUME NEW g, IsFiniteSet(DOMAIN g)
  PROVE  IsFiniteSet({g[x] : x \in DOMAIN g})
<1> DEFINE T == {g[x] : x \in DOMAIN g}
           h == [x \in DOMAIN g |-> g[x]]
<1>1. h \in Surjection(DOMAIN g, T)
  BY DEF Surjection
<1> HIDE DEF h, T
<1>2. IsFiniteSet(T)
  BY <1>1, FS_Surjection
<1> QED BY <1>2 DEF T

LEMMA PlacesFinite ==
  ASSUME NEW p, IsProgram(p), NEW f \in File, NEW X \in SUBSET Places(p, f)
  PROVE  IsFiniteSet(X)
<1>1. Len(p[f]) \in Nat /\ Places(p, f) = 1..Len(p[f])
  BY DEF IsProgram, Places
<1>2. IsFiniteSet(1..Len(p[f]))
  BY <1>1, FS_Interval
<1> QED BY <1>1, <1>2, FS_Subset

\* What a name is exported as is one symbol, or is left open.
LEMMA UniqueIs ==
  ASSUME NEW p, IsProgram(p), NEW f \in File \union {None}, NEW name
  PROVE  \/ UniqueExportedSymbol(p, f, name) = {}
         \/ f \in File /\ \E s \in ExportedAs(p, f, name) : UniqueExportedSymbol(p, f, name) = {s}
<1>1. CASE f = None
  <2>1. UniqueExportedSymbol(p, f, name) = {}
    BY <1>1 DEF UniqueExportedSymbol
  <2> QED BY <2>1
<1>2. CASE f # None
  <2> DEFINE X == {j \in Places(p, f) : ExportedName(p[f][j]) = name}
             g == [i \in X |-> Exports(p, f, i)]
             T == {g[i] : i \in DOMAIN g}
  <2>1. IsFiniteSet(T)
    <3>1. IsFiniteSet(DOMAIN g)
      BY <1>2, PlacesFinite
    <3> HIDE DEF g
    <3> QED BY <3>1, FiniteImage
  <2>2. ExportedAs(p, f, name) = T \ {None}
    BY DEF ExportedAs
  <2>3. ExportedAs(p, f, name) \in SUBSET T
    BY <2>2
  <2> HIDE DEF T
  <2>4. IsFiniteSet(ExportedAs(p, f, name))
    BY <2>1, <2>3, FS_Subset
  <2>5. CASE Cardinality(ExportedAs(p, f, name)) = 1
    <3>1. PICK s : ExportedAs(p, f, name) = {s}
      BY <2>4, <2>5, FS_Singleton
    <3>2. UniqueExportedSymbol(p, f, name) = ExportedAs(p, f, name)
      BY <1>2, <2>5 DEF UniqueExportedSymbol
    <3> QED BY <1>2, <3>1, <3>2
  <2>6. CASE Cardinality(ExportedAs(p, f, name)) # 1
    BY <1>2, <2>6 DEF UniqueExportedSymbol
  <2> QED BY <2>5, <2>6
<1> QED BY <1>1, <1>2

-----------------------------------------------------------------------------
(* The edges of aliases of a program                                       *)

\* What an edge leads from and to.
LEMMA EdgeIs ==
  ASSUME NEW p, NEW e \in AliasEdges(p)
  PROVE  \E f \in File : \E i \in Places(p, f) :
            /\ p[f][i].kind \in {"import", "reexport"} /\ p[f][i].other # "*"
            /\ e[1] = Id(p, f, i) /\ e = <<e[1], e[2]>>
            /\ e[2] \in UniqueExportedSymbol(p, p[f][i].from, p[f][i].other)
BY DEF AliasEdges, BindingEdges

\* A binding stands for what its file gets from another under a name: both are
\* part of its signature, and so of its identifier.
LEMMA AliasesFunctional ==
  ASSUME NEW p, IsProgram(p)
  PROVE  Functional(AliasEdges(p))
<1>1. ASSUME NEW e \in AliasEdges(p), NEW g \in AliasEdges(p), e[1] = g[1]
      PROVE  e[2] = g[2]
  <2>1. PICK f \in File : \E i \in Places(p, f) :
            /\ p[f][i].kind \in {"import", "reexport"} /\ e[1] = Id(p, f, i)
            /\ e[2] \in UniqueExportedSymbol(p, p[f][i].from, p[f][i].other)
    BY EdgeIs
  <2>2. PICK i \in Places(p, f) :
            /\ p[f][i].kind \in {"import", "reexport"} /\ e[1] = Id(p, f, i)
            /\ e[2] \in UniqueExportedSymbol(p, p[f][i].from, p[f][i].other)
    BY <2>1
  <2>3. PICK h \in File : \E j \in Places(p, h) :
            /\ p[h][j].kind \in {"import", "reexport"} /\ g[1] = Id(p, h, j)
            /\ g[2] \in UniqueExportedSymbol(p, p[h][j].from, p[h][j].other)
    BY EdgeIs
  <2>4. PICK j \in Places(p, h) :
            /\ p[h][j].kind \in {"import", "reexport"} /\ g[1] = Id(p, h, j)
            /\ g[2] \in UniqueExportedSymbol(p, p[h][j].from, p[h][j].other)
    BY <2>3
  <2>5. PICK c : Id(p, f, i) = <<f, SymbolKind(p[f][i]), c, p[f][i].name, Signature(p[f][i])>>
    BY IdIs
  <2>6. PICK d : Id(p, h, j) = <<h, SymbolKind(p[h][j]), d, p[h][j].name, Signature(p[h][j])>>
    BY IdIs
  <2>7. Signature(p[f][i]) = Signature(p[h][j])
    <3>1. Id(p, f, i)[5] = Signature(p[f][i])
      BY <2>5
    <3>2. Id(p, h, j)[5] = Signature(p[h][j])
      BY <2>6
    <3> QED BY <1>1, <2>2, <2>4, <3>1, <3>2
  <2>8. /\ Signature(p[f][i]) = <<p[f][i].kind, p[f][i].from, p[f][i].other, p[f][i].name>>
        /\ Signature(p[h][j]) = <<p[h][j].kind, p[h][j].from, p[h][j].other, p[h][j].name>>
    BY <2>2, <2>4 DEF Signature
  <2>9. p[f][i].from = p[h][j].from /\ p[f][i].other = p[h][j].other
    <3> DEFINE here == Signature(p[f][i])
               there == Signature(p[h][j])
    <3>1. here[2] = p[f][i].from /\ here[3] = p[f][i].other
      BY <2>8
    <3>2. there[2] = p[h][j].from /\ there[3] = p[h][j].other
      BY <2>8
    <3> QED BY <2>7, <3>1, <3>2
  <2> DEFINE from == p[f][i].from
             other == p[f][i].other
  <2>10. from \in File \union {None}
    BY DEF IsProgram, IsNode
  <2>11. e[2] \in UniqueExportedSymbol(p, from, other) /\ g[2] \in UniqueExportedSymbol(p, from, other)
    BY <2>2, <2>4, <2>9
  <2> HIDE DEF from, other
  <2>12. \/ UniqueExportedSymbol(p, from, other) = {}
         \/ \E s \in ExportedAs(p, from, other) : UniqueExportedSymbol(p, from, other) = {s}
    BY <2>10, UniqueIs, Zenon
  <2>13. PICK s : UniqueExportedSymbol(p, from, other) = {s}
    BY <2>11, <2>12
  <2> QED BY <2>11, <2>13
<1>2. \A e \in AliasEdges(p) : e = <<e[1], e[2]>>
  BY EdgeIs
<1> QED BY <1>1, <1>2 DEF Functional

LEMMA AliasesFinite ==
  ASSUME NEW p, IsProgram(p), IsFiniteSet(File)
  PROVE  IsFiniteSet(AliasEdges(p))
<1> DEFINE at(f) == {j \in Places(p, f) : p[f][j].kind \in {"import", "reexport"} /\ p[f][j].other # "*"}
           made(f, i) == {<<Id(p, f, i), s>> : s \in UniqueExportedSymbol(p, p[f][i].from, p[f][i].other)}
           of(f) == UNION {made(f, i) : i \in at(f)}
<1>1. ASSUME NEW f \in File, NEW i \in at(f) PROVE IsFiniteSet(made(f, i))
  <2> DEFINE from == p[f][i].from
             other == p[f][i].other
             id == Id(p, f, i)
  <2>1. from \in File \union {None}
    BY DEF IsProgram, IsNode
  <2> HIDE DEF from, other, id
  <2>2. made(f, i) = {<<id, s>> : s \in UniqueExportedSymbol(p, from, other)}
    BY DEF from, other, id
  <2>3. CASE UniqueExportedSymbol(p, from, other) = {}
    BY <2>2, <2>3, FS_EmptySet
  <2>4. ASSUME NEW s, UniqueExportedSymbol(p, from, other) = {s} PROVE IsFiniteSet(made(f, i))
    <3>1. made(f, i) = {<<id, s>>}
      BY <2>2, <2>4
    <3> QED BY <3>1, FS_Singleton
  <2> QED BY <2>1, <2>3, <2>4, UniqueIs
<1> HIDE DEF made
<1>2. ASSUME NEW f \in File PROVE IsFiniteSet(of(f))
  <2> DEFINE g == [i \in at(f) |-> made(f, i)]
             G == {g[i] : i \in DOMAIN g}
  <2>1. IsFiniteSet(at(f))
    BY PlacesFinite
  <2> HIDE DEF at
  <2>2. IsFiniteSet(DOMAIN g)
    BY <2>1
  <2>3. of(f) = UNION G
    OBVIOUS
  <2>4. \A x \in G : IsFiniteSet(x)
    BY <1>1
  <2> HIDE DEF g, of
  <2>5. IsFiniteSet(G)
    BY <2>2, FiniteImage
  <2> HIDE DEF G
  <2> QED BY <2>3, <2>4, <2>5, FS_UNION
<1> DEFINE h == [f \in File |-> of(f)]
           H == {h[f] : f \in DOMAIN h}
<1>3. AliasEdges(p) = UNION H
  <2>1. AliasEdges(p) = UNION {of(f) : f \in File}
    BY Zenon DEF AliasEdges, BindingEdges, made
  <2> HIDE DEF of
  <2> QED BY <2>1
<1> HIDE DEF of
<1>4. IsFiniteSet(DOMAIN h) /\ \A x \in H : IsFiniteSet(x)
  BY <1>2
<1> HIDE DEF h
<1>5. IsFiniteSet(H)
  BY <1>4, FiniteImage
<1> HIDE DEF H
<1> QED BY <1>3, <1>4, <1>5, FS_UNION

\* What a node exports is a symbol of its file.
LEMMA ExportsSymbol ==
  ASSUME NEW p, NEW f \in File, NEW i \in Places(p, f), Exports(p, f, i) # None
  PROVE  Exports(p, f, i) \in Symbols(p, f)
<1> DEFINE n == p[f][i]
           candidates == TopLevelNamed(p, f, n.other, i)
<1>1. \A j \in Made(p, f) : Id(p, f, j) \in Symbols(p, f)
  BY DEF Symbols
<1>2. CASE (Declares(n) /\ n.export # "no") \/ n.kind = "reexport" \/ i \in Recovered(p, f)
  <2>1. i \in Made(p, f)
    BY <1>2 DEF Made, MakesSymbol
  <2>2. Exports(p, f, i) = Id(p, f, i)
    <3>1. n.kind # "export"
      BY <1>2 DEF Declares, Recovered
    <3> DEFINE first == (Declares(n) /\ n.export # "no") \/ n.kind = "reexport" \/ i \in Recovered(p, f)
               clause == IF Cardinality(candidates) = 1 THEN CHOOSE s \in candidates : TRUE ELSE None
    <3>2. Exports(p, f, i) = CASE first -> Id(p, f, i) [] n.kind = "export" -> clause [] OTHER -> None
      BY Zenon DEF Exports
    <3>3. first
      BY <1>2
    <3> HIDE DEF first, clause, n
    <3> QED BY <3>1, <3>2, <3>3
  <2> QED BY <1>1, <2>1, <2>2
<1>3. CASE /\ ~((Declares(n) /\ n.export # "no") \/ n.kind = "reexport" \/ i \in Recovered(p, f))
           /\ n.kind = "export" /\ Cardinality(candidates) = 1
  <2>1. Exports(p, f, i) = CHOOSE s \in candidates : TRUE
    BY <1>3 DEF Exports
  <2>2. candidates # {}
    BY <1>3, FS_EmptySet
  <2>3. Exports(p, f, i) \in candidates
    <3> HIDE DEF candidates
    <3> QED BY <2>1, <2>2
  <2>4. \E j \in Kept(p, f) : Exports(p, f, i) = Id(p, f, j)
    BY <2>3 DEF TopLevelNamed
  <2>5. Kept(p, f) \subseteq Made(p, f)
    BY DEF Kept
  <2> QED BY <1>1, <2>4, <2>5
<1> QED BY <1>2, <1>3 DEF Exports

LEMMA AliasesOfSymbols ==
  ASSUME NEW p, IsProgram(p), NEW e \in AliasEdges(p)
  PROVE  e[1] \in AllSymbols(p) /\ e[2] \in AllSymbols(p)
<1>1. PICK f \in File : \E i \in Places(p, f) :
          /\ p[f][i].kind \in {"import", "reexport"} /\ e[1] = Id(p, f, i)
          /\ e[2] \in UniqueExportedSymbol(p, p[f][i].from, p[f][i].other)
  BY EdgeIs
<1>2. PICK i \in Places(p, f) :
          /\ p[f][i].kind \in {"import", "reexport"} /\ e[1] = Id(p, f, i)
          /\ e[2] \in UniqueExportedSymbol(p, p[f][i].from, p[f][i].other)
  BY <1>1
<1>3. e[1] \in AllSymbols(p)
  <2>1. i \in Made(p, f)
    BY <1>2 DEF Made, MakesSymbol
  <2>2. e[1] \in Symbols(p, f)
    BY <1>2, <2>1 DEF Symbols
  <2> QED BY <2>2 DEF AllSymbols
<1>4. e[2] \in AllSymbols(p)
  <2> DEFINE from == p[f][i].from
             other == p[f][i].other
  <2>1. from \in File \union {None} /\ e[2] \in UniqueExportedSymbol(p, from, other)
    BY <1>2 DEF IsProgram, IsNode
  <2> HIDE DEF from, other
  <2>2. from \in File /\ e[2] \in ExportedAs(p, from, other)
    BY <2>1, UniqueIs
  <2>3. PICK j \in Places(p, from) : e[2] = Exports(p, from, j) /\ e[2] # None
    BY <2>2 DEF ExportedAs
  <2>4. e[2] \in Symbols(p, from)
    BY <2>2, <2>3, ExportsSymbol
  <2> QED BY <2>2, <2>4 DEF AllSymbols
<1> QED BY <1>3, <1>4

LEMMA ReachesSymbols ==
  ASSUME NEW p, IsProgram(p), NEW s \in AllSymbols(p), NEW y, Reaches(AliasEdges(p), s, y)
  PROVE  y \in AllSymbols(p)
<1>1. Closed(AliasEdges(p), AllSymbols(p))
  BY AliasesOfSymbols DEF Closed
<1> QED BY <1>1 DEF Reaches

-----------------------------------------------------------------------------
(* What leads to a symbol                                                  *)

UpFrom(links, above) == above \union {e[1] : e \in {d \in links : d[2] \in above}}
UpsUpto(links, s, ups, n) == ups = [m \in 0..n |-> IF m = 0 THEN {s} ELSE UpFrom(links, ups[m - 1])]

LEMMA UpsExist ==
  ASSUME NEW links, NEW s, NEW n \in Nat
  PROVE  \E ups : UpsUpto(links, s, ups, n)
<1> DEFINE S == {k \in Nat : \E f : UpsUpto(links, s, f, k)}
<1>1. \E f : UpsUpto(links, s, f, 0)
  <2> DEFINE f == [m \in 0..0 |-> {s}]
  <2>1. f = [m \in 0..0 |-> IF m = 0 THEN {s} ELSE UpFrom(links, f[m - 1])]
    OBVIOUS
  <2> QED BY <2>1 DEF UpsUpto
<1>2. ASSUME NEW k \in Nat, \E f : UpsUpto(links, s, f, k) PROVE \E f : UpsUpto(links, s, f, k + 1)
  <2>1. PICK f : UpsUpto(links, s, f, k)
    BY <1>2
  <2> DEFINE g == [m \in 0..(k + 1) |-> IF m = k + 1 THEN UpFrom(links, f[k]) ELSE f[m]]
  <2>2. ASSUME NEW m \in 0..(k + 1)
        PROVE  g[m] = IF m = 0 THEN {s} ELSE UpFrom(links, g[m - 1])
    <3>1. CASE m = k + 1
      BY <3>1
    <3>2. CASE m # k + 1
      <4>1. m \in 0..k /\ g[m] = f[m]
        BY <3>2
      <4>2. f[m] = IF m = 0 THEN {s} ELSE UpFrom(links, f[m - 1])
        BY <2>1, <4>1 DEF UpsUpto
      <4>3. m # 0 => g[m - 1] = f[m - 1]
        BY <4>1
      <4> QED BY <4>1, <4>2, <4>3
    <3> QED BY <3>1, <3>2
  <2>3. g = [m \in 0..(k + 1) |-> g[m]]
    OBVIOUS
  <2> HIDE DEF g
  <2>4. g = [m \in 0..(k + 1) |-> IF m = 0 THEN {s} ELSE UpFrom(links, g[m - 1])]
    BY <2>2, <2>3
  <2> QED BY <2>4 DEF UpsUpto
<1>3. 0 \in S /\ \A k \in Nat : k \in S => k + 1 \in S
  BY <1>1, <1>2
<1> HIDE DEF S
<1>4. n \in S
  BY <1>3, InductionOverNat
<1> QED BY <1>4 DEF S

LEMMA UpstreamIsUps ==
  ASSUME NEW p, IsProgram(p), IsFiniteSet(File), NEW s
  PROVE  /\ Cardinality(AliasEdges(p)) \in Nat
         /\ \E ups : /\ UpsUpto(AliasEdges(p), s, ups, Cardinality(AliasEdges(p)))
                     /\ Upstream(p, s) = ups[Cardinality(AliasEdges(p))]
<1> DEFINE links == AliasEdges(p)
           N == Cardinality(links)
           up[n \in 0..N] == IF n = 0 THEN {s}
                             ELSE LET above == up[n - 1] IN
                                  above \union {e[1] : e \in {d \in links : d[2] \in above}}
<1>1. Upstream(p, s) = up[N]
  BY DEF Upstream
<1>2. N \in Nat
  BY AliasesFinite, FS_CardinalityType
<1>3. PICK f : UpsUpto(links, s, f, N)
  <2> HIDE DEF N, links
  <2> QED BY <1>2, UpsExist
<1>4. f = [n \in 0..N |-> IF n = 0 THEN {s}
                          ELSE LET above == f[n - 1] IN
                               above \union {e[1] : e \in {d \in links : d[2] \in above}}]
  BY <1>3, Zenon DEF UpsUpto, UpFrom
<1>5. up = [n \in 0..N |-> IF n = 0 THEN {s}
                           ELSE LET above == up[n - 1] IN
                                above \union {e[1] : e \in {d \in links : d[2] \in above}}]
  BY <1>4, Zenon
<1> HIDE DEF up
<1>6. UpsUpto(links, s, up, N)
  BY <1>5, Zenon DEF UpsUpto, UpFrom
<1> HIDE DEF N, links
<1> QED BY <1>1, <1>2, <1>6, Zenon DEF N, links

\* What is upstream of a symbol leads to it, and is the symbol or a binding.
LEMMA UpstreamIs ==
  ASSUME NEW p, IsProgram(p), IsFiniteSet(File), NEW s, NEW x \in Upstream(p, s)
  PROVE  Reaches(AliasEdges(p), x, s) /\ (x = s \/ x \in AllSymbols(p))
<1> DEFINE links == AliasEdges(p)
           N == Cardinality(links)
<1>1. N \in Nat
  BY UpstreamIsUps
<1>2. PICK up : UpsUpto(links, s, up, N) /\ Upstream(p, s) = up[N]
  BY UpstreamIsUps, Zenon
<1> DEFINE S == {n \in Nat : n <= N => \A v \in up[n] : Reaches(links, v, s) /\ (v = s \/ v \in AllSymbols(p))}
<1>3. \A e \in links : e[1] \in AllSymbols(p) /\ Reaches(links, e[1], e[2])
  BY AliasesOfSymbols, AliasesFunctional, ReachesNext
<1> HIDE DEF N, links
<1>4. 0 \in S
  <2>1. up[0] = {s}
    BY <1>1, <1>2 DEF UpsUpto
  <2> QED BY <2>1 DEF Reaches
<1>5. ASSUME NEW n \in Nat, n \in S PROVE n + 1 \in S
  <2> SUFFICES ASSUME n + 1 <= N, NEW v \in up[n + 1]
               PROVE  Reaches(links, v, s) /\ (v = s \/ v \in AllSymbols(p))
    OBVIOUS
  <2>1. \A u \in up[n] : Reaches(links, u, s) /\ (u = s \/ u \in AllSymbols(p))
    BY <1>1, <1>5
  <2>2. up[n + 1] = UpFrom(links, up[n])
    <3>1. n + 1 \in 0..N /\ n + 1 # 0 /\ (n + 1) - 1 = n
      BY <1>1
    <3> QED BY <1>2, <3>1 DEF UpsUpto
  <2>3. CASE v \in up[n]
    BY <2>1, <2>3
  <2>4. CASE v \notin up[n]
    <3>1. PICK e \in links : e[2] \in up[n] /\ v = e[1]
      BY <2>2, <2>4 DEF UpFrom
    <3>2. Reaches(links, e[2], s) /\ Reaches(links, e[1], e[2]) /\ e[1] \in AllSymbols(p)
      BY <1>3, <2>1, <3>1
    <3> QED BY <3>1, <3>2, ReachesOnward
  <2> QED BY <2>3, <2>4
<1> HIDE DEF S
<1>6. N \in S
  BY <1>1, <1>4, <1>5, InductionOverNat
<1>7. \A v \in up[N] : Reaches(links, v, s) /\ (v = s \/ v \in AllSymbols(p))
  BY <1>1, <1>6 DEF S
<1> QED BY <1>2, <1>7 DEF links

\* Every symbol is upstream of what it stands for: no walk has more steps than
\* there are edges.
LEMMA UpstreamHas ==
  ASSUME NEW p, IsProgram(p), IsFiniteSet(File), NEW s
  PROVE  s \in Upstream(p, Canonical(p, s))
<1> DEFINE links == AliasEdges(p)
           N == Cardinality(links)
           w == Walk(links, s)
           L == Len(w)
           end == Canonical(p, s)
<1>1. N \in Nat
  BY UpstreamIsUps
<1>2. PICK up : UpsUpto(links, end, up, N) /\ Upstream(p, end) = up[N]
  BY UpstreamIsUps, Zenon
<1>3. IsFiniteSet(links) /\ Functional(links)
  BY AliasesFinite, AliasesFunctional
<1>4. IsWalk(links, s, w)
  BY <1>3, WalkIs
<1>5. L - 1 <= N
  BY <1>3, <1>4, WalkIsShort
<1>6. end = Last(w)
  BY DEF Canonical, CanonicalIn
<1> HIDE DEF N, links, w, end
<1>7. L \in Nat /\ L > 0 /\ w[1] = s /\ end = w[L]
  BY <1>4, <1>6 DEF IsWalk, Last
<1>8. \A i \in 1..(L - 1) : <<w[i], w[i + 1]>> \in links
  BY <1>4 DEF IsWalk
<1> HIDE DEF L
<1>9. up[0] = {end} /\ \A n \in Nat : n + 1 <= N => up[n + 1] = UpFrom(links, up[n])
  <2>1. up[0] = {end}
    BY <1>1, <1>2 DEF UpsUpto
  <2>2. ASSUME NEW n \in Nat, n + 1 <= N PROVE up[n + 1] = UpFrom(links, up[n])
    <3>1. n + 1 \in 0..N /\ n + 1 # 0 /\ (n + 1) - 1 = n
      BY <1>1, <2>2
    <3> QED BY <1>2, <3>1 DEF UpsUpto
  <2> QED BY <2>1, <2>2
<1> DEFINE S == {k \in Nat : k <= L - 1 => w[L - k] \in up[k]}
<1>10. 0 \in S
  BY <1>7, <1>9
<1>11. ASSUME NEW k \in Nat, k \in S PROVE k + 1 \in S
  <2> SUFFICES ASSUME k + 1 <= L - 1 PROVE w[L - (k + 1)] \in up[k + 1]
    OBVIOUS
  <2>1. w[L - k] \in up[k]
    BY <1>7, <1>11
  <2>2. up[k + 1] = UpFrom(links, up[k])
    BY <1>1, <1>5, <1>7, <1>9
  <2>3. L - (k + 1) \in 1..(L - 1) /\ (L - (k + 1)) + 1 = L - k
    BY <1>7
  <2>4. <<w[L - (k + 1)], w[L - k]>> \in links
    BY <1>8, <2>3
  <2> QED BY <2>1, <2>2, <2>4 DEF UpFrom
<1> HIDE DEF S
<1>12. L - 1 \in S
  BY <1>7, <1>10, <1>11, InductionOverNat
<1>13. s \in up[L - 1]
  BY <1>7, <1>12 DEF S
<1> DEFINE T == {k \in Nat : (L - 1) + k <= N => s \in up[(L - 1) + k]}
<1>14. 0 \in T
  BY <1>7, <1>13
<1>15. ASSUME NEW k \in Nat, k \in T PROVE k + 1 \in T
  <2> SUFFICES ASSUME (L - 1) + (k + 1) <= N PROVE s \in up[(L - 1) + (k + 1)]
    OBVIOUS
  <2>1. s \in up[(L - 1) + k]
    BY <1>1, <1>7, <1>15
  <2>2. up[((L - 1) + k) + 1] = UpFrom(links, up[(L - 1) + k])
    BY <1>1, <1>7, <1>9
  <2>3. ((L - 1) + k) + 1 = (L - 1) + (k + 1)
    BY <1>7
  <2> QED BY <2>1, <2>2, <2>3 DEF UpFrom
<1> HIDE DEF T
<1>16. N - (L - 1) \in T
  BY <1>1, <1>5, <1>7, <1>14, <1>15, InductionOverNat
<1>17. (L - 1) + (N - (L - 1)) = N
  BY <1>1, <1>7
<1>18. s \in up[N]
  BY <1>1, <1>5, <1>7, <1>16, <1>17 DEF T
<1> QED BY <1>2, <1>18 DEF end

\* The symbols whose uses the queries list for a canonical symbol are those
\* whose canonical symbol it is.
LEMMA UpstreamIsCanonical ==
  ASSUME NEW p, IsProgram(p), IsFiniteSet(File), NEW s \in AllSymbols(p), NEW y, y = CanonicalMap(p)[s],
         NEW x \in Upstream(p, Canonical(p, y))
  PROVE  x \in AllSymbols(p) /\ CanonicalMap(p)[x] = y
<1> DEFINE links == AliasEdges(p)
           end == Canonical(p, y)
<1>1. IsFiniteSet(links) /\ Functional(links)
  BY AliasesFinite, AliasesFunctional
<1>2. \A v \in AllSymbols(p) : CanonicalMap(p)[v] = CHOOSE c \in Loop(Walk(links, v)) : TRUE
  BY DEF CanonicalMap
<1>3. end = Last(Walk(links, y))
  BY DEF Canonical, CanonicalIn
<1>4. Reaches(links, x, end) /\ (x = end \/ x \in AllSymbols(p))
  BY UpstreamIs
<1> HIDE DEF links, end
<1>5. y \in Loop(Walk(links, s))
  <2>1. Loop(Walk(links, s)) # {}
    BY <1>1, LoopIs
  <2>2. y = CHOOSE c \in Loop(Walk(links, s)) : TRUE
    BY <1>2
  <2> QED BY <2>1, <2>2
<1>6. Reaches(links, s, y)
  BY <1>1, <1>5, LoopIs
<1>7. Reaches(links, y, end)
  BY <1>1, <1>3, LoopIs
<1>8. Loop(Walk(links, s)) = Loop(Walk(links, x))
  <2>1. Loop(Walk(links, s)) = Loop(Walk(links, y))
    BY <1>1, <1>6, ReachesLoop
  <2>2. Loop(Walk(links, y)) = Loop(Walk(links, end))
    BY <1>1, <1>7, ReachesLoop
  <2>3. Loop(Walk(links, x)) = Loop(Walk(links, end))
    BY <1>1, <1>4, ReachesLoop
  <2> QED BY <2>1, <2>2, <2>3
<1>9. x \in AllSymbols(p)
  <2>1. Reaches(links, s, end)
    BY <1>6, <1>7, ReachesOnward
  <2>2. end \in AllSymbols(p)
    BY <2>1, ReachesSymbols DEF links
  <2> QED BY <1>4, <2>2
<1>10. CanonicalMap(p)[x] = CanonicalMap(p)[s]
  BY <1>2, <1>8, <1>9
<1> QED BY <1>9, <1>10

\* A use that the queries list is among the references of the plan.
LEMMA UsesArePlanned ==
  ASSUME NEW p, IsProgram(p), IsFiniteSet(File), NEW k, NEW s \in AllSymbols(p),
         NEW y, y = CanonicalMap(p)[s],
         NEW o \in ReferenceOccurrences(p, y), o.role = "reference"
  PROVE  <<y, [file |-> o.file, at |-> o.at, owner |-> Owner(p, o.file, o.at)]>> \in EnrichmentPlan(p, k).references
<1> DEFINE c == CanonicalMap(p)
<1>1. o \in AllOccurrences(p) /\ o.symbol \in Upstream(p, Canonical(p, y))
  BY DEF ReferenceOccurrences
<1>2. PICK f \in File : o \in Occurrences(p, f)
  BY <1>1 DEF AllOccurrences
<1>3. o.file = f /\ \E i \in Places(p, f) : TRUE
  BY <1>2 DEF Occurrences, Occurrence
<1>4. f \in Present(p)
  BY <1>3 DEF Present, Places
<1>5. c[o.symbol] = y
  BY <1>1, UpstreamIsCanonical
<1> DEFINE u == [role |-> o.role, symbol |-> o.symbol, to |-> c[o.symbol], file |-> f, at |-> o.at,
                 owner |-> Owner(p, f, o.at)]
<1>6. u \in Uses(p, c, f, {"reference"})
  BY <1>2 DEF Uses
<1>7. <<u.to, Reference(u)>> \in ReverseReferences(p, c)
  BY <1>4, <1>6 DEF ReverseReferences
<1>8. Reference(u) = [file |-> o.file, at |-> o.at, owner |-> Owner(p, o.file, o.at)]
  BY <1>3 DEF Reference
<1>9. EnrichmentPlan(p, k).references = ReverseReferences(p, c)
  BY DEF EnrichmentPlan
<1> QED BY <1>5, <1>7, <1>8, <1>9

-----------------------------------------------------------------------------
(* Places in files                                                         *)

AroundAt(p, f, ups, j) == IF j = 0 THEN {0} ELSE {j} \union ups[p[f][j].parent]

LEMMA AroundsExist ==
  ASSUME NEW p, NEW f, NEW n \in Nat, \A i \in 1..n : p[f][i].parent \in 0..(i - 1)
  PROVE  \E ups : ups = [j \in 0..n |-> AroundAt(p, f, ups, j)]
<1> DEFINE S == {k \in Nat : k <= n => \E ups : ups = [j \in 0..k |-> AroundAt(p, f, ups, j)]}
<1>1. 0 \in S
  <2> DEFINE ups == [j \in 0..0 |-> {0}]
  <2>1. ups = [j \in 0..0 |-> AroundAt(p, f, ups, j)]
    BY DEF AroundAt
  <2> QED BY <2>1
<1>2. ASSUME NEW k \in Nat, k \in S PROVE k + 1 \in S
  <2> SUFFICES ASSUME k + 1 <= n PROVE \E ups : ups = [j \in 0..(k + 1) |-> AroundAt(p, f, ups, j)]
    OBVIOUS
  <2>1. PICK old : old = [j \in 0..k |-> AroundAt(p, f, old, j)]
    BY <1>2
  <2> DEFINE ups == [j \in 0..(k + 1) |-> IF j = k + 1 THEN AroundAt(p, f, old, j) ELSE old[j]]
  <2>2. ASSUME NEW j \in 0..(k + 1) PROVE ups[j] = AroundAt(p, f, ups, j)
    <3>1. j # 0 => p[f][j].parent \in 0..k /\ p[f][j].parent # k + 1
      <4>1. j # 0 => j \in 1..n
        OBVIOUS
      <4>2. j # 0 => p[f][j].parent \in 0..(j - 1)
        BY <4>1
      <4> QED BY <4>2
    <3>2. j # 0 => ups[p[f][j].parent] = old[p[f][j].parent]
      BY <3>1
    <3>3. AroundAt(p, f, ups, j) = AroundAt(p, f, old, j)
      <4> HIDE DEF ups
      <4> QED BY <3>2 DEF AroundAt
    <3>4. j # k + 1 => j \in 0..k
      OBVIOUS
    <3>5. j # k + 1 => old[j] = AroundAt(p, f, old, j)
      BY <2>1, <3>4
    <3> QED BY <3>3, <3>5
  <2>3. ups = [j \in 0..(k + 1) |-> ups[j]]
    OBVIOUS
  <2> HIDE DEF ups
  <2>4. ups = [j \in 0..(k + 1) |-> AroundAt(p, f, ups, j)]
    BY <2>2, <2>3
  <2> QED BY <2>4
<1> HIDE DEF S
<1>3. n \in S
  BY <1>1, <1>2, InductionOverNat
<1> QED BY <1>3 DEF S

\* The places around a node are its parent's place and those around it.
LEMMA AroundIs ==
  ASSUME NEW p, IsProgram(p), NEW f \in File, NEW i \in Places(p, f)
  PROVE  LET outer == p[f][i].parent
         IN  Around(p, f, i) = IF outer = 0 THEN {0} ELSE {outer} \union Around(p, f, outer)
<1> DEFINE n == Len(p[f])
           up[j \in 0..n] == IF j = 0 THEN {0} ELSE {j} \union up[p[f][j].parent]
<1>1. n \in Nat /\ Places(p, f) = 1..n
  BY DEF IsProgram, Places
<1>2. \A j \in 1..n : p[f][j].parent \in 0..(j - 1)
  BY <1>1 DEF IsProgram
<1>3. \A j : Around(p, f, j) = up[p[f][j].parent]
  BY DEF Around
<1>4. PICK ups : ups = [j \in 0..n |-> AroundAt(p, f, ups, j)]
  <2> HIDE DEF n
  <2> QED BY <1>1, <1>2, AroundsExist
<1>5. ups = [j \in 0..n |-> IF j = 0 THEN {0} ELSE {j} \union ups[p[f][j].parent]]
  BY <1>4, Zenon DEF AroundAt
<1>6. up = [j \in 0..n |-> IF j = 0 THEN {0} ELSE {j} \union up[p[f][j].parent]]
  BY <1>5, Zenon
<1> HIDE DEF up
<1>7. p[f][i].parent \in 0..n
  BY <1>1, <1>2
<1> HIDE DEF n
<1>8. up[p[f][i].parent] = IF p[f][i].parent = 0 THEN {0}
                           ELSE {p[f][i].parent} \union up[p[f][p[f][i].parent].parent]
  BY <1>6, <1>7
<1> QED BY <1>3, <1>8

LEMMA AroundBefore ==
  ASSUME NEW p, IsProgram(p), NEW f \in File, NEW i \in Places(p, f)
  PROVE  Around(p, f, i) \subseteq 0..(i - 1)
<1> DEFINE S == {n \in Nat : \A j \in Places(p, f) : j <= n => Around(p, f, j) \subseteq 0..(j - 1)}
<1>1. Len(p[f]) \in Nat /\ Places(p, f) = 1..Len(p[f])
  BY DEF IsProgram, Places
<1>2. 0 \in S
  BY <1>1
<1>3. ASSUME NEW n \in Nat, n \in S PROVE n + 1 \in S
  <2> SUFFICES ASSUME NEW j \in Places(p, f), j <= n + 1 PROVE Around(p, f, j) \subseteq 0..(j - 1)
    OBVIOUS
  <2> DEFINE outer == p[f][j].parent
  <2>1. outer \in 0..(j - 1) /\ j \in Nat
    BY <1>1 DEF IsProgram
  <2>2. Around(p, f, j) = IF outer = 0 THEN {0} ELSE {outer} \union Around(p, f, outer)
    BY AroundIs
  <2> HIDE DEF outer
  <2>3. CASE outer = 0
    BY <1>1, <2>1, <2>2, <2>3
  <2>4. CASE outer # 0
    <3>1. outer \in Places(p, f) /\ outer <= n
      BY <1>1, <2>1, <2>4
    <3>2. Around(p, f, outer) \subseteq 0..(outer - 1)
      BY <1>3, <3>1
    <3> QED BY <2>1, <2>2, <2>4, <3>2
  <2> QED BY <2>3, <2>4
<1> HIDE DEF S
<1>4. i \in S
  BY <1>1, <1>2, <1>3, InductionOverNat
<1> QED BY <1>1, <1>4 DEF S

-----------------------------------------------------------------------------
(* Every use is found                                                      *)

LEMMA OccurrenceIs ==
  ASSUME NEW p, NEW f, NEW o \in Occurrences(p, f)
  PROVE  /\ o.role \in {"definition", "import", "export", "reference"}
         /\ o.role = "definition" =>
               \/ o.symbol = ModuleId(f)
               \/ \E j \in Places(p, f) :
                     (Declares(p[f][j]) \/ p[f][j].kind = "broken") /\ o.symbol = Id(p, f, j)
         /\ o.role = "import" => \E j \in Imports(p, f) : o.symbol = Id(p, f, j)
BY DEF Occurrences, Occurrence, Recovered

\* At the place of a node there is an occurrence to choose.
LEMMA ResolveIs ==
  ASSUME NEW p, NEW f \in File, NEW i \in Places(p, f)
  PROVE  Resolve(p, f, i) \in Occurrences(p, f)
<1> DEFINE around == {o \in Occurrences(p, f) : o.at \in {i, 0}}
           narrowest == {o \in around : o.at = i \/ \A q \in around : q.at = 0}
<1>1. Occurrence(ModuleId(f), "definition", f, 0) \in around
  <2>1. f \in Present(p)
    BY DEF Present, Places
  <2>2. Occurrence(ModuleId(f), "definition", f, 0) \in Occurrences(p, f)
    BY <2>1 DEF Occurrences
  <2>3. Occurrence(ModuleId(f), "definition", f, 0).at = 0
    BY DEF Occurrence
  <2> QED BY <2>2, <2>3
<1>2. \E o : o \in narrowest
  <2>1. CASE \E o \in around : o.at = i
    BY <2>1
  <2>2. CASE ~\E o \in around : o.at = i
    <3>1. \A o \in around : o.at = 0
      BY <2>2
    <3> HIDE DEF around
    <3> QED BY <1>1, <3>1
  <2> QED BY <2>1, <2>2
<1>3. \A o \in narrowest : o \in Occurrences(p, f) /\ o.role \in {"definition", "import", "export", "reference"}
  BY OccurrenceIs
<1>4. Resolve(p, f, i) = CHOOSE o \in narrowest : \A q \in narrowest : RoleRank(o.role) <= RoleRank(q.role)
  BY DEF Resolve
<1> HIDE DEF narrowest
<1>5. /\ RoleRank("definition") = 0 /\ RoleRank("import") = 1
      /\ RoleRank("reference") = 2 /\ RoleRank("export") = 3
  BY DEF RoleRank
<1>6. \E o \in narrowest : \A q \in narrowest : RoleRank(o.role) <= RoleRank(q.role)
  <2>1. \A q \in narrowest : RoleRank(q.role) \in 0..3
    BY <1>3, <1>5
  <2>2. CASE \E o \in narrowest : RoleRank(o.role) = 0
    BY <2>1, <2>2
  <2>3. CASE (~\E o \in narrowest : RoleRank(o.role) = 0) /\ \E o \in narrowest : RoleRank(o.role) = 1
    BY <2>1, <2>3
  <2>4. CASE /\ ~\E o \in narrowest : RoleRank(o.role) \in {0, 1}
             /\ \E o \in narrowest : RoleRank(o.role) = 2
    BY <2>1, <2>4
  <2>5. CASE ~\E o \in narrowest : RoleRank(o.role) \in {0, 1, 2}
    BY <1>2, <2>1, <2>5
  <2> QED BY <2>2, <2>3, <2>4, <2>5
<1> QED BY <1>3, <1>4, <1>6

\* No alias leads from what is defined: its identifier says that it is not a
\* binding.
LEMMA BindingsAreNotDefined ==
  ASSUME NEW p, IsProgram(p), NEW f \in File, NEW g \in File,
         NEW o \in Occurrences(p, f), o.role = "definition",
         NEW i \in Places(p, g), p[g][i].kind \in {"import", "reexport"}
  PROVE  o.symbol # Id(p, g, i)
<1>1. /\ Id(p, g, i)[2] = "import_binding"
      /\ Id(p, g, i)[5] = Signature(p[g][i])
  <2>1. SymbolKind(p[g][i]) = "import_binding"
    BY DEF SymbolKind
  <2>2. Id(p, g, i) = <<g, SymbolKind(p[g][i]), Id(p, g, p[g][i].parent), p[g][i].name, Signature(p[g][i])>>
    BY IdIs
  <2> QED BY <2>1, <2>2
<1>2. Signature(p[g][i])[1] \in {"import", "reexport"}
  BY DEF Signature
<1>3. ModuleId(f)[2] = "module"
  BY DEF ModuleId
<1>4. ASSUME NEW j \in Places(p, f), Declares(p[f][j]) \/ p[f][j].kind = "broken", o.symbol = Id(p, f, j)
      PROVE  o.symbol # Id(p, g, i)
  <2>1. Id(p, f, j)[5] = Signature(p[f][j])
    <3>1. Id(p, f, j) = <<f, SymbolKind(p[f][j]), Id(p, f, p[f][j].parent), p[f][j].name, Signature(p[f][j])>>
      BY IdIs
    <3> QED BY <3>1
  <2>2. p[f][j].kind \notin {"import", "reexport"}
    BY <1>4 DEF Declares
  <2>3. Signature(p[f][j])[1] = p[f][j].kind
    BY <2>2 DEF Signature
  <2>4. Signature(p[f][j])[1] # Signature(p[g][i])[1]
    BY <1>2, <2>2, <2>3
  <2> QED BY <1>1, <1>4, <2>1, <2>4
<1> QED BY <1>1, <1>3, <1>4, OccurrenceIs

\* What no alias leads from is its own canonical symbol.
LEMMA CanonicalOfItself ==
  ASSUME NEW p, IsProgram(p), IsFiniteSet(File), NEW s, \A e \in AliasEdges(p) : e[1] # s
  PROVE  Canonical(p, s) = s
<1> DEFINE links == AliasEdges(p)
           w == Walk(links, s)
<1>1. IsWalk(links, s, w)
  BY AliasesFinite, AliasesFunctional, WalkIs
<1>2. Canonical(p, s) = Last(w)
  BY DEF Canonical, CanonicalIn
<1> HIDE DEF w
<1>3. Len(w) \in Nat /\ Len(w) > 0 /\ w[1] = s /\ Last(w) = w[Len(w)]
  BY <1>1 DEF IsWalk, Last
<1>4. Len(w) > 1 => <<w[1], w[2]>> \in links
  BY <1>1, <1>3 DEF IsWalk
<1>5. Len(w) > 1 => FALSE
  <2>1. \A x, y : <<x, y>>[1] = x
    OBVIOUS
  <2> QED BY <1>3, <1>4, <2>1
<1>6. Len(w) = 1
  <2>1. PICK n \in Nat : n = Len(w)
    BY <1>3
  <2>2. n > 0 /\ ~(n > 1)
    BY <1>3, <1>5, <2>1
  <2> QED BY <2>1, <2>2
<1> QED BY <1>2, <1>3, <1>6

\* What an occurrence stands for lists it.
LEMMA OccurrenceIsListed ==
  ASSUME NEW p, IsProgram(p), IsFiniteSet(File), NEW f \in File, NEW o \in Occurrences(p, f)
  PROVE  o \in DefinitionOccurrences(p, o.symbol) \/ o \in ReferenceOccurrences(p, o.symbol)
<1> DEFINE s == o.symbol
           c == Canonical(p, s)
<1>1. o \in AllOccurrences(p)
  BY DEF AllOccurrences
<1>2. s \in Upstream(p, c)
  BY UpstreamHas
<1>3. CASE o.role \in {"reference", "export"}
  BY <1>1, <1>2, <1>3 DEF ReferenceOccurrences
<1>4. CASE o.role = "definition"
  <2>1. \A e \in AliasEdges(p) : e[1] # s
    BY <1>4, EdgeIs, BindingsAreNotDefined
  <2>2. c = s
    BY <2>1, CanonicalOfItself
  <2>3. o \in Having(p, c, {"definition"})
    BY <1>1, <1>4, <2>2 DEF Having
  <2>4. Having(p, c, {"definition"}) # {}
    BY <2>3
  <2>5. DefinitionOccurrences(p, s) = Having(p, c, {"definition"})
    BY <2>4 DEF DefinitionOccurrences
  <2> QED BY <2>3, <2>5
<1>5. CASE o.role = "import" /\ c # s
  BY <1>1, <1>2, <1>5 DEF ReferenceOccurrences
<1>6. CASE o.role = "import" /\ c = s
  <2>1. PICK j \in Imports(p, f) : s = Id(p, f, j)
    BY <1>6, OccurrenceIs
  <2>2. j \in Places(p, f) /\ p[f][j].kind \in {"import", "reexport"}
    BY <2>1 DEF Imports
  <2>3. Having(p, c, {"definition"}) = {}
    <3> SUFFICES ASSUME NEW q \in Having(p, c, {"definition"}) PROVE FALSE
      OBVIOUS
    <3>1. q.symbol = s /\ q.role = "definition" /\ \E g \in File : q \in Occurrences(p, g)
      BY <1>6 DEF Having, AllOccurrences
    <3> QED BY <2>1, <2>2, <3>1, BindingsAreNotDefined
  <2>4. o \in Having(p, s, {"import"})
    BY <1>1, <1>6 DEF Having
  <2>5. DefinitionOccurrences(p, s) = Having(p, s, {"import"})
    BY <1>6, <2>3 DEF DefinitionOccurrences
  <2> QED BY <2>4, <2>5
<1> QED BY <1>3, <1>4, <1>5, <1>6, OccurrenceIs

-----------------------------------------------------------------------------
(* Programs that are written node by node                                  *)

Syntax(f) == {Placed(n, outer) : n \in Nodes[f], outer \in Nat}

EditsInv ==
    /\ DOMAIN program = File
    /\ \A f \in File :
          /\ program[f] \in Seq(Syntax(f))
          /\ \A i \in 1..Len(program[f]) : program[f][i].parent \in 0..(i - 1)

LEMMA SyntaxIs ==
  ASSUME NEW f \in File, NEW n \in Syntax(f)
  PROVE  IsNode(n, f) /\ n.parent \in Nat
<1>1. PICK m \in Nodes[f], outer \in Nat : n = Placed(m, outer)
  BY DEF Syntax
<1>2. IsNode(m, f)
  BY NodesAssumption
<1>3. n.kind = m.kind /\ n.from = m.from /\ n.export = m.export /\ n.parent = outer
  BY <1>1 DEF Placed
<1> QED BY <1>2, <1>3 DEF IsNode

LEMMA EditsArePrograms == EditsInv => IsProgram(program)
<1> SUFFICES ASSUME EditsInv, NEW f \in File
             PROVE  /\ program[f] \in Seq(Range(program[f]))
                    /\ \A i \in Places(program, f) :
                          IsNode(program[f][i], f) /\ program[f][i].parent \in 0..(i - 1)
  BY DEF IsProgram
<1> DEFINE w == program[f]
<1>1. w \in Seq(Syntax(f)) /\ \A i \in 1..Len(w) : w[i].parent \in 0..(i - 1)
  BY DEF EditsInv
<1> HIDE DEF w
<1>2. Len(w) \in Nat /\ DOMAIN w = 1..Len(w) /\ \A i \in 1..Len(w) : w[i] \in Syntax(f)
  BY <1>1
<1>3. w \in Seq(Range(w))
  <2>1. \A i \in 1..Len(w) : w[i] \in Range(w)
    BY <1>2 DEF Range
  <2> QED BY <1>1, <1>2, <2>1
<1> QED BY <1>1, <1>2, <1>3, SyntaxIs DEF w, Places

LEMMA EditsProgramsNext == EditsInv' => IsProgram(program')
<1>1. (EditsInv => IsProgram(program))'
  BY EditsArePrograms, PTL
<1> QED BY <1>1 DEF IsProgram, Places, IsNode

\* What is moved is as it was, and within what it was within.
LEMMA MovedIs ==
  ASSUME NEW f \in File, NEW n \in Syntax(f), NEW i \in Nat
  PROVE  /\ Moved(n, i) \in Syntax(f)
         /\ Moved(n, i).parent = IF n.parent >= i THEN n.parent + 1 ELSE n.parent
         /\ Moved(n, i).kind = n.kind /\ Moved(n, i).name = n.name /\ Moved(n, i).other = n.other
         /\ Moved(n, i).export = n.export /\ Moved(n, i).from = n.from /\ Moved(n, i).sig = n.sig
<1>1. PICK m \in Nodes[f], outer \in Nat : n = Placed(m, outer)
  BY DEF Syntax
<1>2. n.parent = outer
  BY <1>1 DEF Placed
<1>3. CASE outer >= i
  <2>1. Moved(n, i) = Placed(m, outer + 1)
    BY <1>1, <1>2, <1>3 DEF Moved, Placed
  <2>2. outer + 1 \in Nat
    OBVIOUS
  <2>3. Moved(n, i) \in Syntax(f)
    BY <2>1, <2>2 DEF Syntax
  <2> QED BY <1>1, <1>2, <1>3, <2>1, <2>3 DEF Placed
<1>4. CASE ~(outer >= i)
  BY <1>2, <1>4 DEF Moved
<1> QED BY <1>3, <1>4

\* After an edit: what was before the place stays, what was there or behind it
\* moves down.
LEMMA WriteIs ==
  ASSUME EditsInv, NEW f \in File, NEW i \in 1..(Len(program[f]) + 1), NEW n \in Nodes[f], NEW outer \in 0..(i - 1),
         Write(f, i, n, outer)
  PROVE  /\ DOMAIN program' = File
         /\ \A g \in File \ {f} : program'[g] = program[g]
         /\ program'[f] \in Seq(Syntax(f)) /\ Len(program'[f]) = Len(program[f]) + 1
         /\ program'[f][i] = Placed(n, outer)
         /\ \A j \in 1..Len(program[f]) : j < i => program'[f][j] = program[f][j]
         /\ \A j \in 1..Len(program[f]) : j >= i => program'[f][j + 1] = Moved(program[f][j], i)
         /\ \A j \in 1..Len(program'[f]) : program'[f][j].parent < j
<1> DEFINE w == program[f]
           v == [j \in 1..(Len(w) + 1) |-> IF j < i THEN w[j] ELSE IF j = i THEN Placed(n, outer) ELSE Moved(w[j - 1], i)]
<1>1. DOMAIN program = File /\ w \in Seq(Syntax(f)) /\ Len(w) \in Nat /\ \A j \in 1..Len(w) : w[j] \in Syntax(f)
  BY DEF EditsInv
<1>2. program' = [program EXCEPT ![f] = v] /\ WellFormed(program', f)
  BY DEF Write
<1> HIDE DEF v
<1>3. program'[f] = v /\ DOMAIN program' = File /\ \A g \in File \ {f} : program'[g] = program[g]
  BY <1>1, <1>2
<1> HIDE DEF w
<1>4. \A j \in 1..(Len(w) + 1) : v[j] = IF j < i THEN w[j] ELSE IF j = i THEN Placed(n, outer) ELSE Moved(w[j - 1], i)
  BY DEF v
<1>5. \A j \in 1..(Len(w) + 1) : v[j] \in Syntax(f)
  <2> SUFFICES ASSUME NEW j \in 1..(Len(w) + 1) PROVE v[j] \in Syntax(f)
    OBVIOUS
  <2>1. CASE j < i
    <3>1. j \in 1..Len(w)
      BY <1>1, <2>1 DEF w
    <3> QED BY <1>1, <1>4, <2>1, <3>1
  <2>2. CASE j = i
    <3>1. Placed(n, outer) \in Syntax(f)
      BY DEF Syntax
    <3> QED BY <1>4, <2>2, <3>1
  <2>3. CASE j > i
    <3>1. j - 1 \in 1..Len(w) /\ i \in Nat
      BY <1>1, <2>3 DEF w
    <3>2. Moved(w[j - 1], i) \in Syntax(f)
      BY <1>1, <3>1, MovedIs
    <3> QED BY <1>1, <1>4, <2>3, <3>2
  <2> QED BY <1>1, <2>1, <2>2, <2>3
<1>6. v \in Seq(Syntax(f)) /\ Len(v) = Len(w) + 1
  <2>1. v = [j \in 1..(Len(w) + 1) |-> v[j]]
    BY DEF v
  <2> QED BY <1>1, <1>5, <2>1
<1>7. v[i] = Placed(n, outer) /\ \A j \in 1..Len(w) : j < i => v[j] = w[j]
  BY <1>1, <1>4 DEF w
<1>8. \A j \in 1..Len(w) : j >= i => v[j + 1] = Moved(w[j], i)
  <2> SUFFICES ASSUME NEW j \in 1..Len(w), j >= i PROVE v[j + 1] = Moved(w[j], i)
    OBVIOUS
  <2>1. j + 1 \in 1..(Len(w) + 1) /\ ~(j + 1 < i) /\ j + 1 # i /\ (j + 1) - 1 = j
    BY <1>1 DEF w
  <2> QED BY <1>4, <2>1
<1>9. \A j \in 1..Len(v) : v[j].parent < j
  BY <1>2, <1>3, <1>6 DEF WellFormed, Places
<1> QED BY <1>3, <1>6, <1>7, <1>8, <1>9 DEF w

LEMMA EditsInvAlways == Edits => []EditsInv
<1>1. EditsInit => EditsInv
  BY DEF EditsInit, EditsInv
<1>2. EditsInv /\ [EditsNext]_program => EditsInv'
  <2> SUFFICES ASSUME EditsInv, [EditsNext]_program PROVE EditsInv'
    OBVIOUS
  <2>1. CASE UNCHANGED program
    BY <2>1 DEF EditsInv
  <2>2. ASSUME NEW f \in File, NEW i \in 1..(Len(program[f]) + 1), NEW n \in Nodes[f], NEW outer \in 0..(i - 1),
               Write(f, i, n, outer)
        PROVE  EditsInv'
    <3>1. DOMAIN program' = File
      BY <2>2, WriteIs
    <3>2. ASSUME NEW g \in File
          PROVE  program'[g] \in Seq(Syntax(g)) /\ \A j \in 1..Len(program'[g]) : program'[g][j].parent \in 0..(j - 1)
      <4>1. CASE g # f
        <5>1. program'[g] = program[g]
          BY <2>2, <4>1, WriteIs
        <5> QED BY <5>1 DEF EditsInv
      <4>2. CASE g = f
        <5>1. /\ program'[g] \in Seq(Syntax(g))
              /\ \A j \in 1..Len(program'[g]) : program'[g][j].parent < j
          BY <2>2, <4>2, WriteIs
        <5>2. \A j \in 1..Len(program'[g]) : program'[g][j] \in Syntax(g)
          BY <5>1
        <5>3. \A j \in 1..Len(program'[g]) : program'[g][j].parent \in Nat
          BY <5>2, SyntaxIs
        <5>4. \A j \in 1..Len(program'[g]) : program'[g][j].parent \in 0..(j - 1)
          BY <5>1, <5>3
        <5> QED BY <5>1, <5>4
      <4> QED BY <4>1, <4>2
    <3> QED BY <3>1, <3>2 DEF EditsInv
  <2> QED BY <2>1, <2>2 DEF EditsNext
<1> QED BY <1>1, <1>2, PTL DEF Edits

\* What the cursor's place resolves to lists the occurrence there, in any
\* program: definition_occurrences and reference_occurrences meet every symbol
\* that a use can have, for a walk along aliases has no more steps than
\* reference_occurrences goes back (symbol_query.rs).
THEOREM UsesAreFound == Edits => []EveryUseIsFound
<1>1. EditsInv => EveryUseIsFound
  <2> SUFFICES ASSUME EditsInv, NEW f \in File, NEW i \in Places(program, f), NEW o, o = Resolve(program, f, i)
               PROVE  o \in DefinitionOccurrences(program, o.symbol) \/ o \in ReferenceOccurrences(program, o.symbol)
    BY DEF EveryUseIsFound
  <2>1. IsProgram(program) /\ IsFiniteSet(File)
    BY EditsArePrograms, NodesAssumption
  <2>2. o \in Occurrences(program, f)
    BY ResolveIs
  <2> QED BY <2>1, <2>2, OccurrenceIsListed
<1> QED BY <1>1, EditsInvAlways, PTL

-----------------------------------------------------------------------------
(* Identifiers outlive edits                                               *)

\* The nodes of a file are in another, at other places, and within each other
\* as before.
Carried(p, q, f, to) ==
    /\ to[0] = 0
    /\ \A j \in Places(p, f) :
          /\ to[j] \in Places(q, f)
          /\ q[f][to[j]].parent = to[p[f][j].parent]
          /\ q[f][to[j]].kind = p[f][j].kind /\ q[f][to[j]].name = p[f][j].name
          /\ q[f][to[j]].other = p[f][j].other /\ q[f][to[j]].export = p[f][j].export
          /\ q[f][to[j]].from = p[f][j].from /\ q[f][to[j]].sig = p[f][j].sig

LEMMA CarriedIds ==
  ASSUME NEW p, NEW q, IsProgram(p), IsProgram(q), NEW f \in File, NEW to, Carried(p, q, f, to),
         NEW i \in Places(p, f)
  PROVE  Id(q, f, to[i]) = Id(p, f, i)
<1> DEFINE S == {n \in Nat : \A j \in Places(p, f) : j <= n => Id(q, f, to[j]) = Id(p, f, j)}
<1>1. Len(p[f]) \in Nat /\ Places(p, f) = 1..Len(p[f])
  BY DEF IsProgram, Places
<1>2. 0 \in S
  BY <1>1
<1>3. ASSUME NEW n \in Nat, n \in S PROVE n + 1 \in S
  <2> SUFFICES ASSUME NEW j \in Places(p, f), j <= n + 1 PROVE Id(q, f, to[j]) = Id(p, f, j)
    OBVIOUS
  <2>1. PICK outer : outer = p[f][j].parent
    OBVIOUS
  <2>2. PICK k \in Places(q, f) : k = to[j]
    BY DEF Carried
  <2>3. outer \in 0..(j - 1) /\ j \in Nat
    BY <1>1, <2>1 DEF IsProgram
  <2>4. Id(p, f, j) = <<f, SymbolKind(p[f][j]), Id(p, f, outer), p[f][j].name, Signature(p[f][j])>>
    BY <2>1, IdIs
  <2>5. Id(q, f, k) = <<f, SymbolKind(q[f][k]), Id(q, f, q[f][k].parent), q[f][k].name, Signature(q[f][k])>>
    BY IdIs
  <2>6. /\ q[f][k].parent = to[outer] /\ q[f][k].name = p[f][j].name
        /\ SymbolKind(q[f][k]) = SymbolKind(p[f][j]) /\ Signature(q[f][k]) = Signature(p[f][j])
    BY <2>1, <2>2 DEF Carried, SymbolKind, Signature
  <2>7. Id(q, f, to[outer]) = Id(p, f, outer)
    <3>1. CASE outer = 0
      BY <3>1 DEF Carried, Id
    <3>2. CASE outer # 0
      <4>1. outer \in Places(p, f) /\ outer <= n
        BY <1>1, <2>3, <3>2
      <4> QED BY <1>3, <4>1
    <3> QED BY <3>1, <3>2
  <2> QED BY <2>2, <2>4, <2>5, <2>6, <2>7
<1> HIDE DEF S
<1>4. i \in S
  BY <1>1, <1>2, <1>3, InductionOverNat
<1> QED BY <1>1, <1>4 DEF S

\* The symbols of a file that makes what it made, but for what was recovered.
LEMMA CarriedSymbols ==
  ASSUME NEW p, NEW q, IsProgram(p), IsProgram(q), NEW f \in File, NEW to, Carried(p, q, f, to)
  PROVE  Symbols(p, f) \subseteq Symbols(q, f) \union {Id(p, f, i) : i \in Recovered(p, f)}
<1> SUFFICES ASSUME NEW s \in Symbols(p, f), s \notin {Id(p, f, i) : i \in Recovered(p, f)}
             PROVE  s \in Symbols(q, f)
  OBVIOUS
<1>1. CASE s \in {ModuleId(g) : g \in {f} \intersect Present(p)}
  <2>1. p[f] # <<>> /\ p[f] \in Seq(Range(p[f])) /\ q[f] \in Seq(Range(q[f]))
    BY <1>1 DEF Present, IsProgram
  <2>2. \E j : j \in Places(p, f)
    <3>1. PICK w : w = p[f]
      OBVIOUS
    <3>2. w # <<>> /\ w \in Seq(Range(w))
      BY <2>1, <3>1
    <3>3. Len(w) \in Nat /\ Len(w) # 0
      BY <3>2, EmptySeq
    <3>4. 1 \in 1..Len(w)
      BY <3>3
    <3>5. 1 \in DOMAIN w
      BY <3>2, <3>4
    <3> QED BY <3>1, <3>5 DEF Places
  <2>3. \E j : j \in Places(q, f)
    BY <2>2 DEF Carried
  <2>4. f \in Present(q)
    BY <2>1, <2>3 DEF Present, Places
  <2> QED BY <1>1, <2>4 DEF Symbols
<1>2. CASE s \in {Id(p, f, i) : i \in Made(p, f)}
  <2>1. PICK i \in Made(p, f) : s = Id(p, f, i)
    BY <1>2
  <2>2. i \in Places(p, f) /\ MakesSymbol(p[f][i])
    BY <2>1 DEF Made
  <2>3. to[i] \in Places(q, f) /\ q[f][to[i]].kind = p[f][i].kind
    BY <2>2 DEF Carried
  <2>4. to[i] \in Made(q, f)
    BY <2>2, <2>3 DEF Made, MakesSymbol, Declares
  <2>5. Id(q, f, to[i]) = s
    BY <2>1, <2>2, CarriedIds
  <2> QED BY <2>4, <2>5 DEF Symbols
<1> QED BY <1>1, <1>2 DEF Symbols

\* A file that is as it was is carried place by place.
LEMMA SameIsCarried ==
  ASSUME NEW p, NEW q, IsProgram(p), NEW f \in File, q[f] = p[f]
  PROVE  Carried(p, q, f, [j \in 0..Len(p[f]) |-> j])
<1> DEFINE to == [j \in 0..Len(p[f]) |-> j]
<1>1. Len(p[f]) \in Nat /\ Places(p, f) = 1..Len(p[f]) /\ Places(q, f) = Places(p, f)
  BY DEF IsProgram, Places
<1>2. \A j \in Places(p, f) : p[f][j].parent \in 0..Len(p[f])
  <2>1. \A j \in Places(p, f) : p[f][j].parent \in 0..(j - 1)
    BY DEF IsProgram
  <2> QED BY <1>1, <2>1
<1>3. \A j \in 0..Len(p[f]) : to[j] = j
  OBVIOUS
<1>4. to[0] = 0 /\ \A j \in Places(p, f) : to[j] = j /\ to[p[f][j].parent] = p[f][j].parent
  BY <1>1, <1>2, <1>3
<1> HIDE DEF to
<1>5. Carried(p, q, f, to)
  BY <1>1, <1>4 DEF Carried
<1> QED BY <1>5 DEF to

\* An edit carries what was there.
LEMMA WriteCarries ==
  ASSUME EditsInv, NEW f \in File, NEW i \in 1..(Len(program[f]) + 1), NEW n \in Nodes[f], NEW outer \in 0..(i - 1),
         Write(f, i, n, outer)
  PROVE  Carried(program, program', f, [j \in 0..Len(program[f]) |-> IF j < i THEN j ELSE j + 1])
<1> DEFINE w == program[f]
           v == program'[f]
           to == [j \in 0..Len(w) |-> IF j < i THEN j ELSE j + 1]
<1>1. /\ w \in Seq(Syntax(f)) /\ Len(w) \in Nat /\ DOMAIN w = 1..Len(w)
      /\ \A j \in 1..Len(w) : w[j] \in Syntax(f) /\ w[j].parent \in 0..(j - 1)
  BY DEF EditsInv
<1>2. /\ v \in Seq(Syntax(f)) /\ Len(v) = Len(w) + 1
      /\ \A j \in 1..Len(w) : j < i => v[j] = w[j]
      /\ \A j \in 1..Len(w) : j >= i => v[j + 1] = Moved(w[j], i)
  BY WriteIs
<1>3. DOMAIN v = 1..(Len(w) + 1)
  BY <1>1, <1>2
<1>4. i \in Nat /\ i > 0
  BY <1>1
<1>5. to[0] = 0 /\ \A j \in 0..Len(w) : to[j] = IF j < i THEN j ELSE j + 1
  BY <1>1, <1>4
<1> HIDE DEF w, v, to
<1>6. ASSUME NEW j \in 1..Len(w)
      PROVE  /\ to[j] \in 1..(Len(w) + 1)
             /\ v[to[j]].parent = to[w[j].parent]
             /\ v[to[j]].kind = w[j].kind /\ v[to[j]].name = w[j].name /\ v[to[j]].other = w[j].other
             /\ v[to[j]].export = w[j].export /\ v[to[j]].from = w[j].from /\ v[to[j]].sig = w[j].sig
  <2>1. w[j] \in Syntax(f) /\ w[j].parent \in 0..(j - 1)
    BY <1>1
  <2>2. to[w[j].parent] = IF w[j].parent < i THEN w[j].parent ELSE w[j].parent + 1
    <3>1. PICK within : within = w[j].parent
      OBVIOUS
    <3>2. within \in 0..Len(w)
      BY <1>1, <2>1, <3>1
    <3>3. to[within] = IF within < i THEN within ELSE within + 1
      BY <1>5, <3>2
    <3> QED BY <3>1, <3>3
  <2>3. CASE j < i
    <3>1. to[j] = j /\ v[j] = w[j]
      BY <1>1, <1>2, <1>5, <2>3
    <3>2. w[j].parent < i
      BY <1>4, <2>1, <2>3
    <3> QED BY <1>1, <2>2, <3>1, <3>2
  <2>4. CASE j >= i
    <3>1. to[j] = j + 1 /\ v[j + 1] = Moved(w[j], i)
      BY <1>1, <1>2, <1>4, <1>5, <2>4
    <3>2. /\ v[j + 1].parent = IF w[j].parent >= i THEN w[j].parent + 1 ELSE w[j].parent
          /\ v[j + 1].kind = w[j].kind /\ v[j + 1].name = w[j].name /\ v[j + 1].other = w[j].other
          /\ v[j + 1].export = w[j].export /\ v[j + 1].from = w[j].from /\ v[j + 1].sig = w[j].sig
      <4>1. PICK n0 : n0 = w[j]
        OBVIOUS
      <4>2. n0 \in Syntax(f)
        BY <2>1, <4>1
      <4>3. /\ Moved(n0, i).parent = IF n0.parent >= i THEN n0.parent + 1 ELSE n0.parent
            /\ Moved(n0, i).kind = n0.kind /\ Moved(n0, i).name = n0.name /\ Moved(n0, i).other = n0.other
            /\ Moved(n0, i).export = n0.export /\ Moved(n0, i).from = n0.from /\ Moved(n0, i).sig = n0.sig
        BY <1>4, <4>2, MovedIs
      <4> QED BY <3>1, <4>1, <4>3, Zenon
    <3>3. v[j + 1].parent = to[w[j].parent]
      BY <1>4, <2>1, <2>2, <3>2
    <3> QED BY <1>1, <3>1, <3>2, <3>3
  <2> QED BY <1>1, <1>4, <2>3, <2>4
<1>7. Places(program, f) = 1..Len(w) /\ Places(program', f) = 1..(Len(w) + 1)
  BY <1>1, <1>3 DEF Places, w, v
<1>8. Carried(program, program', f, to)
  BY <1>5, <1>6, <1>7 DEF Carried, w, v
<1> QED BY <1>8 DEF to, w

\* No edit takes a symbol its identifier but by a name that recovered text
\* gives way to: symbol_id digests what an edit elsewhere carries along
\* (facts.rs).
THEOREM IdsStayStable == Edits => IdsAreStable
<1>1. EditsInv /\ EditsInv' /\ [EditsNext]_program =>
         [AllSymbols(program) \subseteq
             AllSymbols(program') \union
             UNION {{Id(program, f, i) : i \in Recovered(program, f)} : f \in File}]_program
  <2> SUFFICES ASSUME EditsInv, EditsInv', NEW f \in File, NEW i \in 1..(Len(program[f]) + 1), NEW n \in Nodes[f],
                      NEW outer \in 0..(i - 1), Write(f, i, n, outer), NEW s \in AllSymbols(program)
               PROVE  \/ s \in AllSymbols(program')
                      \/ s \in UNION {{Id(program, g, j) : j \in Recovered(program, g)} : g \in File}
    BY Zenon DEF EditsNext
  <2>1. IsProgram(program)
    BY EditsArePrograms
  <2>2. IsProgram(program')
    BY EditsProgramsNext
  <2>3. PICK g \in File : s \in Symbols(program, g)
    BY DEF AllSymbols
  <2>4. \E to : Carried(program, program', g, to)
    <3>1. CASE g = f
      BY <3>1, WriteCarries
    <3>2. CASE g # f
      <4>1. program'[g] = program[g]
        BY <3>2, WriteIs
      <4> QED BY <2>1, <4>1, SameIsCarried
    <3> QED BY <3>1, <3>2
  <2>5. s \in Symbols(program', g) \union {Id(program, g, j) : j \in Recovered(program, g)}
    BY <2>1, <2>2, <2>3, <2>4, CarriedSymbols
  <2> QED BY <2>5 DEF AllSymbols
<1> QED BY <1>1, EditsInvAlways, PTL DEF Edits, IdsAreStable
-----------------------------------------------------------------------------
(* Searches                                                                *)

LEMMA DepthIsNat ==
  ASSUME NEW p, IsProgram(p), NEW x \in SymbolPlaces(p)
  PROVE  ContainerDepth(p, x) \in Nat
<1>1. PICK f \in Present(p) : \E i \in Kept(p, f) \union {0} : x = <<f, i>>
  BY DEF SymbolPlaces
<1>0. PICK i \in Kept(p, f) \union {0} : x = <<f, i>>
  BY <1>1
<1>2. CASE i = 0
  BY <1>0, <1>2 DEF ContainerDepth
<1>3. CASE i # 0
  <2>1. f \in File /\ i \in Places(p, f)
    BY <1>1, <1>3 DEF Present, Kept, Made, Recovered
  <2>2. i \in Nat
    BY <2>1 DEF Places, IsProgram
  <2>3. IsFiniteSet(0..(i - 1))
    BY <2>2, FS_Interval
  <2>4. IsFiniteSet(Around(p, f, i))
    <3>1. Around(p, f, i) \subseteq 0..(i - 1)
      BY <2>1, AroundBefore
    <3> QED BY <2>3, <3>1, FS_Subset
  <2>5. Cardinality(Around(p, f, i)) \in Nat
    BY <2>4, FS_CardinalityType
  <2>6. x[1] = f /\ x[2] = i
    BY <1>0
  <2> QED BY <1>3, <2>5, <2>6 DEF ContainerDepth
<1> QED BY <1>2, <1>3

\* Everything but the match is worth less than a better match.
LEMMA ScoreIs ==
  ASSUME NEW match \in Mode, NEW sameCase, NEW rank, NEW visibility, NEW filename, NEW depth \in Nat
  PROVE  /\ Score(match, sameCase, rank, visibility, filename, depth) \in Nat
         /\ Score(match, sameCase, rank, visibility, filename, depth) >= MatchPoints(match)
         /\ Score(match, sameCase, rank, visibility, filename, depth) <= MatchPoints(match) + 185
<1>1. PICK a : a = MatchPoints(match)
  OBVIOUS
<1>2. PICK b : b = Flag(sameCase, 40)
  OBVIOUS
<1>3. PICK c : c = KindPoints(rank)
  OBVIOUS
<1>4. PICK d : d = VisibilityPoints(visibility)
  OBVIOUS
<1>5. PICK e : e = Flag(filename, 10)
  OBVIOUS
<1>6. PICK k : k = DepthPoints(depth)
  OBVIOUS
<1>7. a \in {1000, 700, 400}
  BY <1>1 DEF MatchPoints, Mode
<1>8. b \in {0, 40}
  BY <1>2, Zenon DEF Flag
<1>9. c \in {0, 50, 100}
  BY <1>3 DEF KindPoints
<1>10. d \in {0, 20, 25}
  BY <1>4 DEF VisibilityPoints
<1>11. e \in {0, 10}
  BY <1>5, Zenon DEF Flag
<1>12. k \in 0..10
  BY <1>6 DEF DepthPoints
<1>13. Score(match, sameCase, rank, visibility, filename, depth) = a + b + c + d + e + k
  BY <1>1, <1>2, <1>3, <1>4, <1>5, <1>6, Zenon DEF Score

<1>14. a + b + c + d + e + k \in Nat /\ a + b + c + d + e + k >= a /\ a + b + c + d + e + k <= a + 185
  BY <1>7, <1>8, <1>9, <1>10, <1>11, <1>12
<1> QED BY <1>1, <1>13, <1>14

\* What a name matches as, by mode.
LEMMA ClassifyIs ==
  ASSUME NEW m \in Mode \ {"substring"}, NEW likeness, NEW other,
         Classify(m, likeness) # None, Classify("substring", other) # None, Classify(m, other) = None
  PROVE  /\ Classify("substring", likeness) = Classify(m, likeness)
         /\ Classify(m, likeness) \in Mode /\ Classify("substring", other) \in Mode
         /\ MatchPoints(Classify(m, likeness)) > MatchPoints(Classify("substring", other)) + 185
BY DEF Classify, Mode, MatchPoints

LEMMA WiderIs ==
  ASSUME NEW m \in Mode \ {"substring"}, NEW likeness, Classify(m, likeness) # None
  PROVE  Classify("substring", likeness) = Classify(m, likeness)
BY DEF Classify, Mode

\* Whatever the names, the query and the limits, search cuts no hit of a
\* narrower mode in favour of one that only the wider mode has: what rank_symbol
\* adds to a match never makes up for a worse match (symbol_query.rs).
THEOREM NarrowModesAreKept == Edits => []NarrowModesAgree
<1>1. EditsInv => NarrowModesAgree
  <2> SUFFICES ASSUME EditsInv, NEW q \in Queries, NEW m \in Mode, q.mode = "substring", m # "substring",
                      NEW answer \in Search(program, q),
                      NEW h \in Hits(program, [q EXCEPT !.mode = m]), h \notin answer,
                      NEW g \in answer, g \notin Hits(program, [q EXCEPT !.mode = m])
               PROVE  FALSE
    BY Zenon DEF NarrowModesAgree
  <2> DEFINE n == [q EXCEPT !.mode = m]
             like(x) == Likeness[DisplayName(program, x)][q.text]
             wanted(x) == /\ x[1] \in q.within
                          /\ q.kinds # <<>> => \E k \in DOMAIN q.kinds : q.kinds[k] = KindOf(program, x)
  <2>1. /\ n.mode = m /\ n.text = q.text /\ n.kinds = q.kinds /\ n.within = q.within
        /\ IsProgram(program)
    BY QueriesAssumption, EditsArePrograms DEF IsQuery
  <2> HIDE DEF n
  <2>2. PICK x \in Candidates(program, n) :
           wanted(x) /\ Classify(m, like(x)) # None /\ h = RankSymbol(program, n, x)
    BY <2>1 DEF Hits, n
  <2>3. g \in Hits(program, q) /\ answer \subseteq Hits(program, q)
    BY DEF Search
  <2>4. PICK y \in SymbolPlaces(program) :
           wanted(y) /\ Classify("substring", like(y)) # None /\ g = RankSymbol(program, q, y)
    BY <2>3 DEF Hits, Candidates
  <2>5. x \in SymbolPlaces(program)
    BY <2>2 DEF Candidates
  <2>6. Classify("substring", like(x)) = Classify(m, like(x))
    BY <2>2, WiderIs
  <2>7. h = RankSymbol(program, q, x)
    BY <2>1, <2>2, <2>6 DEF RankSymbol, KindRank
  <2>8. h \in Hits(program, q)
    BY <2>2, <2>5, <2>6, <2>7 DEF Hits, Candidates
  <2>9. Classify(m, like(y)) = None
    <3> SUFFICES ASSUME Classify(m, like(y)) # None PROVE FALSE
      OBVIOUS
    <3>1. Classify("substring", like(y)) = Classify(m, like(y))
      BY WiderIs
    <3>2. g = RankSymbol(program, n, y)
      BY <2>1, <2>4, <3>1 DEF RankSymbol, KindRank
    <3>3. y \in Candidates(program, n)
      <4>1. m = "exact" => like(y) = "exact"
        BY DEF Classify
      <4> QED BY <2>1, <2>4, <4>1 DEF Candidates
    <3>4. g \in Hits(program, n)
      BY <2>1, <2>4, <3>2, <3>3 DEF Hits
    <3> QED BY <3>4 DEF n
  <2>10. /\ h.match = Classify(m, like(x)) /\ h.match \in Mode
         /\ g.match = Classify("substring", like(y)) /\ g.match \in Mode
         /\ MatchPoints(h.match) > MatchPoints(g.match) + 185
    BY <2>2, <2>4, <2>6, <2>7, <2>9, ClassifyIs DEF RankSymbol
  <2>11. h.score \in Nat /\ h.score >= MatchPoints(h.match)
    <3>1. ContainerDepth(program, x) \in Nat
      BY <2>1, <2>5, DepthIsNat
    <3> QED BY <2>7, <2>10, <3>1, ScoreIs DEF RankSymbol
  <2>12. g.score \in Nat /\ g.score <= MatchPoints(g.match) + 185
    <3>1. ContainerDepth(program, y) \in Nat
      BY <2>1, <2>4, DepthIsNat
    <3> QED BY <2>4, <2>10, <3>1, ScoreIs DEF RankSymbol
  <2>13. MatchPoints(h.match) \in Nat /\ MatchPoints(g.match) \in Nat
    BY <2>10 DEF MatchPoints, Mode
  <2>14. h.score > g.score
    BY <2>10, <2>11, <2>12, <2>13
  <2> QED BY <2>8, <2>14 DEF Search, Ahead
<1> QED BY <1>1, EditsInvAlways, PTL

-----------------------------------------------------------------------------
(* Chunks                                                                  *)

AroundIn(w, i) ==
    LET up[j \in 0..Len(w)] == IF j = 0 THEN {0} ELSE {j} \union up[w[j].parent]
    IN  up[w[i].parent]

IdIn(w, f, i) ==
    LET id[j \in 0..Len(w)] ==
            IF j = 0 THEN ModuleId(f)
            ELSE <<f, SymbolKind(w[j]), id[w[j].parent], w[j].name, Signature(w[j])>>
    IN  id[i]

ExportsIn(n, i, recovered, id, candidates) ==
    CASE (Declares(n) /\ n.export # "no") \/ n.kind = "reexport" \/ i \in recovered -> id
      [] n.kind = "export" -> IF Cardinality(candidates) = 1 THEN CHOOSE s \in candidates : TRUE ELSE None
      [] OTHER -> None

VisibilityIn(w, those) ==
    LET as == {ExportedName(w[i]) = "default" : i \in those}
    IN  CASE TRUE \in as -> "default_export" [] as = {FALSE} -> "exported" [] OTHER -> "local"

\* What is said of the places of a file is said of its nodes.
LEMMA SameFile ==
  ASSUME NEW p, NEW q, NEW f, p[f] = q[f]
  PROVE  /\ Places(p, f) = Places(q, f)
         /\ \A i : Around(p, f, i) = Around(q, f, i)
         /\ \A i : Id(p, f, i) = Id(q, f, i)
<1>1. Places(p, f) = Places(q, f)
  BY DEF Places
<1>2. \A i : Around(p, f, i) = AroundIn(p[f], i)
  BY Zenon DEF Around, AroundIn
<1>3. \A i : Around(q, f, i) = AroundIn(q[f], i)
  BY Zenon DEF Around, AroundIn
<1>4. \A i : SymbolId(p, f, i) = IdIn(p[f], f, i)
  BY Zenon DEF SymbolId, IdIn
<1>5. \A i : SymbolId(q, f, i) = IdIn(q[f], f, i)
  BY Zenon DEF SymbolId, IdIn
<1> QED BY <1>1, <1>2, <1>3, <1>4, <1>5 DEF Id

LEMMA SameSymbols ==
  ASSUME NEW p, NEW q, NEW f \in File, p[f] = q[f]
  PROVE  /\ Recovered(p, f) = Recovered(q, f) /\ Made(p, f) = Made(q, f)
         /\ Kept(p, f) = Kept(q, f) /\ Symbols(p, f) = Symbols(q, f)
<1>1. Places(p, f) = Places(q, f) /\ \A i : Id(p, f, i) = Id(q, f, i)
  BY SameFile
<1>2. Recovered(p, f) = Recovered(q, f)
  BY <1>1 DEF Recovered
<1>3. Made(p, f) = Made(q, f)
  BY <1>1, <1>2 DEF Made
<1>4. Kept(p, f) = Kept(q, f)
  BY <1>1, <1>3 DEF Kept
<1>5. Symbols(p, f) = Symbols(q, f)
  <2>1. {f} \intersect Present(p) = {f} \intersect Present(q)
    BY DEF Present
  <2>2. {Id(p, f, i) : i \in Made(p, f)} = {Id(q, f, i) : i \in Made(q, f)}
    BY <1>1, <1>3
  <2> QED BY <2>1, <2>2 DEF Symbols
<1> QED BY <1>2, <1>3, <1>4, <1>5

LEMMA SameExports ==
  ASSUME NEW p, NEW q, NEW f \in File, p[f] = q[f]
  PROVE  /\ \A i : Exports(p, f, i) = Exports(q, f, i)
         /\ Exporting(p, f) = Exporting(q, f)
<1>1. /\ Places(p, f) = Places(q, f) /\ \A i : Id(p, f, i) = Id(q, f, i)
      /\ Kept(p, f) = Kept(q, f) /\ Recovered(p, f) = Recovered(q, f)
  BY SameFile, SameSymbols
<1>2. ASSUME NEW name, NEW k PROVE TopLevelNamed(p, f, name, k) = TopLevelNamed(q, f, name, k)
  BY <1>1 DEF TopLevelNamed
<1>3. ASSUME NEW i PROVE Exports(p, f, i) = Exports(q, f, i)
  <2>1. Exports(p, f, i) =
           ExportsIn(p[f][i], i, Recovered(p, f), Id(p, f, i), TopLevelNamed(p, f, p[f][i].other, i))
    BY Zenon DEF Exports, ExportsIn
  <2>2. Exports(q, f, i) =
           ExportsIn(q[f][i], i, Recovered(q, f), Id(q, f, i), TopLevelNamed(q, f, q[f][i].other, i))
    BY Zenon DEF Exports, ExportsIn
  <2> QED BY <1>1, <1>2, <2>1, <2>2
<1>4. Exporting(p, f) = Exporting(q, f)
  BY <1>1, <1>3 DEF Exporting
<1> QED BY <1>3, <1>4

LEMMA SameChunks ==
  ASSUME NEW p, NEW q, NEW f \in File, p[f] = q[f]
  PROVE  Chunks(p, f) = Chunks(q, f)
<1>1. /\ Places(p, f) = Places(q, f) /\ \A i : Id(p, f, i) = Id(q, f, i)
      /\ Kept(p, f) = Kept(q, f) /\ Symbols(p, f) = Symbols(q, f)
      /\ \A i : Exports(p, f, i) = Exports(q, f, i)
      /\ Exporting(p, f) = Exporting(q, f)
      /\ \A i : Around(p, f, i) = Around(q, f, i)
  BY SameFile, SameSymbols, SameExports
<1>2. MajorSymbols(p, f) = MajorSymbols(q, f)
  BY <1>1 DEF MajorSymbols
<1>3. ImportContext(p, f) = ImportContext(q, f)
  BY <1>1 DEF ImportContext, Imports
<1>4. ASSUME NEW symbols PROVE ExportContext(p, f, symbols) = ExportContext(q, f, symbols)
  BY <1>1 DEF ExportContext
<1>5. ASSUME NEW i PROVE Slice(p, f, i) = Slice(q, f, i)
  BY <1>1 DEF Slice
<1>6. ASSUME NEW i PROVE ContainerChain(p, f, i) = ContainerChain(q, f, i)
  BY <1>1 DEF ContainerChain
<1>7. ASSUME NEW i PROVE Visibility(p, <<f, i>>) = Visibility(q, <<f, i>>)
  <2>1. PICK x : x = <<f, i>>
    OBVIOUS
  <2>2. x[1] = f /\ x[2] = i
    BY <2>1
  <2>3. Visibility(p, x) =
           VisibilityIn(p[x[1]], {j \in Exporting(p, x[1]) : Exports(p, x[1], j) = Id(p, x[1], x[2])})
    BY Zenon DEF Visibility, VisibilityIn
  <2>4. Visibility(q, x) =
           VisibilityIn(q[x[1]], {j \in Exporting(q, x[1]) : Exports(q, x[1], j) = Id(q, x[1], x[2])})
    BY Zenon DEF Visibility, VisibilityIn
  <2>5. {j \in Exporting(p, f) : Exports(p, f, j) = Id(p, f, i)} =
        {j \in Exporting(q, f) : Exports(q, f, j) = Id(q, f, i)}
    BY <1>1
  <2> QED BY <2>1, <2>2, <2>3, <2>4, <2>5
<1>8. FileChunk(p, f) = FileChunk(q, f)
  BY <1>1, <1>3, <1>4, <1>5, Zenon DEF FileChunk
<1>9. ASSUME NEW i PROVE SymbolChunk(p, f, i) = SymbolChunk(q, f, i)
  BY <1>1, <1>3, <1>4, <1>5, <1>6, <1>7, Zenon DEF SymbolChunk
<1>10. {SymbolChunk(p, f, i) : i \in MajorSymbols(p, f)} = {SymbolChunk(q, f, i) : i \in MajorSymbols(q, f)}
  BY <1>2, <1>9
<1> QED BY <1>2, <1>8, <1>10 DEF Chunks

\* The first of the symbols that a file makes with an identifier is kept.
LEMMA FirstIsKept ==
  ASSUME NEW p, IsProgram(p), NEW f \in File, NEW i \in Made(p, f)
  PROVE  \E k \in Kept(p, f) : Id(p, f, k) = Id(p, f, i)
<1> DEFINE same == {j \in Made(p, f) : Id(p, f, j) = Id(p, f, i)}
<1>1. Made(p, f) \subseteq Nat
  <2>1. Made(p, f) \subseteq Places(p, f)
    BY DEF Made, Recovered
  <2>2. Places(p, f) \subseteq Nat
    BY DEF Places, IsProgram
  <2> QED BY <2>1, <2>2
<1> DEFINE S == {n \in Nat : \A j \in same : j <= n => \E k \in Kept(p, f) : Id(p, f, k) = Id(p, f, i)}
<1>2. ASSUME NEW j \in same, \A k \in same : ~(k < j)
      PROVE  \E k \in Kept(p, f) : Id(p, f, k) = Id(p, f, i)
  <2>1. \A k \in Made(p, f) : k < j => Id(p, f, k) # Id(p, f, j)
    BY <1>2
  <2>2. j \in Kept(p, f)
    BY <2>1 DEF Kept
  <2> QED BY <2>2
<1> HIDE DEF same
<1>3. same \subseteq Nat
  BY <1>1 DEF same
<1>4. 0 \in S
  <2> SUFFICES ASSUME NEW j \in same, j <= 0 PROVE \E k \in Kept(p, f) : Id(p, f, k) = Id(p, f, i)
    OBVIOUS
  <2>1. \A k \in same : ~(k < j)
    BY <1>3
  <2> QED BY <1>2, <2>1
<1>5. ASSUME NEW n \in Nat, n \in S PROVE n + 1 \in S
  <2> SUFFICES ASSUME NEW j \in same, j <= n + 1 PROVE \E k \in Kept(p, f) : Id(p, f, k) = Id(p, f, i)
    OBVIOUS
  <2>1. CASE \E k \in same : k < j
    <3>1. PICK k \in same : k < j
      BY <2>1
    <3>2. k <= n
      BY <1>3, <3>1
    <3> QED BY <1>5, <3>2
  <2>2. CASE \A k \in same : ~(k < j)
    BY <1>2, <2>2
  <2> QED BY <2>1, <2>2
<1>6. i \in same
  BY DEF same
<1> HIDE DEF S
<1>7. i \in S
  BY <1>3, <1>4, <1>5, <1>6, InductionOverNat
<1>8. i <= i
  BY <1>3, <1>6
<1> QED BY <1>6, <1>7, <1>8 DEF S

\* The chunks of a file are those of the file alone, and every declaration has
\* one with its symbol, if not made of its own node then of the first that has
\* the identifier (chunker.rs, push_symbol in facts.rs).
THEOREM ChunksStayLocal == Edits => []ChunksAreLocal
<1>1. EditsInv => ChunksAreLocal
  <2> SUFFICES ASSUME EditsInv, NEW f \in File
               PROVE  /\ Chunks(program, f) = Chunks(Alone(f), f)
                      /\ \A i \in Places(program, f) : Declares(program[f][i]) =>
                            \E c \in Chunks(program, f) : c.symbol = Id(program, f, i)
    BY DEF ChunksAreLocal
  <2>1. Chunks(program, f) = Chunks(Alone(f), f)
    <3>1. Alone(f)[f] = program[f]
      BY DEF Alone
    <3> QED BY <3>1, SameChunks
  <2>2. ASSUME NEW i \in Places(program, f), Declares(program[f][i])
        PROVE  \E c \in Chunks(program, f) : c.symbol = Id(program, f, i)
    <3>1. IsProgram(program)
      BY EditsArePrograms
    <3>2. i \in Made(program, f)
      BY <2>2 DEF Made, MakesSymbol
    <3>3. PICK k \in Kept(program, f) : Id(program, f, k) = Id(program, f, i)
      BY <3>1, <3>2, FirstIsKept
    <3>4. k \in Places(program, f)
      BY DEF Kept, Made, Recovered
    <3>5. SymbolKind(program[f][k]) = SymbolKind(program[f][i])
      BY <3>1, <3>3, <3>4, IdIs
    <3>6. IsMajorSymbol(SymbolKind(program[f][i]))
      BY <2>2 DEF IsMajorSymbol, SymbolKind, Declares
    <3>7. k \in MajorSymbols(program, f)
      BY <3>5, <3>6 DEF MajorSymbols
    <3>8. program[f] # <<>>
      BY <3>4 DEF Places
    <3>9. SymbolChunk(program, f, k) \in Chunks(program, f)
      BY <3>7, <3>8 DEF Chunks
    <3>10. SymbolChunk(program, f, k).symbol = Id(program, f, k)
      BY DEF SymbolChunk
    <3> QED BY <3>3, <3>9, <3>10
  <2> QED BY <2>1, <2>2
<1> QED BY <1>1, EditsInvAlways, PTL

-----------------------------------------------------------------------------
(* What names mean                                                         *)

\* Places with one identifier: their files, names and containers are the same,
\* and so is what they bind if they bind.
LEMMA SameId ==
  ASSUME NEW p, IsProgram(p), NEW f \in File, NEW g \in File, NEW i \in Places(p, f), NEW j \in Places(p, g),
         Id(p, f, i) = Id(p, g, j)
  PROVE  /\ f = g /\ p[f][i].name = p[g][j].name /\ p[f][i].kind = p[g][j].kind
         /\ Id(p, f, p[f][i].parent) = Id(p, g, p[g][j].parent)
         /\ p[f][i].kind \in {"import", "reexport"} =>
               p[f][i].from = p[g][j].from /\ p[f][i].other = p[g][j].other
<1>1. Id(p, f, i) = <<f, SymbolKind(p[f][i]), Id(p, f, p[f][i].parent), p[f][i].name, Signature(p[f][i])>>
  BY IdIs
<1>2. Id(p, g, j) = <<g, SymbolKind(p[g][j]), Id(p, g, p[g][j].parent), p[g][j].name, Signature(p[g][j])>>
  BY IdIs
<1>3. PICK x : x = Id(p, f, i)
  OBVIOUS
<1>4. x[1] = f /\ x[3] = Id(p, f, p[f][i].parent) /\ x[4] = p[f][i].name /\ x[5] = Signature(p[f][i])
  BY <1>1, <1>3
<1>5. x[1] = g /\ x[3] = Id(p, g, p[g][j].parent) /\ x[4] = p[g][j].name /\ x[5] = Signature(p[g][j])
  BY <1>2, <1>3
<1>6. Signature(p[f][i])[1] = p[f][i].kind
  BY DEF Signature
<1>7. Signature(p[g][j])[1] = p[g][j].kind
  BY DEF Signature
<1>8. Signature(p[f][i]) = Signature(p[g][j])
  BY <1>4, <1>5
<1>9. p[f][i].kind = p[g][j].kind
  BY <1>6, <1>7, <1>8
<1>10. ASSUME p[f][i].kind \in {"import", "reexport"}
       PROVE  p[f][i].from = p[g][j].from /\ p[f][i].other = p[g][j].other
  <2>1. Signature(p[f][i])[2] = p[f][i].from /\ Signature(p[f][i])[3] = p[f][i].other
    BY <1>10 DEF Signature
  <2>2. Signature(p[g][j])[2] = p[g][j].from /\ Signature(p[g][j])[3] = p[g][j].other
    BY <1>9, <1>10 DEF Signature
  <2> QED BY <1>8, <2>1, <2>2
<1> QED BY <1>4, <1>5, <1>9, <1>10

\* No node has the identifier of the module.
LEMMA TopIs ==
  ASSUME NEW p, IsProgram(p), NEW f \in File, NEW i \in Places(p, f)
  PROVE  Id(p, f, i) # ModuleId(f)
<1>1. Id(p, f, i) = <<f, SymbolKind(p[f][i]), Id(p, f, p[f][i].parent), p[f][i].name, Signature(p[f][i])>>
  BY IdIs
<1>2. Len(Id(p, f, i)) = 5
  BY <1>1
<1>3. Len(ModuleId(f)) = 2
  BY DEF ModuleId
<1> QED BY <1>2, <1>3

\* What a node that exports gives the name.
MeantBy(p, f, i) ==
    IF p[f][i].kind = "export" THEN {j \in Bindings(p, f) : p[f][j].name = p[f][i].other} ELSE {i}

LEMMA MeantIs ==
  ASSUME NEW p, NEW f \in File, NEW name
  PROVE  Meant(p, f, name) = UNION {MeantBy(p, f, i) : i \in {k \in Clauses(p, f) : ExportedName(p[f][k]) = name}}
BY NoneAssumption, Zenon DEF Meant, MeantBy

LEMMA MeantByIs ==
  ASSUME NEW p, NEW f \in File, NEW i \in Clauses(p, f), NEW j \in MeantBy(p, f, i)
  PROVE  j \in Places(p, f) /\ MakesSymbol(p[f][j])
BY DEF MeantBy, Bindings, Clauses, MakesSymbol

\* What an export clause finds among the symbols at the top of its file.
LEMMA NamedIs ==
  ASSUME NEW p, IsProgram(p), NEW f \in File, Regular(p, f), NEW i \in Clauses(p, f), p[f][i].kind = "export"
  PROVE  TopLevelNamed(p, f, p[f][i].other, i) = {Id(p, f, j) : j \in MeantBy(p, f, i)}
<1>0. i \in Places(p, f)
  BY DEF Clauses
<1> DEFINE other == p[f][i].other
           having == {j \in Kept(p, f) : /\ p[f][j].parent = 0 /\ p[f][j].name = other
                                         /\ p[f][j].kind = "reexport" => j < i}
<1>1. Recovered(p, f) = {}
  BY DEF Recovered, Regular
<1>2. ASSUME NEW j \in having PROVE j \in MeantBy(p, f, i)
  <2>1. j \in Places(p, f) /\ MakesSymbol(p[f][j])
    BY <1>1 DEF Kept, Made
  <2>2. p[f][j].kind # "reexport"
    BY <2>1 DEF Regular, Clauses
  <2> QED BY <2>1, <2>2 DEF MeantBy, Bindings, MakesSymbol
<1>3. ASSUME NEW j \in MeantBy(p, f, i) PROVE j \in having
  <2>1. j \in Bindings(p, f) /\ p[f][j].name = other
    BY DEF MeantBy
  <2>2. j \in Places(p, f) /\ MakesSymbol(p[f][j]) /\ p[f][j].kind # "reexport" /\ p[f][j].parent = 0
    BY <2>1 DEF Bindings, MakesSymbol, Declares
  <2>3. j \in Made(p, f)
    BY <2>2 DEF Made
  <2>4. PICK k \in Kept(p, f) : Id(p, f, k) = Id(p, f, j)
    BY <2>3, FirstIsKept
  <2>5. k \in Places(p, f)
    BY <1>1 DEF Kept, Made
  <2>6. /\ p[f][k].name = p[f][j].name /\ p[f][k].kind = p[f][j].kind
        /\ Id(p, f, p[f][k].parent) = Id(p, f, p[f][j].parent)
    BY <2>2, <2>4, <2>5, SameId
  <2>7. p[f][k].parent = 0
    <3>1. Id(p, f, p[f][j].parent) = ModuleId(f)
      BY <2>2 DEF Id
    <3>2. p[f][k].parent = 0 \/ p[f][k].parent \in Places(p, f)
      BY <2>5 DEF IsProgram, Places
    <3> QED BY <2>6, <3>1, <3>2, TopIs
  <2>8. k \in Bindings(p, f)
    BY <2>1, <2>5, <2>6, <2>7 DEF Bindings, Declares
  <2>9. k = j
    BY <2>1, <2>6, <2>8 DEF Regular
  <2> QED BY <2>1, <2>2, <2>4, <2>9
<1>4. having = MeantBy(p, f, i)
  BY <1>2, <1>3
<1> HIDE DEF having
<1>5. TopLevelNamed(p, f, other, i) = {Id(p, f, j) : j \in having}
  BY DEF TopLevelNamed, having
<1> QED BY <1>4, <1>5

\* None is no identifier.
NoneIsNoTuple == \A a, b, c, d, e : None # <<a, b, c, d, e>>

LEMMA MeantOnce ==
  ASSUME NEW p, NEW f \in File, Regular(p, f), NEW i \in Clauses(p, f),
         NEW j \in MeantBy(p, f, i), NEW k \in MeantBy(p, f, i)
  PROVE  j = k
<1>1. CASE p[f][i].kind = "export"
  <2>1. j \in Bindings(p, f) /\ k \in Bindings(p, f) /\ p[f][j].name = p[f][k].name
    BY <1>1 DEF MeantBy
  <2> QED BY <2>1 DEF Regular
<1>2. CASE p[f][i].kind # "export"
  BY <1>2 DEF MeantBy
<1> QED BY <1>1, <1>2

LEMMA ExportsInIs ==
  ASSUME NEW n, NEW i, NEW recovered, NEW id, NEW candidates
  PROVE  /\ (Declares(n) /\ n.export # "no") \/ n.kind = "reexport" => ExportsIn(n, i, recovered, id, candidates) = id
         /\ n.kind = "export" /\ ~Declares(n) /\ i \notin recovered =>
               ExportsIn(n, i, recovered, id, candidates) =
                   IF Cardinality(candidates) = 1 THEN CHOOSE s \in candidates : TRUE ELSE None
<1>1. ASSUME (Declares(n) /\ n.export # "no") \/ n.kind = "reexport"
      PROVE  ExportsIn(n, i, recovered, id, candidates) = id
  <2>1. Declares(n) => n.kind # "export"
    BY DEF Declares
  <2>2. n.kind # "export"
    BY <1>1, <2>1
  <2> QED BY <1>1, <2>2 DEF ExportsIn
<1>2. ASSUME n.kind = "export", ~Declares(n), i \notin recovered
      PROVE  ExportsIn(n, i, recovered, id, candidates) =
                IF Cardinality(candidates) = 1 THEN CHOOSE s \in candidates : TRUE ELSE None
  <2>1. n.kind # "reexport"
    BY <1>2
  <2> QED BY <1>2, <2>1 DEF ExportsIn
<1> QED BY <1>1, <1>2

\* What a node exports is the symbol of what it means.
LEMMA ExportsMeant ==
  ASSUME NEW p, IsProgram(p), NEW f \in File, Regular(p, f), NEW i \in Clauses(p, f)
  PROVE  /\ \A j \in MeantBy(p, f, i) : Exports(p, f, i) = Id(p, f, j)
         /\ MeantBy(p, f, i) = {} => Exports(p, f, i) = None
<1>1. i \in Places(p, f)
  BY DEF Clauses
<1>2. Recovered(p, f) = {}
  BY DEF Recovered, Regular
<1>3. Exports(p, f, i) =
         ExportsIn(p[f][i], i, Recovered(p, f), Id(p, f, i), TopLevelNamed(p, f, p[f][i].other, i))
  BY Zenon DEF Exports, ExportsIn
<1>4. CASE p[f][i].kind = "export"
  <2>1. PICK candidates : candidates = {Id(p, f, j) : j \in MeantBy(p, f, i)}
    OBVIOUS
  <2>2. ~Declares(p[f][i])
    BY <1>4 DEF Declares
  <2>3. Exports(p, f, i) = IF Cardinality(candidates) = 1 THEN CHOOSE s \in candidates : TRUE ELSE None
    <3>1. candidates = TopLevelNamed(p, f, p[f][i].other, i) /\ i \notin Recovered(p, f)
      BY <1>2, <1>4, <2>1, NamedIs
    <3>2. Exports(p, f, i) = ExportsIn(p[f][i], i, Recovered(p, f), Id(p, f, i), candidates)
      BY <1>3, <3>1
    <3>3. PICK n, recovered, id : n = p[f][i] /\ recovered = Recovered(p, f) /\ id = Id(p, f, i)
      OBVIOUS
    <3>4. n.kind = "export" /\ ~Declares(n) /\ i \notin recovered
      BY <1>4, <2>2, <3>1, <3>3
    <3>5. ExportsIn(n, i, recovered, id, candidates) =
             IF Cardinality(candidates) = 1 THEN CHOOSE s \in candidates : TRUE ELSE None
      BY <3>4, ExportsInIs
    <3> QED BY <3>2, <3>3, <3>5
  <2>4. ASSUME NEW j \in MeantBy(p, f, i) PROVE Exports(p, f, i) = Id(p, f, j)
    <3>1. candidates = {Id(p, f, j)}
      <4>1. \A k \in MeantBy(p, f, i) : k = j
        BY MeantOnce
      <4> QED BY <2>1, <4>1
    <3>2. Cardinality(candidates) = 1
      BY <3>1, FS_Singleton
    <3> QED BY <2>3, <3>1, <3>2
  <2>5. ASSUME MeantBy(p, f, i) = {} PROVE Exports(p, f, i) = None
    <3>1. candidates = {}
      BY <2>1, <2>5
    <3>2. Cardinality(candidates) = 0
      BY <3>1, FS_EmptySet
    <3> QED BY <2>3, <3>2
  <2> QED BY <2>4, <2>5
<1>5. CASE p[f][i].kind # "export"
  <2>1. (Declares(p[f][i]) /\ p[f][i].export # "no") \/ p[f][i].kind = "reexport"
    BY <1>5 DEF Clauses
  <2>2. Exports(p, f, i) = Id(p, f, i)
    BY <1>3, <2>1, ExportsInIs
  <2> QED BY <1>5, <2>2 DEF MeantBy
<1> QED BY <1>4, <1>5

LEMMA OthersExportNothing ==
  ASSUME NEW p, NEW f \in File, Regular(p, f), NEW i \in Places(p, f) \ Clauses(p, f)
  PROVE  Exports(p, f, i) = None
<1>1. i \notin Recovered(p, f)
  BY DEF Recovered, Regular
<1>2. ~(Declares(p[f][i]) /\ p[f][i].export # "no") /\ p[f][i].kind # "reexport" /\ p[f][i].kind # "export"
  BY DEF Clauses
<1>3. Exports(p, f, i) =
         ExportsIn(p[f][i], i, Recovered(p, f), Id(p, f, i), TopLevelNamed(p, f, p[f][i].other, i))
  BY Zenon DEF Exports, ExportsIn
<1> QED BY <1>1, <1>2, <1>3 DEF ExportsIn

\* What an exported name stands for is what it means.
LEMMA UniqueIsMeant ==
  ASSUME NoneIsNoTuple, NEW p, IsProgram(p), NEW f \in File \union {None}, f # None => Regular(p, f), NEW name
  PROVE  /\ UniqueExportedSymbol(p, f, name) = {Id(p, f, j) : j \in Meant(p, f, name)}
         /\ Meant(p, f, name) # {} => f \in File
         /\ \A j \in Meant(p, f, name) : j \in Places(p, f) /\ MakesSymbol(p[f][j])
<1>1. CASE f = None
  <2>1. Meant(p, f, name) = {}
    BY <1>1 DEF Meant
  <2>2. Cardinality({}) # 1
    BY FS_EmptySet
  <2>3. UniqueExportedSymbol(p, f, name) = {}
    BY <1>1, <2>2 DEF UniqueExportedSymbol
  <2> QED BY <2>1, <2>3
<1>2. CASE f # None
  <2>0. f \in File /\ Regular(p, f)
    BY <1>2
  <2> DEFINE those == {k \in Clauses(p, f) : ExportedName(p[f][k]) = name}
  <2>1. Meant(p, f, name) = UNION {MeantBy(p, f, i) : i \in those}
    BY <2>0, MeantIs
  <2>2. ASSUME NEW j \in Meant(p, f, name) PROVE \E i \in those : j \in MeantBy(p, f, i)
    BY <2>1
  <2>3. ASSUME NEW j \in Meant(p, f, name) PROVE j \in Places(p, f) /\ MakesSymbol(p[f][j])
    BY <2>0, <2>2, MeantByIs
  <2>4. ASSUME NEW j \in Meant(p, f, name) PROVE Id(p, f, j) # None
    <3>1. j \in Places(p, f)
      BY <2>3
    <3>2. PICK c : Id(p, f, j) = <<f, SymbolKind(p[f][j]), c, p[f][j].name, Signature(p[f][j])>>
      BY <2>0, <3>1, IdIs
    <3> QED BY <3>2 DEF NoneIsNoTuple
  <2>5. ASSUME NEW j \in Meant(p, f, name) PROVE ExportedAs(p, f, name) = {Id(p, f, j)}
    <3>1. PICK i \in those : j \in MeantBy(p, f, i)
      BY <2>2
    <3>2. i \in Places(p, f) /\ Exports(p, f, i) = Id(p, f, j)
      BY <2>0, <3>1, ExportsMeant DEF Clauses
    <3>3. ASSUME NEW k \in Places(p, f), ExportedName(p[f][k]) = name, Exports(p, f, k) # None
          PROVE  Exports(p, f, k) = Id(p, f, j)
      <4>1. k \in Clauses(p, f)
        BY <2>0, <3>3, OthersExportNothing
      <4>2. k = i
        BY <2>0, <3>1, <3>3, <4>1 DEF Regular
      <4> QED BY <3>2, <4>2
    <3> QED BY <2>4, <3>1, <3>2, <3>3 DEF ExportedAs
  <2>6. ASSUME Meant(p, f, name) = {} PROVE ExportedAs(p, f, name) = {}
    <3> SUFFICES ASSUME NEW k \in Places(p, f), ExportedName(p[f][k]) = name, Exports(p, f, k) # None PROVE FALSE
      BY DEF ExportedAs
    <3>1. k \in those
      BY <2>0, OthersExportNothing
    <3>2. MeantBy(p, f, k) = {}
      BY <2>1, <2>6, <3>1
    <3> QED BY <2>0, <3>1, <3>2, ExportsMeant
  <2> HIDE DEF those
  <2>7. UniqueExportedSymbol(p, f, name) =
           IF Cardinality(ExportedAs(p, f, name)) = 1 THEN ExportedAs(p, f, name) ELSE {}
    BY <1>2 DEF UniqueExportedSymbol
  <2>8. CASE Meant(p, f, name) = {}
    <3>1. ExportedAs(p, f, name) = {} /\ Cardinality({}) = 0
      BY <2>6, <2>8, FS_EmptySet
    <3> QED BY <2>7, <2>8, <3>1
  <2>9. CASE Meant(p, f, name) # {}
    <3>1. PICK j : j \in Meant(p, f, name)
      BY <2>9
    <3>2. Cardinality(ExportedAs(p, f, name)) = 1
      BY <2>5, <3>1, FS_Singleton
    <3>3. \A k \in Meant(p, f, name) : Id(p, f, k) \in {Id(p, f, j)}
      BY <2>5, <3>1
    <3>4. {Id(p, f, k) : k \in Meant(p, f, name)} = {Id(p, f, j)}
      BY <3>1, <3>3
    <3> QED BY <2>0, <2>3, <2>5, <2>7, <3>1, <3>2, <3>4
  <2> QED BY <2>8, <2>9
<1> QED BY <1>1, <1>2

-----------------------------------------------------------------------------
(* What imports find                                                       *)

Sought(p, start) == {start} \union UNION {Sources(p, f, Places(p, f)) : f \in File}
Onward(p, x) == Sources(p, x[1], Meant(p, x[1], x[2]))
DeclaredBy(p, x) == {Id(p, x[1], i) : i \in {j \in Meant(p, x[1], x[2]) : Declares(p[x[1]][j])}}

\* What StandsFor finds is the least set with the name it starts from and, with
\* a name, those that it leads to.
LEMMA FoundIs ==
  ASSUME NEW p, IsProgram(p), NEW file \in File \union {None}, NEW name
  PROVE  \E found :
            /\ StandsFor(p, file, name) = UNION {DeclaredBy(p, x) : x \in found}
            /\ <<file, name>> \in found
            /\ \A x \in found : x[1] \in File \union {None} /\ Onward(p, x) \subseteq found
            /\ \A S : <<file, name>> \in S /\ (\A x \in S \intersect found : Onward(p, x) \subseteq S) => found \subseteq S
<1> DEFINE start == <<file, name>>
           sought == Sought(p, start)
           next == [x \in sought |-> Onward(p, x)]
           closed(S) == start \in S /\ \A y \in S : next[y] \subseteq S
           found == {x \in sought : \A S \in SUBSET sought : closed(S) => x \in S}
<1>1. StandsFor(p, file, name) = UNION {DeclaredBy(p, x) : x \in found}
  BY Zenon DEF StandsFor, Sought, Onward, DeclaredBy
<1>2. start \in sought /\ start[1] = file
  BY DEF Sought
<1>3. \A x \in sought : x[1] \in File \union {None}
  <2> SUFFICES ASSUME NEW x \in sought, x # start PROVE x[1] \in File \union {None}
    BY <1>2
  <2>1. PICK f \in File : x \in Sources(p, f, Places(p, f))
    BY DEF Sought
  <2>2. PICK i \in Places(p, f) : x = <<p[f][i].from, p[f][i].other>>
    BY <2>1 DEF Sources
  <2>3. p[f][i].from \in File \union {None}
    BY DEF IsProgram, IsNode
  <2> QED BY <2>2, <2>3
<1>4. \A x \in sought : Onward(p, x) \subseteq sought
  <2> SUFFICES ASSUME NEW x \in sought, NEW y \in Onward(p, x) PROVE y \in sought
    OBVIOUS
  <2>1. PICK f : f = x[1]
    OBVIOUS
  <2>2. PICK i \in Meant(p, f, x[2]) :
           /\ p[f][i].kind \in {"import", "reexport"} /\ p[f][i].other # "*"
           /\ y = <<p[f][i].from, p[f][i].other>>
    BY <2>1 DEF Onward, Sources
  <2>3. f # None
    BY <2>2 DEF Meant
  <2>4. f \in File
    BY <1>3, <2>1, <2>3
  <2>5. i \in Places(p, f)
    BY <2>4, MeantIs, MeantByIs
  <2>6. y \in Sources(p, f, Places(p, f))
    BY <2>2, <2>5 DEF Sources
  <2> QED BY <2>4, <2>6 DEF Sought
<1> HIDE DEF sought, start
<1>5. \A x \in sought : next[x] = Onward(p, x)
  OBVIOUS
<1> HIDE DEF next
<1>6. start \in found
  BY <1>2
<1>7. \A x \in found : x[1] \in File \union {None} /\ Onward(p, x) \subseteq found
  <2> SUFFICES ASSUME NEW x \in found, NEW y \in Onward(p, x) PROVE y \in found
    BY <1>3
  <2>1. y \in sought
    BY <1>4
  <2>2. ASSUME NEW S \in SUBSET sought, closed(S) PROVE y \in S
    <3>1. x \in S
      BY <2>2
    <3> QED BY <1>5, <2>2, <3>1
  <2> QED BY <2>1, <2>2
<1>8. ASSUME NEW S, start \in S, \A x \in S \intersect found : Onward(p, x) \subseteq S
      PROVE  found \subseteq S
  <2>1. closed(S \intersect found)
    <3>1. \A x \in S \intersect found : next[x] \subseteq S \intersect found
      BY <1>5, <1>7, <1>8
    <3> QED BY <1>6, <1>8, <3>1
  <2> QED BY <2>1
<1> HIDE DEF found
<1> QED BY <1>1, <1>6, <1>7, <1>8 DEF start

\* A binding is an alias of what it gets its name from.
LEMMA LinkIs ==
  ASSUME NEW p, NEW f \in File, NEW i \in Places(p, f),
         p[f][i].kind \in {"import", "reexport"}, p[f][i].other # "*",
         NEW s \in UniqueExportedSymbol(p, p[f][i].from, p[f][i].other)
  PROVE  <<Id(p, f, i), s>> \in AliasEdges(p)
BY DEF AliasEdges, BindingEdges

\* What leads to a declaration has it for its canonical symbol.
LEMMA CanonicalIs ==
  ASSUME NEW p, IsProgram(p), IsFiniteSet(File), NEW s, NEW f \in File, NEW i \in Places(p, f), Declares(p[f][i])
  PROVE  Canonical(p, s) = Id(p, f, i) <=> Reaches(AliasEdges(p), s, Id(p, f, i))
<1> DEFINE links == AliasEdges(p)
           d == Id(p, f, i)
<1>1. IsFiniteSet(links) /\ Functional(links)
  BY AliasesFinite, AliasesFunctional
<1>2. \A e \in links : e[1] # d
  <2> SUFFICES ASSUME NEW e \in links, e[1] = d PROVE FALSE
    OBVIOUS
  <2>1. PICK g \in File : \E j \in Places(p, g) :
           p[g][j].kind \in {"import", "reexport"} /\ e[1] = Id(p, g, j)
    BY EdgeIs
  <2>2. PICK j \in Places(p, g) : p[g][j].kind \in {"import", "reexport"} /\ e[1] = Id(p, g, j)
    BY <2>1
  <2>3. p[g][j].kind = p[f][i].kind
    BY <2>2, SameId
  <2> QED BY <2>2, <2>3 DEF Declares
<1>3. \A v : Reaches(links, d, v) => v = d
  <2>1. Closed(links, {d})
    BY <1>2 DEF Closed
  <2> QED BY <2>1 DEF Reaches
<1>4. \A x : Canonical(p, x) \in Loop(Walk(links, x)) /\ \A y \in Loop(Walk(links, x)) : Reaches(links, x, y)
  BY <1>1, LoopIs DEF Canonical, CanonicalIn
<1> HIDE DEF links, d
<1>5. ASSUME Reaches(links, s, d) PROVE Canonical(p, s) = d
  <2>1. Loop(Walk(links, s)) = Loop(Walk(links, d))
    BY <1>1, <1>5, ReachesLoop
  <2> QED BY <1>3, <1>4, <2>1
<1>6. ASSUME Canonical(p, s) = d PROVE Reaches(links, s, d)
  BY <1>4, <1>6
<1> QED BY <1>5, <1>6 DEF links, d

\* The definitions that are listed for a symbol are those of its canonical one.
LEMMA DefinitionsAre ==
  ASSUME NEW p, IsProgram(p), IsFiniteSet(File), \A g \in File : Regular(p, g),
         NEW f \in File, NEW i \in Imports(p, f), NEW d
  PROVE  LET s == Id(p, f, i) IN
         d \in {o.symbol : o \in {q \in DefinitionOccurrences(p, s) : q.role = "definition"}} <=>
            /\ d = Canonical(p, s)
            /\ \E g \in File : \E j \in Places(p, g) : Declares(p[g][j]) /\ d = Id(p, g, j)
<1> DEFINE s == Id(p, f, i)
           links == AliasEdges(p)
           canonical == Canonical(p, s)
           listed == {q \in DefinitionOccurrences(p, s) : q.role = "definition"}
           ids == UNION {{Id(p, g, j) : j \in Places(p, g)} : g \in File}
<1>0. i \in Places(p, f)
  BY DEF Imports
<1>1. listed = Having(p, canonical, {"definition"})
  <2>1. \A q \in Having(p, s, {"import"}) : q.role # "definition"
    BY DEF Having
  <2>2. \A q \in Having(p, canonical, {"definition"}) : q.role = "definition"
    BY DEF Having
  <2> QED BY <2>1, <2>2 DEF DefinitionOccurrences
<1>2. canonical \in ids
  <2>1. s \in ids
    BY <1>0
  <2>2. Closed(links, ids)
    <3> SUFFICES ASSUME NEW e \in links PROVE e[2] \in ids
      BY DEF Closed
    <3>1. PICK g \in File : \E j \in Places(p, g) :
             e[2] \in UniqueExportedSymbol(p, p[g][j].from, p[g][j].other)
      BY EdgeIs
    <3>2. PICK j \in Places(p, g) : e[2] \in UniqueExportedSymbol(p, p[g][j].from, p[g][j].other)
      BY <3>1
    <3>3. p[g][j].from \in File \union {None}
      BY DEF IsProgram, IsNode
    <3>4. PICK h \in File : UniqueExportedSymbol(p, p[g][j].from, p[g][j].other) \subseteq ExportedAs(p, h, p[g][j].other)
      BY <3>2, <3>3, UniqueIs
    <3>5. PICK k \in Places(p, h) : e[2] = Exports(p, h, k) /\ Exports(p, h, k) # None
      BY <3>2, <3>4 DEF ExportedAs
    <3>6. k \in Clauses(p, h)
      BY <3>5, OthersExportNothing
    <3>7. PICK m \in MeantBy(p, h, k) : e[2] = Id(p, h, m)
      BY <3>5, <3>6, ExportsMeant
    <3>8. m \in Places(p, h)
      BY <3>6, MeantByIs
    <3> QED BY <3>7, <3>8
  <2>3. Reaches(links, s, canonical)
    BY AliasesFinite, AliasesFunctional, LoopIs DEF Canonical, CanonicalIn
  <2> HIDE DEF ids
  <2> QED BY <2>1, <2>2, <2>3 DEF Reaches
<1> HIDE DEF canonical, listed
<1>3. ASSUME NEW o \in listed
      PROVE  o.symbol = canonical /\ \E g \in File : \E j \in Places(p, g) : Declares(p[g][j]) /\ canonical = Id(p, g, j)
  <2>1. o.symbol = canonical /\ o.role = "definition" /\ \E g \in File : o \in Occurrences(p, g)
    BY <1>1 DEF Having, AllOccurrences
  <2>2. PICK g \in File : o \in Occurrences(p, g)
    BY <2>1
  <2>3. PICK h \in File : \E j \in Places(p, h) : canonical = Id(p, h, j)
    BY <1>2
  <2>4. canonical # ModuleId(g)
    <3>1. PICK j \in Places(p, h) : canonical = Id(p, h, j)
      BY <2>3
    <3>2. Len(canonical) = 5
      <4>1. PICK c : Id(p, h, j) = <<h, SymbolKind(p[h][j]), c, p[h][j].name, Signature(p[h][j])>>
        BY IdIs
      <4> QED BY <3>1, <4>1
    <3>3. Len(ModuleId(g)) = 2
      BY DEF ModuleId
    <3> QED BY <3>2, <3>3
  <2>5. PICK j \in Places(p, g) : (Declares(p[g][j]) \/ p[g][j].kind = "broken") /\ canonical = Id(p, g, j)
    BY <2>1, <2>2, <2>4, OccurrenceIs
  <2>6. p[g][j].kind # "broken"
    BY DEF Regular
  <2> QED BY <2>1, <2>5, <2>6
<1>4. ASSUME NEW g \in File, NEW j \in Places(p, g), Declares(p[g][j]), canonical = Id(p, g, j)
      PROVE  \E o \in listed : o.symbol = canonical
  <2> DEFINE o == Occurrence(canonical, "definition", g, j)
  <2>1. o \in Occurrences(p, g)
    BY <1>4 DEF Occurrences
  <2>2. o.symbol = canonical /\ o.role = "definition"
    BY DEF Occurrence
  <2> HIDE DEF o
  <2> QED BY <1>1, <2>1, <2>2 DEF Having, AllOccurrences
<1> QED BY <1>3, <1>4 DEF canonical, listed

LEMMA ImportsAreFound ==
  ASSUME NoneIsNoTuple, NEW p, IsProgram(p), IsFiniteSet(File), \A g \in File : Regular(p, g),
         NEW f \in File, NEW i \in Imports(p, f), p[f][i].other # "*"
  PROVE  {o.symbol : o \in {q \in DefinitionOccurrences(p, Id(p, f, i)) : q.role = "definition"}} =
         StandsFor(p, p[f][i].from, p[f][i].other)
<1> DEFINE s == Id(p, f, i)
           from == p[f][i].from
           other == p[f][i].other
           links == AliasEdges(p)
<1>0. i \in Places(p, f) /\ p[f][i].kind = "import" /\ from \in File \union {None}
  BY DEF Imports, IsProgram, IsNode
<1>1. IsFiniteSet(links) /\ Functional(links)
  BY AliasesFinite, AliasesFunctional
<1>2. PICK found :
         /\ StandsFor(p, from, other) = UNION {DeclaredBy(p, x) : x \in found}
         /\ <<from, other>> \in found
         /\ \A x \in found : x[1] \in File \union {None} /\ Onward(p, x) \subseteq found
         /\ \A S : <<from, other>> \in S /\ (\A x \in S \intersect found : Onward(p, x) \subseteq S) => found \subseteq S
  BY <1>0, FoundIs
<1>3. PICK start : start = <<from, other>> /\ start[1] = from /\ start[2] = other
  <2>1. PICK start : start = <<from, other>>
    OBVIOUS
  <2> QED BY <2>1
<1>4. ASSUME NEW x, x[1] \in File \union {None}
      PROVE  /\ UniqueExportedSymbol(p, x[1], x[2]) = {Id(p, x[1], j) : j \in Meant(p, x[1], x[2])}
             /\ Meant(p, x[1], x[2]) # {} => x[1] \in File
             /\ \A j \in Meant(p, x[1], x[2]) : j \in Places(p, x[1]) /\ MakesSymbol(p[x[1]][j])
  BY <1>4, UniqueIsMeant
<1> HIDE DEF s, from, other, links
\* What is found is reached from the import.
<1>5. ASSUME NEW x \in found, NEW j \in Meant(p, x[1], x[2]) PROVE Reaches(links, s, Id(p, x[1], j))
  <2> DEFINE S == {y \in found : \A k \in Meant(p, y[1], y[2]) : Reaches(links, s, Id(p, y[1], k))}
  <2>1. start \in S
    <3> SUFFICES ASSUME NEW k \in Meant(p, from, other) PROVE Reaches(links, s, Id(p, from, k))
      BY <1>2, <1>3
    <3>1. Id(p, from, k) \in UniqueExportedSymbol(p, from, other)
      BY <1>0, <1>3, <1>4
    <3>2. <<s, Id(p, from, k)>> \in links
      BY <1>0, <3>1, LinkIs DEF s, links, from, other
    <3> QED BY <1>1, <3>2, ReachesNext
  <2>2. ASSUME NEW y \in S, NEW z \in Onward(p, y) PROVE z \in S
    <3>1. z \in found
      BY <1>2
    <3>2. PICK g : g = y[1]
      OBVIOUS
    <3>3. PICK k \in Meant(p, g, y[2]) :
             p[g][k].kind \in {"import", "reexport"} /\ p[g][k].other # "*" /\ z = <<p[g][k].from, p[g][k].other>>
      BY <3>2 DEF Onward, Sources
    <3>4. g \in File /\ k \in Places(p, g)
      BY <1>2, <1>4, <3>2, <3>3
    <3>5. z[1] = p[g][k].from /\ z[2] = p[g][k].other
      BY <3>3
    <3>6. ASSUME NEW m \in Meant(p, z[1], z[2]) PROVE Reaches(links, s, Id(p, z[1], m))
      <4>1. Id(p, z[1], m) \in UniqueExportedSymbol(p, z[1], z[2])
        BY <1>2, <1>4, <3>1
      <4>2. <<Id(p, g, k), Id(p, z[1], m)>> \in links
        BY <3>3, <3>4, <3>5, <4>1, LinkIs DEF links
      <4>3. Reaches(links, Id(p, g, k), Id(p, z[1], m))
        BY <1>1, <4>2, ReachesNext
      <4>4. Reaches(links, s, Id(p, g, k))
        BY <3>2
      <4> QED BY <4>3, <4>4, ReachesOnward
    <3> QED BY <3>1, <3>6
  <2> HIDE DEF S
  <2>3. found \subseteq S
    BY <1>2, <1>3, <2>1, <2>2
  <2> QED BY <2>3 DEF S
\* What is reached is the import, or is found.
<1>6. ASSUME NEW d, Reaches(links, s, d), d # s
      PROVE  \E x \in found : \E j \in Meant(p, x[1], x[2]) : d = Id(p, x[1], j)
  <2> DEFINE S == {s} \union UNION {{Id(p, x[1], j) : j \in Meant(p, x[1], x[2])} : x \in found}
  <2>1. ASSUME NEW x \in found, NEW t \in UniqueExportedSymbol(p, x[1], x[2]) PROVE t \in S
    BY <1>2, <1>4
  <2>2. ASSUME NEW e \in links, e[1] \in S PROVE e[2] \in S
    <3>1. PICK g \in File : \E k \in Places(p, g) :
             /\ p[g][k].kind \in {"import", "reexport"} /\ p[g][k].other # "*" /\ e[1] = Id(p, g, k)
             /\ e[2] \in UniqueExportedSymbol(p, p[g][k].from, p[g][k].other)
      BY EdgeIs DEF links
    <3>2. PICK k \in Places(p, g) :
             /\ p[g][k].kind \in {"import", "reexport"} /\ p[g][k].other # "*" /\ e[1] = Id(p, g, k)
             /\ e[2] \in UniqueExportedSymbol(p, p[g][k].from, p[g][k].other)
      BY <3>1
    <3>3. CASE e[1] = s
      <4>1. p[g][k].from = from /\ p[g][k].other = other
        <5>1. Id(p, f, i) = Id(p, g, k)
          BY <3>2, <3>3 DEF s
        <5>2. p[f][i].kind \in {"import", "reexport"}
          BY <1>0
        <5> QED BY <1>0, <5>1, <5>2, SameId DEF from, other
      <4> QED BY <1>2, <1>3, <2>1, <3>2, <4>1
    <3>4. CASE e[1] # s
      <4>1. PICK x \in found : \E j \in Meant(p, x[1], x[2]) : e[1] = Id(p, x[1], j)
        BY <2>2, <3>4
      <4>2. PICK h : h = x[1]
        OBVIOUS
      <4>3. PICK j \in Meant(p, h, x[2]) : e[1] = Id(p, h, j)
        BY <4>1, <4>2
      <4>4. h \in File /\ j \in Places(p, h)
        BY <1>2, <1>4, <4>2
      <4>5. p[h][j].kind \in {"import", "reexport"} /\ p[h][j].from = p[g][k].from /\ p[h][j].other = p[g][k].other
        <5>1. Id(p, g, k) = Id(p, h, j)
          BY <3>2, <4>3
        <5> QED BY <3>2, <4>4, <5>1, SameId
      <4>6. PICK z : z = <<p[g][k].from, p[g][k].other>>
        OBVIOUS
      <4>7. z[1] = p[g][k].from /\ z[2] = p[g][k].other
        BY <4>6
      <4>8. z \in Onward(p, x)
        BY <3>2, <4>2, <4>5, <4>6 DEF Onward, Sources
      <4>9. z \in found
        BY <1>2, <4>8
      <4> QED BY <2>1, <3>2, <4>7, <4>9
    <3> QED BY <3>3, <3>4
  <2>3. s \in S
    OBVIOUS
  <2>4. d \in S
    <3> HIDE DEF S
    <3> QED BY <1>6, <2>2, <2>3 DEF Reaches, Closed
  <2> QED BY <1>6, <2>4
<1>7. ASSUME NEW d, d = Canonical(p, s), NEW g \in File, NEW j \in Places(p, g), Declares(p[g][j]), d = Id(p, g, j)
      PROVE  d \in StandsFor(p, from, other)
  <2>1. Reaches(links, s, d)
    <3>1. Canonical(p, s) = Id(p, g, j)
      BY <1>7
    <3>2. Reaches(AliasEdges(p), s, Id(p, g, j))
      BY <1>7, <3>1, CanonicalIs
    <3> QED BY <1>7, <3>2 DEF links
  <2>2. d # s
    <3>1. ASSUME d = s PROVE p[g][j].kind = p[f][i].kind
      <4>1. Id(p, g, j) = Id(p, f, i)
        BY <1>7, <3>1 DEF s
      <4> QED BY <1>0, <1>7, <4>1, SameId
    <3> QED BY <1>0, <1>7, <3>1 DEF Declares
  <2>3. PICK x \in found : \E k \in Meant(p, x[1], x[2]) : d = Id(p, x[1], k)
    BY <1>6, <2>1, <2>2
  <2>4. PICK k \in Meant(p, x[1], x[2]) : d = Id(p, x[1], k)
    BY <2>3
  <2>5. PICK h : h = x[1]
    OBVIOUS
  <2>6. h \in File /\ k \in Places(p, h)
    BY <1>2, <1>4, <2>5
  <2>7. p[h][k].kind = p[g][j].kind
    <3>1. Id(p, h, k) = Id(p, g, j)
      BY <1>7, <2>4, <2>5
    <3> QED BY <1>7, <2>6, <3>1, SameId
  <2>8. Declares(p[h][k])
    BY <1>7, <2>7 DEF Declares
  <2>9. d \in DeclaredBy(p, x)
    BY <2>4, <2>5, <2>8 DEF DeclaredBy
  <2> QED BY <1>2, <2>9
<1>8. ASSUME NEW d \in StandsFor(p, from, other)
      PROVE  d = Canonical(p, s) /\ \E g \in File : \E j \in Places(p, g) : Declares(p[g][j]) /\ d = Id(p, g, j)
  <2>1. PICK x \in found : d \in DeclaredBy(p, x)
    BY <1>2
  <2>2. PICK h : h = x[1]
    OBVIOUS
  <2>3. PICK j \in Meant(p, h, x[2]) : Declares(p[h][j]) /\ d = Id(p, h, j)
    BY <2>1, <2>2 DEF DeclaredBy
  <2>4. h \in File /\ j \in Places(p, h)
    BY <1>2, <1>4, <2>2
  <2>5. Reaches(links, s, d)
    BY <1>5, <2>2, <2>3
  <2>6. d = Canonical(p, s)
    BY <2>3, <2>4, <2>5, CanonicalIs DEF links
  <2> QED BY <2>3, <2>4, <2>6
<1>9. ASSUME NEW d
      PROVE  d \in {o.symbol : o \in {q \in DefinitionOccurrences(p, s) : q.role = "definition"}} <=>
             d \in StandsFor(p, from, other)
  BY <1>7, <1>8, DefinitionsAre DEF s
<1> QED BY <1>9 DEF s, from, other

\* In a program whose names are unambiguous, however many files and re-exports
\* it has, definition_occurrences of an import finds what the import means by
\* the rules of the language, and nothing else (symbol_query.rs, symbol_graph.rs).
THEOREM ImportsFindTheirDeclarations ==
  ASSUME NoneIsNoTuple
  PROVE  Edits => []ImportsFindDeclarations
<1>1. EditsInv => ImportsFindDeclarations
  <2>1. EditsInv => IsProgram(program) /\ IsFiniteSet(File)
    BY EditsArePrograms, NodesAssumption
  <2> QED BY <2>1, ImportsAreFound DEF ImportsFindDeclarations
<1> QED BY <1>1, EditsInvAlways, PTL

-----------------------------------------------------------------------------
(* What a file contributes is decided by its signature                     *)

LEMMA UseIs ==
  ASSUME NEW p, NEW c, NEW f, NEW roles, NEW u \in Uses(p, c, f, roles)
  PROVE  u.file = f /\ u.role \in roles
BY DEF Uses

LEMMA ReferencesAmongUses ==
  ASSUME NEW p, NEW c, NEW f
  PROVE  Uses(p, c, f, {"reference"}) = {u \in Uses(p, c, f, UseRoles) : u.role = "reference"}
<1>1. ASSUME NEW u \in Uses(p, c, f, {"reference"})
      PROVE  u \in Uses(p, c, f, UseRoles) /\ u.role = "reference"
  BY DEF Uses, UseRoles
<1>2. ASSUME NEW u \in Uses(p, c, f, UseRoles), u.role = "reference"
      PROVE  u \in Uses(p, c, f, {"reference"})
  BY <1>2 DEF Uses
<1> QED BY <1>1, <1>2

\* incremental.rs keeps the contribution of a file whose signature is the same.
LEMMA SignatureDecides ==
  ASSUME NEW p, NEW k, NEW c, NEW q, NEW l, NEW d, NEW f,
         FileSignature(p, k, c, f) = FileSignature(q, l, d, f)
  PROVE  Contribution(p, k, c, f) = Contribution(q, l, d, f)
<1>1. /\ Uses(p, c, f, SignatureRoles(f)) = Uses(q, d, f, SignatureRoles(f))
      /\ Dependencies(p, f) = Dependencies(q, f)
      /\ LinkTargets(p, c, f, "import") = LinkTargets(q, d, f, "import")
      /\ LinkTargets(p, c, f, "reexport") = LinkTargets(q, d, f, "reexport")
      /\ HeuristicCandidates(p, k, f) = HeuristicCandidates(q, l, f)
  BY DEF FileSignature
<1> DEFINE old == Uses(p, c, f, UseRoles)
           new == Uses(q, d, f, UseRoles)
<1>2. {u \in old : u.role = "reference"} = {u \in new : u.role = "reference"}
  <2>1. CASE f \in TestFile
    BY <1>1, <2>1 DEF SignatureRoles
  <2>2. CASE f \notin TestFile
    BY <1>1, <2>2, ReferencesAmongUses DEF SignatureRoles
  <2> QED BY <2>1, <2>2
<1>3. f \in TestFile => old = new
  BY <1>1 DEF SignatureRoles
<1>4. TestContribution(p, k, old, f) = TestContribution(q, l, new, f)
  <2>1. CASE f \in TestFile
    BY <1>1, <1>3, <2>1 DEF TestContribution
  <2>2. CASE f \notin TestFile
    BY <2>2 DEF TestContribution
  <2> QED BY <2>1, <2>2
<1> QED BY <1>1, <1>2, <1>4 DEF Contribution

\* What a refresh keeps is what it would have made: build_incremental has the
\* contributions of build_full.
LEMMA RefreshedIsFresh ==
  ASSUME NEW p, NEW k, NEW q, NEW l, NEW changed
  PROVE  Refreshed(changed, AllContributions(q, l), AllContributions(p, k)) = AllContributions(p, k)
<1> DEFINE before == AllContributions(q, l)
           fresh == AllContributions(p, k)
<1>1. ASSUME NEW f \in DOMAIN fresh, f \notin Touched(changed, before, fresh)
      PROVE  before[f] = fresh[f]
  <2>1. f \in DOMAIN before /\ before[f].signature = fresh[f].signature
    BY <1>1 DEF Touched
  <2>2. /\ before[f] = Contribution(q, l, CanonicalMap(q), f)
        /\ fresh[f] = Contribution(p, k, CanonicalMap(p), f)
    BY <2>1 DEF AllContributions
  <2>3. FileSignature(q, l, CanonicalMap(q), f) = FileSignature(p, k, CanonicalMap(p), f)
    BY <2>1, <2>2 DEF Contribution
  <2> QED BY <2>2, <2>3, SignatureDecides
<1>2. fresh = [f \in DOMAIN fresh |-> fresh[f]]
  BY DEF AllContributions
<1> HIDE DEF before, fresh
<1>3. Refreshed(changed, before, fresh) = fresh
  BY <1>1, <1>2 DEF Refreshed
<1> QED BY <1>3 DEF before, fresh

-----------------------------------------------------------------------------
(* The plan put together from contributions is the plan of the whole graph *)

\* The binding of an edge is a symbol of a file that is there.
LEMMA EdgesStart ==
  ASSUME NEW p, NEW kind \in {"import", "reexport"}, NEW e \in BindingEdges(p, {kind})
  PROVE  \E f \in Present(p) : e[1] \in Symbols(p, f)
<1>1. PICK f \in File : \E i \in Places(p, f) : p[f][i].kind = kind /\ e[1] = Id(p, f, i)
  BY DEF BindingEdges
<1>2. PICK i \in Places(p, f) : p[f][i].kind = kind /\ e[1] = Id(p, f, i)
  BY <1>1
<1>3. i \in Made(p, f)
  BY <1>2 DEF Made, MakesSymbol
<1>4. p[f] # <<>>
  BY <1>2 DEF Places
<1> QED BY <1>2, <1>3, <1>4 DEF Present, Symbols

\* What bindings of a kind stand for, of the graph and of a file.
Bound(p, c, kind) == {<<c[e[2]], e[1]>> : e \in BindingEdges(p, {kind})}
BoundIn(p, c, f, kind) == {<<l[2], l[1]>> : l \in LinkTargets(p, c, f, kind)}

LEMMA LinksAreEdges ==
  ASSUME NEW p, NEW c, NEW kind \in {"import", "reexport"}
  PROVE  \A x : x \in Bound(p, c, kind) <=> \E f \in Present(p) : x \in BoundIn(p, c, f, kind)
<1>1. ASSUME NEW x \in Bound(p, c, kind) PROVE \E f \in Present(p) : x \in BoundIn(p, c, f, kind)
  <2>1. PICK e \in BindingEdges(p, {kind}) : x = <<c[e[2]], e[1]>>
    BY DEF Bound
  <2>2. PICK f \in Present(p) : e[1] \in Symbols(p, f)
    BY EdgesStart
  <2>3. <<e[1], c[e[2]]>> \in LinkTargets(p, c, f, kind)
    BY <2>2 DEF LinkTargets
  <2> QED BY <2>1, <2>3 DEF BoundIn
<1>2. ASSUME NEW f \in Present(p), NEW x \in BoundIn(p, c, f, kind) PROVE x \in Bound(p, c, kind)
  <2>1. PICK l \in LinkTargets(p, c, f, kind) : x = <<l[2], l[1]>>
    BY DEF BoundIn
  <2>2. PICK e \in BindingEdges(p, {kind}) : l = <<e[1], c[e[2]]>>
    BY DEF LinkTargets
  <2> QED BY <2>1, <2>2 DEF Bound
<1> QED BY <1>1, <1>2

LEMMA SymbolTestsAssembled ==
  ASSUME NEW p, NEW k, NEW c
  PROVE  TestAssociations(p, k, c).symbolTests =
         UNION {TestContribution(p, k, Uses(p, c, f, UseRoles), f).symbolTests : f \in Present(p)}
<1> DEFINE whole == TestAssociations(p, k, c).symbolTests
           part(f) == TestContribution(p, k, Uses(p, c, f, UseRoles), f).symbolTests
<1>1. ASSUME NEW x \in whole PROVE \E f \in Present(p) : x \in part(f)
  <2>1. PICK f \in Present(p) \intersect TestFile :
            \E u \in Uses(p, c, f, UseRoles) :
               /\ FileOf(u.to) # f
               /\ x = <<u.to, Association(u.file, "references", u.role, u.owner)>>
    BY DEF TestAssociations
  <2>2. x \in part(f)
    BY <2>1, UseIs DEF TestContribution
  <2> QED BY <2>2
<1>2. ASSUME NEW f \in Present(p), NEW x \in part(f) PROVE x \in whole
  <2>1. f \in TestFile
    BY DEF TestContribution
  <2>2. PICK u \in Uses(p, c, f, UseRoles) :
            /\ FileOf(u.to) # f
            /\ x = <<u.to, Association(f, "references", u.role, u.owner)>>
    BY <2>1 DEF TestContribution
  <2>3. u.file = f
    BY UseIs
  <2> QED BY <2>1, <2>2, <2>3 DEF TestAssociations
<1> QED BY <1>1, <1>2

\* What a test says of other files by what it uses, and by what it imports and
\* is named.
TestUses(p, c, f) ==
    {<<FileOf(u.to), Association(f, "references", u.role, u.owner)>> :
        u \in {v \in Uses(p, c, f, UseRoles) : FileOf(v.to) # f}}
TestImports(p, f) == {<<g, Association(f, "imports", "", None)>> : g \in Dependencies(p, f)}
TestNames(p, k, f) ==
    {<<g, Association(f, "heuristic", "", None)>> : g \in HeuristicTarget(HeuristicCandidates(p, k, f))}
TestPart(p, k, c, f) == TestContribution(p, k, Uses(p, c, f, UseRoles), f).fileTests

LEMMA FileTestsAssembled ==
  ASSUME NEW p, NEW k, NEW c
  PROVE  TestAssociations(p, k, c).fileTests =
         UNION {TestContribution(p, k, Uses(p, c, f, UseRoles), f).fileTests : f \in Present(p)}
<1> DEFINE tests == Present(p) \intersect TestFile
           elsewhere == UNION {{u \in Uses(p, c, f, UseRoles) : FileOf(u.to) # f} : f \in tests}
           used == {<<FileOf(u.to), Association(u.file, "references", u.role, u.owner)>> : u \in elsewhere}
<1>1. used = UNION {TestUses(p, c, f) : f \in tests}
  <2>1. ASSUME NEW x \in used PROVE \E f \in tests : x \in TestUses(p, c, f)
    <3>1. PICK f \in tests : \E u \in Uses(p, c, f, UseRoles) :
              /\ FileOf(u.to) # f
              /\ x = <<FileOf(u.to), Association(u.file, "references", u.role, u.owner)>>
      OBVIOUS
    <3>2. x \in TestUses(p, c, f)
      BY <3>1, UseIs DEF TestUses
    <3> QED BY <3>2
  <2>2. ASSUME NEW f \in tests, NEW x \in TestUses(p, c, f) PROVE x \in used
    <3>1. PICK u \in Uses(p, c, f, UseRoles) :
              /\ FileOf(u.to) # f
              /\ x = <<FileOf(u.to), Association(f, "references", u.role, u.owner)>>
      BY DEF TestUses
    <3>2. u \in elsewhere /\ u.file = f
      BY <3>1, UseIs
    <3> QED BY <3>1, <3>2
  <2> QED BY <2>1, <2>2
<1>2. TestAssociations(p, k, c).fileTests =
          used \union UNION {TestImports(p, f) \union TestNames(p, k, f) : f \in tests}
  BY DEF TestAssociations, TestImports, TestNames
<1>3. ASSUME NEW f \in Present(p)
      PROVE  TestPart(p, k, c, f) =
             IF f \in TestFile THEN TestImports(p, f) \union TestUses(p, c, f) \union TestNames(p, k, f) ELSE {}
  <2>1. CASE f \in TestFile
    BY <2>1 DEF TestPart, TestContribution, TestImports, TestUses, TestNames
  <2>2. CASE f \notin TestFile
    BY <2>2 DEF TestPart, TestContribution
  <2> QED BY <2>1, <2>2
<1> HIDE DEF used, elsewhere
<1>4. ASSUME NEW x
      PROVE  x \in TestAssociations(p, k, c).fileTests <=> \E f \in Present(p) : x \in TestPart(p, k, c, f)
  <2>1. x \in used <=> \E f \in tests : x \in TestUses(p, c, f)
    BY <1>1
  <2>2. x \in TestAssociations(p, k, c).fileTests
        <=> x \in used \/ \E f \in tests : x \in TestImports(p, f) \/ x \in TestNames(p, k, f)
    BY <1>2
  <2>3. \A f \in Present(p) :
           x \in TestPart(p, k, c, f) <=>
              f \in TestFile /\ (x \in TestImports(p, f) \/ x \in TestUses(p, c, f) \/ x \in TestNames(p, k, f))
    BY <1>3
  <2> QED BY <2>1, <2>2, <2>3
<1>5. TestAssociations(p, k, c).fileTests = UNION {TestPart(p, k, c, f) : f \in Present(p)}
  BY <1>4
<1> QED BY <1>5 DEF TestPart

LEMMA ReferencesAssembled ==
  ASSUME NEW p, NEW c
  PROVE  ReverseReferences(p, c) =
         UNION {{<<u.to, Reference(u)>> : u \in {v \in Uses(p, c, f, UseRoles) : v.role = "reference"}} :
                    f \in Present(p)}
BY ReferencesAmongUses DEF ReverseReferences

\* assemble_plan makes of the contributions of all files what
\* ImpactEnrichmentPlanner makes of the graph.
LEMMA AssembledIsPlan ==
  ASSUME NEW p, NEW k
  PROVE  Assemble(p, k, AllContributions(p, k)) = EnrichmentPlan(p, k)
<1> DEFINE c == CanonicalMap(p)
           all == AllContributions(p, k)
           assembled == Assemble(p, k, all)
           whole == EnrichmentPlan(p, k)
<1>1. DOMAIN all = Present(p) /\ \A f \in Present(p) : all[f] = Contribution(p, k, c, f)
  BY DEF AllContributions
<1>2. /\ assembled.references = UNION {all[f].references : f \in Present(p)}
      /\ assembled.imports = UNION {all[f].imports : f \in Present(p)}
      /\ assembled.exports = UNION {all[f].exports : f \in Present(p)}
      /\ assembled.dependents = UNION {all[f].dependents : f \in Present(p)}
      /\ assembled.symbolTests = UNION {all[f].symbolTests : f \in Present(p)}
      /\ assembled.fileTests = UNION {all[f].fileTests : f \in Present(p)}
  BY <1>1 DEF Assemble
<1>3. \A f \in Present(p) :
        /\ all[f].references = {<<u.to, Reference(u)>> : u \in {v \in Uses(p, c, f, UseRoles) : v.role = "reference"}}
        /\ all[f].imports = BoundIn(p, c, f, "import")
        /\ all[f].exports = BoundIn(p, c, f, "reexport")
        /\ all[f].dependents = {<<g, f>> : g \in Dependencies(p, f)}
        /\ all[f].symbolTests = TestContribution(p, k, Uses(p, c, f, UseRoles), f).symbolTests
        /\ all[f].fileTests = TestContribution(p, k, Uses(p, c, f, UseRoles), f).fileTests
  BY <1>1 DEF Contribution, BoundIn
<1>4. /\ whole.references = ReverseReferences(p, c)
      /\ whole.imports = ReverseEdges(p, c).imports /\ whole.exports = ReverseEdges(p, c).exports
      /\ whole.dependents = ReverseEdges(p, c).dependents
      /\ whole.symbolTests = TestAssociations(p, k, c).symbolTests
      /\ whole.fileTests = TestAssociations(p, k, c).fileTests
  BY DEF EnrichmentPlan
<1> HIDE DEF c, all, assembled, whole
<1>5. assembled.references = whole.references
  BY <1>2, <1>3, <1>4, ReferencesAssembled
<1>6. assembled.imports = whole.imports /\ assembled.exports = whole.exports
  <2>1. whole.imports = Bound(p, c, "import") /\ whole.exports = Bound(p, c, "reexport")
    BY <1>4 DEF ReverseEdges, Bound
  <2>2. \A x : /\ x \in assembled.imports <=> \E f \in Present(p) : x \in BoundIn(p, c, f, "import")
               /\ x \in assembled.exports <=> \E f \in Present(p) : x \in BoundIn(p, c, f, "reexport")
    BY <1>2, <1>3
  <2>3. \A x : x \in assembled.imports <=> x \in Bound(p, c, "import")
    BY <2>2, LinksAreEdges
  <2>4. \A x : x \in assembled.exports <=> x \in Bound(p, c, "reexport")
    BY <2>2, LinksAreEdges
  <2>5. \A A, B : (\A x : x \in A <=> x \in B) => A = B
    OBVIOUS
  <2>6. assembled.imports = Bound(p, c, "import")
    BY <2>3, <2>5, Zenon
  <2>7. assembled.exports = Bound(p, c, "reexport")
    BY <2>4, <2>5, Zenon
  <2> QED BY <2>1, <2>6, <2>7
<1>7. assembled.dependents = whole.dependents
  <2>1. ReverseEdges(p, c).dependents = UNION {{<<g, f>> : g \in Dependencies(p, f)} : f \in Present(p)}
    BY DEF ReverseEdges
  <2> QED BY <1>2, <1>3, <1>4, <2>1
<1>8. assembled.symbolTests = whole.symbolTests /\ assembled.fileTests = whole.fileTests
  BY <1>2, <1>3, <1>4, SymbolTestsAssembled, FileTestsAssembled
<1>9. /\ assembled = [canonical |-> c, packages |-> PackageByFile(p, k),
                      symbols |-> UNION {{f} \X Symbols(p, f) : f \in Present(p)},
                      references |-> assembled.references, imports |-> assembled.imports,
                      exports |-> assembled.exports, dependents |-> assembled.dependents,
                      symbolTests |-> assembled.symbolTests, fileTests |-> assembled.fileTests]
      /\ whole = [canonical |-> c, packages |-> PackageByFile(p, k),
                 symbols |-> UNION {{f} \X Symbols(p, f) : f \in Present(p)},
                 references |-> whole.references, imports |-> whole.imports,
                 exports |-> whole.exports, dependents |-> whole.dependents,
                 symbolTests |-> whole.symbolTests, fileTests |-> whole.fileTests]
  BY DEF assembled, whole, Assemble, EnrichmentPlan, c
<1> QED BY <1>5, <1>6, <1>7, <1>8, <1>9 DEF assembled, whole, all

-----------------------------------------------------------------------------
(* The inductive invariant                                                 *)

\* Each snapshot has a place for a graph and one for a build.
IsList(list, n) == n \in Nat /\ DOMAIN list = 1..n /\ list = [i \in 1..n |-> list[i]]
ShapeInv ==
    \E n \in Nat : IsList(snapshots, n) /\ IsList(graphs, n) /\ IsList(builds, n)

EnvInv ==
    /\ \A s \in Ids : snapshots[s] \in Versions
    /\ unreadable \subseteq Ids
    /\ config \in Config
    /\ outcome.of \in Ids \union {0} /\ outcome.result \in {"none", "not_ready", "answer", "error"}
    /\ faults \in 0..MaxFaults

\* The graph of a snapshot is of its program, some files left out.
GraphInv ==
    \A s \in Ids : graphs[s] # None =>
        \E x \in Excluded : graphs[s] = GraphWithout(snapshots[s].program, x)

\* A build, from whatever it was refreshed, is what a full build makes of such
\* a graph: perhaps not of the one that the snapshot has by now.
FullBuild(b, p, k) == b.contributions = AllContributions(p, k) /\ b.plan = EnrichmentPlan(p, k)
BuildInv ==
    \A s \in Ids : IsBuild(builds[s]) =>
        /\ builds[s].config \in Config
        /\ \E x \in Excluded : FullBuild(builds[s], GraphWithout(snapshots[s].program, x), snapshots[s].package)

IInv == ShapeInv /\ EnvInv /\ GraphInv /\ BuildInv

\* A set of snapshots has a newest one.
LEMMA Newest ==
  ASSUME NEW n \in Nat, NEW found \in SUBSET (1..n), found # {}
  PROVE  Max(found) \in found
<1> DEFINE R == OpToRel(<, Nat)
           before == {m \in Nat : \E t \in found : m = n - t}
<1>1. IsWellFoundedOn(R, Nat)
  BY NatLessThanWellFounded, Zenon
<1>2. \A x, y \in Nat : x < y => <<x, y>> \in R
  BY DEF OpToRel
<1>4. ASSUME NEW t \in found PROVE n - t \in before
  <2>1. t \in 1..n
    OBVIOUS
  <2>2. n - t \in Nat
    BY <2>1
  <2> QED BY <2>2
<1>3. before \in SUBSET Nat /\ before # {}
  BY <1>4
<1>5. \A x \in before : \E t \in found : x = n - t
  OBVIOUS
<1> HIDE DEF R, before
<1>6. PICK x \in before : \A y \in before : ~(<<y, x>> \in R)
  BY <1>1, <1>3, WFMin
<1>7. PICK t \in found : x = n - t
  BY <1>5
<1>8. ASSUME NEW u \in found PROVE t >= u
  <2>1. n - u \in before /\ n - u \in Nat /\ x \in Nat
    BY <1>3, <1>4
  <2>2. ~(n - u < x)
    BY <1>2, <1>6, <2>1
  <2> QED BY <1>7, <2>1, <2>2
<1> QED BY <1>8 DEF Max

\* previous_build_candidate: another snapshot, whose build can be read.
LEMMA PreviousIs ==
  ASSUME ShapeInv, NEW s \in Ids, Previous(s) # 0
  PROVE  Previous(s) \in Ids \ {s} /\ IsBuild(builds[Previous(s)])
<1>1. PICK n \in Nat : Ids = 1..n
  BY DEF ShapeInv, IsList, Ids
<1> DEFINE found == {t \in Ids \ {s} : IsBuild(builds[t])}
<1>2. found # {} /\ Previous(s) = Max(found)
  BY DEF Previous
<1>3. found \in SUBSET (1..n)
  BY <1>1
<1>4. Max(found) \in found
  BY <1>2, <1>3, Newest
<1> QED BY <1>2, <1>4

IsLonger(longer, list, n, e) == longer[n + 1] = e /\ \A i \in 1..n : longer[i] = list[i]
LEMMA AppendTo ==
  ASSUME NEW list, NEW n, IsList(list, n), NEW e, NEW longer, longer = Append(list, e)
  PROVE  IsList(longer, n + 1) /\ IsLonger(longer, list, n, e)
<1> DEFINE values == {list[i] : i \in 1..n} \union {e}
<1>1. n \in Nat /\ list \in [1..n -> values]
  BY DEF IsList
<1>2. list \in Seq(values) /\ Len(list) = n
  BY <1>1
<1> HIDE DEF values
<1>3. e \in values
  BY DEF values
<1>4. /\ Append(list, e) \in Seq(values) /\ Len(Append(list, e)) = n + 1
      /\ \A i \in 1..n : Append(list, e)[i] = list[i]
      /\ Append(list, e)[n + 1] = e
  BY <1>2, <1>3, AppendProperties
<1>5. IsList(Append(list, e), n + 1)
  BY <1>1, <1>4 DEF IsList
<1> QED BY <1>4, <1>5 DEF IsLonger

LEMMA InitInv == Init => IInv
<1> SUFFICES ASSUME Init PROVE IInv
  OBVIOUS
<1>1. IsList(<<>>, 0)
  BY DEF IsList
<1>2. Ids = {}
  BY <1>1 DEF Init, Ids, IsList
<1>3. ShapeInv
  BY <1>1 DEF Init, ShapeInv
<1>4. EnvInv /\ GraphInv /\ BuildInv
  BY <1>2, BoundsAssumption DEF Init, EnvInv, GraphInv, BuildInv, NoOutcome
<1> QED BY <1>3, <1>4 DEF IInv

LEMMA ComposeInv ==
  ASSUME IInv, NEW v \in Versions, Compose(v)
  PROVE  IInv'
<1> USE DEF IInv
<1>1. PICK n \in Nat : IsList(snapshots, n) /\ IsList(graphs, n) /\ IsList(builds, n)
  BY DEF ShapeInv
<1>2. /\ snapshots' = Append(snapshots, v) /\ graphs' = Append(graphs, None) /\ builds' = Append(builds, None)
      /\ UNCHANGED <<unreadable, config, outcome, faults>>
  BY DEF Compose
<1>3. IsList(snapshots', n + 1) /\ IsList(graphs', n + 1) /\ IsList(builds', n + 1)
  BY <1>1, <1>2, AppendTo
<1>4. Ids = 1..n /\ Ids' = 1..(n + 1)
  BY <1>1, <1>3 DEF Ids, IsList
<1>5. /\ \A s \in Ids : snapshots'[s] = snapshots[s] /\ graphs'[s] = graphs[s] /\ builds'[s] = builds[s]
      /\ snapshots'[n + 1] = v /\ graphs'[n + 1] = None /\ builds'[n + 1] = None
  <2>1. IsLonger(snapshots', snapshots, n, v)
    BY <1>1, <1>2, AppendTo
  <2>2. IsLonger(graphs', graphs, n, None)
    BY <1>1, <1>2, AppendTo
  <2>3. IsLonger(builds', builds, n, None)
    BY <1>1, <1>2, AppendTo
  <2> QED BY <1>4, <2>1, <2>2, <2>3 DEF IsLonger
<1>6. \A s \in Ids' : s \in Ids \/ s = n + 1
  BY <1>4
<1>7. Ids \subseteq Ids'
  BY <1>4
<1>8. ShapeInv'
  BY <1>3 DEF ShapeInv
<1>9. EnvInv'
  BY <1>2, <1>5, <1>6, <1>7 DEF EnvInv
<1>10. GraphInv'
  BY <1>5, <1>6 DEF GraphInv
<1>11. BuildInv'
  BY <1>5, <1>6 DEF BuildInv, IsBuild
<1> QED BY <1>8, <1>9, <1>10, <1>11

\* Steps that change at most the build and the graph of one snapshot.
LEMMA ShapeKept ==
  ASSUME ShapeInv, UNCHANGED snapshots, NEW s \in Ids, NEW g, NEW b,
         graphs' \in {graphs, [graphs EXCEPT ![s] = g]},
         builds' \in {builds, [builds EXCEPT ![s] = b]}
  PROVE  /\ ShapeInv' /\ Ids' = Ids
         /\ graphs' # graphs => graphs'[s] = g
         /\ builds' # builds => builds'[s] = b
         /\ \A t \in Ids \ {s} : graphs'[t] = graphs[t] /\ builds'[t] = builds[t]
<1>1. PICK n \in Nat : IsList(snapshots, n) /\ IsList(graphs, n) /\ IsList(builds, n)
  BY DEF ShapeInv
<1>2. Ids = 1..n
  BY <1>1 DEF Ids, IsList
<1>3. IsList(graphs', n) /\ IsList(builds', n)
  BY <1>1 DEF IsList
<1>4. ShapeInv' /\ Ids' = Ids
  BY <1>1, <1>3 DEF ShapeInv, Ids
<1> QED BY <1>1, <1>2, <1>4 DEF IsList

\* A build of the snapshot that is made now.
LEMMA MadeBuild ==
  ASSUME IInv, NEW s \in Ids, graphs[s] # None
  PROVE  /\ Contributions(s) = Fresh(s)
         /\ FullBuild(Build(s, Fresh(s)), graphs[s], snapshots[s].package)
         /\ Build(s, Fresh(s)).config = config
<1> DEFINE t == Previous(s)
<1>1. FullBuild(Build(s, Fresh(s)), graphs[s], snapshots[s].package) /\ Build(s, Fresh(s)).config = config
  BY AssembledIsPlan DEF FullBuild, Build, Fresh
<1>2. CASE builds[s] = Damaged \/ t = 0 \/ builds[t].config # config
  BY <1>1, <1>2 DEF Contributions
<1>3. CASE ~(builds[s] = Damaged \/ t = 0 \/ builds[t].config # config)
  <2>1. t \in Ids /\ IsBuild(builds[t])
    BY <1>3, PreviousIs DEF IInv
  <2>2. PICK q, l : builds[t].contributions = AllContributions(q, l)
    BY <2>1 DEF IInv, BuildInv, FullBuild
  <2>3. Contributions(s) = Incremental(s, t, Fresh(s))
    BY <1>3 DEF Contributions
  <2> QED BY <1>1, <2>2, <2>3, RefreshedIsFresh DEF Incremental, Fresh
<1> QED BY <1>2, <1>3

\* A snapshot is indexed, perhaps again and without other files.
LEMMA IndexInv ==
  ASSUME IInv, NEW s \in Ids, NEW x \in Excluded, Index(s, x)
  PROVE  IInv'
<1> DEFINE graph == GraphWithout(snapshots[s].program, x)
<1>1. /\ graphs' = [graphs EXCEPT ![s] = graph] /\ outcome' = NoOutcome
      /\ UNCHANGED <<snapshots, unreadable, config, builds, faults>>
  BY DEF Index
<1> HIDE DEF graph
<1>2. /\ ShapeInv' /\ Ids' = Ids
      /\ graphs' # graphs => graphs'[s] = graph
      /\ \A t \in Ids \ {s} : graphs'[t] = graphs[t]
  BY <1>1, ShapeKept DEF IInv
<1>3. EnvInv'
  BY <1>1, <1>2 DEF IInv, EnvInv, NoOutcome
<1>4. GraphInv'
  <2> SUFFICES ASSUME NEW t \in Ids, graphs'[t] # None
               PROVE  \E y \in Excluded : graphs'[t] = GraphWithout(snapshots[t].program, y)
    BY <1>1, <1>2 DEF GraphInv
  <2>1. CASE graphs'[t] = graphs[t]
    BY <2>1 DEF IInv, GraphInv
  <2>2. CASE graphs'[t] # graphs[t]
    BY <1>2, <2>2 DEF graph
  <2> QED BY <2>1, <2>2
<1>5. BuildInv'
  BY <1>1, <1>2 DEF IInv, BuildInv, IsBuild
<1> QED BY <1>2, <1>3, <1>4, <1>5 DEF IInv

\* Steps that store a build of s, or break the one that is there.
LEMMA StoredInv ==
  ASSUME IInv, NEW s \in Ids, NEW b, builds' = [builds EXCEPT ![s] = b],
         UNCHANGED <<snapshots, unreadable, graphs, config>>, faults' \in 0..MaxFaults,
         outcome' \in {NoOutcome, [of |-> s, result |-> "answer"]},
         IsBuild(b) => /\ graphs[s] # None /\ b.config = config
                       /\ FullBuild(b, graphs[s], snapshots[s].package)
  PROVE  IInv'
<1>1. /\ ShapeInv' /\ Ids' = Ids
      /\ builds' # builds => builds'[s] = b
      /\ \A t \in Ids \ {s} : builds'[t] = builds[t]
  <2>1. PICK n \in Nat : IsList(snapshots, n) /\ IsList(graphs, n) /\ IsList(builds, n)
    BY DEF IInv, ShapeInv
  <2>2. Ids = 1..n /\ IsList(builds', n)
    BY <2>1 DEF Ids, IsList
  <2>3. ShapeInv' /\ Ids' = Ids
    BY <2>1, <2>2 DEF ShapeInv, Ids
  <2> QED BY <2>1, <2>2, <2>3 DEF IsList
<1>2. EnvInv'
  <2>1. (\A t \in Ids : snapshots[t] \in Versions)' /\ unreadable' \subseteq Ids' /\ config' \in Config
    BY <1>1 DEF IInv, EnvInv
  <2>2. outcome'.of \in Ids \union {0} /\ outcome'.result \in {"none", "not_ready", "answer", "error"}
    BY DEF NoOutcome
  <2> QED BY <1>1, <2>1, <2>2 DEF EnvInv
<1>3. GraphInv'
  BY <1>1 DEF IInv, GraphInv
<1>4. BuildInv'
  <2> SUFFICES ASSUME NEW t \in Ids, IsBuild(builds'[t])
               PROVE  /\ builds'[t].config \in Config
                      /\ \E x \in Excluded :
                            FullBuild(builds'[t], GraphWithout(snapshots[t].program, x), snapshots[t].package)
    BY <1>1 DEF BuildInv, IsBuild
  <2>1. CASE builds'[t] = builds[t]
    BY <2>1 DEF IInv, BuildInv
  <2>2. CASE builds'[t] # builds[t]
    <3>1. t = s /\ builds'[s] = b
      BY <1>1, <2>2
    <3>2. PICK x \in Excluded : graphs[s] = GraphWithout(snapshots[s].program, x)
      BY <3>1 DEF IInv, GraphInv
    <3> QED BY <3>1, <3>2 DEF IInv, EnvInv
  <2> QED BY <2>1, <2>2
<1> QED BY <1>1, <1>2, <1>3, <1>4 DEF IInv

\* Steps that leave snapshots, graphs and builds alone.
LEMMA AsideInv ==
  ASSUME IInv, UNCHANGED <<snapshots, graphs, builds>>, unreadable' \subseteq Ids, config' \in Config,
         faults' \in 0..MaxFaults, outcome'.of \in Ids \union {0},
         outcome'.result \in {"none", "not_ready", "answer", "error"}
  PROVE  IInv'
<1>1. Ids' = Ids
  BY DEF Ids
<1>2. ShapeInv'
  BY DEF IInv, ShapeInv
<1>3. EnvInv'
  <2>1. (\A s \in Ids : snapshots[s] \in Versions)'
    BY <1>1 DEF IInv, EnvInv
  <2> QED BY <1>1, <2>1 DEF EnvInv
<1>4. GraphInv' /\ BuildInv'
  BY <1>1 DEF IInv, GraphInv, BuildInv, IsBuild
<1> QED BY <1>2, <1>3, <1>4 DEF IInv

LEMMA AnalyzeInv ==
  ASSUME IInv, NEW s \in Ids, Analyze(s)
  PROVE  IInv'
<1>1. /\ unreadable \subseteq Ids /\ config \in Config /\ faults \in 0..MaxFaults
      /\ s \in Ids \union {0}
  BY DEF IInv, EnvInv
<1>2. CASE AnalyzeNotReady(s)
  BY <1>1, <1>2, AsideInv DEF AnalyzeNotReady
<1>3. CASE AnalyzeStored(s)
  BY <1>1, <1>3, AsideInv DEF AnalyzeStored
<1>4. CASE AnalyzeBuilding(s)
  <2>1. /\ graphs[s] # None /\ builds' = [builds EXCEPT ![s] = Build(s, Contributions(s))]
        /\ outcome' = [of |-> s, result |-> "answer"]
        /\ UNCHANGED <<snapshots, unreadable, graphs, config, faults>>
    BY <1>4 DEF AnalyzeBuilding
  <2>2. FullBuild(Build(s, Contributions(s)), graphs[s], snapshots[s].package)
        /\ Build(s, Contributions(s)).config = config
    BY <2>1, MadeBuild
  <2> QED BY <1>1, <2>1, <2>2, StoredInv
<1>5. CASE AnalyzeFailing(s)
  <2>1. faults' \in 0..MaxFaults
    BY <1>1, <1>5, BoundsAssumption DEF AnalyzeFailing, Fault
  <2>2. /\ UNCHANGED <<snapshots, unreadable, graphs, config, builds>>
        /\ outcome' = [of |-> s, result |-> "error"]
    BY <1>5 DEF AnalyzeFailing
  <2> QED BY <1>1, <2>1, <2>2, AsideInv
<1> QED BY <1>2, <1>3, <1>4, <1>5 DEF Analyze

LEMMA RebuildInv ==
  ASSUME IInv, NEW s \in Ids, Rebuild(s)
  PROVE  IInv'
<1>1. /\ graphs[s] # None /\ builds' = [builds EXCEPT ![s] = Build(s, Fresh(s))]
      /\ outcome' = NoOutcome
      /\ UNCHANGED <<snapshots, unreadable, graphs, config, faults>>
  BY DEF Rebuild
<1>2. faults \in 0..MaxFaults
  BY DEF IInv, EnvInv
<1>3. FullBuild(Build(s, Fresh(s)), graphs[s], snapshots[s].package) /\ Build(s, Fresh(s)).config = config
  BY <1>1, MadeBuild
<1> QED BY <1>1, <1>2, <1>3, StoredInv

LEMMA DamageInv ==
  ASSUME IInv, NEW s \in Ids, DamageManifest(s) \/ DamageBuild(s)
  PROVE  IInv'
<1>1. /\ unreadable \subseteq Ids /\ config \in Config /\ faults \in 0..MaxFaults
  BY DEF IInv, EnvInv
<1>2. faults' \in 0..MaxFaults
  BY <1>1, BoundsAssumption DEF DamageManifest, DamageBuild, Fault
<1>3. CASE DamageManifest(s)
  <2>1. /\ UNCHANGED <<snapshots, graphs, config, builds>> /\ outcome' = NoOutcome
        /\ unreadable' = unreadable \union {s}
    BY <1>3 DEF DamageManifest
  <2>2. /\ outcome'.of \in Ids \union {0}
        /\ outcome'.result \in {"none", "not_ready", "answer", "error"}
    BY <2>1 DEF NoOutcome
  <2>3. unreadable' \subseteq Ids
    BY <1>1, <2>1
  <2> QED BY <1>1, <1>2, <2>1, <2>2, <2>3, AsideInv
<1>4. CASE DamageBuild(s)
  <2>1. /\ builds' = [builds EXCEPT ![s] = Damaged] /\ outcome' = NoOutcome
        /\ UNCHANGED <<snapshots, unreadable, graphs, config>>
    BY <1>4 DEF DamageBuild
  <2>2. ~IsBuild(Damaged)
    BY DEF IsBuild
  <2> QED BY <1>2, <2>1, <2>2, StoredInv
<1> QED BY <1>3, <1>4

LEMMA ConfigureInv ==
  ASSUME IInv, NEW g \in Config, Configure(g)
  PROVE  IInv'
<1>1. /\ unreadable \subseteq Ids /\ faults \in 0..MaxFaults
  BY DEF IInv, EnvInv
<1>2. /\ UNCHANGED <<snapshots, unreadable, graphs, builds>> /\ outcome' = NoOutcome /\ config' = g
  BY DEF Configure
<1>3. faults' \in 0..MaxFaults
  BY <1>1, BoundsAssumption DEF Configure, Fault
<1>4. /\ outcome'.of \in Ids \union {0}
      /\ outcome'.result \in {"none", "not_ready", "answer", "error"}
  BY <1>2 DEF NoOutcome
<1> QED BY <1>1, <1>2, <1>3, <1>4, AsideInv

LEMMA StepInv ==
  ASSUME IInv, [Next]_vars
  PROVE  IInv'
<1>1. CASE UNCHANGED vars
  <2>1. unreadable \subseteq Ids /\ config \in Config /\ faults \in 0..MaxFaults
        /\ outcome.of \in Ids \union {0} /\ outcome.result \in {"none", "not_ready", "answer", "error"}
    BY DEF IInv, EnvInv
  <2> QED BY <1>1, <2>1, AsideInv DEF vars
<1>2. CASE Next
  BY <1>2, ComposeInv, ConfigureInv, IndexInv, DamageInv, AnalyzeInv, RebuildInv DEF Next
<1> QED BY <1>1, <1>2

LEMMA InvAlways == Spec => []IInv
<1>1. IInv /\ [Next]_vars => IInv'
  BY StepInv
<1> QED BY InitInv, <1>1, PTL DEF Spec

-----------------------------------------------------------------------------
(* What follows                                                            *)

\* Type correctness.
THEOREM TypeCorrect == Spec => []TypeOK
<1>1. IInv => TypeOK
  <2> SUFFICES ASSUME IInv PROVE TypeOK
    OBVIOUS
  <2>1. DOMAIN graphs = Ids /\ DOMAIN builds = Ids
    BY DEF IInv, ShapeInv, IsList, Ids
  <2>2. ASSUME NEW s \in Ids, IsBuild(builds[s])
        PROVE  /\ builds[s].config \in Config
               /\ DOMAIN builds[s].contributions \subseteq Present(snapshots[s].program)
    <3>1. PICK x \in Excluded :
             FullBuild(builds[s], GraphWithout(snapshots[s].program, x), snapshots[s].package)
      BY <2>2 DEF IInv, BuildInv
    <3>2. DOMAIN builds[s].contributions = Present(GraphWithout(snapshots[s].program, x))
      BY <3>1 DEF FullBuild, AllContributions
    <3> QED BY <2>2, <3>2 DEF IInv, BuildInv, Present, GraphWithout
  <2> QED BY <2>1, <2>2 DEF TypeOK, IInv, EnvInv
<1> QED BY InvAlways, <1>1, PTL

\* What a refresh of an earlier build makes is what a full build of the
\* snapshot makes: build_incremental may keep contributions, for whatever is
\* changed in them changes the signature of the file (incremental.rs).
THEOREM RefreshesRebuild == Spec => RefreshIsRebuild
<1> DEFINE Rebuilt(s) == builds'[s] # builds[s] /\ IsBuild(builds'[s]) =>
                         /\ builds'[s].plan = EnrichmentPlan(graphs[s], snapshots[s].package)
                         /\ builds'[s].contributions = Fresh(s)
<1>1. ASSUME IInv, [Next]_vars, NEW s \in Ids PROVE Rebuilt(s)
  <2> SUFFICES ASSUME builds'[s] # builds[s], IsBuild(builds'[s])
               PROVE  /\ builds'[s].plan = EnrichmentPlan(graphs[s], snapshots[s].package)
                      /\ builds'[s].contributions = Fresh(s)
    OBVIOUS
  <2>1. PICK n \in Nat : IsList(snapshots, n) /\ IsList(graphs, n) /\ IsList(builds, n)
    BY <1>1 DEF IInv, ShapeInv
  <2>2. Ids = 1..n
    BY <2>1 DEF Ids, IsList
  <2>3. ASSUME NEW u \in Ids, graphs[u] # None,
               NEW contributions \in {Fresh(u), Contributions(u)},
               builds' = [builds EXCEPT ![u] = Build(u, contributions)]
        PROVE  Rebuilt(s)
    <3>1. s = u /\ builds'[u] = Build(u, contributions)
      BY <2>1, <2>2, <2>3 DEF IsList
    <3>2. contributions = Fresh(u) /\ FullBuild(Build(u, Fresh(u)), graphs[u], snapshots[u].package)
      BY <1>1, <2>3, MadeBuild
    <3> QED BY <3>1, <3>2 DEF FullBuild, Fresh
  <2>4. ASSUME NEW u \in Ids, Analyze(u) \/ Rebuild(u) PROVE Rebuilt(s)
    BY <2>3, <2>4 DEF Analyze, AnalyzeNotReady, AnalyzeStored, AnalyzeBuilding, AnalyzeFailing, Rebuild
  <2>5. ASSUME NEW v \in Versions, Compose(v) PROVE FALSE
    <3>1. IsLonger(builds', builds, n, None)
      BY <2>1, <2>5, AppendTo DEF Compose
    <3> QED BY <2>2, <3>1 DEF IsLonger
  <2>6. ASSUME NEW u \in Ids, DamageBuild(u) PROVE FALSE
    <3>1. builds' = [builds EXCEPT ![u] = Damaged]
      BY <2>6 DEF DamageBuild
    <3>2. builds'[s] = Damaged
      BY <2>1, <2>2, <3>1 DEF IsList
    <3> QED BY <3>2 DEF IsBuild
  <2> QED BY <1>1, <2>4, <2>5, <2>6 DEF Next, vars, Configure, Index, DamageManifest
<1>2. IInv /\ [Next]_vars =>
         [\A s \in Ids : builds'[s] # builds[s] /\ IsBuild(builds'[s]) =>
             /\ builds'[s].plan = EnrichmentPlan(graphs[s], snapshots[s].package)
             /\ builds'[s].contributions = Fresh(s)]_vars
  BY <1>1
<1> QED BY InvAlways, <1>2, PTL DEF Spec, RefreshIsRebuild

\* Of the graphs of a program, the files that are present tell which it is.
LEMMA GraphIsOfItsFiles ==
  ASSUME NEW p, NEW x, NEW y, Present(GraphWithout(p, x)) = Present(GraphWithout(p, y))
  PROVE  GraphWithout(p, x) = GraphWithout(p, y)
<1>1. ASSUME NEW f \in File
      PROVE  (IF f \in x THEN <<>> ELSE p[f]) = (IF f \in y THEN <<>> ELSE p[f])
  BY DEF Present, GraphWithout
<1> QED BY <1>1 DEF GraphWithout

\* The doctor finds an issue with a build that is not what a full build of the
\* snapshot's graph makes, and has rebuilt what impact_status calls stale.
THEOREM WhatIsStaleIsNoticed == Spec => StaleIsNoticed
<1>1. ASSUME IInv, [Next]_vars, NEW s \in Ids, graphs'[s] # graphs[s], IsBuild(builds[s])
      PROVE  builds[s].plan = EnrichmentPlan(graphs'[s], snapshots[s].package) \/ Issues(s)' # {}
  <2>1. PICK n \in Nat : IsList(snapshots, n) /\ IsList(graphs, n) /\ IsList(builds, n)
    BY <1>1 DEF IInv, ShapeInv
  <2>2. Ids = 1..n
    BY <2>1 DEF Ids, IsList
  <2>3. ASSUME NEW v \in Versions, Compose(v) PROVE FALSE
    <3>1. IsLonger(graphs', graphs, n, None)
      BY <2>1, <2>3, AppendTo DEF Compose
    <3> QED BY <1>1, <2>2, <3>1 DEF IsLonger
  <2>4. PICK u \in Ids, y \in Excluded : Index(u, y)
    BY <1>1, <2>3 DEF Next, vars, Configure, DamageManifest, DamageBuild, Analyze, AnalyzeNotReady,
                      AnalyzeStored, AnalyzeBuilding, AnalyzeFailing, Rebuild
  <2> DEFINE graph == GraphWithout(snapshots[s].program, y)
  <2>5. graphs'[s] = graph /\ builds' = builds
    BY <1>1, <2>1, <2>2, <2>4 DEF Index, IsList
  <2>6. PICK x \in Excluded : FullBuild(builds[s], GraphWithout(snapshots[s].program, x), snapshots[s].package)
    BY <1>1 DEF IInv, BuildInv
  <2>7. DOMAIN builds[s].contributions = Present(GraphWithout(snapshots[s].program, x))
    BY <2>6 DEF FullBuild, AllContributions
  <2>8. CASE DOMAIN builds[s].contributions = Present(graph)
    <3>1. GraphWithout(snapshots[s].program, x) = graph
      BY <2>7, <2>8, GraphIsOfItsFiles
    <3> QED BY <2>5, <2>6, <3>1 DEF FullBuild
  <2>9. CASE DOMAIN builds[s].contributions # Present(graph)
    <3>1. builds'[s] = builds[s] /\ graphs'[s] = graph /\ graph # None
      BY <1>1, <2>5, GraphAssumption DEF IInv, EnvInv
    <3>2. "stale_manifest_or_index" \in GraphIssues(s)'
      BY <2>9, <3>1 DEF GraphIssues
    <3> QED BY <1>1, <3>1, <3>2 DEF Issues
  <2> QED BY <2>8, <2>9
<1>2. ASSUME NEW s, StatusState(s)' = "stale" PROVE RebuildIsAdvised(s)'
  <2>1. graphs'[s] # None /\ (builds'[s] = Damaged \/ (IsBuild(builds'[s]) /\ builds'[s].config # config'))
    BY <1>2 DEF StatusState
  <2>2. "impact_build_corrupt" \in Issues(s)' \/ "impact_build_config_mismatch" \in Issues(s)'
    BY <2>1 DEF Issues
  <2> QED BY <2>2 DEF RebuildIsAdvised
<1>3. IInv /\ [Next]_vars =>
         [\A s \in Ids' :
             /\ s \in Ids /\ graphs'[s] # graphs[s] /\ IsBuild(builds[s]) =>
                   \/ builds[s].plan = EnrichmentPlan(graphs'[s], snapshots[s].package)
                   \/ Issues(s)' # {}
             /\ StatusState(s)' = "stale" => RebuildIsAdvised(s)']_vars
  BY <1>1, <1>2
<1> QED BY InvAlways, <1>3, PTL DEF Spec, StaleIsNoticed

-----------------------------------------------------------------------------
(* Certainty and the orders                                                *)

Certainty == {"certain", "likely", "possible"}

LEMMA Ranks ==
  /\ CertaintyRank("certain") = 1 /\ CertaintyRank("likely") = 2 /\ CertaintyRank("possible") = 3
BY DEF CertaintyRank, Position

\* The less certain of two decides.
LEMMA WorseIs ==
  ASSUME NEW c \in Certainty, NEW d \in Certainty
  PROVE  Worse(c, d) \in Certainty /\ (Worse(c, d) = "certain" <=> c = "certain" /\ d = "certain")
BY Ranks DEF Worse, Certainty

\* A frame that is not after another is as certain, and then not longer.
LEMMA FrameOrder ==
  ASSUME NEW f, NEW g, f.certainty \in Certainty, g.certainty \in Certainty,
         f.depth \in Nat, g.depth \in Nat, ~Less(FrameKey(f), FrameKey(g)), f.certainty = "certain"
  PROVE  g.certainty = "certain" /\ g.depth <= f.depth
<1>1. /\ FrameKey(f)[1] = 1 /\ FrameKey(f)[2] = f.depth /\ DOMAIN FrameKey(f) = 1..3
      /\ FrameKey(g)[1] = CertaintyRank(g.certainty) /\ FrameKey(g)[2] = g.depth
  BY Ranks DEF FrameKey
<1>2. ~(FrameKey(f)[1] < FrameKey(g)[1])
  BY <1>1 DEF Less
<1>3. g.certainty = "certain"
  BY <1>1, <1>2, Ranks DEF Certainty
<1>4. FrameKey(g)[1] = 1
  BY <1>1, <1>3, Ranks
<1>5. ~(FrameKey(f)[2] < FrameKey(g)[2])
  BY <1>1, <1>4 DEF Less
<1> QED BY <1>1, <1>3, <1>5

\* A candidate that is better than a certain one, or not worse, is certain.
LEMMA HitOrder ==
  ASSUME NEW h, NEW k, h.certainty = "certain", k.certainty \in Certainty,
         Less(HitKey(k), HitKey(h)) \/ ~Less(HitKey(h), HitKey(k))
  PROVE  k.certainty = "certain"
<1>1. HitKey(h)[1] = 1 /\ HitKey(k)[1] = CertaintyRank(k.certainty)
      /\ DOMAIN HitKey(h) = 1..5 /\ DOMAIN HitKey(k) = 1..5
  BY Ranks DEF HitKey
<1>2. CASE Less(HitKey(k), HitKey(h))
  <2>1. PICK i \in 1..5 : HitKey(k)[i] < HitKey(h)[i] /\ \A j \in 1..(i - 1) : HitKey(k)[j] = HitKey(h)[j]
    BY <1>1, <1>2 DEF Less
  <2>2. i = 1 \/ HitKey(k)[1] = HitKey(h)[1]
    BY <2>1
  <2> QED BY <1>1, <2>1, <2>2, Ranks DEF Certainty
<1>3. CASE ~Less(HitKey(h), HitKey(k))
  <2>1. ~(HitKey(h)[1] < HitKey(k)[1])
    BY <1>1, <1>3 DEF Less
  <2> QED BY <1>1, <2>1, Ranks DEF Certainty
<1> QED BY <1>2, <1>3

-----------------------------------------------------------------------------
(* Steps                                                                   *)

\* Where an association of a test comes from.
Evidenced(associations) == \A e \in associations : e[2].evidence \in {"references", "imports", "heuristic"}

LEMMA PlanEvidenced ==
  ASSUME NEW p, NEW k
  PROVE  Evidenced(EnrichmentPlan(p, k).symbolTests) /\ Evidenced(EnrichmentPlan(p, k).fileTests)
<1>1. ASSUME NEW c PROVE /\ Evidenced(TestAssociations(p, k, c).symbolTests)
                         /\ Evidenced(TestAssociations(p, k, c).fileTests)
  <2> DEFINE FoundAt(u) == Association(u.file, "references", u.role, u.owner)
  <2>1. \A test, evidence, role, owner : Association(test, evidence, role, owner).evidence = evidence
    BY DEF Association
  <2>2. ASSUME NEW e \in TestAssociations(p, k, c).fileTests
        PROVE  \/ \E u : e = <<FileOf(u.to), FoundAt(u)>>
               \/ \E g, f : e = <<g, Association(f, "imports", "", None)>>
               \/ \E g, f : e = <<g, Association(f, "heuristic", "", None)>>
    BY <2>2 DEF TestAssociations
  <2>3. ASSUME NEW e \in TestAssociations(p, k, c).symbolTests
        PROVE  \E u : e = <<u.to, FoundAt(u)>>
    BY <2>3 DEF TestAssociations
  <2>4. \A u : FoundAt(u).evidence = "references"
    BY <2>1
  <2>5. /\ \A f : Association(f, "imports", "", None).evidence = "imports"
        /\ \A f : Association(f, "heuristic", "", None).evidence = "heuristic"
    BY DEF Association
  <2> HIDE DEF FoundAt
  <2>6. \A e \in TestAssociations(p, k, c).fileTests : e[2].evidence \in {"references", "imports", "heuristic"}
    <3> SUFFICES ASSUME NEW e \in TestAssociations(p, k, c).fileTests
                 PROVE  e[2].evidence \in {"references", "imports", "heuristic"}
      OBVIOUS
    <3>1. CASE \E u : e = <<FileOf(u.to), FoundAt(u)>>
      <4>1. PICK u : e = <<FileOf(u.to), FoundAt(u)>>
        BY <3>1
      <4>2. e[2] = FoundAt(u)
        BY <4>1
      <4> QED BY <2>4, <4>2
    <3>2. CASE \E g, f : e = <<g, Association(f, "imports", "", None)>>
      <4>1. PICK g, f : e = <<g, Association(f, "imports", "", None)>>
        BY <3>2
      <4>2. e[2] = Association(f, "imports", "", None)
        BY <4>1
      <4> QED BY <2>5, <4>2
    <3>3. CASE \E g, f : e = <<g, Association(f, "heuristic", "", None)>>
      <4>1. PICK g, f : e = <<g, Association(f, "heuristic", "", None)>>
        BY <3>3
      <4>2. e[2] = Association(f, "heuristic", "", None)
        BY <4>1
      <4> QED BY <2>5, <4>2
    <3> QED BY <2>2, <3>1, <3>2, <3>3
  <2>7. \A e \in TestAssociations(p, k, c).symbolTests : e[2].evidence \in {"references", "imports", "heuristic"}
    BY <2>3, <2>4
  <2> QED BY <2>6, <2>7 DEF Evidenced
<1> QED BY <1>1 DEF EnrichmentPlan

LEMMA SomeCertainties ==
  /\ "certain" \in Certainty /\ "likely" \in Certainty
  /\ ConsumerCertainty \in Certainty /\ HeuristicCertainty \in Certainty
BY DEF ConsumerCertainty, HeuristicCertainty, Certainty

\* A step is certain, likely or possible; open steps lead to symbols and files.
FineStep(s) == s.certainty \in Certainty /\ (s.open => s.entity[1] \in {"symbol", "file"})

LEMMA StepIs ==
  ASSUME Evidenced(plan.symbolTests), Evidenced(plan.fileTests), NEW n, NEW s \in StepsFrom(n)
  PROVE  FineStep(s) /\ s.entity # n
<1>3. ASSUME NEW A, \A a \in A : a.evidence \in {"references", "imports", "heuristic"}, NEW scope,
             NEW t \in TestSteps(A, scope)
      PROVE  FineStep(t)
  <2>1. PICK a \in A : t = Step(<<"test", a.test, a.owner>>, FALSE, TestEvidence(a).certainty, TestEvidence(a).reason,
                                TestEvidence(a).score, <<a.evidence, a.role, scope>>)
    BY <1>3 DEF TestSteps
  <2>2. TestEvidence(a).certainty \in Certainty
    BY <1>3, SomeCertainties DEF TestEvidence
  <2> QED BY <2>1, <2>2 DEF Step, FineStep
<1>4. ASSUME NEW x PROVE /\ \A a \in Found(plan.symbolTests, x) : a.evidence \in {"references", "imports", "heuristic"}
                         /\ \A a \in Found(plan.fileTests, x) : a.evidence \in {"references", "imports", "heuristic"}
  BY DEF Found, Evidenced
<1>5. ASSUME NEW f, NEW t \in PackageSteps(f) PROVE FineStep(t)
  <2>1. PICK k : t = Step(<<"package", k>>, FALSE, "likely", "package_member", 620, <<>>)
    BY <1>5 DEF PackageSteps
  <2> QED BY <2>1, SomeCertainties DEF Step, SymbolEntity, FineStep
<1>6. ASSUME NEW x, NEW r, NEW t \in ReferenceSteps(x, r) PROVE FineStep(t)
  <2>1. CASE t \in {Step(SymbolEntity(o), TRUE, "certain", "references", 950, <<r.file, r.at>>) :
                      o \in {y \in {r.owner} \ {None} : plan.canonical[y] # x}}
    <3>1. PICK o : t = Step(SymbolEntity(o), TRUE, "certain", "references", 950, <<r.file, r.at>>)
      BY <2>1 DEF Step
    <3> QED BY <3>1, SomeCertainties DEF Step, SymbolEntity, FineStep
  <2>2. CASE t = Step(<<"file", r.file>>, r.file \notin TestFile, ConsumerCertainty, "referenced_by_file", 760,
                      <<r.file, r.at>>)
    BY <2>2, SomeCertainties DEF Step, SymbolEntity, FineStep
  <2> QED BY <1>6, <2>1, <2>2 DEF ReferenceSteps
<1>7. ASSUME NEW i, NEW t \in ImportSteps(i) PROVE FineStep(t)
  <2>1. CASE t = Step(SymbolEntity(i), TRUE, "certain", "imports", 930, <<>>)
    BY <2>1, SomeCertainties DEF Step, SymbolEntity, FineStep
  <2>2. CASE t # Step(SymbolEntity(i), TRUE, "certain", "imports", 930, <<>>)
    <3>1. PICK f : t = Step(<<"file", f>>, TRUE, ConsumerCertainty, "imported_by_file", 770, <<f>>)
      BY <1>7, <2>2 DEF ImportSteps, Step
    <3> QED BY <3>1, SomeCertainties DEF Step, SymbolEntity, FineStep
  <2> QED BY <2>1, <2>2
<1>8. ASSUME NEW x, NEW t \in SymbolSteps(x) PROVE FineStep(t)
  <2> DEFINE declared == {Step(<<"file", FileOf(x)>>, TRUE, "certain", "declared_in_file", 900, <<>>)}
             packages == PackageSteps(FileOf(x))
             references == UNION {ReferenceSteps(x, r) : r \in Found(plan.references, x)}
             imports == UNION {ImportSteps(i) : i \in Found(plan.imports, x)}
             exports == {Step(SymbolEntity(y), TRUE, "certain", "exports", 920, <<>>) : y \in Found(plan.exports, x)}
             symbolTests == TestSteps(Found(plan.symbolTests, x), "")
             fileTests == TestSteps(Found(plan.fileTests, FileOf(x)), "scope")
             Fine(A) == \A u \in A : FineStep(u)
  <2>1. t \in declared \union packages \union references \union imports \union exports \union symbolTests \union fileTests
    BY <1>8 DEF SymbolSteps
  <2>2. Fine(declared) /\ Fine(exports)
    BY SomeCertainties DEF Step, SymbolEntity, FineStep
  <2>3. Fine(packages) /\ Fine(references) /\ Fine(imports)
    BY <1>5, <1>6, <1>7
  <2>4. Fine(symbolTests) /\ Fine(fileTests)
    BY <1>3, <1>4
  <2> HIDE DEF declared, packages, references, imports, exports, symbolTests, fileTests
  <2> QED BY <2>1, <2>2, <2>3, <2>4
<1>9. ASSUME NEW f, NEW t \in FileSteps(f) PROVE FineStep(t)
  <2>1. CASE t \in TestSteps(Found(plan.fileTests, f), "")
    BY <1>3, <1>4, <2>1
  <2>2. CASE t \in PackageSteps(f)
    BY <1>5, <2>2
  <2>3. CASE t \in {Step(SymbolEntity(s_1), TRUE, "certain", "contains", 900, <<>>) : s_1 \in Found(plan.symbols, f)}
    <3>1. PICK y : t = Step(SymbolEntity(y), TRUE, "certain", "contains", 900, <<>>)
      BY <2>3 DEF Step
    <3> QED BY <3>1, SomeCertainties DEF Step, SymbolEntity, FineStep
  <2>4. CASE t \in {IF g \in TestFile
                    THEN Step(<<"test", g, None>>, FALSE, "certain", "test_reference", 880, <<g>>)
                    ELSE Step(<<"file", g>>, TRUE, ConsumerCertainty, "imported_by_file", 860, <<g>>) :
                       g \in Found(plan.dependents, f)}
    <3>1. PICK g : \/ t = Step(<<"test", g, None>>, FALSE, "certain", "test_reference", 880, <<g>>)
                   \/ t = Step(<<"file", g>>, TRUE, ConsumerCertainty, "imported_by_file", 860, <<g>>)
      BY <2>4 DEF Step
    <3> QED BY <3>1, SomeCertainties DEF Step, SymbolEntity, FineStep
  <2> QED BY <1>9, <2>1, <2>2, <2>3, <2>4 DEF FileSteps
<1>10. (s \in SymbolSteps(n[2]) \/ s \in FileSteps(n[2])) /\ s.entity # n
  BY DEF StepsFrom
<1> QED BY <1>8, <1>9, <1>10

\* Steps and limits are the same as long as the inputs are.
LEMMA StepsStay ==
  ASSUME UNCHANGED inputs
  PROVE  \A n : StepsFrom(n)' = StepsFrom(n)
BY DEF inputs, StepsFrom, SymbolSteps, FileSteps, PackageSteps, ReferenceSteps, ImportSteps, TestSteps, TestEvidence,
       SymbolEntity, Found, Step, ConsumerFiles, HeuristicTests, ConsumerCertainty, HeuristicCertainty, FileOf

LEMMA LimitsStay ==
  ASSUME UNCHANGED inputs
  PROVE  /\ MaxDepth' = MaxDepth /\ MaxNodes' = MaxNodes /\ MaxEdges' = MaxEdges
BY DEF inputs, MaxDepth, MaxNodes, MaxEdges, ScenarioDepth, ScenarioNodes, ScenarioEdges

LEMMA MinOfTwo ==
  ASSUME NEW a \in Nat, NEW b \in Nat
  PROVE  Min({a, b}) \in Nat
BY DEF Min

LEMMA LimitsAre ==
  ASSUME request \in Requests
  PROVE  MaxDepth \in Nat /\ MaxNodes \in Nat /\ MaxEdges \in Nat
<1>1. request.depth \in Nat /\ request.nodes \in Nat /\ request.edges \in Nat
  BY RequestsAssumption
<1>2. ScenarioDepth \in Nat /\ ScenarioNodes \in Nat /\ ScenarioEdges \in Nat
  BY RequestsAssumption DEF ScenarioDepth, ScenarioNodes, ScenarioEdges, Scenario
<1> QED BY <1>1, <1>2, MinOfTwo DEF MaxDepth, MaxNodes, MaxEdges

-----------------------------------------------------------------------------
(* Certain paths                                                           *)

\* What one more certain step leads to.
Led(nodes) == {s.entity : s \in {x \in CertainSteps(nodes) : x.open}}
Levels(f, n) == f = [m \in 0..n |-> IF m = 0 THEN {seed} ELSE f[m - 1] \union Led(f[m - 1])]

LEMMA NodesExist ==
  ASSUME NEW n \in Nat
  PROVE  \E f : Levels(f, n)
<1> DEFINE S == {k \in Nat : \E f : Levels(f, k)}
<1>1. \E f : Levels(f, 0)
  <2> DEFINE f == [m \in 0..0 |-> {seed}]
  <2>1. f = [m \in 0..0 |-> IF m = 0 THEN {seed} ELSE f[m - 1] \union Led(f[m - 1])]
    OBVIOUS
  <2> QED BY <2>1 DEF Levels
<1>2. ASSUME NEW k \in Nat, \E f : Levels(f, k) PROVE \E f : Levels(f, k + 1)
  <2>1. PICK f : Levels(f, k)
    BY <1>2
  <2> DEFINE g == [m \in 0..(k + 1) |-> IF m = k + 1 THEN f[k] \union Led(f[k]) ELSE f[m]]
  <2>2. ASSUME NEW m \in 0..(k + 1)
        PROVE  g[m] = IF m = 0 THEN {seed} ELSE g[m - 1] \union Led(g[m - 1])
    <3>1. CASE m = k + 1
      BY <3>1
    <3>2. CASE m # k + 1
      <4>1. m \in 0..k /\ g[m] = f[m]
        BY <3>2
      <4>2. f[m] = IF m = 0 THEN {seed} ELSE f[m - 1] \union Led(f[m - 1])
        BY <2>1, <4>1 DEF Levels
      <4>3. m # 0 => g[m - 1] = f[m - 1]
        BY <4>1
      <4> QED BY <4>1, <4>2, <4>3
    <3> QED BY <3>1, <3>2
  <2>3. g = [m \in 0..(k + 1) |-> g[m]]
    OBVIOUS
  <2> HIDE DEF g
  <2>4. g = [m \in 0..(k + 1) |-> IF m = 0 THEN {seed} ELSE g[m - 1] \union Led(g[m - 1])]
    BY <2>2, <2>3
  <2> QED BY <2>4 DEF Levels
<1>3. 0 \in S /\ \A k \in Nat : k \in S => k + 1 \in S
  BY <1>1, <1>2
<1> HIDE DEF S
<1>4. n \in S
  BY <1>3, InductionOverNat
<1> QED BY <1>4 DEF S

LEMMA NodesUnique ==
  ASSUME NEW n \in Nat, NEW k \in Nat, k <= n, NEW f, NEW g, Levels(f, n), Levels(g, k)
  PROVE  f[k] = g[k]
<1> DEFINE S == {m \in Nat : m <= k => f[m] = g[m]}
<1>1. 0 \in S
  BY DEF Levels
<1>2. ASSUME NEW m \in Nat, m \in S PROVE m + 1 \in S
  <2> SUFFICES ASSUME m + 1 <= k PROVE f[m + 1] = g[m + 1]
    OBVIOUS
  <2>1. f[m] = g[m]
    BY <1>2
  <2>2. m + 1 \in 0..n /\ m + 1 \in 0..k /\ m + 1 # 0 /\ (m + 1) - 1 = m
    OBVIOUS
  <2>3. f[m + 1] = f[m] \union Led(f[m])
    BY <2>2 DEF Levels
  <2>4. g[m + 1] = g[m] \union Led(g[m])
    BY <2>2 DEF Levels
  <2> QED BY <2>1, <2>3, <2>4
<1> HIDE DEF S
<1>3. k \in S
  BY <1>1, <1>2, InductionOverNat
<1> QED BY <1>3 DEF S

NodesGrow ==
    /\ CertainNodes(0) = {seed}
    /\ \A n \in Nat : CertainNodes(n + 1) = CertainNodes(n) \union Led(CertainNodes(n))

LEMMA CertainNodesAre == NodesGrow
<1>1. ASSUME NEW n \in Nat
      PROVE  \E f : Levels(f, n) /\ CertainNodes(n) = f[n]
  <2> DEFINE f[m \in 0..n] == IF m = 0 THEN {seed}
                              ELSE f[m - 1] \union {s.entity : s \in {x \in CertainSteps(f[m - 1]) : x.open}}
  <2>1. CertainNodes(n) = f[n]
    BY DEF CertainNodes
  <2>2. PICK g : Levels(g, n)
    BY NodesExist
  <2>3. g = [m \in 0..n |-> IF m = 0 THEN {seed}
                            ELSE g[m - 1] \union {s.entity : s \in {x \in CertainSteps(g[m - 1]) : x.open}}]
    BY <2>2, Zenon DEF Levels, Led
  <2>4. f = [m \in 0..n |-> IF m = 0 THEN {seed}
                            ELSE f[m - 1] \union {s.entity : s \in {x \in CertainSteps(f[m - 1]) : x.open}}]
    BY <2>3, Zenon
  <2> HIDE DEF f
  <2>5. Levels(f, n)
    BY <2>4, Zenon DEF Levels, Led
  <2> QED BY <2>1, <2>5
<1>2. CertainNodes(0) = {seed}
  <2>1. PICK f : Levels(f, 0) /\ CertainNodes(0) = f[0]
    BY <1>1
  <2> QED BY <2>1 DEF Levels
<1>3. ASSUME NEW n \in Nat
      PROVE  CertainNodes(n + 1) = CertainNodes(n) \union Led(CertainNodes(n))
  <2>1. n + 1 \in Nat /\ n <= n + 1 /\ n + 1 \in 0..(n + 1) /\ n + 1 # 0 /\ (n + 1) - 1 = n
    OBVIOUS
  <2>2. PICK f : Levels(f, n + 1) /\ CertainNodes(n + 1) = f[n + 1]
    BY <1>1, <2>1
  <2>3. PICK g : Levels(g, n) /\ CertainNodes(n) = g[n]
    BY <1>1
  <2>4. f[n + 1] = f[n] \union Led(f[n])
    BY <2>1, <2>2 DEF Levels
  <2>5. f[n] = g[n]
    BY <2>1, <2>2, <2>3, NodesUnique
  <2> QED BY <2>2, <2>3, <2>4, <2>5
<1> QED BY <1>2, <1>3 DEF NodesGrow

LEMMA CertainNodesAreNext == NodesGrow'
BY CertainNodesAre, PTL

LEMMA CertainNodesGrow ==
  ASSUME NEW n \in Nat, NEW m \in Nat, m <= n
  PROVE  CertainNodes(m) \subseteq CertainNodes(n)
<1> DEFINE S == {k \in Nat : CertainNodes(m) \subseteq CertainNodes(m + k)}
<1>1. 0 \in S
  OBVIOUS
<1>2. ASSUME NEW k \in Nat, k \in S PROVE k + 1 \in S
  <2>1. CertainNodes((m + k) + 1) = CertainNodes(m + k) \union Led(CertainNodes(m + k))
    BY CertainNodesAre DEF NodesGrow
  <2>2. (m + k) + 1 = m + (k + 1)
    OBVIOUS
  <2> QED BY <1>2, <2>1, <2>2
<1> HIDE DEF S
<1>3. n - m \in S
  BY <1>1, <1>2, InductionOverNat
<1>4. m + (n - m) = n
  OBVIOUS
<1> QED BY <1>3, <1>4 DEF S

LEMMA CertainNodesStay ==
  ASSUME UNCHANGED inputs, NEW n \in Nat
  PROVE  CertainNodes(n)' = CertainNodes(n)
<1> DEFINE S == {k \in Nat : CertainNodes(k)' = CertainNodes(k)}
<1>1. /\ CertainNodes(0)' = {seed}'
      /\ \A k \in Nat : CertainNodes(k + 1)' = CertainNodes(k)' \union Led(CertainNodes(k))'
  BY CertainNodesAreNext DEF NodesGrow
<1>2. seed' = seed
  BY DEF inputs
<1>3. \A m : StepsFrom(m)' = StepsFrom(m)
  BY StepsStay
<1>4. 0 \in S
  BY <1>1, <1>2, CertainNodesAre DEF NodesGrow
<1>5. ASSUME NEW k \in Nat, k \in S PROVE k + 1 \in S
  <2>1. CertainNodes(k)' = CertainNodes(k)
    BY <1>5
  <2>2. Led(CertainNodes(k))' = Led(CertainNodes(k))
    BY <1>3, <2>1 DEF Led, CertainSteps
  <2>3. CertainNodes(k + 1) = CertainNodes(k) \union Led(CertainNodes(k))
    BY CertainNodesAre DEF NodesGrow
  <2>4. CertainNodes(k + 1)' = CertainNodes(k)' \union Led(CertainNodes(k))'
    BY <1>1
  <2> QED BY <2>1, <2>2, <2>3, <2>4
<1> HIDE DEF S
<1>6. n \in S
  BY <1>4, <1>5, InductionOverNat
<1> QED BY <1>6 DEF S

-----------------------------------------------------------------------------
(* The inductive invariant                                                 *)

\* What is reached for certain, within so many steps; what is hit for certain.
Within(n, far) == n \in DOMAIN best /\ best[n].certainty = "certain" /\ best[n].depth <= far
CertainHit(e) == e \in DOMAIN hits /\ hits[e].certainty = "certain"

\* A step of a frame was hit, and if both are certain it was followed.
Took(f, s) ==
    /\ s.entity \in DOMAIN hits
    /\ f.certainty = "certain" /\ s.certainty = "certain" =>
          CertainHit(s.entity) /\ (s.open => Within(s.entity, f.depth + 1))

InputsOK ==
    /\ request \in Requests /\ world \in Worlds /\ plan = EnrichmentPlan(world.program, world.package)
    /\ Evidenced(plan.symbolTests) /\ Evidenced(plan.fileTests)
    /\ seed[1] = "symbol" => /\ seed = <<"symbol", seed[2]>>
                             /\ \E s \in AllSymbols(world.program) : seed[2] = plan.canonical[s]

BestOK ==
    /\ seed \in DOMAIN best /\ best[seed].certainty = "certain" /\ best[seed].depth = 0
    /\ \A n \in DOMAIN best :
          /\ n[1] \in {"symbol", "file"} /\ best[n].node = n
          /\ best[n].certainty \in Certainty /\ best[n].depth \in 0..MaxDepth

HitsOK ==
    /\ CertainHit(seed)
    /\ \A e \in DOMAIN hits : hits[e].certainty \in Certainty /\ hits[e].depth \in 0..MaxDepth

QueueOK ==
    /\ queue \in Seq({best[n] : n \in DOMAIN best})
    /\ \A i, j \in 1..Len(queue) : queue[i].node = queue[j].node => i = j

ExpansionOK ==
    steps # {} =>
        /\ frame.node \in DOMAIN best /\ frame = best[frame.node] /\ frame.depth < MaxDepth
        /\ steps \subseteq StepsFrom(frame.node)

CountsOK ==
    /\ visited \in 0..MaxNodes /\ edges \in 0..MaxEdges
    /\ cutoffs = {} \/ (steps = {} /\ queue = <<>> /\ \E c : cutoffs = {c})

Sound ==
    /\ \A n \in DOMAIN best : best[n].certainty = "certain" => n \in CertainNodes(best[n].depth)
    /\ \A e \in DOMAIN hits : e # seed /\ hits[e].certainty = "certain" => e \in CertainEntities

\* What was reached waits for its turn, or its steps were followed: but for
\* those of the frame at hand that are not yet taken.
Complete ==
    cutoffs = {} =>
        \A n \in DOMAIN best :
            \/ \E i \in 1..Len(queue) : queue[i].node = n
            \/ best[n].depth >= MaxDepth
            \/ \A s \in StepsFrom(n) : (s \in steps /\ frame.node = n) \/ Took(best[n], s)

TraversalIInv == InputsOK /\ BestOK /\ HitsOK /\ QueueOK /\ ExpansionOK /\ CountsOK /\ Sound /\ Complete

-----------------------------------------------------------------------------
(* Queues                                                                  *)

LEMMA RemoveAtIs ==
  ASSUME NEW X, NEW q \in Seq(X), NEW j \in 1..Len(q)
  PROVE  /\ RemoveAt(q, j) \in Seq(X) /\ Len(RemoveAt(q, j)) = Len(q) - 1
         /\ \A k \in 1..(Len(q) - 1) : RemoveAt(q, j)[k] = q[IF k < j THEN k ELSE k + 1]
<1> DEFINE front == SubSeq(q, 1, j - 1)
           back == SubSeq(q, j + 1, Len(q))
<1>1. front \in Seq(X) /\ Len(front) = j - 1 /\ \A k \in 1..(j - 1) : front[k] = q[k]
  OBVIOUS
<1>2. back \in Seq(X) /\ Len(back) = Len(q) - j /\ \A k \in 1..(Len(q) - j) : back[k] = q[j + k]
  OBVIOUS
<1>3. RemoveAt(q, j) = front \o back
  BY DEF RemoveAt
<1> HIDE DEF front, back
<1>4. front \o back \in Seq(X) /\ Len(front \o back) = Len(q) - 1
  BY <1>1, <1>2
<1>5. ASSUME NEW k \in 1..(Len(q) - 1)
      PROVE  (front \o back)[k] = q[IF k < j THEN k ELSE k + 1]
  <2>1. CASE k < j
    BY <1>1, <1>2, <2>1
  <2>2. CASE ~(k < j)
    <3>1. (front \o back)[k] = back[k - (j - 1)]
      BY <1>1, <1>2, <2>2
    <3>2. k - (j - 1) \in 1..(Len(q) - j) /\ j + (k - (j - 1)) = k + 1
      BY <2>2
    <3> QED BY <1>2, <2>2, <3>1, <3>2
  <2> QED BY <2>1, <2>2
<1> QED BY <1>3, <1>4, <1>5

\* The queue has one frame of a node; without it, it has what else it had.
LEMMA WithoutIs ==
  ASSUME NEW X, queue \in Seq(X), NEW node,
         \A i, j \in 1..Len(queue) : queue[i].node = queue[j].node => i = j
  PROVE  LET rest == Without(node)
         IN  /\ rest \in Seq({f \in X : f.node # node})
             /\ \A i, j \in 1..Len(rest) : rest[i].node = rest[j].node => i = j
             /\ \A i \in 1..Len(queue) :
                   queue[i].node # node => \E k \in 1..Len(rest) : rest[k].node = queue[i].node
<1> DEFINE at == {i \in DOMAIN queue : queue[i].node = node}
           rest == Without(node)
<1>1. CASE at = {}
  <2>1. rest = queue
    BY <1>1 DEF Without
  <2>2. \A i \in 1..Len(queue) : queue[i].node # node /\ queue[i] \in X
    BY <1>1
  <2>3. queue \in Seq({f \in X : f.node # node})
    BY <2>2
  <2> QED BY <2>1, <2>2, <2>3
<1>2. CASE at # {}
  <2>1. PICK j : j \in at /\ rest = RemoveAt(queue, j)
    BY <1>2 DEF Without
  <2>2. j \in 1..Len(queue) /\ queue[j].node = node
    BY <2>1
  <2> HIDE DEF at, rest
  <2>3. /\ rest \in Seq(X) /\ Len(rest) = Len(queue) - 1
        /\ \A k \in 1..(Len(queue) - 1) : rest[k] = queue[IF k < j THEN k ELSE k + 1]
    BY <2>1, <2>2, RemoveAtIs
  <2> DEFINE from(k) == IF k < j THEN k ELSE k + 1
  <2>4. \A k \in 1..Len(rest) : from(k) \in 1..Len(queue) /\ from(k) # j /\ rest[k] = queue[from(k)]
    BY <2>2, <2>3
  <2>5. \A k \in 1..Len(rest) : rest[k].node # node /\ rest[k] \in X
    BY <2>2, <2>3, <2>4
  <2>6. rest \in Seq({f \in X : f.node # node})
    BY <2>3, <2>5
  <2>7. ASSUME NEW i \in 1..Len(rest), NEW k \in 1..Len(rest), rest[i].node = rest[k].node
        PROVE  i = k
    <3>1. from(i) = from(k)
      <4> HIDE DEF from
      <4> QED BY <2>4, <2>7
    <3> QED BY <2>2, <3>1
  <2>8. ASSUME NEW i \in 1..Len(queue), queue[i].node # node
        PROVE  \E k \in 1..Len(rest) : rest[k].node = queue[i].node
    <3> DEFINE k == IF i < j THEN i ELSE i - 1
    <3>1. i # j
      BY <2>2, <2>8
    <3>2. k \in 1..Len(rest) /\ from(k) = i
      BY <2>2, <2>3, <3>1
    <3> HIDE DEF from, k
    <3> QED BY <2>4, <3>2
  <2> QED BY <2>6, <2>7, <2>8 DEF rest
<1> QED BY <1>1, <1>2

-----------------------------------------------------------------------------
(* What a step takes over                                                  *)

LEMMA EntitiesStay ==
  ASSUME UNCHANGED inputs, MaxDepth \in Nat
  PROVE  CertainEntities' = CertainEntities
<1>1. MaxDepth' = MaxDepth
  BY LimitsStay
<1>2. CASE MaxDepth = 0
  BY <1>1, <1>2 DEF CertainEntities
<1>3. CASE MaxDepth # 0
  <2>1. MaxDepth - 1 \in Nat
    BY <1>3
  <2>2. CertainNodes(MaxDepth - 1)' = CertainNodes(MaxDepth - 1)
    <3> DEFINE m == MaxDepth - 1
    <3>1. PICK n \in Nat : n = m /\ n = m'
      BY <1>1, <2>1
    <3>2. CertainNodes(n)' = CertainNodes(n)
      BY CertainNodesStay
    <3> QED BY <3>1, <3>2 DEF CertainNodes
  <2>3. \A n : StepsFrom(n)' = StepsFrom(n)
    BY StepsStay
  <2> QED BY <1>1, <1>3, <2>2, <2>3 DEF CertainEntities, CertainSteps
<1> QED BY <1>2, <1>3

LEMMA FrameAtHand ==
  ASSUME TraversalIInv, NEW s \in steps
  PROVE  /\ FineStep(s) /\ s \in StepsFrom(frame.node) /\ s.entity # frame.node
         /\ frame.node \in DOMAIN best /\ frame = best[frame.node] /\ frame.certainty \in Certainty
         /\ MaxDepth \in Nat /\ frame.depth \in Nat /\ frame.depth < MaxDepth
         /\ Candidate(s).certainty \in Certainty /\ Candidate(s).depth = frame.depth + 1
         /\ Candidate(s).certainty = "certain" <=> frame.certainty = "certain" /\ s.certainty = "certain"
<1>1. MaxDepth \in Nat
  BY LimitsAre DEF TraversalIInv, InputsOK
<1>2. /\ frame.node \in DOMAIN best /\ frame = best[frame.node] /\ frame.depth < MaxDepth
      /\ s \in StepsFrom(frame.node)
  BY DEF TraversalIInv, ExpansionOK
<1>3. frame.certainty \in Certainty /\ frame.depth \in Nat
  BY <1>1, <1>2 DEF TraversalIInv, BestOK
<1>4. FineStep(s) /\ s.entity # frame.node
  BY <1>2, StepIs DEF TraversalIInv, InputsOK
<1>5. s.certainty \in Certainty
  BY <1>4 DEF FineStep
<1>6. Candidate(s).certainty = Worse(frame.certainty, s.certainty) /\ Candidate(s).depth = frame.depth + 1
  BY DEF Candidate
<1> QED BY <1>1, <1>2, <1>3, <1>4, <1>5, <1>6, WorseIs

\* A candidate replaces what is worse, and is not dropped for less than it is.
LEMMA Added ==
  ASSUME TraversalIInv, NEW s \in steps, AddCandidate(s)
  PROVE  /\ DOMAIN hits \subseteq DOMAIN hits'
         /\ \A e \in DOMAIN hits' : \/ e \in DOMAIN hits /\ hits'[e] = hits[e]
                                    \/ e = s.entity /\ e # seed /\ hits'[e] = Candidate(s)
         /\ \A e : CertainHit(e) => CertainHit(e)'
         /\ s.entity \in DOMAIN hits'
         /\ Candidate(s).certainty = "certain" => CertainHit(s.entity)'
<1> DEFINE e == s.entity
           c == Candidate(s)
           better == e \notin DOMAIN hits \/ Less(HitKey(c), HitKey(hits[e]))
<1>1. c.certainty \in Certainty
  BY FrameAtHand
<1>2. hits' = IF e # seed /\ better THEN Insert(hits, e, c) ELSE hits
  BY DEF AddCandidate
<1>3. \A x \in DOMAIN hits : hits[x].certainty \in Certainty
  BY DEF TraversalIInv, HitsOK
<1>4. CertainHit(seed)
  BY DEF TraversalIInv, HitsOK
<1> HIDE DEF c, e
<1>5. CASE e # seed /\ better
  <2>1. /\ DOMAIN hits' = {e} \union DOMAIN hits
        /\ hits'[e] = c /\ \A x \in DOMAIN hits : x # e => hits'[x] = hits[x]
    BY <1>2, <1>5 DEF Insert
  <2>2. ASSUME NEW x, CertainHit(x) PROVE CertainHit(x)'
    <3>1. x \in DOMAIN hits /\ hits[x].certainty = "certain"
      BY <2>2 DEF CertainHit
    <3>2. x = e => hits'[x].certainty = "certain"
      <4> SUFFICES ASSUME x = e PROVE c.certainty = "certain"
        BY <2>1
      <4>1. Less(HitKey(c), HitKey(hits[x]))
        BY <1>5, <3>1
      <4> QED BY <1>1, <3>1, <4>1, HitOrder
    <3>3. x # e => hits'[x].certainty = "certain"
      BY <2>1, <3>1
    <3> QED BY <2>1, <3>1, <3>2, <3>3 DEF CertainHit
  <2>3. c.certainty = "certain" => CertainHit(e)'
    BY <2>1 DEF CertainHit
  <2> QED BY <1>5, <2>1, <2>2, <2>3 DEF c, e
<1>6. CASE ~(e # seed /\ better)
  <2>1. hits' = hits
    BY <1>2, <1>6
  <2>2. c.certainty = "certain" => CertainHit(e)
    <3>1. CASE e = seed
      BY <1>4, <3>1
    <3>2. CASE e # seed
      <4>1. e \in DOMAIN hits /\ ~Less(HitKey(c), HitKey(hits[e]))
        BY <1>6, <3>2
      <4>2. c.certainty = "certain" => hits[e].certainty = "certain"
        <5>1. hits[e].certainty \in Certainty
          BY <1>3, <4>1
        <5> QED BY <4>1, <5>1, HitOrder
      <4> QED BY <4>1, <4>2 DEF CertainHit
    <3> QED BY <3>1, <3>2
  <2>3. \A x : CertainHit(x)' = CertainHit(x)
    BY <2>1 DEF CertainHit
  <2>4. e \in DOMAIN hits'
    BY <1>4, <1>6, <2>1 DEF CertainHit
  <2> QED BY <2>1, <2>2, <2>3, <2>4 DEF c, e
<1> QED BY <1>5, <1>6

\* A frame replaces what is worse, and is not dropped for less than it is.
LEMMA Followed ==
  ASSUME TraversalIInv, NEW s \in steps, Follow(s)
  PROVE  /\ \A n : \A far \in Nat : Within(n, far) => Within(n, far)'
         /\ \A far \in Nat : s.open /\ Candidate(s).certainty = "certain" /\ far = frame.depth + 1
                            => Within(s.entity, far)'
<1> DEFINE c == Candidate(s)
           e == s.entity
           next == Frame(e, c.certainty, c.depth, c.score)
<1>1. /\ c.certainty \in Certainty /\ c.depth = frame.depth + 1 /\ frame.depth \in Nat
      /\ MaxDepth \in Nat
  BY FrameAtHand
<1>2. next.node = e /\ next.certainty = c.certainty /\ next.depth = c.depth
  BY DEF Frame
<1>3. \A n \in DOMAIN best : best[n].certainty \in Certainty /\ best[n].depth \in Nat
  BY <1>1 DEF TraversalIInv, BestOK
<1>4. \/ /\ s.open /\ (e \in DOMAIN best => ~Less(FrameKey(best[e]), FrameKey(next)))
         /\ best' = Insert(best, e, next)
      \/ /\ s.open => e \in DOMAIN best /\ ~Less(FrameKey(next), FrameKey(best[e]))
         /\ best' = best
  BY <1>2 DEF Follow, Enqueue
<1> HIDE DEF c, e, next
<1>5. CASE /\ s.open /\ (e \in DOMAIN best => ~Less(FrameKey(best[e]), FrameKey(next)))
           /\ best' = Insert(best, e, next)
  <2>1. /\ DOMAIN best' = {e} \union DOMAIN best
        /\ best'[e] = next /\ \A x \in DOMAIN best : x # e => best'[x] = best[x]
    BY <1>5 DEF Insert
  <2>2. ASSUME NEW n, NEW far \in Nat, Within(n, far) PROVE Within(n, far)'
    <3>1. n \in DOMAIN best /\ best[n].certainty = "certain" /\ best[n].depth <= far
      BY <2>2 DEF Within
    <3>2. CASE n = e
      <4>1. next.certainty = "certain" /\ next.depth <= best[n].depth
        BY <1>1, <1>2, <1>3, <1>5, <3>1, <3>2, FrameOrder
      <4>2. next.depth <= far
        BY <1>1, <1>2, <1>3, <3>1, <4>1
      <4> QED BY <2>1, <3>2, <4>1, <4>2 DEF Within
    <3>3. CASE n # e
      BY <2>1, <3>1, <3>3 DEF Within
    <3> QED BY <3>2, <3>3
  <2>3. \A far \in Nat : c.certainty = "certain" /\ far = frame.depth + 1 => Within(e, far)'
    <3> SUFFICES ASSUME NEW far \in Nat, c.certainty = "certain", far = frame.depth + 1
                 PROVE  Within(e, far)'
      OBVIOUS
    <3>1. e \in DOMAIN best' /\ best'[e].certainty = "certain" /\ best'[e].depth = far
      BY <1>1, <1>2, <2>1
    <3> QED BY <3>1 DEF Within
  <2> QED BY <2>2, <2>3 DEF c, e
<1>6. CASE /\ s.open => e \in DOMAIN best /\ ~Less(FrameKey(next), FrameKey(best[e]))
           /\ best' = best
  <2>1. \A n : \A far \in Nat : Within(n, far) => Within(n, far)'
    BY <1>6 DEF Within
  <2>2. ASSUME NEW far \in Nat, s.open, c.certainty = "certain", far = frame.depth + 1
        PROVE  Within(e, far)
    <3>1. e \in DOMAIN best /\ ~Less(FrameKey(next), FrameKey(best[e]))
      BY <1>6, <2>2
    <3>2. best[e].certainty = "certain" /\ best[e].depth <= next.depth
      BY <1>1, <1>2, <1>3, <2>2, <3>1, FrameOrder
    <3> QED BY <1>1, <1>2, <2>2, <3>1, <3>2 DEF Within
  <2>3. \A far \in Nat : s.open /\ c.certainty = "certain" /\ far = frame.depth + 1 => Within(e, far)'
    BY <1>6, <2>2 DEF Within
  <2> QED BY <2>1, <2>3 DEF c, e
<1> QED BY <1>4, <1>5, <1>6

-----------------------------------------------------------------------------
(* A step is taken                                                         *)

LEMMA TakeBest ==
  ASSUME TraversalIInv, NEW s \in steps, Take(s)
  PROVE  BestOK'
<1> DEFINE c == Candidate(s)
           e == s.entity
           next == Frame(e, c.certainty, c.depth, c.score)
<1>1. /\ c.certainty \in Certainty /\ c.depth = frame.depth + 1 /\ frame.depth \in Nat
      /\ MaxDepth \in Nat /\ frame.depth < MaxDepth /\ FineStep(s)
  BY FrameAtHand
<1>2. next.node = e /\ next.certainty = c.certainty /\ next.depth = c.depth
  BY DEF Frame
<1>3. \/ s.open /\ best' = Insert(best, e, next)
      \/ best' = best
  BY <1>2 DEF Take, Follow, Enqueue
<1>4. MaxDepth' = MaxDepth /\ seed' = seed
  BY LimitsStay DEF Take, inputs
<1>5. Within(seed, 0)'
  <2>1. Within(seed, 0)
    BY DEF TraversalIInv, BestOK, Within
  <2>2. 0 \in Nat /\ \A n : Within(n, 0) => Within(n, 0)'
    BY Followed DEF Take
  <2>3. PICK n : n = seed
    OBVIOUS
  <2>4. Within(n, 0)'
    BY <2>1, <2>2, <2>3
  <2> QED BY <1>4, <2>3, <2>4 DEF Within
<1> HIDE DEF c, e, next
<1>6. ASSUME NEW n \in DOMAIN best'
      PROVE  /\ n[1] \in {"symbol", "file"} /\ best'[n].node = n
             /\ best'[n].certainty \in Certainty /\ best'[n].depth \in 0..MaxDepth
  <2>1. CASE n \in DOMAIN best /\ best'[n] = best[n]
    BY <2>1 DEF TraversalIInv, BestOK
  <2>2. CASE n = e /\ s.open /\ best'[n] = next
    <3>1. e[1] \in {"symbol", "file"}
      BY <1>1, <2>2 DEF FineStep, e
    <3> QED BY <1>1, <1>2, <2>2, <3>1
  <2> QED BY <1>3, <2>1, <2>2 DEF Insert
<1>7. seed' \in DOMAIN best' /\ best'[seed'].certainty = "certain" /\ best'[seed'].depth = 0
  <2>1. seed' \in DOMAIN best' /\ best'[seed'].certainty = "certain" /\ best'[seed'].depth <= 0
    BY <1>5 DEF Within
  <2>2. best'[seed'].depth \in 0..MaxDepth
    BY <1>6, <2>1
  <2> QED BY <1>1, <2>1, <2>2
<1> QED BY <1>4, <1>6, <1>7 DEF BestOK

LEMMA TakeHits ==
  ASSUME TraversalIInv, NEW s \in steps, Take(s)
  PROVE  HitsOK'
<1>1. AddCandidate(s)
  BY DEF Take
<1>2. MaxDepth' = MaxDepth /\ seed' = seed
  BY LimitsStay DEF Take, inputs
<1>3. CertainHit(seed)'
  <2>1. CertainHit(seed)
    BY DEF TraversalIInv, HitsOK
  <2>2. \A e : CertainHit(e) => CertainHit(e)'
    BY <1>1, Added
  <2>3. PICK e : e = seed
    OBVIOUS
  <2>4. CertainHit(e)'
    BY <2>1, <2>2, <2>3
  <2> QED BY <1>2, <2>3, <2>4 DEF CertainHit
<1>4. /\ Candidate(s).certainty \in Certainty /\ Candidate(s).depth \in 0..MaxDepth
  BY FrameAtHand
<1>5. ASSUME NEW e \in DOMAIN hits'
      PROVE  hits'[e].certainty \in Certainty /\ hits'[e].depth \in 0..MaxDepth
  <2>1. \/ e \in DOMAIN hits /\ hits'[e] = hits[e]
        \/ hits'[e] = Candidate(s)
    BY <1>1, Added
  <2> QED BY <1>4, <2>1 DEF TraversalIInv, HitsOK
<1> QED BY <1>2, <1>3, <1>5 DEF HitsOK

\* The queue, when a frame is enqueued in the place of what its node had.
LEMMA EnqueueQueue ==
  ASSUME TraversalIInv, NEW next, Enqueue(next)
  PROVE  /\ queue' \in Seq({best'[n] : n \in DOMAIN best'})
         /\ \A i, j \in 1..Len(queue') : queue'[i].node = queue'[j].node => i = j
         /\ \A i \in 1..Len(queue) : \E j \in 1..Len(queue') : queue'[j].node = queue[i].node
         /\ \E j \in 1..Len(queue') : queue'[j].node = next.node
<1> DEFINE X == {best[n] : n \in DOMAIN best}
           Y == {best'[n] : n \in DOMAIN best'}
           rest == Without(next.node)
<1>1. /\ queue \in Seq(X)
      /\ \A i, j \in 1..Len(queue) : queue[i].node = queue[j].node => i = j
  BY DEF TraversalIInv, QueueOK
<1>2. /\ rest \in Seq({f \in X : f.node # next.node})
      /\ \A i, j \in 1..Len(rest) : rest[i].node = rest[j].node => i = j
      /\ \A i \in 1..Len(queue) :
            queue[i].node # next.node => \E k \in 1..Len(rest) : rest[k].node = queue[i].node
  <2> HIDE DEF X
  <2> QED BY <1>1, WithoutIs
<1>3. best' = Insert(best, next.node, next) /\ queue' = Append(rest, next)
  BY DEF Enqueue
<1>4. next \in Y
  BY <1>3 DEF Insert
<1>5. {f \in X : f.node # next.node} \subseteq Y
  <2> SUFFICES ASSUME NEW f \in X, f.node # next.node PROVE f \in Y
    OBVIOUS
  <2>1. PICK n \in DOMAIN best : f = best[n]
    OBVIOUS
  <2>2. n # next.node
    BY <2>1 DEF TraversalIInv, BestOK
  <2>3. n \in DOMAIN best' /\ best'[n] = f
    BY <1>3, <2>1, <2>2 DEF Insert
  <2> QED BY <2>3
<1>6. \A k \in 1..Len(rest) : rest[k].node # next.node
  BY <1>2
<1> HIDE DEF X, Y, rest
<1>7. rest \in Seq(Y)
  BY <1>2, <1>5
<1>8. /\ queue' \in Seq(Y) /\ Len(queue') = Len(rest) + 1 /\ Len(rest) \in Nat
      /\ queue'[Len(rest) + 1] = next
      /\ \A k \in 1..Len(rest) : queue'[k] = rest[k]
  BY <1>3, <1>4, <1>7
<1>9. ASSUME NEW i \in 1..Len(queue'), NEW j \in 1..Len(queue'), queue'[i].node = queue'[j].node
      PROVE  i = j
  <2>1. CASE i \in 1..Len(rest) /\ j \in 1..Len(rest)
    BY <1>2, <1>8, <1>9, <2>1
  <2>2. CASE i \in 1..Len(rest) /\ j \notin 1..Len(rest)
    <3>1. j = Len(rest) + 1
      BY <1>8, <2>2
    <3> QED BY <1>6, <1>8, <1>9, <2>2, <3>1
  <2>3. CASE i \notin 1..Len(rest) /\ j \in 1..Len(rest)
    <3>1. i = Len(rest) + 1
      BY <1>8, <2>3
    <3> QED BY <1>6, <1>8, <1>9, <2>3, <3>1
  <2>4. CASE i \notin 1..Len(rest) /\ j \notin 1..Len(rest)
    BY <1>8, <2>4
  <2> QED BY <2>1, <2>2, <2>3, <2>4
<1>10. \E j \in 1..Len(queue') : queue'[j].node = next.node
  BY <1>8
<1>11. ASSUME NEW i \in 1..Len(queue)
       PROVE  \E j \in 1..Len(queue') : queue'[j].node = queue[i].node
  <2>1. CASE queue[i].node = next.node
    BY <1>10, <2>1
  <2>2. CASE queue[i].node # next.node
    <3>1. PICK k \in 1..Len(rest) : rest[k].node = queue[i].node
      BY <1>2, <2>2
    <3>2. k \in 1..Len(queue') /\ queue'[k] = rest[k]
      BY <1>8
    <3> QED BY <3>1, <3>2
  <2> QED BY <2>1, <2>2
<1> QED BY <1>8, <1>9, <1>10, <1>11 DEF Y

LEMMA TakeQueue ==
  ASSUME TraversalIInv, NEW s \in steps, Take(s)
  PROVE  /\ QueueOK'
         /\ \A i \in 1..Len(queue) : \E j \in 1..Len(queue') : queue'[j].node = queue[i].node
<1> DEFINE next == Frame(s.entity, Candidate(s).certainty, Candidate(s).depth, Candidate(s).score)
<1>1. Enqueue(next) \/ UNCHANGED <<queue, best>>
  BY DEF Take, Follow
<1> HIDE DEF next
<1>2. CASE Enqueue(next)
  BY <1>2, EnqueueQueue DEF QueueOK
<1>3. CASE UNCHANGED <<queue, best>>
  BY <1>3 DEF TraversalIInv, QueueOK
<1> QED BY <1>1, <1>2, <1>3

LEMMA TakeExpansion ==
  ASSUME TraversalIInv, NEW s \in steps, Take(s)
  PROVE  ExpansionOK'
<1> SUFFICES ASSUME steps' # {}
             PROVE  /\ frame'.node \in DOMAIN best' /\ frame' = best'[frame'.node] /\ frame'.depth < MaxDepth'
                    /\ steps' \subseteq StepsFrom(frame.node)'
  BY DEF ExpansionOK
<1>1. frame' = frame /\ steps' \subseteq steps
  BY DEF Take
<1>2. MaxDepth' = MaxDepth /\ \A n : StepsFrom(n)' = StepsFrom(n)
  BY LimitsStay, StepsStay DEF Take
<1>3. /\ frame.node \in DOMAIN best /\ frame = best[frame.node] /\ frame.depth < MaxDepth
      /\ steps \subseteq StepsFrom(frame.node)
  BY DEF TraversalIInv, ExpansionOK
<1>4. s.entity # frame.node
  BY FrameAtHand
<1>5. frame.node \in DOMAIN best' /\ best'[frame.node] = best[frame.node]
  <2> DEFINE next == Frame(s.entity, Candidate(s).certainty, Candidate(s).depth, Candidate(s).score)
  <2>1. next.node = s.entity
    BY DEF Frame
  <2>2. best' = best \/ best' = Insert(best, next.node, next)
    BY DEF Take, Follow, Enqueue
  <2> HIDE DEF next
  <2> QED BY <1>3, <1>4, <2>1, <2>2 DEF Insert
<1>6. StepsFrom(frame.node)' = StepsFrom(frame.node)
  BY <1>1, <1>2
<1> QED BY <1>1, <1>2, <1>3, <1>5, <1>6

LEMMA TakeCounts ==
  ASSUME TraversalIInv, NEW s \in steps, Take(s)
  PROVE  CountsOK'
<1>1. MaxNodes' = MaxNodes /\ MaxEdges' = MaxEdges /\ MaxNodes \in Nat /\ MaxEdges \in Nat
  BY LimitsStay, LimitsAre DEF Take, TraversalIInv, InputsOK
<1>2. cutoffs = {} /\ cutoffs' = cutoffs
  BY DEF Take, TraversalIInv, CountsOK
<1> QED BY <1>1, <1>2 DEF Take, TraversalIInv, CountsOK

LEMMA TakeSound ==
  ASSUME TraversalIInv, NEW s \in steps, Take(s)
  PROVE  Sound'
<1> DEFINE c == Candidate(s)
           e == s.entity
           next == Frame(e, c.certainty, c.depth, c.score)
           here == frame.node
           depth == frame.depth
<1>1. /\ s \in StepsFrom(here) /\ here \in DOMAIN best /\ frame = best[here]
      /\ MaxDepth \in Nat /\ depth \in Nat /\ depth < MaxDepth /\ c.depth = depth + 1
      /\ c.certainty = "certain" <=> frame.certainty = "certain" /\ s.certainty = "certain"
  BY FrameAtHand
<1>2. UNCHANGED inputs
  BY DEF Take
<1>3. seed' = seed
  BY <1>2 DEF inputs
<1>4. MaxDepth' = MaxDepth /\ CertainEntities' = CertainEntities
  BY <1>1, <1>2, LimitsStay, EntitiesStay
<1>5. next.node = e /\ next.certainty = c.certainty /\ next.depth = c.depth
  BY DEF Frame
<1>6. \/ s.open /\ best' = Insert(best, e, next)
      \/ best' = best
  BY <1>5 DEF Take, Follow, Enqueue
<1>7. \A x \in DOMAIN hits' : \/ x \in DOMAIN hits /\ hits'[x] = hits[x]
                              \/ x = e /\ x # seed /\ hits'[x] = c
  BY Added DEF Take
<1>8. ASSUME c.certainty = "certain"
      PROVE  /\ here \in CertainNodes(depth)
             /\ s \in CertainSteps(CertainNodes(depth))
  <2>1. here \in CertainNodes(depth)
    BY <1>1, <1>8 DEF TraversalIInv, Sound
  <2> QED BY <1>1, <1>8, <2>1 DEF CertainSteps
<1>9. ASSUME c.certainty = "certain", s.open
      PROVE  e \in CertainNodes(depth + 1)
  <2>1. e \in Led(CertainNodes(depth))
    BY <1>8, <1>9 DEF Led
  <2>2. CertainNodes(depth + 1) = CertainNodes(depth) \union Led(CertainNodes(depth))
    BY <1>1, CertainNodesAre DEF NodesGrow
  <2> QED BY <2>1, <2>2
<1>10. ASSUME c.certainty = "certain"
       PROVE  e \in CertainEntities
  <2>1. MaxDepth - 1 \in Nat /\ depth <= MaxDepth - 1 /\ MaxDepth # 0
    BY <1>1
  <2>2. CertainNodes(depth) \subseteq CertainNodes(MaxDepth - 1)
    BY <1>1, <2>1, CertainNodesGrow
  <2>3. s \in CertainSteps(CertainNodes(MaxDepth - 1))
    BY <1>8, <1>10, <2>2 DEF CertainSteps
  <2> QED BY <2>1, <2>3 DEF CertainEntities
<1> HIDE DEF c, e, next, here, depth
<1>11. ASSUME NEW n \in DOMAIN best', best'[n].certainty = "certain"
       PROVE  n \in CertainNodes(best[n].depth)'
  <2>1. CASE n \in DOMAIN best /\ best'[n] = best[n]
    <3>1. n \in CertainNodes(best[n].depth) /\ best[n].depth \in Nat
      BY <1>1, <1>11, <2>1 DEF TraversalIInv, Sound, BestOK
    <3>2. PICK m \in Nat : m = best[n].depth
      BY <3>1
    <3>3. CertainNodes(m)' = CertainNodes(m)
      BY <1>2, CertainNodesStay
    <3>4. m = best'[n].depth
      BY <2>1, <3>2
    <3> QED BY <3>1, <3>2, <3>3, <3>4
  <2>2. CASE n = e /\ s.open /\ best'[n] = next
    <3>1. e \in CertainNodes(depth + 1)
      BY <1>5, <1>9, <1>11, <2>2
    <3>2. PICK m \in Nat : m = depth + 1
      BY <1>1
    <3>3. CertainNodes(m)' = CertainNodes(m)
      BY <1>2, CertainNodesStay
    <3>4. m = best'[n].depth
      BY <1>1, <1>5, <2>2, <3>2
    <3> QED BY <2>2, <3>1, <3>2, <3>3, <3>4
  <2> QED BY <1>6, <2>1, <2>2 DEF Insert
<1>12. ASSUME NEW x \in DOMAIN hits', x # seed', hits'[x].certainty = "certain"
       PROVE  x \in CertainEntities'
  <2>1. CASE x \in DOMAIN hits /\ hits'[x] = hits[x]
    BY <1>3, <1>4, <1>12, <2>1 DEF TraversalIInv, Sound
  <2>2. CASE x = e /\ hits'[x] = c
    BY <1>4, <1>10, <1>12, <2>2
  <2> QED BY <1>7, <1>12, <2>1, <2>2
<1> QED BY <1>11, <1>12 DEF Sound

LEMMA TookStays ==
  ASSUME TraversalIInv, NEW s \in steps, Take(s), NEW f, NEW x, f.depth \in Nat, Took(f, x)
  PROVE  Took(f, x)'
<1>1. /\ \A e : CertainHit(e) => CertainHit(e)'
      /\ \A n : \A far \in Nat : Within(n, far) => Within(n, far)'
      /\ DOMAIN hits \subseteq DOMAIN hits'
  BY Added, Followed DEF Take
<1>2. f.depth + 1 \in Nat
  OBVIOUS
<1>3. x.open /\ Within(x.entity, f.depth + 1) => Within(x.entity, f.depth + 1)'
  BY <1>1, <1>2
<1> QED BY <1>1, <1>3 DEF Took

LEMMA TakeComplete ==
  ASSUME TraversalIInv, NEW s \in steps, Take(s)
  PROVE  Complete'
<1> DEFINE c == Candidate(s)
           e == s.entity
           next == Frame(e, c.certainty, c.depth, c.score)
<1>1. /\ frame.node \in DOMAIN best /\ frame = best[frame.node]
      /\ MaxDepth \in Nat /\ frame.depth \in Nat
      /\ c.certainty = "certain" <=> frame.certainty = "certain" /\ s.certainty = "certain"
  BY FrameAtHand
<1>2. MaxDepth' = MaxDepth /\ \A n : StepsFrom(n)' = StepsFrom(n)
  BY LimitsStay, StepsStay DEF Take
<1>3. /\ e \in DOMAIN hits'
      /\ c.certainty = "certain" => CertainHit(e)'
      /\ \A far \in Nat : s.open /\ c.certainty = "certain" /\ far = frame.depth + 1 => Within(e, far)'
  BY Added, Followed DEF Take
<1>4. /\ Enqueue(next) /\ next.node = e
      \/ UNCHANGED <<queue, best>>
  BY DEF Take, Follow, Frame
<1>5. \A i \in 1..Len(queue) : \E j \in 1..Len(queue') : queue'[j].node = queue[i].node
  BY TakeQueue
<1>6. steps' = steps \ {s} /\ (steps' # {} => frame' = frame) /\ cutoffs' = cutoffs
  BY DEF Take
<1>7. ASSUME NEW f, f = frame PROVE Took(f, s)'
  <2>1. PICK far \in Nat : far = frame.depth + 1
    BY <1>1
  <2>2. f.depth + 1 = far
    BY <1>7, <2>1
  <2>3. /\ e \in DOMAIN hits'
        /\ f.certainty = "certain" /\ s.certainty = "certain" =>
              CertainHit(e)' /\ (s.open => Within(e, far)')
    BY <1>1, <1>3, <1>7, <2>1
  <2> QED BY <2>2, <2>3 DEF Took
<1> HIDE DEF c, next
<1> SUFFICES ASSUME cutoffs' = {}, NEW n \in DOMAIN best'
             PROVE  \/ \E i \in 1..Len(queue') : queue'[i].node = n
                    \/ best'[n].depth >= MaxDepth'
                    \/ \A x \in StepsFrom(n)' : (x \in steps' /\ frame'.node = n) \/ Took(best[n], x)'
  BY DEF Complete
<1>8. CASE Enqueue(next) /\ n = next.node
  BY <1>8, EnqueueQueue
<1>9. CASE n \in DOMAIN best /\ best'[n] = best[n]
  <2>1. cutoffs = {}
    BY <1>6
  <2>2. CASE \E i \in 1..Len(queue) : queue[i].node = n
    BY <1>5, <2>2
  <2>3. CASE best[n].depth >= MaxDepth
    BY <1>2, <1>9, <2>3
  <2>4. CASE \A x \in StepsFrom(n) : (x \in steps /\ frame.node = n) \/ Took(best[n], x)
    <3>1. PICK f : f = best[n] /\ f = best'[n]
      BY <1>9
    <3>2. f.depth \in Nat
      BY <1>1, <1>9, <3>1 DEF TraversalIInv, BestOK
    <3>3. ASSUME NEW x \in StepsFrom(n)
          PROVE  (x \in steps' /\ frame'.node = n) \/ Took(f, x)'
      <4>1. CASE Took(f, x)
        BY <3>2, <4>1, TookStays
      <4>2. CASE x \in steps /\ frame.node = n /\ x = s
        <5>1. f = frame
          BY <1>1, <3>1, <4>2
        <5> QED BY <1>7, <4>2, <5>1
      <4>3. CASE x \in steps /\ frame.node = n /\ x # s
        BY <1>6, <4>3
      <4> QED BY <2>4, <3>1, <4>1, <4>2, <4>3
    <3>4. \A x : Took(f, x)' => Took(best[n], x)'
      BY <3>1 DEF Took
    <3>5. StepsFrom(n)' = StepsFrom(n)
      BY <1>2
    <3> QED BY <3>3, <3>4, <3>5
  <2> QED BY <2>1, <2>2, <2>3, <2>4, <1>9 DEF TraversalIInv, Complete
<1>10. \/ Enqueue(next) /\ n = next.node
       \/ n \in DOMAIN best /\ best'[n] = best[n]
  BY <1>4 DEF Enqueue, Insert
<1> QED BY <1>8, <1>9, <1>10

LEMMA InputsStay ==
  ASSUME InputsOK, UNCHANGED inputs
  PROVE  InputsOK'
BY DEF InputsOK, inputs, Evidenced

LEMMA TakeInv ==
  ASSUME TraversalIInv, NEW s \in steps, Take(s)
  PROVE  TraversalIInv'
<1>1. InputsOK'
  BY InputsStay DEF Take, TraversalIInv
<1> QED BY <1>1, TakeBest, TakeHits, TakeQueue, TakeExpansion, TakeCounts, TakeSound, TakeComplete DEF TraversalIInv

-----------------------------------------------------------------------------
(* The other steps                                                         *)

\* What is reached and hit is as sound as it was.
LEMMA SoundStays ==
  ASSUME TraversalIInv, UNCHANGED <<inputs, best, hits>>
  PROVE  InputsOK' /\ BestOK' /\ HitsOK' /\ Sound'
<1>1. InputsOK'
  BY InputsStay DEF TraversalIInv
<1>2. MaxDepth \in Nat /\ MaxDepth' = MaxDepth /\ seed' = seed /\ best' = best /\ hits' = hits
  BY LimitsAre, LimitsStay DEF TraversalIInv, InputsOK, inputs
<1>3. BestOK' /\ HitsOK'
  BY <1>2 DEF TraversalIInv, BestOK, HitsOK, CertainHit
<1>4. CertainEntities' = CertainEntities
  BY <1>2, EntitiesStay
<1>5. ASSUME NEW n \in DOMAIN best', best'[n].certainty = "certain"
      PROVE  n \in CertainNodes(best[n].depth)'
  <2>1. n \in CertainNodes(best[n].depth) /\ best[n].depth \in Nat
    BY <1>2, <1>5 DEF TraversalIInv, Sound, BestOK
  <2>2. PICK m \in Nat : m = best[n].depth
    BY <2>1
  <2>3. CertainNodes(m)' = CertainNodes(m)
    BY CertainNodesStay
  <2>4. m = best'[n].depth
    BY <1>2, <2>2
  <2> QED BY <2>1, <2>2, <2>3, <2>4
<1>6. Sound'
  BY <1>2, <1>4, <1>5 DEF TraversalIInv, Sound
<1> QED BY <1>1, <1>3, <1>6

LEMMA StopInv ==
  ASSUME TraversalIInv, NEW cutoff, Stop(cutoff), steps # {} \/ queue # <<>>
  PROVE  TraversalIInv'
<1>1. InputsOK' /\ BestOK' /\ HitsOK' /\ Sound'
  BY SoundStays DEF Stop
<1>2. cutoffs' = {cutoff} /\ queue' = <<>> /\ steps' = {}
  BY DEF Stop, TraversalIInv, CountsOK
<1>3. QueueOK' /\ ExpansionOK' /\ Complete'
  BY <1>2 DEF QueueOK, ExpansionOK, Complete
<1>4. CountsOK'
  <2>1. MaxNodes' = MaxNodes /\ MaxEdges' = MaxEdges /\ visited' = visited /\ edges' = edges
    BY LimitsStay DEF Stop
  <2> QED BY <1>2, <2>1 DEF TraversalIInv, CountsOK
<1> QED BY <1>1, <1>3, <1>4 DEF TraversalIInv

LEMMA VisitInv ==
  ASSUME TraversalIInv, Visit
  PROVE  TraversalIInv'
<1> DEFINE next == Head(queue)
           here == next.node
           X == {best[n] : n \in DOMAIN best}
<1>1. InputsOK' /\ BestOK' /\ HitsOK' /\ Sound'
  BY SoundStays DEF Visit
<1>2. /\ MaxDepth \in Nat /\ MaxNodes \in Nat /\ MaxEdges \in Nat /\ MaxDepth' = MaxDepth /\ MaxNodes' = MaxNodes
      /\ MaxEdges' = MaxEdges /\ best' = best /\ \A n : StepsFrom(n)' = StepsFrom(n)
  BY LimitsAre, LimitsStay, StepsStay DEF Visit, TraversalIInv, InputsOK
<1>3. /\ queue \in Seq(X) /\ queue # <<>> /\ queue' = Tail(queue)
      /\ \A i, j \in 1..Len(queue) : queue[i].node = queue[j].node => i = j
  BY DEF Visit, TraversalIInv, QueueOK
<1>4. here \in DOMAIN best /\ next = best[here]
  <2>1. next \in X
    BY <1>3
  <2>2. PICK n \in DOMAIN best : next = best[n]
    BY <2>1
  <2> QED BY <2>2 DEF TraversalIInv, BestOK
<1>5. /\ steps = {} /\ cutoffs' = cutoffs
      /\ steps' = IF next.depth >= MaxDepth THEN {} ELSE StepsFrom(here)
      /\ steps' # {} => frame' = next
  BY DEF Visit
<1>6. /\ queue' \in Seq(X) /\ Len(queue) \in Nat /\ Len(queue) > 0 /\ Len(queue') = Len(queue) - 1
      /\ \A i \in 1..Len(queue') : queue'[i] = queue[i + 1]
      /\ queue[1] = next
  BY <1>3
<1>7. QueueOK'
  <2>1. X = {best'[n] : n \in DOMAIN best'}
    BY <1>2
  <2>2. \A i, j \in 1..Len(queue') : queue'[i].node = queue'[j].node => i = j
    <3> HIDE DEF X, next
    <3>1. \A i \in 1..Len(queue') : i + 1 \in 1..Len(queue)
      BY <1>6
    <3> QED BY <1>3, <1>6, <3>1
  <2> QED BY <1>6, <2>1, <2>2 DEF QueueOK
<1>8. ExpansionOK'
  <2> SUFFICES ASSUME steps' # {}
               PROVE  /\ frame'.node \in DOMAIN best' /\ frame' = best'[frame'.node] /\ frame'.depth < MaxDepth'
                      /\ steps' \subseteq StepsFrom(frame.node)'
    BY DEF ExpansionOK
  <2>1. frame' = next /\ ~(next.depth >= MaxDepth) /\ steps' = StepsFrom(here)
    BY <1>5
  <2>2. next.depth \in Nat
    BY <1>2, <1>4 DEF TraversalIInv, BestOK
  <2>3. StepsFrom(frame.node)' = StepsFrom(here)
    <3>1. PICK n : n = here
      OBVIOUS
    <3>2. frame'.node = n
      BY <2>1, <3>1
    <3> QED BY <1>2, <3>1, <3>2
  <2> QED BY <1>2, <1>4, <2>1, <2>2, <2>3
<1>9. CountsOK'
  <2>1. cutoffs = {} /\ cutoffs' = {}
    BY <1>3, <1>5 DEF TraversalIInv, CountsOK
  <2> QED BY <1>2, <2>1 DEF Visit, TraversalIInv, CountsOK
<1>10. Complete'
  <2> SUFFICES ASSUME cutoffs' = {}, NEW n \in DOMAIN best'
               PROVE  \/ \E i \in 1..Len(queue') : queue'[i].node = n
                      \/ best'[n].depth >= MaxDepth'
                      \/ \A x \in StepsFrom(n)' : (x \in steps' /\ frame'.node = n) \/ Took(best[n], x)'
    BY DEF Complete
  <2>1. StepsFrom(n)' = StepsFrom(n)
    BY <1>2
  <2>2. CASE n = here
    <3>1. next = best'[n]
      BY <1>2, <1>4, <2>2
    <3>2. CASE next.depth >= MaxDepth
      BY <1>2, <3>1, <3>2
    <3>3. CASE ~(next.depth >= MaxDepth)
      <4>1. steps' = StepsFrom(n)
        BY <1>5, <2>2, <3>3
      <4>2. \A x \in StepsFrom(n) : x \in steps' /\ frame'.node = n
        BY <1>5, <2>2, <4>1
      <4> QED BY <2>1, <4>2
    <3> QED BY <3>2, <3>3
  <2>3. CASE n # here
    <3>1. CASE \E i \in 1..Len(queue) : queue[i].node = n
      <4>1. PICK i \in 1..Len(queue) : queue[i].node = n
        BY <3>1
      <4>2. i # 1
        BY <1>6, <2>3, <4>1
      <4>3. i - 1 \in 1..Len(queue') /\ (i - 1) + 1 = i
        BY <1>6, <4>2
      <4>4. queue'[i - 1].node = n
        BY <1>6, <4>1, <4>3
      <4> QED BY <4>3, <4>4
    <3>2. CASE best[n].depth >= MaxDepth
      BY <1>2, <3>2
    <3>3. CASE \A x \in StepsFrom(n) : (x \in steps /\ frame.node = n) \/ Took(best[n], x)
      <4>1. \A x \in StepsFrom(n) : Took(best[n], x)
        BY <1>5, <3>3
      <4>2. \A x : Took(best[n], x) => Took(best[n], x)'
        <5>1. best' = best /\ hits' = hits
          BY DEF Visit
        <5> QED BY <5>1 DEF Took, CertainHit, Within
      <4> QED BY <2>1, <4>1, <4>2
    <3> QED BY <1>2, <1>5, <3>1, <3>2, <3>3 DEF TraversalIInv, Complete
  <2> QED BY <2>2, <2>3
<1> QED BY <1>1, <1>7, <1>8, <1>9, <1>10 DEF TraversalIInv

LEMMA StutterInv ==
  ASSUME TraversalIInv, UNCHANGED traversal
  PROVE  TraversalIInv'
<1>1. UNCHANGED <<inputs, best, hits>> /\ UNCHANGED <<queue, frame, steps, visited, edges, cutoffs>>
  BY DEF traversal, inputs
<1>2. InputsOK' /\ BestOK' /\ HitsOK' /\ Sound'
  BY <1>1, SoundStays
<1>3. /\ MaxDepth' = MaxDepth /\ MaxNodes' = MaxNodes /\ MaxEdges' = MaxEdges
      /\ \A n : StepsFrom(n)' = StepsFrom(n)
  BY <1>1, LimitsStay, StepsStay
<1>4. QueueOK' /\ CountsOK'
  BY <1>1, <1>3 DEF TraversalIInv, QueueOK, CountsOK
<1>5. ExpansionOK'
  <2>1. StepsFrom(frame.node)' = StepsFrom(frame.node)
    BY <1>1, <1>3
  <2> QED BY <1>1, <1>3, <2>1 DEF TraversalIInv, ExpansionOK
<1>6. Complete'
  <2>1. \A n, x : Took(best[n], x)' = Took(best[n], x)
    BY <1>1 DEF Took, CertainHit, Within
  <2> QED BY <1>1, <1>3, <2>1 DEF TraversalIInv, Complete
<1> QED BY <1>2, <1>4, <1>5, <1>6 DEF TraversalIInv

\* A symbol that is asked for is the canonical symbol of some.
LEMMA SeedIs ==
  ASSUME NEW w, NEW q, NEW x \in SeedTargets(w, q), x[1] = "symbol"
  PROVE  x = <<"symbol", x[2]>> /\ \E s \in AllSymbols(w.program) : x[2] = q.canonical[s]
<1>1. PICK n \in Names, f \in File \union {None} : \E y \in TargetSymbols(w, q, n, f) : x = <<"symbol", y>>
  BY DEF SeedTargets
<1>2. PICK y \in TargetSymbols(w, q, n, f) : x = <<"symbol", y>>
  BY <1>1
<1>3. PICK g \in File : \E i \in Kept(w.program, g) : y = q.canonical[Id(w.program, g, i)]
  BY DEF TargetSymbols
<1>4. PICK i \in Kept(w.program, g) : y = q.canonical[Id(w.program, g, i)]
  BY <1>3
<1>5. i \in Made(w.program, g)
  BY DEF Kept
<1>6. Id(w.program, g, i) \in AllSymbols(w.program)
  BY <1>5 DEF AllSymbols, Symbols
<1> QED BY <1>2, <1>4, <1>6

LEMMA TraversalInitInv == TraversalInit => TraversalIInv
<1> SUFFICES ASSUME TraversalInit PROVE TraversalIInv
  OBVIOUS
<1> DEFINE first == Frame(seed, "certain", 0, 1000)
<1>1. InputsOK
  <2>1. world \in Worlds /\ plan = EnrichmentPlan(world.program, world.package) /\ request \in Requests
    BY DEF TraversalInit
  <2>2. Evidenced(plan.symbolTests) /\ Evidenced(plan.fileTests)
    BY <2>1, PlanEvidenced
  <2>3. seed[1] = "symbol" => /\ seed = <<"symbol", seed[2]>>
                              /\ \E s \in AllSymbols(world.program) : seed[2] = plan.canonical[s]
    BY SeedIs DEF TraversalInit
  <2> QED BY <2>1, <2>2, <2>3 DEF InputsOK
<1>2. MaxDepth \in Nat /\ MaxNodes \in Nat /\ MaxEdges \in Nat
  BY <1>1, LimitsAre DEF InputsOK
<1>3. /\ queue = <<first>> /\ best = [n \in {seed} |-> first] /\ DOMAIN hits = {seed}
      /\ hits[seed].certainty = "certain" /\ hits[seed].depth = 0
      /\ steps = {} /\ cutoffs = {} /\ visited = 0 /\ edges = 0
  BY DEF TraversalInit
<1>4. first.node = seed /\ first.certainty = "certain" /\ first.depth = 0
  BY DEF Frame
<1>5. seed[1] \in {"symbol", "file"}
  BY DEF TraversalInit, SeedTargets
<1> HIDE DEF first
<1>6. BestOK /\ HitsOK
  BY <1>2, <1>3, <1>4, <1>5, SomeCertainties DEF BestOK, HitsOK, CertainHit
<1>7. QueueOK
  <2>1. first \in {best[n] : n \in DOMAIN best}
    BY <1>3
  <2> QED BY <1>3, <2>1 DEF QueueOK
<1>8. ExpansionOK /\ CountsOK
  BY <1>2, <1>3 DEF ExpansionOK, CountsOK
<1>9. Sound
  <2>1. \A n \in DOMAIN best : n \in CertainNodes(best[n].depth)
    BY <1>3, <1>4, CertainNodesAre DEF NodesGrow
  <2> QED BY <1>3, <2>1 DEF Sound
<1>10. Complete
  BY <1>3, <1>4 DEF Complete
<1> QED BY <1>1, <1>6, <1>7, <1>8, <1>9, <1>10 DEF TraversalIInv

LEMMA TraversalInvAlways == Traversal => []TraversalIInv
<1>1. TraversalInit => TraversalIInv
  BY TraversalInitInv
<1>2. TraversalIInv /\ [TraversalNext]_traversal => TraversalIInv'
  <2> SUFFICES ASSUME TraversalIInv, [TraversalNext]_traversal PROVE TraversalIInv'
    OBVIOUS
  <2>1. CASE Visit
    BY <2>1, VisitInv
  <2>2. CASE VisitTooMany
    <3>1. queue # <<>> /\ Stop("nodes_visited")
      BY <2>2 DEF VisitTooMany
    <3> QED BY <3>1, StopInv
  <2>3. CASE TakeTooMany
    <3>1. steps # {} /\ (Stop("edges_traversed") \/ Stop("candidates_considered"))
      BY <2>3 DEF TakeTooMany
    <3> QED BY <3>1, StopInv
  <2>4. ASSUME NEW s \in steps, Take(s) PROVE TraversalIInv'
    BY <2>4, TakeInv
  <2>5. CASE UNCHANGED traversal
    BY <2>5, StutterInv
  <2> QED BY <2>1, <2>2, <2>3, <2>4, <2>5 DEF TraversalNext
<1> QED BY <1>1, <1>2, PTL DEF Traversal

-----------------------------------------------------------------------------
(* The traversal keeps its promises                                        *)

\* The frames, the queue and the counters of the traversal are what they
\* should be, whatever is asked of whatever program.
THEOREM TraversalTypeCorrect == Traversal => []TraversalTypeOK
<1>1. TraversalIInv => TraversalTypeOK
  <2> SUFFICES ASSUME TraversalIInv PROVE TraversalTypeOK
    OBVIOUS
  <2> DEFINE X == {best[n] : n \in DOMAIN best}
  <2>1. queue \in Seq(X)
    BY DEF TraversalIInv, QueueOK
  <2>2. ASSUME NEW i \in DOMAIN queue PROVE best[queue[i].node] = queue[i]
    <3>1. queue[i] \in X
      <4> HIDE DEF X
      <4> QED BY <2>1
    <3>2. PICK n \in DOMAIN best : queue[i] = best[n]
      BY <3>1
    <3> QED BY <3>2 DEF TraversalIInv, BestOK
  <2>3. Cardinality(cutoffs) <= 1
    <3>1. CASE cutoffs = {}
      BY <3>1, FS_EmptySet
    <3>2. CASE \E c : cutoffs = {c}
      BY <3>2, FS_Singleton
    <3> QED BY <3>1, <3>2 DEF TraversalIInv, CountsOK
  <2> QED BY <2>2, <2>3 DEF TraversalIInv, BestOK, HitsOK, CountsOK, CertainHit, TraversalTypeOK
<1> QED BY <1>1, TraversalInvAlways, PTL

\* When the traversal is done, what certain steps lead to is reached for
\* certain, and within as many steps.
LEMMA CertainIsReached ==
  ASSUME TraversalIInv, Done, cutoffs = {}, NEW n \in Nat, n <= MaxDepth
  PROVE  \A x \in CertainNodes(n) : Within(x, n)
<1>1. MaxDepth \in Nat
  BY LimitsAre DEF TraversalIInv, InputsOK
<1> DEFINE S == {m \in Nat : m <= MaxDepth => \A x \in CertainNodes(m) : Within(x, m)}
<1>2. 0 \in S
  BY CertainNodesAre DEF NodesGrow, TraversalIInv, BestOK, Within
<1>3. ASSUME NEW m \in Nat, m \in S PROVE m + 1 \in S
  <2> SUFFICES ASSUME m + 1 <= MaxDepth, NEW x \in CertainNodes(m + 1) PROVE Within(x, m + 1)
    OBVIOUS
  <2>1. \A y \in CertainNodes(m) : Within(y, m)
    BY <1>1, <1>3
  <2>2. x \in CertainNodes(m) \/ x \in Led(CertainNodes(m))
    BY CertainNodesAre DEF NodesGrow
  <2>3. CASE x \in CertainNodes(m)
    <3>1. x \in DOMAIN best /\ best[x].certainty = "certain" /\ best[x].depth <= m /\ best[x].depth \in Nat
      BY <1>1, <2>1, <2>3 DEF Within, TraversalIInv, BestOK
    <3> QED BY <3>1 DEF Within
  <2>4. CASE x \in Led(CertainNodes(m))
    <3>1. PICK s : s \in CertainSteps(CertainNodes(m)) /\ s.open /\ s.entity = x
      BY <2>4 DEF Led
    <3>2. PICK y \in CertainNodes(m) : s \in StepsFrom(y) /\ s.certainty = "certain"
      BY <3>1 DEF CertainSteps
    <3>3. y \in DOMAIN best /\ best[y].certainty = "certain" /\ best[y].depth <= m /\ best[y].depth \in Nat
      BY <1>1, <2>1 DEF Within, TraversalIInv, BestOK
    <3>4. Took(best[y], s)
      <4>1. steps = {} /\ Len(queue) = 0
        BY DEF Done
      <4>2. ~(best[y].depth >= MaxDepth)
        BY <1>1, <3>3
      <4> QED BY <3>2, <3>3, <4>1, <4>2 DEF TraversalIInv, Complete
    <3>5. Within(x, best[y].depth + 1)
      BY <3>1, <3>2, <3>3, <3>4 DEF Took
    <3>6. x \in DOMAIN best => best[x].depth \in Nat
      BY <1>1 DEF TraversalIInv, BestOK
    <3> QED BY <3>3, <3>5, <3>6 DEF Within
  <2> QED BY <2>2, <2>3, <2>4
<1> HIDE DEF S
<1>4. n \in S
  BY <1>2, <1>3, InductionOverNat
<1> QED BY <1>4 DEF S

\* A hit is certain just when some path of certain steps leads to it within
\* the depth limit: of any program, from any target, in any order of ties.
THEOREM CertainHitsAreExact == Traversal => []CertainIsExact
<1>1. TraversalIInv => CertainIsExact
  <2> SUFFICES ASSUME TraversalIInv PROVE CertainIsExact
    OBVIOUS
  <2> DEFINE certain == {e \in DOMAIN hits : hits[e].certainty = "certain"} \ {seed}
  <2>1. certain \subseteq CertainEntities
    BY DEF TraversalIInv, Sound
  <2>2. ASSUME Done, cutoffs = {} PROVE CertainEntities \subseteq certain \union {seed}
    <3> SUFFICES ASSUME NEW e \in CertainEntities PROVE CertainHit(e)
      BY DEF CertainHit
    <3>1. MaxDepth \in Nat /\ MaxDepth # 0
      BY LimitsAre DEF TraversalIInv, InputsOK, CertainEntities
    <3>2. MaxDepth - 1 \in Nat /\ MaxDepth - 1 <= MaxDepth
      BY <3>1
    <3>3. PICK s : s \in CertainSteps(CertainNodes(MaxDepth - 1)) /\ s.entity = e
      BY <3>1 DEF CertainEntities
    <3>4. PICK y \in CertainNodes(MaxDepth - 1) : s \in StepsFrom(y) /\ s.certainty = "certain"
      BY <3>3 DEF CertainSteps
    <3>5. Within(y, MaxDepth - 1)
      BY <2>2, <3>2, <3>4, CertainIsReached
    <3>6. y \in DOMAIN best /\ best[y].certainty = "certain" /\ best[y].depth \in Nat /\ ~(best[y].depth >= MaxDepth)
      BY <3>1, <3>5 DEF Within, TraversalIInv, BestOK
    <3>7. Took(best[y], s)
      <4>1. steps = {} /\ Len(queue) = 0
        BY <2>2 DEF Done
      <4> QED BY <2>2, <3>4, <3>6, <4>1 DEF TraversalIInv, Complete
    <3> QED BY <3>3, <3>4, <3>6, <3>7 DEF Took
  <2> HIDE DEF certain
  <2>3. seed \notin certain
    BY DEF certain
  <2>4. Done /\ cutoffs = {} => certain = CertainEntities \ {seed}
    BY <2>1, <2>2, <2>3
  <2> QED BY <2>1, <2>4 DEF certain, CertainIsExact
<1> QED BY <1>1, TraversalInvAlways, PTL

LEMMA WorldsArePrograms ==
  ASSUME NEW w \in Worlds
  PROVE  IsProgram(w.program) /\ IsFiniteSet(File)
BY WorldsAssumption DEF IsProgram

\* What a use is in is a step from the symbol, or is the symbol.
LEMMA UseIsStep ==
  ASSUME InputsOK, seed[1] = "symbol", NEW o \in ReferenceOccurrences(world.program, seed[2]),
         o.role = "reference", NEW owner, owner = Owner(world.program, o.file, o.at)
  PROVE  LET e == IF owner = None THEN <<"file", o.file>> ELSE SymbolEntity(owner)
         IN  e = seed \/ \E s \in StepsFrom(seed) : s.entity = e
<1>0. PICK y : y = seed[2]
  OBVIOUS
<1> DEFINE r == [file |-> o.file, at |-> o.at, owner |-> owner]
<1>1. <<y, r>> \in plan.references
  <2>1. PICK s \in AllSymbols(world.program) : y = plan.canonical[s]
    BY <1>0 DEF InputsOK
  <2>2. IsProgram(world.program) /\ IsFiniteSet(File)
    BY WorldsArePrograms DEF InputsOK
  <2>3. plan = EnrichmentPlan(world.program, world.package)
    BY DEF InputsOK
  <2>4. plan.canonical = CanonicalMap(world.program)
    BY <2>3 DEF EnrichmentPlan
  <2> QED BY <1>0, <2>1, <2>2, <2>3, <2>4, UsesArePlanned
<1>2. r \in Found(plan.references, y)
  BY <1>1 DEF Found
<1> HIDE DEF r
<1>3. \A s \in ReferenceSteps(y, r) : s.entity # seed => s \in StepsFrom(seed)
  <2> SUFFICES ASSUME NEW s \in ReferenceSteps(y, r), s.entity # seed PROVE s \in StepsFrom(seed)
    OBVIOUS
  <2>1. s \in UNION {ReferenceSteps(y, q) : q \in Found(plan.references, y)}
    BY <1>2
  <2> DEFINE declared == {Step(<<"file", FileOf(y)>>, TRUE, "certain", "declared_in_file", 900, <<>>)}
             packages == PackageSteps(FileOf(y))
             references == UNION {ReferenceSteps(y, q) : q \in Found(plan.references, y)}
             imports == UNION {ImportSteps(i) : i \in Found(plan.imports, y)}
             exports == {Step(SymbolEntity(x), TRUE, "certain", "exports", 920, <<>>) : x \in Found(plan.exports, y)}
             symbolTests == TestSteps(Found(plan.symbolTests, y), "")
             fileTests == TestSteps(Found(plan.fileTests, FileOf(y)), "scope")
  <2>2. s \in SymbolSteps(y)
    <3>1. SymbolSteps(y) = declared \union packages \union references \union imports \union exports
                           \union symbolTests \union fileTests
      BY Zenon DEF SymbolSteps
    <3> HIDE DEF declared, packages, references, imports, exports, symbolTests, fileTests
    <3>2. s \in references
      BY <2>1 DEF references
    <3> QED BY <3>1, <3>2
  <2> QED BY <1>0, <2>2 DEF StepsFrom
<1>4. seed = <<"symbol", y>>
  BY <1>0 DEF InputsOK
<1>5. r.owner = owner /\ r.file = o.file
  BY DEF r
<1>6. CASE owner = None
  <2> DEFINE x == Step(<<"file", r.file>>, r.file \notin TestFile, ConsumerCertainty, "referenced_by_file", 760,
                       <<r.file, r.at>>)
  <2>1. x \in ReferenceSteps(y, r)
    <3>1. 1 \in {z \in {1} : ConsumerFiles \/ r.owner = None}
      BY <1>5, <1>6
    <3> QED BY <3>1, Zenon DEF ReferenceSteps
  <2>2. x.entity = <<"file", o.file>>
    BY <1>5 DEF Step
  <2>3. x.entity # seed
    BY <1>4, <2>2
  <2> QED BY <1>3, <1>6, <2>1, <2>2, <2>3
<1>7. CASE owner # None /\ plan.canonical[owner] = y
  BY <1>4, <1>7 DEF SymbolEntity
<1>8. CASE owner # None /\ plan.canonical[owner] # y
  <2>1. PICK u : u = SymbolEntity(owner)
    OBVIOUS
  <2>2. PICK x : x = Step(u, TRUE, "certain", "references", 950, <<r.file, r.at>>)
    OBVIOUS
  <2>3. owner \in {z \in {r.owner} \ {None} : plan.canonical[z] # y}
    BY <1>5, <1>8
  <2>4. x \in ReferenceSteps(y, r)
    <3> DEFINE S == {z \in {r.owner} \ {None} : plan.canonical[z] # y}
    <3> HIDE DEF S
    <3>1. \E v \in S : x = Step(SymbolEntity(v), TRUE, "certain", "references", 950, <<r.file, r.at>>)
      BY <2>1, <2>2, <2>3, Zenon DEF S
    <3>2. x \in {Step(SymbolEntity(v), TRUE, "certain", "references", 950, <<r.file, r.at>>) : v \in S}
      BY <3>1, Zenon
    <3> QED BY <3>2, Zenon DEF ReferenceSteps, S
  <2>5. x.entity = u
    BY <2>2 DEF Step
  <2>6. u[2] = plan.canonical[owner]
    BY <2>1 DEF SymbolEntity
  <2>7. u[2] # seed[2]
    BY <1>0, <1>8, <2>6
  <2>8. x.entity # seed
    BY <2>5, <2>7
  <2>9. x \in StepsFrom(seed)
    BY <1>3, <2>4, <2>8
  <2> QED BY <1>8, <2>1, <2>5, <2>9
<1> QED BY <1>6, <1>7, <1>8

\* Every use of a symbol that the symbol queries list is in its blast radius,
\* by whatever aliases the use gets at it: the queries follow edges backwards
\* and the plan has canonical symbols, which agree as walks along aliases end
\* in one loop.
THEOREM EveryUseIsImpacted == Traversal => []UsesAreImpacted
<1>1. TraversalIInv => UsesAreImpacted
  <2> SUFFICES ASSUME TraversalIInv, Done, cutoffs = {}, MaxDepth > 0, seed[1] = "symbol",
                      NEW o \in ReferenceOccurrences(world.program, seed[2]), o.role = "reference",
                      NEW owner, owner = Owner(world.program, o.file, o.at)
               PROVE  (IF owner = None THEN <<"file", o.file>> ELSE SymbolEntity(owner)) \in DOMAIN hits
    BY DEF UsesAreImpacted
  <2> DEFINE e == IF owner = None THEN <<"file", o.file>> ELSE SymbolEntity(owner)
  <2>1. e = seed \/ \E s \in StepsFrom(seed) : s.entity = e
    BY UseIsStep DEF TraversalIInv
  <2>2. \A s \in StepsFrom(seed) : s.entity \in DOMAIN hits
    <3>1. steps = {} /\ Len(queue) = 0
      BY DEF Done
    <3>2. seed \in DOMAIN best /\ best[seed].depth = 0
      BY DEF TraversalIInv, BestOK
    <3>3. ~(best[seed].depth >= MaxDepth)
      <4>1. MaxDepth \in Nat
        BY LimitsAre DEF TraversalIInv, InputsOK
      <4> QED BY <3>2, <4>1
    <3>4. \A s \in StepsFrom(seed) : Took(best[seed], s)
      BY <3>1, <3>2, <3>3 DEF TraversalIInv, Complete
    <3> QED BY <3>4 DEF Took
  <2>3. seed \in DOMAIN hits
    BY DEF TraversalIInv, HitsOK, CertainHit
  <2> HIDE DEF e
  <2>4. e \in DOMAIN hits
    BY <2>1, <2>2, <2>3
  <2> QED BY <2>4 DEF e
<1> QED BY <1>1, TraversalInvAlways, PTL
=============================================================================
