----------------------------- MODULE PlannerProofs -----------------------------
(***************************************************************************)
(* Proofs about Planner, for all requests, engines and answers of engines. *)
(* First what the lists are (what comes before an item is counted), then   *)
(* what fusion and grouping do to the best score, then what is planned and *)
(* found, then the inductive invariant Core of a query on its way, and     *)
(* last what an answer made from such a query promises.                    *)
(***************************************************************************)
EXTENDS Planner, SequenceTheorems, FiniteSetTheorems, FunctionTheorems, WellFoundedInduction, NaturalsInduction, TLAPS

-----------------------------------------------------------------------------
(* Induction                                                               *)

\* Induction over the naturals, for a set.
LEMMA InductionOverNat ==
  ASSUME NEW S, 0 \in S, \A n \in Nat : n \in S => n + 1 \in S
  PROVE  Nat \subseteq S
<1> DEFINE R == OpToRel(<, Nat)
           missing == Nat \ S
<1>1. IsWellFoundedOn(R, Nat)
  BY NatLessThanWellFounded, Zenon
<1>2. \A x, y \in Nat : x < y => <<x, y>> \in R
  BY DEF OpToRel
<1>3. missing \in SUBSET Nat
  OBVIOUS
<1> SUFFICES ASSUME missing # {} PROVE FALSE
  OBVIOUS
<1> HIDE DEF R, missing
<1>4. PICK x \in missing : \A y \in missing : ~(<<y, x>> \in R)
  BY <1>1, <1>3, WFMin
<1>5. x \in Nat /\ x # 0 /\ x \notin S
  BY <1>4 DEF missing
<1>6. x - 1 \in Nat /\ x - 1 < x /\ (x - 1) + 1 = x
  BY <1>5
<1>7. x - 1 \notin missing
  BY <1>2, <1>4, <1>5, <1>6
<1>8. x - 1 \in S
  BY <1>6, <1>7 DEF missing
<1> QED BY <1>5, <1>6, <1>8

\* A set of naturals has a least one.
LEMMA LeastNat ==
  ASSUME NEW S, S \subseteq Nat, S # {}
  PROVE  \E x \in S : \A y \in S : x <= y
<1> DEFINE R == OpToRel(<, Nat)
<1>1. IsWellFoundedOn(R, Nat)
  BY NatLessThanWellFounded, Zenon
<1>2. \A x, y \in Nat : x < y => <<x, y>> \in R
  BY DEF OpToRel
<1> HIDE DEF R
<1>3. PICK x \in S : \A y \in S : ~(<<y, x>> \in R)
  BY <1>1, WFMin
<1>4. ASSUME NEW y \in S PROVE x <= y
  <2>1. ~(y < x)
    BY <1>2, <1>3
  <2> QED BY <2>1
<1> QED BY <1>3, <1>4

-----------------------------------------------------------------------------
(* Orders                                                                  *)

\* Keys with a number of parts.
Keys(w) == [1..w -> Int]

\* The first difference gives a strict order ...
LEMMA LessIsStrict ==
  ASSUME NEW w \in Nat, NEW x \in Keys(w)
  PROVE  ~Less(x, x)
BY DEF Less, Keys

\* ... which is transitive ...
LEMMA LessIsTransitive ==
  ASSUME NEW w \in Nat, NEW x \in Keys(w), NEW y \in Keys(w), NEW z \in Keys(w), Less(x, y), Less(y, z)
  PROVE  Less(x, z)
<1>1. DOMAIN x = 1..w /\ DOMAIN y = 1..w
  BY DEF Keys
<1>2. \A i \in 1..w : x[i] \in Int /\ y[i] \in Int /\ z[i] \in Int
  BY DEF Keys
<1>3. PICK i \in 1..w : x[i] < y[i] /\ \A j \in 1..(i - 1) : x[j] = y[j]
  BY <1>1 DEF Less
<1>4. PICK k \in 1..w : y[k] < z[k] /\ \A j \in 1..(k - 1) : y[j] = z[j]
  BY <1>1 DEF Less
<1>5. CASE i < k
  <2>1. y[i] = z[i] /\ \A j \in 1..(i - 1) : y[j] = z[j]
    BY <1>4, <1>5
  <2>2. x[i] < z[i] /\ \A j \in 1..(i - 1) : x[j] = z[j]
    BY <1>3, <2>1
  <2> QED BY <1>1, <2>2 DEF Less
<1>6. CASE k < i
  <2>1. x[k] = y[k] /\ \A j \in 1..(k - 1) : x[j] = y[j]
    BY <1>3, <1>6
  <2>2. x[k] < z[k] /\ \A j \in 1..(k - 1) : x[j] = z[j]
    BY <1>4, <2>1
  <2> QED BY <1>1, <2>2 DEF Less
<1>7. CASE i = k
  <2>1. x[i] < z[i]
    BY <1>2, <1>3, <1>4, <1>7
  <2>2. \A j \in 1..(i - 1) : x[j] = z[j]
    BY <1>3, <1>4, <1>7
  <2> QED BY <1>1, <2>1, <2>2 DEF Less
<1> QED BY <1>5, <1>6, <1>7

\* ... and total on tuples of integers of one length.
LEMMA LessIsTotal ==
  ASSUME NEW w \in Nat, NEW x \in Keys(w), NEW y \in Keys(w), x # y
  PROVE  Less(x, y) \/ Less(y, x)
<1>1. DOMAIN x = 1..w /\ DOMAIN y = 1..w
  BY DEF Keys
<1> DEFINE differ == {i \in 1..w : x[i] # y[i]}
<1>2. differ # {}
  <2> SUFFICES ASSUME differ = {} PROVE FALSE
    OBVIOUS
  <2>1. \A i \in 1..w : x[i] = y[i]
    OBVIOUS
  <2>2. x = y
    BY <2>1 DEF Keys
  <2> QED BY <2>2
<1>3. differ \subseteq Nat
  OBVIOUS
<1> HIDE DEF differ
<1>4. PICK i \in differ : \A j \in differ : i <= j
  BY <1>2, <1>3, LeastNat
<1>5. i \in 1..w /\ x[i] # y[i]
  BY <1>4 DEF differ
<1>6. ASSUME NEW j \in 1..(i - 1) PROVE x[j] = y[j]
  <2>1. j \in 1..w /\ ~(i <= j)
    BY <1>5
  <2>2. j \notin differ
    BY <1>4, <2>1
  <2> QED BY <2>1, <2>2 DEF differ
<1>7. x[i] \in Int /\ y[i] \in Int
  BY <1>5 DEF Keys
<1>8. x[i] < y[i] \/ y[i] < x[i]
  BY <1>5, <1>7
<1> QED BY <1>1, <1>5, <1>6, <1>8 DEF Less

\* What comes first is not worse in its first number.
LEMMA LessStartsSo ==
  ASSUME NEW w \in Nat, w >= 1, NEW x \in Keys(w), NEW y \in Keys(w), Less(x, y)
  PROVE  x[1] <= y[1]
<1>1. DOMAIN x = 1..w /\ x[1] \in Int /\ y[1] \in Int
  BY DEF Keys
<1>2. PICK i \in 1..w : x[i] < y[i] /\ \A j \in 1..(i - 1) : x[j] = y[j]
  BY <1>1 DEF Less
<1>3. CASE i = 1
  BY <1>1, <1>2, <1>3
<1>4. CASE i # 1
  <2>1. 1 \in 1..(i - 1)
    BY <1>4
  <2> QED BY <1>1, <1>2, <2>1
<1> QED BY <1>3, <1>4

-----------------------------------------------------------------------------
(* Listed                                                                  *)

IsOrder(set, order) ==
    /\ \A x \in set : <<x, x>> \notin order
    /\ \A x, y, z \in set : <<x, y>> \in order /\ <<y, z>> \in order => <<x, z>> \in order
    /\ \A x, y \in set : x # y => <<x, y>> \in order \/ <<y, x>> \in order

Earlier(set, order, x) == {y \in set : <<y, x>> \in order}
Nth(set, order, n) == CHOOSE x \in set : Cardinality(Earlier(set, order, x)) = n - 1

\* In a strict total order of a finite set, each count of what comes before
\* belongs to one member.
LEMMA Counted ==
  ASSUME NEW set, IsFiniteSet(set), NEW order, IsOrder(set, order)
  PROVE  \A n \in 1..Cardinality(set) :
            \E x \in set : Cardinality(Earlier(set, order, x)) = n - 1
<1> DEFINE N == Cardinality(set)
           f == [x \in set |-> Cardinality(Earlier(set, order, x)) + 1]
<1>1. N \in Nat
  BY FS_CardinalityType
<1>2. ASSUME NEW x \in set
      PROVE  /\ IsFiniteSet(Earlier(set, order, x))
             /\ Cardinality(Earlier(set, order, x)) \in Nat
             /\ Cardinality(Earlier(set, order, x)) < N
  <2>1. Earlier(set, order, x) \in SUBSET set /\ x \notin Earlier(set, order, x)
    BY DEF Earlier, IsOrder
  <2>2. /\ IsFiniteSet(Earlier(set, order, x))
        /\ Cardinality(Earlier(set, order, x)) <= N
        /\ Cardinality(set) = Cardinality(Earlier(set, order, x)) => set = Earlier(set, order, x)
    BY <2>1, FS_Subset
  <2>3. Cardinality(Earlier(set, order, x)) \in Nat
    BY <2>2, FS_CardinalityType
  <2> QED BY <1>1, <2>1, <2>2, <2>3
<1>3. ASSUME NEW x \in set, NEW y \in set, <<x, y>> \in order
      PROVE  Cardinality(Earlier(set, order, x)) < Cardinality(Earlier(set, order, y))
  <2>1. Earlier(set, order, x) \in SUBSET Earlier(set, order, y)
    BY <1>3 DEF Earlier, IsOrder
  <2>2. x \in Earlier(set, order, y) /\ x \notin Earlier(set, order, x)
    BY <1>3 DEF Earlier, IsOrder
  <2>3. /\ Cardinality(Earlier(set, order, x)) <= Cardinality(Earlier(set, order, y))
        /\ Cardinality(Earlier(set, order, y)) = Cardinality(Earlier(set, order, x)) =>
              Earlier(set, order, y) = Earlier(set, order, x)
    BY <1>2, <2>1, FS_Subset
  <2> QED BY <1>2, <2>2, <2>3
<1>4. f \in [set -> 1..N]
  BY <1>1, <1>2
<1>5. ASSUME NEW x \in set, NEW y \in set, f[x] = f[y] PROVE x = y
  <2> SUFFICES ASSUME x # y PROVE FALSE
    OBVIOUS
  <2>1. <<x, y>> \in order \/ <<y, x>> \in order
    BY DEF IsOrder
  <2>2. f[x] < f[y] \/ f[y] < f[x]
    BY <1>2, <1>3, <2>1
  <2>3. f[x] \in Int /\ f[y] \in Int
    BY <1>4
  <2> QED BY <1>5, <2>2, <2>3
<1> HIDE DEF f, N
<1>6. f \in Injection(set, 1..N)
  BY <1>4, <1>5 DEF Injection, IsInjective
<1>7. IsFiniteSet(1..N) /\ Cardinality(1..N) = N
  BY <1>1, FS_Interval
<1>8. Cardinality(set) = Cardinality(1..N)
  BY <1>7 DEF N
<1>9. f \in Surjection(set, 1..N)
  BY <1>6, <1>7, <1>8, FS_Injection
<1>10. ASSUME NEW n \in 1..N PROVE \E x \in set : f[x] = n
  BY <1>9 DEF Surjection
<1>11. ASSUME NEW n \in 1..N
       PROVE \E x \in set : Cardinality(Earlier(set, order, x)) = n - 1
  <2>1. PICK x \in set : f[x] = n
    BY <1>10
  <2>2. f[x] = Cardinality(Earlier(set, order, x)) + 1
    BY DEF f
  <2> QED BY <1>2, <2>1, <2>2
<1> QED BY <1>11 DEF N

LEMMA NthIs ==
  ASSUME NEW set, IsFiniteSet(set), NEW order, IsOrder(set, order), NEW n \in 1..Cardinality(set)
  PROVE  /\ Nth(set, order, n) \in set
         /\ Cardinality(Earlier(set, order, Nth(set, order, n))) = n - 1
<1>1. \E x \in set : Cardinality(Earlier(set, order, x)) = n - 1
  BY Counted
<1> QED BY <1>1 DEF Nth

LEMMA EarlierIsLess ==
  ASSUME NEW set, IsFiniteSet(set), NEW order, IsOrder(set, order),
         NEW x \in set, NEW y \in set, <<x, y>> \in order
  PROVE  Cardinality(Earlier(set, order, x)) < Cardinality(Earlier(set, order, y))
<1>1. Earlier(set, order, x) \in SUBSET Earlier(set, order, y) /\ Earlier(set, order, y) \in SUBSET set
  BY DEF Earlier, IsOrder
<1>2. x \in Earlier(set, order, y) /\ x \notin Earlier(set, order, x)
  BY DEF Earlier, IsOrder
<1>3. IsFiniteSet(Earlier(set, order, x)) /\ IsFiniteSet(Earlier(set, order, y))
  BY <1>1, FS_Subset
<1>4. Cardinality(Earlier(set, order, x)) \in Nat /\ Cardinality(Earlier(set, order, y)) \in Nat
  BY <1>3, FS_CardinalityType
<1>5. /\ Cardinality(Earlier(set, order, x)) <= Cardinality(Earlier(set, order, y))
      /\ Cardinality(Earlier(set, order, y)) = Cardinality(Earlier(set, order, x)) =>
            Earlier(set, order, y) = Earlier(set, order, x)
  BY <1>1, <1>3, FS_Subset
<1> QED BY <1>2, <1>4, <1>5

LEMMA SamePlace ==
  ASSUME NEW set, IsFiniteSet(set), NEW order, IsOrder(set, order), NEW x \in set, NEW y \in set,
         Cardinality(Earlier(set, order, x)) = Cardinality(Earlier(set, order, y))
  PROVE  x = y
<1> SUFFICES ASSUME x # y PROVE FALSE
  OBVIOUS
<1>1. <<x, y>> \in order \/ <<y, x>> \in order
  BY DEF IsOrder
<1>2. /\ Earlier(set, order, x) \in SUBSET set /\ IsFiniteSet(Earlier(set, order, x))
      /\ Cardinality(Earlier(set, order, x)) \in Nat
  BY FS_Subset, FS_CardinalityType DEF Earlier
<1>3. Cardinality(Earlier(set, order, x)) # Cardinality(Earlier(set, order, y))
  BY <1>1, <1>2, EarlierIsLess
<1> QED BY <1>3

\* How a list is put together, one after the other.
ListStep(f, set, order, n) == IF n = 0 THEN <<>> ELSE Append(f[n - 1], Nth(set, order, n))

\* The list as a function of the places.
LEMMA ListedIs ==
  ASSUME NEW set, NEW order, IsFiniteSet(set), IsOrder(set, order)
  PROVE  \E f : /\ \A n \in 0..Cardinality(set) : f[n] = ListStep(f, set, order, n)
                /\ Listed(set, order) = f[Cardinality(set)]
<1> DEFINE N == Cardinality(set)
           f[n \in 0..N] == IF n = 0 THEN <<>>
                            ELSE Append(f[n - 1], CHOOSE x \in set : Cardinality({y \in set : <<y, x>> \in order}) = n - 1)
           g == [n \in 0..N |-> [i \in 1..n |-> Nth(set, order, i)]]
<1>0. N \in Nat
  BY FS_CardinalityType
<1>1. Listed(set, order) = f[N]
  BY DEF Listed
<1>2. ASSUME NEW n \in 0..N PROVE g[n] = ListStep(g, set, order, n)
  <2>1. CASE n = 0
    BY <2>1 DEF ListStep
  <2>2. CASE n # 0
    <3>1. n - 1 \in 0..N /\ n \in Nat
      BY <1>0, <2>2
    <3>2. g[n - 1] = [i \in 1..(n - 1) |-> Nth(set, order, i)] /\ g[n] = [i \in 1..n |-> Nth(set, order, i)]
      BY <3>1
    <3>3. ASSUME NEW i \in 1..n PROVE Nth(set, order, i) \in set
      BY <1>0, NthIs
    <3>4. [i \in 1..(n - 1) |-> Nth(set, order, i)] \in Seq(set)
      BY <2>2, <3>1, <3>3
    <3>5. Append([i \in 1..(n - 1) |-> Nth(set, order, i)], Nth(set, order, n)) = [i \in 1..n |-> Nth(set, order, i)]
      BY <2>2, <3>1, <3>4
    <3> QED BY <2>2, <3>2, <3>5 DEF ListStep
  <2> QED BY <2>1, <2>2
<1>3. g = [n \in 0..N |-> g[n]]
  OBVIOUS
<1>4. g = [n \in 0..N |-> ListStep(g, set, order, n)]
  BY <1>2, <1>3
<1> HIDE DEF g
<1>5. g = [n \in 0..N |-> IF n = 0 THEN <<>>
                          ELSE Append(g[n - 1], CHOOSE x \in set : Cardinality({y \in set : <<y, x>> \in order}) = n - 1)]
  BY <1>4, Zenon DEF ListStep, Nth, Earlier
<1>6. f = [n \in 0..N |-> IF n = 0 THEN <<>>
                          ELSE Append(f[n - 1], CHOOSE x \in set : Cardinality({y \in set : <<y, x>> \in order}) = n - 1)]
  BY <1>5, Zenon
<1> HIDE DEF f
<1>7. f = [n \in 0..N |-> ListStep(f, set, order, n)]
  BY <1>6, Zenon DEF ListStep, Nth, Earlier
<1>8. \A n \in 0..N : f[n] = ListStep(f, set, order, n)
  BY <1>7
<1> QED BY <1>1, <1>8

\* Listed gives the members of a finite set, each once, in their order.
LEMMA ListedProperties ==
  ASSUME NEW set, NEW order, IsFiniteSet(set), IsOrder(set, order)
  PROVE  /\ Listed(set, order) \in Seq(set)
         /\ Len(Listed(set, order)) = Cardinality(set)
         /\ Range(Listed(set, order)) = set
         /\ \A i, j \in DOMAIN Listed(set, order) :
               i < j => <<Listed(set, order)[i], Listed(set, order)[j]>> \in order
<1> DEFINE N == Cardinality(set)
<1>0. N \in Nat
  BY FS_CardinalityType
<1>1. PICK f : /\ \A n \in 0..N : f[n] = ListStep(f, set, order, n)
               /\ Listed(set, order) = f[N]
  BY ListedIs
<1> DEFINE Upto == {n \in Nat : n <= N => f[n] = [i \in 1..n |-> Nth(set, order, i)]}
<1>2. 0 \in Upto
  BY <1>0, <1>1 DEF ListStep
<1>3. ASSUME NEW n \in Nat, n \in Upto PROVE n + 1 \in Upto
  <2> SUFFICES ASSUME n + 1 <= N PROVE f[n + 1] = [i \in 1..(n + 1) |-> Nth(set, order, i)]
    OBVIOUS
  <2>1. n + 1 \in 0..N /\ n + 1 # 0 /\ (n + 1) - 1 = n /\ n <= N
    BY <1>0
  <2>2. f[n + 1] = Append(f[n], Nth(set, order, n + 1))
    BY <1>1, <2>1 DEF ListStep
  <2>3. f[n] = [i \in 1..n |-> Nth(set, order, i)]
    BY <1>3, <2>1
  <2>4. ASSUME NEW i \in 1..(n + 1) PROVE Nth(set, order, i) \in set
    BY <1>0, <2>1, NthIs
  <2>5. [i \in 1..n |-> Nth(set, order, i)] \in Seq(set)
    BY <2>4
  <2>6. Append([i \in 1..n |-> Nth(set, order, i)], Nth(set, order, n + 1)) =
           [i \in 1..(n + 1) |-> Nth(set, order, i)]
    BY <2>4, <2>5
  <2> QED BY <2>2, <2>3, <2>6
<1> HIDE DEF Upto
<1>4. N \in Upto
  BY <1>0, <1>2, <1>3, InductionOverNat
<1>5. Listed(set, order) = [i \in 1..N |-> Nth(set, order, i)]
  BY <1>0, <1>1, <1>4 DEF Upto
<1>6. ASSUME NEW i \in 1..N
      PROVE  Nth(set, order, i) \in set /\ Cardinality(Earlier(set, order, Nth(set, order, i))) = i - 1
  BY NthIs
<1>7. /\ Listed(set, order) \in Seq(set)
      /\ Len(Listed(set, order)) = N
      /\ DOMAIN Listed(set, order) = 1..N
      /\ \A i \in 1..N : Listed(set, order)[i] = Nth(set, order, i)
  BY <1>0, <1>5, <1>6
<1>8. ASSUME NEW x \in set PROVE \E i \in 1..N : Nth(set, order, i) = x
  <2>1. Earlier(set, order, x) \in SUBSET set /\ x \notin Earlier(set, order, x)
    BY DEF Earlier, IsOrder
  <2>2. IsFiniteSet(Earlier(set, order, x)) /\ Cardinality(Earlier(set, order, x)) \in Nat
        /\ Cardinality(Earlier(set, order, x)) <= N
        /\ (Cardinality(set) = Cardinality(Earlier(set, order, x)) => set = Earlier(set, order, x))
    BY <2>1, FS_Subset, FS_CardinalityType
  <2> DEFINE n == Cardinality(Earlier(set, order, x)) + 1
  <2>3. n \in 1..N
    BY <1>0, <2>1, <2>2
  <2>4. /\ Nth(set, order, n) \in set
        /\ Cardinality(Earlier(set, order, Nth(set, order, n))) = Cardinality(Earlier(set, order, x))
    BY <1>6, <2>2, <2>3
  <2>5. Nth(set, order, n) = x
    BY <2>4, SamePlace
  <2> QED BY <2>3, <2>5
<1>9. Range(Listed(set, order)) = set
  <2>1. Range(Listed(set, order)) \subseteq set
    BY <1>6, <1>7 DEF Range
  <2>2. ASSUME NEW x \in set PROVE x \in Range(Listed(set, order))
    BY <1>7, <1>8 DEF Range
  <2> QED BY <2>1, <2>2
<1>10. ASSUME NEW i \in 1..N, NEW j \in 1..N, i < j
       PROVE  <<Nth(set, order, i), Nth(set, order, j)>> \in order
  <2>1. Nth(set, order, i) # Nth(set, order, j)
    BY <1>6, <1>10
  <2>2. CASE <<Nth(set, order, j), Nth(set, order, i)>> \in order
    <3>1. Cardinality(Earlier(set, order, Nth(set, order, j))) < Cardinality(Earlier(set, order, Nth(set, order, i)))
      BY <1>6, <2>2, EarlierIsLess
    <3> QED BY <1>6, <1>10, <3>1
  <2> QED BY <1>6, <2>1, <2>2 DEF IsOrder
<1> QED BY <1>7, <1>9, <1>10

-----------------------------------------------------------------------------
(* Picked, Kept                                                            *)

\* What is before what in one sequence is so in another.
InOrder(t, s) ==
    \A i, j \in DOMAIN t : i < j => \E p, q \in DOMAIN s : p < q /\ s[p] = t[i] /\ s[q] = t[j]

PickStep(f, s, places, n) ==
    IF n = 0 THEN <<>> ELSE IF n \in places THEN Append(f[n - 1], s[n]) ELSE f[n - 1]

\* The places up to n, one by one.
LEMMA PicksExist ==
  ASSUME NEW s, NEW places, NEW m \in Nat
  PROVE  \E f : f = [n \in 0..m |-> PickStep(f, s, places, n)]
<1> DEFINE S == {k \in Nat : \E f : f = [n \in 0..k |-> PickStep(f, s, places, n)]}
<1>1. 0 \in S
  <2> DEFINE f == [n \in 0..0 |-> <<>>]
  <2>1. f = [n \in 0..0 |-> PickStep(f, s, places, n)]
    BY DEF PickStep
  <2> QED BY <2>1
<1>2. ASSUME NEW k \in Nat, k \in S PROVE k + 1 \in S
  <2>1. PICK f : f = [n \in 0..k |-> PickStep(f, s, places, n)]
    BY <1>2
  <2> DEFINE last == IF k + 1 \in places THEN Append(f[k], s[k + 1]) ELSE f[k]
             g == [n \in 0..(k + 1) |-> IF n = k + 1 THEN last ELSE f[n]]
  <2>2. ASSUME NEW n \in 0..(k + 1) PROVE g[n] = PickStep(g, s, places, n)
    <3>1. CASE n = k + 1
      <4>1. k \in 0..(k + 1) /\ k # k + 1 /\ n - 1 = k /\ n # 0
        BY <3>1
      <4>2. g[k] = f[k] /\ g[n] = last
        BY <3>1, <4>1
      <4> QED BY <3>1, <4>1, <4>2 DEF PickStep
    <3>2. CASE n # k + 1
      <4>1. n \in 0..k /\ g[n] = f[n]
        BY <3>2
      <4>2. f[n] = PickStep(f, s, places, n)
        BY <2>1, <4>1
      <4>3. n # 0 => g[n - 1] = f[n - 1]
        BY <4>1
      <4> QED BY <4>1, <4>2, <4>3 DEF PickStep
    <3> QED BY <3>1, <3>2
  <2>3. g = [n \in 0..(k + 1) |-> g[n]]
    OBVIOUS
  <2> HIDE DEF g
  <2>4. g = [n \in 0..(k + 1) |-> PickStep(g, s, places, n)]
    BY <2>2, <2>3
  <2> QED BY <2>4
<1> HIDE DEF S
<1>3. m \in S
  BY <1>1, <1>2, InductionOverNat
<1> QED BY <1>3 DEF S

\* A pick of all places is the one up to the last.
LEMMA PickedIs ==
  ASSUME NEW s, NEW places, Len(s) \in Nat
  PROVE  \E f : /\ \A n \in 0..Len(s) : f[n] = PickStep(f, s, places, n)
                /\ Picked(s, places) = f[Len(s)]
<1> DEFINE f[n \in 0..Len(s)] ==
             IF n = 0 THEN <<>> ELSE IF n \in places THEN Append(f[n - 1], s[n]) ELSE f[n - 1]
<1>1. Picked(s, places) = f[Len(s)]
  BY DEF Picked
<1>2. PICK g : g = [n \in 0..Len(s) |-> PickStep(g, s, places, n)]
  BY PicksExist
<1>3. g = [n \in 0..Len(s) |-> IF n = 0 THEN <<>> ELSE IF n \in places THEN Append(g[n - 1], s[n]) ELSE g[n - 1]]
  BY <1>2, Zenon DEF PickStep
<1>4. f = [n \in 0..Len(s) |-> IF n = 0 THEN <<>> ELSE IF n \in places THEN Append(f[n - 1], s[n]) ELSE f[n - 1]]
  BY <1>3, Zenon
<1> HIDE DEF f
<1>5. f = [n \in 0..Len(s) |-> PickStep(f, s, places, n)]
  BY <1>4, Zenon DEF PickStep
<1>6. \A n \in 0..Len(s) : f[n] = PickStep(f, s, places, n)
  BY <1>5
<1> QED BY <1>1, <1>6

\* What is picked from the first n places.
PickedUpto(r, T, s, places, n) ==
    /\ r \in Seq(T)
    /\ \A i \in 1..Len(r) : \E p \in 1..n : p \in places /\ r[i] = s[p]
    /\ \A p \in 1..n : p \in places => \E i \in 1..Len(r) : r[i] = s[p]
    /\ \A i, j \in 1..Len(r) : i < j => \E p, q \in 1..n : p < q /\ s[p] = r[i] /\ s[q] = r[j]

\* All the items at the places, and nothing else.
LEMMA PickedProperties ==
  ASSUME NEW T, NEW s \in Seq(T), NEW places
  PROVE  PickedUpto(Picked(s, places), T, s, places, Len(s))
<1>0. Len(s) \in Nat
  OBVIOUS
<1>1. PICK f : /\ \A n \in 0..Len(s) : f[n] = PickStep(f, s, places, n)
               /\ Picked(s, places) = f[Len(s)]
  BY <1>0, PickedIs
<1> DEFINE S == {n \in Nat : n <= Len(s) => PickedUpto(f[n], T, s, places, n)}
<1>2. 0 \in S
  <2>1. f[0] = <<>>
    BY <1>0, <1>1 DEF PickStep
  <2>2. PickedUpto(<<>>, T, s, places, 0)
    BY DEF PickedUpto
  <2> QED BY <2>1, <2>2
<1>3. ASSUME NEW n \in Nat, n \in S PROVE n + 1 \in S
  <2> SUFFICES ASSUME n + 1 <= Len(s) PROVE PickedUpto(f[n + 1], T, s, places, n + 1)
    OBVIOUS
  <2> DEFINE m == n + 1
             r == f[n]
             t == f[m]
  <2>1. m \in 0..Len(s) /\ m # 0 /\ m - 1 = n /\ m \in 1..Len(s)
    BY <1>0
  <2>2. t = IF m \in places THEN Append(r, s[m]) ELSE r
    BY <1>1, <2>1 DEF PickStep
  <2>3. PickedUpto(r, T, s, places, n)
    BY <1>3, <1>0
  <2>4. s[m] \in T
    BY <2>1
  <2>5. 1..n \subseteq 1..m /\ m \in 1..m /\ \A p \in 1..m : p = m \/ p \in 1..n
    OBVIOUS
  <2> SUFFICES PickedUpto(t, T, s, places, m)
    OBVIOUS
  <2> HIDE DEF m, r, t
  <2>6. CASE m \notin places
    <3>1. t = r
      BY <2>2, <2>6
    <3>2. ASSUME NEW i \in 1..Len(r) PROVE \E p \in 1..m : p \in places /\ r[i] = s[p]
      <4>1. PICK p \in 1..n : p \in places /\ r[i] = s[p]
        BY <2>3 DEF PickedUpto
      <4> QED BY <2>5, <4>1
    <3>3. ASSUME NEW p \in 1..m, p \in places PROVE \E i \in 1..Len(r) : r[i] = s[p]
      <4>1. p \in 1..n
        BY <2>5, <2>6, <3>3
      <4> QED BY <2>3, <3>3, <4>1 DEF PickedUpto
    <3>4. ASSUME NEW i \in 1..Len(r), NEW j \in 1..Len(r), i < j
          PROVE  \E p, q \in 1..m : p < q /\ s[p] = r[i] /\ s[q] = r[j]
      <4>1. PICK p \in 1..n, q \in 1..n : p < q /\ s[p] = r[i] /\ s[q] = r[j]
        BY <2>3, <3>4 DEF PickedUpto
      <4> QED BY <2>5, <4>1
    <3>5. r \in Seq(T)
      BY <2>3 DEF PickedUpto
    <3>6. PickedUpto(r, T, s, places, m)
      BY <3>2, <3>3, <3>4, <3>5, Zenon DEF PickedUpto
    <3> QED BY <3>1, <3>6
  <2>7. CASE m \in places
    <3>1. t = Append(r, s[m]) /\ r \in Seq(T)
      BY <2>2, <2>3, <2>7 DEF PickedUpto
    <3>2. /\ t \in Seq(T) /\ Len(r) \in Nat /\ Len(t) = Len(r) + 1 /\ t[Len(r) + 1] = s[m]
          /\ \A i \in 1..Len(r) : t[i] = r[i]
      BY <2>4, <3>1
    <3>3. \A i \in 1..Len(t) : i = Len(r) + 1 \/ i \in 1..Len(r)
      BY <3>2
    <3>4. ASSUME NEW i \in 1..Len(t) PROVE \E p \in 1..m : p \in places /\ t[i] = s[p]
      <4>1. CASE i = Len(r) + 1
        BY <2>5, <2>7, <3>2, <4>1
      <4>2. CASE i \in 1..Len(r)
        <5>1. PICK p \in 1..n : p \in places /\ r[i] = s[p]
          BY <2>3, <4>2 DEF PickedUpto
        <5>2. p \in 1..m /\ t[i] = s[p]
          BY <2>5, <3>2, <4>2, <5>1
        <5> QED BY <5>1, <5>2
      <4>3. i = Len(r) + 1 \/ i \in 1..Len(r)
        BY <3>3
      <4> QED BY <4>1, <4>2, <4>3
    <3>5. ASSUME NEW p \in 1..m, p \in places PROVE \E i \in 1..Len(t) : t[i] = s[p]
      <4>1. CASE p = m
        <5>1. Len(r) + 1 \in 1..Len(t)
          BY <3>2
        <5> QED BY <3>2, <4>1, <5>1
      <4>2. CASE p \in 1..n
        <5>1. PICK i \in 1..Len(r) : r[i] = s[p]
          BY <2>3, <3>5, <4>2 DEF PickedUpto
        <5>2. i \in 1..Len(t)
          BY <3>2
        <5> QED BY <3>2, <5>1, <5>2
      <4> QED BY <2>5, <4>1, <4>2
    <3>6. ASSUME NEW i \in 1..Len(t), NEW j \in 1..Len(t), i < j
          PROVE  \E p, q \in 1..m : p < q /\ s[p] = t[i] /\ s[q] = t[j]
      <4>1. i \in 1..Len(r)
        BY <3>2, <3>6
      <4>2. CASE j \in 1..Len(r)
        <5>1. PICK p \in 1..n, q \in 1..n : p < q /\ s[p] = r[i] /\ s[q] = r[j]
          BY <2>3, <3>6, <4>1, <4>2 DEF PickedUpto
        <5> QED BY <2>5, <3>2, <4>1, <4>2, <5>1
      <4>3. CASE j = Len(r) + 1
        <5>1. PICK p \in 1..n : r[i] = s[p]
          BY <2>3, <4>1 DEF PickedUpto
        <5>2. p < m /\ p \in 1..m
          BY DEF m
        <5> QED BY <2>5, <3>2, <4>1, <4>3, <5>1, <5>2
      <4>4. j = Len(r) + 1 \/ j \in 1..Len(r)
        BY <3>3
      <4> QED BY <4>2, <4>3, <4>4
    <3> QED BY <3>2, <3>4, <3>5, <3>6, Zenon DEF PickedUpto
  <2> QED BY <2>6, <2>7
<1> HIDE DEF S
<1>4. Len(s) \in S
  BY <1>0, <1>2, <1>3, InductionOverNat
<1> QED BY <1>0, <1>1, <1>4 DEF S

\* They come as they came.
LEMMA PickedIsInOrder ==
  ASSUME NEW T, NEW s \in Seq(T), NEW places
  PROVE  /\ Picked(s, places) \in Seq(T)
         /\ Range(Picked(s, places)) \subseteq Range(s)
         /\ InOrder(Picked(s, places), s)
<1> DEFINE r == Picked(s, places)
<1>1. PickedUpto(r, T, s, places, Len(s))
  BY PickedProperties
<1> HIDE DEF r
<1>2. r \in Seq(T) /\ DOMAIN s = 1..Len(s)
  BY <1>1 DEF PickedUpto
<1>3. DOMAIN r = 1..Len(r)
  BY <1>2
<1>4. ASSUME NEW x \in Range(r) PROVE x \in Range(s)
  <2>1. PICK i \in 1..Len(r) : x = r[i]
    BY <1>3 DEF Range
  <2>2. PICK p \in 1..Len(s) : r[i] = s[p]
    BY <1>1 DEF PickedUpto
  <2> QED BY <1>2, <2>1, <2>2 DEF Range
<1>5. InOrder(r, s)
  <2>1. \A i, j \in 1..Len(r) : i < j => \E p, q \in 1..Len(s) : p < q /\ s[p] = r[i] /\ s[q] = r[j]
    BY <1>1, Zenon DEF PickedUpto
  <2>2. ASSUME NEW i \in DOMAIN r, NEW j \in DOMAIN r, i < j
        PROVE  \E p, q \in DOMAIN s : p < q /\ s[p] = r[i] /\ s[q] = r[j]
    <3>1. i \in 1..Len(r) /\ j \in 1..Len(r)
      BY <1>3
    <3>2. PICK p \in 1..Len(s), q \in 1..Len(s) : p < q /\ s[p] = r[i] /\ s[q] = r[j]
      BY <2>1, <2>2, <3>1
    <3> QED BY <1>2, <3>2
  <2> QED BY <2>2 DEF InOrder
<1> QED BY <1>2, <1>4, <1>5 DEF r

\* All the items in the set, and nothing else, as they came.
LEMMA KeptProperties ==
  ASSUME NEW T, NEW s \in Seq(T), NEW set
  PROVE  /\ Kept(s, set) \in Seq(T)
         /\ Range(Kept(s, set)) = Range(s) \intersect set
         /\ InOrder(Kept(s, set), s)
<1> DEFINE places == {i \in DOMAIN s : s[i] \in set}
           r == Picked(s, places)
<1>1. Kept(s, set) = r
  BY DEF Kept
<1>2. PickedUpto(r, T, s, places, Len(s)) /\ InOrder(r, s)
  BY PickedProperties, PickedIsInOrder
<1>3. r \in Seq(T) /\ DOMAIN s = 1..Len(s)
  BY <1>2 DEF PickedUpto
<1>4. DOMAIN r = 1..Len(r)
  BY <1>3
<1>5. \A i \in 1..Len(r) : r[i] \in Range(s) \intersect set
  BY <1>2, <1>3 DEF PickedUpto, Range
<1>6. ASSUME NEW x \in Range(s) \intersect set PROVE x \in Range(r)
  <2>1. PICK p \in DOMAIN s : x = s[p]
    BY DEF Range
  <2>2. p \in 1..Len(s) /\ p \in places
    BY <1>3, <2>1
  <2>3. PICK i \in 1..Len(r) : r[i] = s[p]
    BY <1>2, <2>2 DEF PickedUpto
  <2> QED BY <1>4, <2>1, <2>3 DEF Range
<1> HIDE DEF r
<1>7. Range(r) = Range(s) \intersect set
  BY <1>4, <1>5, <1>6 DEF Range
<1> QED BY <1>1, <1>2, <1>3, <1>7

-----------------------------------------------------------------------------
(* Lists sorted by keys                                                    *)

LEMMA LeastInt ==
  ASSUME NEW S, S \subseteq Nat, S # {}
  PROVE  Min(S) \in S /\ \A y \in S : Min(S) <= y
BY LeastNat DEF Min

LEMMA MinOfTwo ==
  ASSUME NEW a \in Int, NEW b \in Int
  PROVE  Min({a, b}) = IF a <= b THEN a ELSE b
<1>1. \E x \in {a, b} : \A y \in {a, b} : x <= y
  OBVIOUS
<1>2. Min({a, b}) \in {a, b} /\ \A y \in {a, b} : Min({a, b}) <= y
  BY <1>1 DEF Min
<1> QED BY <1>2

\* The places of a sequence, by keys of integers and then as they were.
LEMMA KeyOrderIsOrder ==
  ASSUME NEW w \in Nat, NEW keys \in Seq(Keys(w))
  PROVE  IsOrder(DOMAIN keys, KeyOrder(keys))
<1> DEFINE D == DOMAIN keys
           order == KeyOrder(keys)
<1>1. \A x \in D : x \in Nat /\ keys[x] \in Keys(w)
  OBVIOUS
<1>2. \A x, y \in D : <<x, y>> \in order <=> Less(keys[x], keys[y]) \/ (keys[x] = keys[y] /\ x < y)
  BY DEF KeyOrder
<1> HIDE DEF D, order
<1>3. ASSUME NEW x \in D PROVE <<x, x>> \notin order
  <2>1. ~Less(keys[x], keys[x]) /\ ~(x < x)
    BY <1>1, LessIsStrict
  <2> QED BY <1>2, <2>1
<1>4. ASSUME NEW x \in D, NEW y \in D, NEW z \in D, <<x, y>> \in order, <<y, z>> \in order
      PROVE  <<x, z>> \in order
  <2>1. Less(keys[x], keys[y]) \/ (keys[x] = keys[y] /\ x < y)
    BY <1>2, <1>4
  <2>2. Less(keys[y], keys[z]) \/ (keys[y] = keys[z] /\ y < z)
    BY <1>2, <1>4
  <2>3. Less(keys[x], keys[y]) /\ Less(keys[y], keys[z]) => Less(keys[x], keys[z])
    BY <1>1, LessIsTransitive
  <2>4. x < y /\ y < z => x < z
    BY <1>1
  <2>5. Less(keys[x], keys[z]) \/ (keys[x] = keys[z] /\ x < z)
    BY <2>1, <2>2, <2>3, <2>4
  <2> QED BY <1>2, <2>5
<1>5. ASSUME NEW x \in D, NEW y \in D, x # y
      PROVE  <<x, y>> \in order \/ <<y, x>> \in order
  <2>1. keys[x] # keys[y] => Less(keys[x], keys[y]) \/ Less(keys[y], keys[x])
    BY <1>1, LessIsTotal
  <2>2. x < y \/ y < x
    BY <1>1, <1>5
  <2> QED BY <1>2, <2>1, <2>2
<1>6. IsOrder(D, order)
  BY <1>3, <1>4, <1>5 DEF IsOrder
<1> QED BY <1>6 DEF D, order

\* Ordered rearranges a sequence, and the first parts of the keys ascend.
LEMMA OrderedProperties ==
  ASSUME NEW T, NEW s \in Seq(T), NEW w \in Nat, w >= 1, NEW keys \in Seq(Keys(w)), Len(keys) = Len(s)
  PROVE  /\ Ordered(s, keys) \in Seq(T)
         /\ Len(Ordered(s, keys)) = Len(s)
         /\ Range(Ordered(s, keys)) = Range(s)
         /\ \A i, j \in 1..Len(s) : i < j =>
               \E p, q \in 1..Len(s) : /\ Ordered(s, keys)[i] = s[p] /\ Ordered(s, keys)[j] = s[q]
                                       /\ keys[p][1] <= keys[q][1]
<1> DEFINE D == DOMAIN keys
           order == KeyOrder(keys)
           list == Listed(D, order)
           r == Ordered(s, keys)
<1>1. D = 1..Len(s) /\ DOMAIN s = 1..Len(s) /\ Len(s) \in Nat
  OBVIOUS
<1>2. IsFiniteSet(D) /\ Cardinality(D) = Len(s)
  <2>1. ASSUME NEW n \in Nat PROVE IsFiniteSet(1..n) /\ Cardinality(1..n) = n
    <3>1. 1 \in Int /\ n \in Int
      OBVIOUS
    <3>2. IsFiniteSet(1..n) /\ Cardinality(1..n) = IF 1 > n THEN 0 ELSE n - 1 + 1
      BY <3>1, FS_Interval, Zenon
    <3> QED BY <3>2
  <2> QED BY <1>1, <2>1, Zenon
<1>3. IsOrder(D, order)
  BY KeyOrderIsOrder
<1>4. \A x, y \in D : <<x, y>> \in order => Less(keys[x], keys[y]) \/ keys[x] = keys[y]
  BY DEF KeyOrder
<1> HIDE DEF order
<1>5. /\ list \in Seq(D)
      /\ Len(list) = Len(s)
      /\ Range(list) = D
      /\ \A i, j \in DOMAIN list : i < j => <<list[i], list[j]>> \in order
  BY <1>2, <1>3, ListedProperties
<1>6. r = [n \in DOMAIN list |-> s[list[n]]]
  BY DEF Ordered, At, order
<1> HIDE DEF list, r, D
<1>7. DOMAIN list = 1..Len(s) /\ \A n \in 1..Len(s) : list[n] \in 1..Len(s)
  BY <1>1, <1>5
<1>8. r = [n \in 1..Len(s) |-> s[list[n]]]
  BY <1>6, <1>7
<1>9. \A n \in 1..Len(s) : s[list[n]] \in T
  BY <1>1, <1>7
<1>10. r \in Seq(T) /\ Len(r) = Len(s) /\ DOMAIN r = 1..Len(s) /\ \A n \in 1..Len(s) : r[n] = s[list[n]]
  BY <1>1, <1>8, <1>9
<1>11. Range(r) = Range(s)
  <2>1. ASSUME NEW x \in Range(r) PROVE x \in Range(s)
    <3>1. PICK n \in 1..Len(s) : x = r[n]
      BY <1>10 DEF Range
    <3>2. x = s[list[n]] /\ list[n] \in DOMAIN s
      BY <1>1, <1>7, <1>10, <3>1
    <3> QED BY <3>2 DEF Range
  <2>2. ASSUME NEW x \in Range(s) PROVE x \in Range(r)
    <3>1. PICK p \in 1..Len(s) : x = s[p]
      BY <1>1 DEF Range
    <3>2. p \in Range(list)
      BY <1>1, <1>5
    <3>3. PICK n \in 1..Len(s) : p = list[n]
      BY <1>7, <3>2 DEF Range
    <3>4. x = r[n] /\ n \in DOMAIN r
      BY <1>10, <3>1, <3>3
    <3> QED BY <3>4 DEF Range
  <2> QED BY <2>1, <2>2
<1>12. ASSUME NEW i \in 1..Len(s), NEW j \in 1..Len(s), i < j
       PROVE  \E p, q \in 1..Len(s) : r[i] = s[p] /\ r[j] = s[q] /\ keys[p][1] <= keys[q][1]
  <2>1. list[i] \in 1..Len(s) /\ list[j] \in 1..Len(s)
    BY <1>7
  <2>2. <<list[i], list[j]>> \in order
    BY <1>5, <1>7, <1>12
  <2>3. Less(keys[list[i]], keys[list[j]]) \/ keys[list[i]] = keys[list[j]]
    BY <1>1, <1>4, <2>1, <2>2
  <2>4. keys[list[i]] \in Keys(w) /\ keys[list[j]] \in Keys(w)
    BY <1>1, <2>1
  <2>5. keys[list[i]][1] \in Int /\ keys[list[j]][1] \in Int
    <3>1. 1 \in 1..w
      OBVIOUS
    <3> QED BY <2>4, <3>1 DEF Keys
  <2>6. keys[list[i]][1] <= keys[list[j]][1]
    BY <2>3, <2>4, <2>5, LessStartsSo
  <2> QED BY <1>10, <2>1, <2>6
<1> QED BY <1>10, <1>11, <1>12 DEF r

-----------------------------------------------------------------------------
(* FlattenSeq                                                              *)

FlatStep(f, seqs, n) == IF n = 1 THEN seqs[n] ELSE f[n - 1] \o seqs[n]

\* The lists so far, one after the other.
LEMMA FlatsExist ==
  ASSUME NEW seqs, NEW m \in Nat
  PROVE  \E f : f = [n \in 1..m |-> FlatStep(f, seqs, n)]
<1> DEFINE S == {k \in Nat : \E f : f = [n \in 1..k |-> FlatStep(f, seqs, n)]}
<1>1. 0 \in S
  <2> DEFINE f == [n \in 1..0 |-> <<>>]
  <2>1. f = [n \in 1..0 |-> FlatStep(f, seqs, n)]
    OBVIOUS
  <2> QED BY <2>1
<1>2. ASSUME NEW k \in Nat, k \in S PROVE k + 1 \in S
  <2>1. PICK f : f = [n \in 1..k |-> FlatStep(f, seqs, n)]
    BY <1>2
  <2> DEFINE last == IF k + 1 = 1 THEN seqs[k + 1] ELSE f[k] \o seqs[k + 1]
             g == [n \in 1..(k + 1) |-> IF n = k + 1 THEN last ELSE f[n]]
  <2>2. ASSUME NEW n \in 1..(k + 1) PROVE g[n] = FlatStep(g, seqs, n)
    <3>1. CASE n = k + 1
      <4>1. n - 1 = k /\ g[n] = last /\ (n # 1 => k \in 1..(k + 1) /\ k # k + 1)
        BY <3>1
      <4>2. n # 1 => g[k] = f[k]
        BY <4>1
      <4> QED BY <3>1, <4>1, <4>2 DEF FlatStep
    <3>2. CASE n # k + 1
      <4>1. n \in 1..k /\ g[n] = f[n]
        BY <3>2
      <4>2. f[n] = FlatStep(f, seqs, n)
        BY <2>1, <4>1
      <4>3. n # 1 => g[n - 1] = f[n - 1]
        BY <4>1
      <4> QED BY <4>1, <4>2, <4>3 DEF FlatStep
    <3> QED BY <3>1, <3>2
  <2>3. g = [n \in 1..(k + 1) |-> g[n]]
    OBVIOUS
  <2> HIDE DEF g
  <2>4. g = [n \in 1..(k + 1) |-> FlatStep(g, seqs, n)]
    BY <2>2, <2>3
  <2> QED BY <2>4
<1> HIDE DEF S
<1>3. m \in S
  BY <1>1, <1>2, InductionOverNat
<1> QED BY <1>3 DEF S

\* A flattened list is the lists up to the last (FlattenSeq is a recursive
\* function).
LEMMA FlattenIs ==
  ASSUME NEW seqs, Len(seqs) \in Nat, Len(seqs) # 0
  PROVE  \E f : /\ \A n \in 1..Len(seqs) : f[n] = FlatStep(f, seqs, n)
                /\ FlattenSeq(seqs) = f[Len(seqs)]
<1> DEFINE f[i \in 1..Len(seqs)] == IF i = 1 THEN seqs[i] ELSE f[i - 1] \o seqs[i]
<1>1. FlattenSeq(seqs) = f[Len(seqs)]
  BY DEF FlattenSeq
<1>2. PICK g : g = [n \in 1..Len(seqs) |-> FlatStep(g, seqs, n)]
  BY FlatsExist
<1>3. g = [i \in 1..Len(seqs) |-> IF i = 1 THEN seqs[i] ELSE g[i - 1] \o seqs[i]]
  BY <1>2, Zenon DEF FlatStep
<1>4. f = [i \in 1..Len(seqs) |-> IF i = 1 THEN seqs[i] ELSE f[i - 1] \o seqs[i]]
  BY <1>3, Zenon
<1> HIDE DEF f
<1>5. f = [n \in 1..Len(seqs) |-> FlatStep(f, seqs, n)]
  BY <1>4, Zenon DEF FlatStep
<1>6. \A n \in 1..Len(seqs) : f[n] = FlatStep(f, seqs, n)
  BY <1>5
<1> QED BY <1>1, <1>6

\* FlattenSeq keeps what is in each of its sequences.
LEMMA FlattenProperties ==
  ASSUME NEW T, NEW seqs \in Seq(Seq(T))
  PROVE  /\ FlattenSeq(seqs) \in Seq(T)
         /\ \A i \in 1..Len(seqs) : Range(seqs[i]) \subseteq Range(FlattenSeq(seqs))
<1>1. CASE Len(seqs) = 0
  <2>1. FlattenSeq(seqs) = seqs /\ seqs = <<>>
    BY <1>1 DEF FlattenSeq
  <2> QED BY <1>1, <2>1
<1>2. CASE Len(seqs) # 0
  <2>0. Len(seqs) \in Nat
    OBVIOUS
  <2>1. PICK f : /\ \A n \in 1..Len(seqs) : f[n] = FlatStep(f, seqs, n)
                 /\ FlattenSeq(seqs) = f[Len(seqs)]
    BY <1>2, <2>0, FlattenIs
  <2> DEFINE Holds(n) == f[n] \in Seq(T) /\ \A i \in 1..n : Range(seqs[i]) \subseteq Range(f[n])
             S == {n \in Nat : n + 1 <= Len(seqs) => Holds(n + 1)}
  <2>2. 0 \in S
    <3>1. f[1] = seqs[1] /\ seqs[1] \in Seq(T)
      BY <1>2, <2>0, <2>1 DEF FlatStep
    <3> QED BY <3>1
  <2>3. ASSUME NEW n \in Nat, n \in S PROVE n + 1 \in S
    <3> DEFINE k == n + 1
    <3> SUFFICES ASSUME k + 1 <= Len(seqs) PROVE Holds(k + 1)
      OBVIOUS
    <3>1. Holds(k)
      BY <2>0, <2>3
    <3>2. k \in Nat /\ k + 1 \in 1..Len(seqs) /\ k + 1 # 1 /\ (k + 1) - 1 = k
      BY <2>0
    <3> HIDE DEF k, Holds
    <3>a. f[k + 1] = FlatStep(f, seqs, k + 1)
      BY <2>1, <3>2
    <3>b. f[k + 1] = f[(k + 1) - 1] \o seqs[k + 1]
      BY <3>2, <3>a, Zenon DEF FlatStep
    <3>c. seqs[k + 1] \in Seq(T)
      BY <3>2
    <3>3. f[k + 1] = f[k] \o seqs[k + 1] /\ seqs[k + 1] \in Seq(T)
      BY <3>2, <3>b, <3>c, Zenon
    <3>4. f[k + 1] \in Seq(T) /\ Range(f[k + 1]) = Range(f[k]) \union Range(seqs[k + 1])
      <4>1. f[k] \in Seq(T)
        BY <3>1 DEF Holds
      <4>2. f[k + 1] \in Seq(T)
        BY <3>3, <4>1
      <4>3. Range(f[k] \o seqs[k + 1]) = Range(f[k]) \union Range(seqs[k + 1])
        BY <3>3, <4>1, RangeConcatenation
      <4> QED BY <3>3, <4>2, <4>3
    <3>5. ASSUME NEW i \in 1..(k + 1) PROVE Range(seqs[i]) \subseteq Range(f[k + 1])
      <4>1. CASE i = k + 1
        BY <3>4, <4>1
      <4>2. CASE i # k + 1
        <5>1. i \in 1..k
          BY <3>2, <4>2
        <5> QED BY <3>1, <3>4, <5>1 DEF Holds
      <4> QED BY <4>1, <4>2
    <3> QED BY <3>4, <3>5 DEF Holds
  <2> HIDE DEF S, Holds
  <2>4. Nat \subseteq S
    BY <2>2, <2>3, InductionOverNat
  <2>5. Holds(Len(seqs))
    <3>1. Len(seqs) - 1 \in Nat /\ (Len(seqs) - 1) + 1 = Len(seqs)
      BY <1>2, <2>0
    <3>2. Len(seqs) - 1 \in S
      BY <2>4, <3>1
    <3> QED BY <2>0, <3>1, <3>2 DEF S
  <2> QED BY <2>1, <2>5 DEF Holds
<1> QED BY <1>1, <1>2

-----------------------------------------------------------------------------
(* Candidates and their scores                                             *)

\* What the order of the groups needs to know of candidates.
Candidates(T) == \A c \in T : c.route \in Route /\ {c.raw, c.rank, c.id, c.symbol, c.path} \subseteq Int

\* A normalized score is a number.
LEMMA NormalizedIsInt ==
  ASSUME NEW T, Candidates(T), NEW c \in T
  PROVE  Normalized(c) \in Int
<1>1. c.raw \in Int /\ c.route \in Route
  BY DEF Candidates
<1>2. MaxRaw[c.route] \in {1100, 1000000, 1000}
  BY <1>1 DEF Route, MaxRaw
<1>3. (c.raw * 100) \div MaxRaw[c.route] \in Int
  BY <1>1, <1>2
<1> QED BY <1>3, MinOfTwo DEF Normalized

\* There are few routes, and one of the highest priority.
LEMMA RoutesAreFew ==
  ASSUME NEW R, R \subseteq Route, R # {}
  PROVE  /\ IsFiniteSet(R) /\ Cardinality(R) \in Nat /\ Cardinality(R) >= 1
         /\ Max({Priority[r] : r \in R}) \in Int
<1>1. IsFiniteSet(Route)
  <2>1. IsFiniteSet({"exact"})
    BY FS_Singleton
  <2>2. IsFiniteSet({"exact"} \union {"symbol"})
    BY <2>1, FS_AddElement
  <2>3. IsFiniteSet({"exact"} \union {"symbol"} \union {"semantic"})
    BY <2>2, FS_AddElement
  <2>4. IsFiniteSet({"exact"} \union {"symbol"} \union {"semantic"} \union {"impact"})
    BY <2>3, FS_AddElement
  <2>5. Route = {"exact"} \union {"symbol"} \union {"semantic"} \union {"impact"}
    BY DEF Route
  <2> QED BY <2>4, <2>5
<1>2. IsFiniteSet(R)
  BY <1>1, FS_Subset
<1>3. Cardinality(R) \in Nat /\ Cardinality(R) # 0
  BY <1>2, FS_CardinalityType, FS_EmptySet
<1> DEFINE P == {Priority[r] : r \in R}
<1>4. P \subseteq 1..4 /\ P # {}
  <2>1. \A r \in Route : Priority[r] \in {1, 2, 3, 4}
    BY DEF Route, Priority
  <2>2. \A r \in R : Priority[r] \in 1..4
    BY <2>1
  <2> QED BY <2>2
<1> HIDE DEF P
<1>5. \E x \in P : \A y \in P : x >= y
  <2>1. CASE 4 \in P
    BY <1>4, <2>1
  <2>2. CASE 4 \notin P /\ 3 \in P
    BY <1>4, <2>2
  <2>3. CASE 4 \notin P /\ 3 \notin P /\ 2 \in P
    BY <1>4, <2>3
  <2>4. CASE 4 \notin P /\ 3 \notin P /\ 2 \notin P
    <3>1. PICK x \in P : TRUE
      BY <1>4
    <3>2. \A y \in P : y = 1
      BY <1>4, <2>4
    <3> QED BY <3>1, <3>2
  <2> QED BY <2>1, <2>2, <2>3, <2>4
<1>6. Max(P) \in P
  BY <1>5 DEF Max
<1>7. Max(P) \in Int
  <2>1. Max(P) \in 1..4
    BY <1>4, <1>6
  <2> QED BY <2>1
<1> QED BY <1>2, <1>3, <1>7 DEF P

-----------------------------------------------------------------------------
(* What is fused                                                           *)

\* What a fused set keeps of its members.
Holds(T, f, members) ==
  /\ f.members \in Seq(T)
  /\ Range(f.members) = Range(members)
  /\ f.primary \in T
  /\ f.routes \subseteq Route /\ f.routes # {}
  /\ f.score \in Int
  /\ \A c \in Range(members) : Normalized(c) <= f.score

\* The best member leads, and no member scores more than the set.
LEMMA FusedProperties ==
  ASSUME NEW T, Candidates(T), NEW members \in Seq(T), members # <<>>
  PROVE  Holds(T, Fused(members), members)
<1> DEFINE MemberKey(c) == <<-Normalized(c), -Priority[c.route]>>
           keys == [i \in DOMAIN members |-> MemberKey(members[i])]
           ordered == Ordered(members, keys)
           routes == {c.route : c \in Range(members)}
           bonus == Min({2 * (Cardinality(routes) - 1), 6})
           f == Fused(members)
<1>1. DOMAIN members = 1..Len(members) /\ Len(members) \in Nat /\ Len(members) # 0
  BY EmptySeq
<1>2. \A c \in T : Normalized(c) \in Int /\ c.route \in Route
  BY NormalizedIsInt DEF Candidates
<1>3. ASSUME NEW c \in T PROVE MemberKey(c) \in Keys(2)
  <2>1. -Normalized(c) \in Int /\ -Priority[c.route] \in Int
    BY <1>2 DEF Route, Priority
  <2> HIDE DEF Priority
  <2> QED BY <2>1 DEF Keys
<1>4. keys \in Seq(Keys(2)) /\ Len(keys) = Len(members)
  <2> HIDE DEF MemberKey
  <2>1. keys = [i \in 1..Len(members) |-> MemberKey(members[i])]
    BY <1>1
  <2>2. \A i \in 1..Len(members) : MemberKey(members[i]) \in Keys(2)
    BY <1>1, <1>3
  <2> QED BY <1>1, <2>1, <2>2
<1>5. \A i \in 1..Len(members) : keys[i][1] = -Normalized(members[i])
  BY <1>1
<1>6. f = [primary |-> ordered[1], members |-> ordered, routes |-> routes,
           score |-> Normalized(ordered[1]) + bonus]
  BY Zenon DEF Fused
<1> HIDE DEF keys
<1>7. /\ ordered \in Seq(T) /\ Len(ordered) = Len(members) /\ Range(ordered) = Range(members)
      /\ \A i, j \in 1..Len(members) : i < j =>
            \E p, q \in 1..Len(members) : ordered[i] = members[p] /\ ordered[j] = members[q] /\ keys[p][1] <= keys[q][1]
  <2>1. 2 \in Nat /\ 2 >= 1
    OBVIOUS
  <2> QED BY <1>4, <2>1, OrderedProperties, Zenon
<1> HIDE DEF ordered
<1>8. ordered[1] \in T /\ DOMAIN ordered = 1..Len(members)
  BY <1>1, <1>7
<1>9. ASSUME NEW c \in Range(members) PROVE Normalized(c) <= Normalized(ordered[1])
  <2>1. PICK j \in 1..Len(members) : c = ordered[j]
    BY <1>7, <1>8 DEF Range
  <2>2. CASE j = 1
    BY <1>2, <1>8, <2>1, <2>2
  <2>3. CASE 1 < j
    <3>1. PICK p \in 1..Len(members), q \in 1..Len(members) :
             ordered[1] = members[p] /\ ordered[j] = members[q] /\ keys[p][1] <= keys[q][1]
      BY <1>1, <1>7, <2>3
    <3>2. -Normalized(ordered[1]) <= -Normalized(c)
      BY <1>5, <2>1, <3>1
    <3>3. c \in T
      BY <1>1, <2>1, <3>1
    <3> QED BY <1>2, <1>8, <3>2, <3>3
  <2> QED BY <2>1, <2>2, <2>3
<1>10. routes \subseteq Route /\ routes # {}
  <2>1. \A c \in Range(members) : c \in T
    BY <1>1 DEF Range
  <2>2. members[1] \in Range(members)
    BY <1>1 DEF Range
  <2>3. \A x \in routes : x \in Route
    BY <1>2, <2>1
  <2>4. members[1].route \in routes
    BY <2>2
  <2> QED BY <2>3, <2>4
<1> HIDE DEF routes
<1>11. Cardinality(routes) \in Nat /\ Cardinality(routes) >= 1
  BY <1>10, RoutesAreFew
<1>12. bonus \in Int /\ bonus >= 0
  BY <1>11, MinOfTwo
<1> HIDE DEF bonus, f
<1>13. /\ f.members = ordered /\ f.primary = ordered[1] /\ f.routes = routes
       /\ f.score = Normalized(ordered[1]) + bonus
  BY <1>6
<1>14. Normalized(ordered[1]) \in Int
  BY <1>2, <1>8
<1>15. f.score \in Int /\ Normalized(ordered[1]) <= f.score
  BY <1>12, <1>13, <1>14
<1>16. ASSUME NEW c \in Range(members) PROVE Normalized(c) <= f.score
  <2>1. Normalized(c) \in Int
    BY <1>1, <1>2 DEF Range
  <2> QED BY <1>9, <1>14, <1>15, <2>1
<1>17. Holds(T, f, members)
  BY <1>7, <1>8, <1>10, <1>13, <1>15, <1>16 DEF Holds
<1> QED BY <1>17 DEF f

-----------------------------------------------------------------------------
(* Candidates one by one                                                   *)

MemberLists(T) == Seq(T) \ {<<>>}

\* A candidate is added, and none is lost.
LEMMA PlacedProperties ==
  ASSUME NEW T, NEW sets \in Seq(MemberLists(T)), NEW c \in T
  PROVE  /\ Placed(sets, c) \in Seq(MemberLists(T))
         /\ \E i \in 1..Len(Placed(sets, c)) : c \in Range(Placed(sets, c)[i])
         /\ \A i \in 1..Len(sets) :
               i \in 1..Len(Placed(sets, c)) /\ Range(sets[i]) \subseteq Range(Placed(sets, c)[i])
<1> DEFINE fitting == {i \in DOMAIN sets : Joins(c, sets[i])}
           t == Placed(sets, c)
<1>0. DOMAIN sets = 1..Len(sets) /\ Len(sets) \in Nat
  OBVIOUS
<1>1. t = IF fitting = {} THEN Append(sets, <<c>>) ELSE [sets EXCEPT ![Min(fitting)] = Append(@, c)]
  BY Zenon DEF Placed
<1>2. fitting \subseteq 1..Len(sets)
  BY <1>0
<1> HIDE DEF fitting, t
<1>3. CASE fitting = {}
  <2>1. <<c>> \in MemberLists(T) /\ c \in Range(<<c>>)
    <3>1. <<c>> \in Seq(T) /\ <<c>> # <<>> /\ 1 \in DOMAIN <<c>> /\ <<c>>[1] = c
      OBVIOUS
    <3> QED BY <3>1, Zenon DEF MemberLists, Range
  <2>2. t = Append(sets, <<c>>)
    BY <1>1, <1>3
  <2> DEFINE new == <<c>>
  <2> HIDE DEF new
  <2>3. /\ t \in Seq(MemberLists(T)) /\ Len(t) = Len(sets) + 1 /\ t[Len(sets) + 1] = new
        /\ \A i \in 1..Len(sets) : t[i] = sets[i]
    <3>1. t = Append(sets, new) /\ new \in MemberLists(T)
      BY <2>1, <2>2 DEF new
    <3> QED BY <3>1
  <2>4. Len(sets) + 1 \in 1..Len(t) /\ c \in Range(t[Len(sets) + 1])
    <3>1. c \in Range(new)
      BY <2>1 DEF new
    <3> QED BY <1>0, <2>3, <3>1
  <2>5. ASSUME NEW i \in 1..Len(sets) PROVE i \in 1..Len(t) /\ Range(sets[i]) \subseteq Range(t[i])
    <3>1. i \in 1..Len(t) /\ t[i] = sets[i]
      BY <1>0, <2>3
    <3> QED BY <3>1
  <2> QED BY <2>3, <2>4, <2>5 DEF t
<1>4. CASE fitting # {}
  <2> DEFINE m == Min(fitting)
             old == sets[m]
             new == Append(old, c)
  <2>1. m \in 1..Len(sets)
    <3>1. fitting \subseteq Nat
      BY <1>0, <1>2
    <3> QED BY <1>2, <1>4, <3>1, LeastInt
  <2> HIDE DEF m
  <2>2. t = [sets EXCEPT ![m] = Append(@, c)]
    BY <1>1, <1>4 DEF m
  <2>3. old \in Seq(T)
    BY <1>0, <2>1 DEF MemberLists
  <2>4. t = [sets EXCEPT ![m] = new]
    BY <2>2
  <2> HIDE DEF old
  <2>5. /\ new \in Seq(T) /\ Len(new) = Len(old) + 1 /\ new[Len(old) + 1] = c /\ Len(old) \in Nat
        /\ \A i \in 1..Len(old) : new[i] = old[i]
    BY <2>3
  <2> HIDE DEF new
  <2>6. new \in MemberLists(T)
    <3>1. new # <<>>
      BY <2>5
    <3> QED BY <2>5, <3>1 DEF MemberLists
  <2>7. c \in Range(new)
    <3>1. Len(old) + 1 \in DOMAIN new
      BY <2>5
    <3> QED BY <2>5, <3>1 DEF Range
  <2>8. Range(old) \subseteq Range(new)
    <3>1. ASSUME NEW x \in Range(old) PROVE x \in Range(new)
      <4>1. PICK i \in 1..Len(old) : x = old[i]
        BY <2>3 DEF Range
      <4>2. i \in DOMAIN new /\ x = new[i]
        BY <2>5, <4>1
      <4> QED BY <4>2 DEF Range
    <3> QED BY <3>1
  <2>9. /\ t \in Seq(MemberLists(T)) /\ Len(t) = Len(sets) /\ t[m] = new
        /\ \A i \in 1..Len(sets) : i # m => t[i] = sets[i]
    BY <1>0, <2>1, <2>4, <2>6
  <2>10. ASSUME NEW i \in 1..Len(sets) PROVE i \in 1..Len(t) /\ Range(sets[i]) \subseteq Range(t[i])
    <3>1. CASE i = m
      BY <2>8, <2>9, <3>1 DEF old
    <3>2. CASE i # m
      BY <2>9, <3>2
    <3> QED BY <3>1, <3>2
  <2>11. m \in 1..Len(t) /\ c \in Range(t[m])
    BY <2>1, <2>7, <2>9
  <2> QED BY <2>9, <2>10, <2>11 DEF t
<1> QED BY <1>3, <1>4

PlaceStep(f, given, n) == IF n = 0 THEN <<>> ELSE Placed(f[n - 1], given[n])

\* The sets after each candidate.
LEMMA PlacesExist ==
  ASSUME NEW given, NEW m \in Nat
  PROVE  \E f : f = [n \in 0..m |-> PlaceStep(f, given, n)]
<1> DEFINE S == {k \in Nat : \E f : f = [n \in 0..k |-> PlaceStep(f, given, n)]}
<1>1. 0 \in S
  <2> DEFINE f == [n \in 0..0 |-> <<>>]
  <2>1. f = [n \in 0..0 |-> PlaceStep(f, given, n)]
    BY DEF PlaceStep
  <2> QED BY <2>1
<1>2. ASSUME NEW k \in Nat, k \in S PROVE k + 1 \in S
  <2>1. PICK f : f = [n \in 0..k |-> PlaceStep(f, given, n)]
    BY <1>2
  <2> DEFINE last == Placed(f[k], given[k + 1])
             g == [n \in 0..(k + 1) |-> IF n = k + 1 THEN last ELSE f[n]]
  <2>2. ASSUME NEW n \in 0..(k + 1) PROVE g[n] = PlaceStep(g, given, n)
    <3>1. CASE n = k + 1
      <4>1. k \in 0..(k + 1) /\ k # k + 1 /\ n - 1 = k /\ n # 0
        BY <3>1
      <4>2. g[k] = f[k] /\ g[n] = last
        BY <3>1, <4>1
      <4> QED BY <3>1, <4>1, <4>2 DEF PlaceStep
    <3>2. CASE n # k + 1
      <4>1. n \in 0..k /\ g[n] = f[n]
        BY <3>2
      <4>2. f[n] = PlaceStep(f, given, n)
        BY <2>1, <4>1
      <4>3. n # 0 => g[n - 1] = f[n - 1]
        BY <4>1
      <4> QED BY <4>1, <4>2, <4>3 DEF PlaceStep
    <3> QED BY <3>1, <3>2
  <2>3. g = [n \in 0..(k + 1) |-> g[n]]
    OBVIOUS
  <2> HIDE DEF g
  <2>4. g = [n \in 0..(k + 1) |-> PlaceStep(g, given, n)]
    BY <2>2, <2>3
  <2> QED BY <2>4
<1> HIDE DEF S
<1>3. m \in S
  BY <1>1, <1>2, InductionOverNat
<1> QED BY <1>3 DEF S

\* The sets of all candidates are those after the last.
LEMMA SetsIs ==
  ASSUME NEW given, Len(given) \in Nat
  PROVE  \E f : /\ \A n \in 0..Len(given) : f[n] = PlaceStep(f, given, n)
                /\ Sets(given) = f[Len(given)]
<1> DEFINE f[n \in 0..Len(given)] == IF n = 0 THEN <<>> ELSE Placed(f[n - 1], given[n])
<1>1. Sets(given) = f[Len(given)]
  BY DEF Sets
<1>2. PICK g : g = [n \in 0..Len(given) |-> PlaceStep(g, given, n)]
  BY PlacesExist
<1>3. g = [n \in 0..Len(given) |-> IF n = 0 THEN <<>> ELSE Placed(g[n - 1], given[n])]
  BY <1>2, Zenon DEF PlaceStep
<1>4. f = [n \in 0..Len(given) |-> IF n = 0 THEN <<>> ELSE Placed(f[n - 1], given[n])]
  BY <1>3, Zenon
<1> HIDE DEF f
<1>5. f = [n \in 0..Len(given) |-> PlaceStep(f, given, n)]
  BY <1>4, Zenon DEF PlaceStep
<1>6. \A n \in 0..Len(given) : f[n] = PlaceStep(f, given, n)
  BY <1>5
<1> QED BY <1>1, <1>6

\* Every candidate is in one of the sets.
LEMMA SetsProperties ==
  ASSUME NEW T, NEW given \in Seq(T)
  PROVE  /\ Sets(given) \in Seq(MemberLists(T))
         /\ \A c \in Range(given) : \E i \in 1..Len(Sets(given)) : c \in Range(Sets(given)[i])
         /\ given = <<>> => Sets(given) = <<>>
<1>0. Len(given) \in Nat
  OBVIOUS
<1>1. PICK f : /\ \A n \in 0..Len(given) : f[n] = PlaceStep(f, given, n)
               /\ Sets(given) = f[Len(given)]
  BY <1>0, SetsIs
<1> DEFINE In(n) == /\ f[n] \in Seq(MemberLists(T))
                    /\ \A p \in 1..n : \E i \in 1..Len(f[n]) : given[p] \in Range(f[n][i])
           S == {n \in Nat : n <= Len(given) => In(n)}
<1>2. f[0] = <<>>
  BY <1>0, <1>1 DEF PlaceStep
<1>3. 0 \in S
  <2>1. f[0] \in Seq(MemberLists(T))
    BY <1>2
  <2>2. \A p \in 1..0 : FALSE
    OBVIOUS
  <2>3. In(0)
    BY <2>1, <2>2
  <2> HIDE DEF In
  <2> QED BY <2>3
<1>4. ASSUME NEW n \in Nat, n \in S PROVE n + 1 \in S
  <2> SUFFICES ASSUME n + 1 <= Len(given) PROVE In(n + 1)
    OBVIOUS
  <2>1. In(n)
    BY <1>0, <1>4
  <2> DEFINE k == n + 1
             c == given[k]
  <2>2. k \in 0..Len(given) /\ k # 0 /\ k - 1 = n /\ k \in 1..Len(given)
    BY <1>0
  <2>3. c \in T
    BY <2>2
  <2>4. \A p \in 1..k : p = k \/ p \in 1..n
    OBVIOUS
  <2> HIDE DEF k, c
  <2>5. f[k] = Placed(f[n], c)
    <3>1. f[k] = PlaceStep(f, given, k)
      BY <1>1, <2>2
    <3>2. f[k] = Placed(f[k - 1], given[k])
      BY <2>2, <3>1, Zenon DEF PlaceStep
    <3> QED BY <2>2, <3>2, Zenon DEF c
  <2>6. f[n] \in Seq(MemberLists(T))
    BY <2>1
  <2>7. /\ f[k] \in Seq(MemberLists(T))
        /\ \E i \in 1..Len(f[k]) : c \in Range(f[k][i])
        /\ \A i \in 1..Len(f[n]) : i \in 1..Len(f[k]) /\ Range(f[n][i]) \subseteq Range(f[k][i])
    BY <2>3, <2>5, <2>6, PlacedProperties
  <2>8. ASSUME NEW p \in 1..k PROVE \E i \in 1..Len(f[k]) : given[p] \in Range(f[k][i])
    <3>1. CASE p = k
      BY <2>7, <3>1 DEF c
    <3>2. CASE p \in 1..n
      <4>1. PICK i \in 1..Len(f[n]) : given[p] \in Range(f[n][i])
        BY <2>1, <3>2
      <4> QED BY <2>7, <4>1
    <3> QED BY <2>4, <3>1, <3>2
  <2>9. In(k)
    BY <2>7, <2>8
  <2> QED BY <2>9 DEF k
<1> HIDE DEF S, In
<1>5. In(Len(given))
  <2>1. Len(given) \in S
    BY <1>0, <1>3, <1>4, InductionOverNat
  <2> QED BY <1>0, <2>1 DEF S
<1>6. ASSUME NEW c \in Range(given) PROVE \E i \in 1..Len(Sets(given)) : c \in Range(Sets(given)[i])
  <2>1. PICK p \in 1..Len(given) : c = given[p]
    BY DEF Range
  <2> QED BY <1>1, <1>5, <2>1 DEF In
<1>7. given = <<>> => Sets(given) = <<>>
  <2>1. given = <<>> => Len(given) = 0
    OBVIOUS
  <2> QED BY <1>1, <1>2, <2>1, Zenon
<1> QED BY <1>1, <1>5, <1>6, <1>7 DEF In

\* The results of fusing lists of candidates.
FusedOf(T) == {Fused(members) : members \in MemberLists(T)}

\* What fusion gives, for the grouping.
LEMMA FusedIsTyped ==
  ASSUME NEW T, Candidates(T), NEW f \in FusedOf(T)
  PROVE  /\ f.members \in Seq(T) /\ f.primary \in T
         /\ f.routes \subseteq Route /\ f.routes # {}
         /\ f.score \in Int
         /\ \A c \in Range(f.members) : Normalized(c) <= f.score
<1>1. PICK members \in MemberLists(T) : f = Fused(members)
  BY DEF FusedOf
<1>2. members \in Seq(T) /\ members # <<>>
  BY DEF MemberLists
<1>3. Holds(T, f, members)
  BY <1>1, <1>2, FusedProperties
<1> QED BY <1>3 DEF Holds

\* Fusing loses no candidate.
LEMMA FuseProperties ==
  ASSUME NEW T, Candidates(T), NEW given \in Seq(T)
  PROVE  /\ Fuse(given) \in Seq(FusedOf(T))
         /\ \A c \in Range(given) : \E f \in Range(Fuse(given)) : c \in Range(f.members)
         /\ given = <<>> => Fuse(given) = <<>>
<1> DEFINE sets == Sets(given)
           fused == [i \in DOMAIN sets |-> Fused(sets[i])]
           keys == [i \in DOMAIN fused |-> FusedKey(fused[i])]
<1>1. Fuse(given) = Ordered(fused, keys)
  BY Zenon DEF Fuse
<1>2. /\ sets \in Seq(MemberLists(T))
      /\ \A c \in Range(given) : \E i \in 1..Len(sets) : c \in Range(sets[i])
      /\ given = <<>> => sets = <<>>
  BY SetsProperties
<1> HIDE DEF sets
<1>3. DOMAIN sets = 1..Len(sets) /\ Len(sets) \in Nat /\ \A i \in 1..Len(sets) : sets[i] \in MemberLists(T)
  BY <1>2
<1>4. \A i \in 1..Len(sets) : Fused(sets[i]) \in FusedOf(T)
  BY <1>3 DEF FusedOf
<1>5. fused = [i \in 1..Len(sets) |-> Fused(sets[i])]
  BY <1>3
<1>6. fused \in Seq(FusedOf(T)) /\ Len(fused) = Len(sets) /\ DOMAIN fused = 1..Len(sets)
      /\ \A i \in 1..Len(sets) : fused[i] = Fused(sets[i])
  BY <1>3, <1>4, <1>5
<1> HIDE DEF fused
<1>7. ASSUME NEW f \in FusedOf(T) PROVE FusedKey(f) \in Keys(4)
  <2> DEFINE priority == Max({Priority[r] : r \in f.routes})
  <2>1. f.score \in Int /\ f.primary \in T /\ f.routes \subseteq Route /\ f.routes # {}
    BY FusedIsTyped
  <2>2. priority \in Int
    BY <2>1, RoutesAreFew
  <2>3. f.primary.rank \in Int /\ f.primary.id \in Int
    BY <2>1 DEF Candidates
  <2>4. FusedKey(f) = <<-f.score, -priority, f.primary.rank, f.primary.id>>
    BY Zenon DEF FusedKey
  <2> HIDE DEF priority
  <2> DEFINE a == -f.score
             b == -priority
             c == f.primary.rank
             d == f.primary.id
  <2>5. a \in Int /\ b \in Int /\ c \in Int /\ d \in Int
    BY <2>1, <2>2, <2>3
  <2> HIDE DEF a, b, c, d
  <2>6. <<a, b, c, d>> \in Keys(4)
    BY <2>5 DEF Keys
  <2> QED BY <2>4, <2>6 DEF a, b, c, d
<1>8. keys = [i \in 1..Len(sets) |-> FusedKey(fused[i])]
  BY <1>6
<1>9. \A i \in 1..Len(sets) : FusedKey(fused[i]) \in Keys(4)
  BY <1>6, <1>7
<1>10. keys \in Seq(Keys(4)) /\ Len(keys) = Len(fused)
  BY <1>3, <1>6, <1>8, <1>9
<1> HIDE DEF keys
<1> DEFINE r == Ordered(fused, keys)
<1>11. r \in Seq(FusedOf(T)) /\ Len(r) = Len(fused) /\ Range(r) = Range(fused)
  <2>1. 4 \in Nat /\ 4 >= 1
    OBVIOUS
  <2> QED BY <1>6, <1>10, <2>1, OrderedProperties, Zenon
<1> HIDE DEF r
<1>12. ASSUME NEW c \in Range(given) PROVE \E f \in Range(r) : c \in Range(f.members)
  <2>1. PICK i \in 1..Len(sets) : c \in Range(sets[i])
    BY <1>2
  <2>2. sets[i] \in Seq(T) /\ sets[i] # <<>>
    BY <1>3 DEF MemberLists
  <2>3. Holds(T, fused[i], sets[i])
    BY <1>6, <2>2, FusedProperties
  <2>4. c \in Range(fused[i].members)
    BY <2>1, <2>3 DEF Holds
  <2>5. fused[i] \in Range(r)
    BY <1>6, <1>11 DEF Range
  <2> QED BY <2>4, <2>5
<1>13. given = <<>> => r = <<>>
  <2> SUFFICES ASSUME given = <<>> PROVE r = <<>>
    OBVIOUS
  <2>1. sets = <<>>
    BY <1>2
  <2>2. Len(sets) = 0
    BY <2>1
  <2>3. Len(r) = 0
    BY <1>6, <1>11, <2>2, Zenon
  <2> QED BY <1>11, <2>3, EmptySeq
<1> QED BY <1>1, <1>11, <1>12, <1>13 DEF r

-----------------------------------------------------------------------------
(* Groups                                                                  *)

\* The values of a function on a finite set.
LEMMA ImageIsFinite ==
  ASSUME NEW S, IsFiniteSet(S), NEW f, DOMAIN f = S, f = [x \in S |-> f[x]]
  PROVE  IsFiniteSet({f[x] : x \in S})
<1> DEFINE I == {f[x] : x \in S}
<1>1. f \in Surjection(S, I)
  BY DEF Surjection
<1> HIDE DEF I
<1>2. IsFiniteSet(I)
  BY <1>1, FS_Surjection
<1> QED BY <1>2 DEF I

\* A group scores as its best member, and has the evidence of all.
LEMMA GroupProperties ==
  ASSUME NEW T, Candidates(T), NEW members \in Seq(FusedOf(T)), members # <<>>, NEW key
  PROVE  /\ Group(key, members).key = key
         /\ Group(key, members).score \in Int
         /\ \A f \in Range(members) : /\ f.score <= Group(key, members).score
                                      /\ Range(f.members) \subseteq Range(Group(key, members).evidence)
<1> DEFINE MemberKey(f) == <<-f.score, f.primary.id>>
           keys == [i \in DOMAIN members |-> MemberKey(members[i])]
           ordered == Ordered(members, keys)
           evidence == FlattenSeq([i \in DOMAIN ordered |-> ordered[i].members])
           routes == UNION {f.routes : f \in Range(members)}
           g == Group(key, members)
<1>1. DOMAIN members = 1..Len(members) /\ Len(members) \in Nat /\ Len(members) # 0
  BY EmptySeq
<1>2. \A f \in FusedOf(T) : f.score \in Int /\ f.primary.id \in Int /\ f.members \in Seq(T)
  BY FusedIsTyped DEF Candidates
<1>3. ASSUME NEW f \in FusedOf(T) PROVE MemberKey(f) \in Keys(2)
  <2>1. -f.score \in Int /\ f.primary.id \in Int
    BY <1>2
  <2> QED BY <2>1 DEF Keys
<1>4. keys \in Seq(Keys(2)) /\ Len(keys) = Len(members)
  <2> HIDE DEF MemberKey
  <2>1. keys = [i \in 1..Len(members) |-> MemberKey(members[i])]
    BY <1>1
  <2>2. \A i \in 1..Len(members) : MemberKey(members[i]) \in Keys(2)
    BY <1>1, <1>3
  <2> QED BY <1>1, <2>1, <2>2
<1>5. \A i \in 1..Len(members) : keys[i][1] = -(members[i].score)
  BY <1>1
<1>6. g = [key |-> key, score |-> ordered[1].score, best |-> ordered[1].primary, routes |-> routes, evidence |-> evidence]
  BY Zenon DEF Group
<1> HIDE DEF keys
<1>7. /\ ordered \in Seq(FusedOf(T)) /\ Len(ordered) = Len(members) /\ Range(ordered) = Range(members)
      /\ \A i, j \in 1..Len(members) : i < j =>
            \E p, q \in 1..Len(members) : ordered[i] = members[p] /\ ordered[j] = members[q] /\ keys[p][1] <= keys[q][1]
  <2>1. 2 \in Nat /\ 2 >= 1
    OBVIOUS
  <2> QED BY <1>4, <2>1, OrderedProperties, Zenon
<1> HIDE DEF ordered
<1>8. /\ DOMAIN ordered = 1..Len(members) /\ 1 \in 1..Len(members)
      /\ \A i \in 1..Len(members) : ordered[i] \in FusedOf(T)
  BY <1>1, <1>7
<1>9. evidence \in Seq(T) /\ \A i \in 1..Len(members) : Range(ordered[i].members) \subseteq Range(evidence)
  <2> DEFINE seqs == [i \in DOMAIN ordered |-> ordered[i].members]
  <2>1. seqs = [i \in 1..Len(members) |-> ordered[i].members]
    BY <1>8
  <2>2. \A i \in 1..Len(members) : ordered[i].members \in Seq(T)
    BY <1>2, <1>8
  <2>3. seqs \in Seq(Seq(T)) /\ Len(seqs) = Len(members) /\ \A i \in 1..Len(members) : seqs[i] = ordered[i].members
    BY <1>1, <2>1, <2>2
  <2> HIDE DEF seqs
  <2>4. FlattenSeq(seqs) \in Seq(T) /\ \A i \in 1..Len(seqs) : Range(seqs[i]) \subseteq Range(FlattenSeq(seqs))
    BY <2>3, FlattenProperties
  <2> QED BY <2>3, <2>4 DEF seqs
<1> HIDE DEF evidence, routes, g
<1>10. g.key = key /\ g.score = ordered[1].score /\ g.evidence = evidence
  BY <1>6
<1>11. g.score \in Int
  BY <1>2, <1>8, <1>10
<1>12. ASSUME NEW f \in Range(members) PROVE f.score <= g.score /\ Range(f.members) \subseteq Range(g.evidence)
  <2>1. PICK j \in 1..Len(members) : f = ordered[j]
    <3>1. f \in Range(ordered)
      BY <1>7
    <3> QED BY <1>8, <3>1 DEF Range
  <2>2. f \in FusedOf(T) /\ f.score \in Int
    BY <1>2, <1>8, <2>1
  <2>3. CASE j = 1
    <3>1. f.score = g.score
      BY <1>10, <2>1, <2>3
    <3>2. f.score <= g.score
      BY <2>2, <3>1
    <3> QED BY <1>9, <1>10, <2>1, <3>2
  <2>4. CASE 1 < j
    <3>1. PICK p \in 1..Len(members), q \in 1..Len(members) :
             ordered[1] = members[p] /\ ordered[j] = members[q] /\ keys[p][1] <= keys[q][1]
      BY <1>7, <1>8, <2>4
    <3>2. keys[p][1] = -(g.score) /\ keys[q][1] = -(f.score)
      BY <1>5, <1>10, <2>1, <3>1
    <3>3. f.score <= g.score
      BY <1>11, <2>2, <3>1, <3>2
    <3> QED BY <1>9, <1>10, <2>1, <3>3
  <2>5. j = 1 \/ 1 < j
    BY <1>1
  <2> QED BY <2>3, <2>4, <2>5
<1> QED BY <1>10, <1>11, <1>12 DEF g

\* Keys of groups are pairs.
LEMMA GroupKeyIsTyped ==
  ASSUME NEW T, Candidates(T), NEW f \in FusedOf(T)
  PROVE  GroupKey(f) = <<GroupKey(f)[1], GroupKey(f)[2]>> /\ GroupKey(f)[1] \in Int /\ GroupKey(f)[2] \in Int
<1>1. f.primary.symbol \in Int /\ f.primary.path \in Int /\ f.primary.id \in Int
  BY FusedIsTyped DEF Candidates
<1>2. CASE f.primary.symbol # 0
  BY <1>1, <1>2 DEF GroupKey
<1>3. CASE f.primary.symbol = 0 /\ f.primary.path # 0
  BY <1>1, <1>3 DEF GroupKey
<1>4. CASE f.primary.symbol = 0 /\ f.primary.path = 0
  BY <1>1, <1>4 DEF GroupKey
<1> QED BY <1>2, <1>3, <1>4

MembersOf(fused, key) == Kept(fused, {f \in Range(fused) : GroupKey(f) = key})
GroupOf(fused, key) == Group(key, MembersOf(fused, key))
KeysOf(fused) == {GroupKey(f) : f \in Range(fused)}

LEMMA GroupsByKeyIs ==
  ASSUME NEW fused
  PROVE  GroupsByKey(fused) = {GroupOf(fused, key) : key \in KeysOf(fused)}
BY Zenon DEF GroupsByKey, GroupOf, MembersOf, KeysOf

\* A group has members, and all that are of its key.
LEMMA MembersOfProperties ==
  ASSUME NEW T, NEW fused \in Seq(T), NEW key \in KeysOf(fused)
  PROVE  /\ MembersOf(fused, key) \in Seq(T)
         /\ MembersOf(fused, key) # <<>>
         /\ \A f \in Range(fused) : GroupKey(f) = key => f \in Range(MembersOf(fused, key))
<1> DEFINE set == {f \in Range(fused) : GroupKey(f) = key}
           r == MembersOf(fused, key)
<1>1. r = Kept(fused, set)
  BY DEF MembersOf
<1>2. r \in Seq(T) /\ Range(r) = Range(fused) \intersect set
  BY <1>1, KeptProperties
<1>3. PICK f \in Range(fused) : key = GroupKey(f)
  BY DEF KeysOf
<1> HIDE DEF r
<1>4. f \in Range(r)
  BY <1>2, <1>3
<1>5. r # <<>>
  BY <1>4 DEF Range
<1> QED BY <1>2, <1>5 DEF r

\* The groups, by keys that differ.
LEMMA GroupsProperties ==
  ASSUME NEW T, Candidates(T), NEW fused \in Seq(FusedOf(T))
  PROVE  /\ IsFiniteSet(GroupsByKey(fused))
         /\ \A g \in GroupsByKey(fused) : /\ g.score \in Int
                                          /\ g.key = <<g.key[1], g.key[2]>> /\ g.key[1] \in Int /\ g.key[2] \in Int
         /\ \A g, h \in GroupsByKey(fused) : g.key = h.key => g = h
         /\ \A f \in Range(fused) : \E g \in GroupsByKey(fused) :
               f.score <= g.score /\ Range(f.members) \subseteq Range(g.evidence)
         /\ fused = <<>> => GroupsByKey(fused) = {}
<1> DEFINE keys == KeysOf(fused)
           groups == GroupsByKey(fused)
<1>1. groups = {GroupOf(fused, key) : key \in keys}
  BY GroupsByKeyIs
<1>2. IsFiniteSet(Range(fused)) /\ \A f \in Range(fused) : f \in FusedOf(T)
  <2>1. DOMAIN fused = 1..Len(fused) /\ Len(fused) \in Nat
    OBVIOUS
  <2>2. Range(fused) = {fused[i] : i \in 1..Len(fused)}
    BY <2>1 DEF Range
  <2>3. ASSUME NEW n \in Nat PROVE IsFiniteSet(1..n)
    <3>1. 1 \in Int /\ n \in Int
      OBVIOUS
    <3> QED BY <3>1, FS_Interval, Zenon
  <2>4. IsFiniteSet(1..Len(fused))
    BY <2>1, <2>3, Zenon
  <2>5. IsFiniteSet({fused[i] : i \in 1..Len(fused)})
    <3>1. DOMAIN fused = 1..Len(fused) /\ fused = [i \in 1..Len(fused) |-> fused[i]]
      BY <2>1
    <3> QED BY <2>4, <3>1, ImageIsFinite, Zenon
  <2> QED BY <2>1, <2>2, <2>5
<1>3. IsFiniteSet(keys)
  <2> DEFINE e == [f \in Range(fused) |-> GroupKey(f)]
  <2>1. keys = {e[f] : f \in Range(fused)}
    BY DEF KeysOf
  <2>a. DOMAIN e = Range(fused) /\ e = [x \in Range(fused) |-> e[x]]
    OBVIOUS
  <2> HIDE DEF e
  <2>2. IsFiniteSet({e[f] : f \in Range(fused)})
    BY <1>2, <2>a, ImageIsFinite, Zenon
  <2> QED BY <2>1, <2>2
<1>4. IsFiniteSet(groups)
  <2> DEFINE e == [key \in keys |-> GroupOf(fused, key)]
  <2>1. groups = {e[key] : key \in keys}
    BY <1>1
  <2>a. DOMAIN e = keys /\ e = [x \in keys |-> e[x]]
    OBVIOUS
  <2> HIDE DEF e
  <2>2. IsFiniteSet({e[key] : key \in keys})
    BY <1>3, <2>a, ImageIsFinite, Zenon
  <2> QED BY <2>1, <2>2
<1>5. ASSUME NEW key \in keys
      PROVE  /\ GroupOf(fused, key).key = key
             /\ GroupOf(fused, key).score \in Int
             /\ \A f \in Range(fused) : GroupKey(f) = key =>
                   /\ f.score <= GroupOf(fused, key).score
                   /\ Range(f.members) \subseteq Range(GroupOf(fused, key).evidence)
  <2> DEFINE members == MembersOf(fused, key)
  <2>1. /\ members \in Seq(FusedOf(T)) /\ members # <<>>
        /\ \A f \in Range(fused) : GroupKey(f) = key => f \in Range(members)
    BY MembersOfProperties
  <2> HIDE DEF members
  <2>2. /\ Group(key, members).key = key
        /\ Group(key, members).score \in Int
        /\ \A f \in Range(members) : /\ f.score <= Group(key, members).score
                                     /\ Range(f.members) \subseteq Range(Group(key, members).evidence)
    BY <2>1, GroupProperties
  <2>3. GroupOf(fused, key) = Group(key, members)
    BY DEF GroupOf, members
  <2> QED BY <2>1, <2>2, <2>3
<1>6. ASSUME NEW key \in keys PROVE key = <<key[1], key[2]>> /\ key[1] \in Int /\ key[2] \in Int
  <2>1. PICK f \in Range(fused) : key = GroupKey(f)
    BY DEF KeysOf
  <2> QED BY <1>2, <2>1, GroupKeyIsTyped
<1>7. \A g \in groups : \E key \in keys : g = GroupOf(fused, key)
  BY <1>1
<1>8. \A key \in keys : GroupOf(fused, key) \in groups
  BY <1>1
<1>9. \A f \in Range(fused) : GroupKey(f) \in keys
  BY DEF KeysOf
<1>10. fused = <<>> => groups = {}
  BY <1>1 DEF KeysOf, Range
<1> HIDE DEF keys, groups
<1>11. ASSUME NEW g \in groups
       PROVE  g.score \in Int /\ g.key = <<g.key[1], g.key[2]>> /\ g.key[1] \in Int /\ g.key[2] \in Int
  BY <1>5, <1>6, <1>7
<1>12. ASSUME NEW g \in groups, NEW h \in groups, g.key = h.key PROVE g = h
  BY <1>5, <1>7, <1>12
<1>13. ASSUME NEW f \in Range(fused)
       PROVE  \E g \in groups : f.score <= g.score /\ Range(f.members) \subseteq Range(g.evidence)
  BY <1>5, <1>8, <1>9
<1> QED BY <1>4, <1>10, <1>11, <1>12, <1>13 DEF groups

\* The list of all groups: each once, none before a better one.
LEMMA AllGroupsProperties ==
  ASSUME NEW T, Candidates(T), NEW fused \in Seq(FusedOf(T))
  PROVE  /\ AllGroups(fused) \in Seq(GroupsByKey(fused))
         /\ Range(AllGroups(fused)) = GroupsByKey(fused)
         /\ \A i, j \in DOMAIN AllGroups(fused) : i < j => AllGroups(fused)[j].score <= AllGroups(fused)[i].score
<1> DEFINE groups == GroupsByKey(fused)
           OfGroup(g) == <<-g.score, g.key[1], g.key[2]>>
           order == {p \in groups \X groups : Less(OfGroup(p[1]), OfGroup(p[2]))}
           all == Listed(groups, order)
<1>1. AllGroups(fused) = all
  BY Zenon DEF AllGroups
<1>2. /\ IsFiniteSet(groups)
      /\ \A g \in groups : g.score \in Int /\ g.key = <<g.key[1], g.key[2]>> /\ g.key[1] \in Int /\ g.key[2] \in Int
      /\ \A g, h \in groups : g.key = h.key => g = h
  BY GroupsProperties
<1> HIDE DEF groups
<1>3. \A x, y \in groups : <<x, y>> \in order <=> Less(OfGroup(x), OfGroup(y))
  <2> HIDE DEF OfGroup
  <2> QED OBVIOUS
<1>4. ASSUME NEW g \in groups PROVE OfGroup(g) \in Keys(3) /\ OfGroup(g)[1] = -(g.score)
  <2> DEFINE a == -(g.score)
             b == g.key[1]
             c == g.key[2]
  <2>1. a \in Int /\ b \in Int /\ c \in Int
    BY <1>2
  <2> HIDE DEF a, b, c
  <2>2. <<a, b, c>> \in Keys(3) /\ <<a, b, c>>[1] = a
    BY <2>1 DEF Keys
  <2> QED BY <2>2 DEF a, b, c
<1>5. ASSUME NEW g \in groups, NEW h \in groups, OfGroup(g) = OfGroup(h) PROVE g = h
  <2>1. g.key[1] = h.key[1] /\ g.key[2] = h.key[2]
    BY <1>5
  <2>2. g.key = h.key
    BY <1>2, <2>1, Zenon
  <2> QED BY <1>2, <2>2
<1> HIDE DEF OfGroup, order
<1>6. IsOrder(groups, order)
  <2>1. ASSUME NEW x \in groups PROVE <<x, x>> \notin order
    BY <1>3, <1>4, LessIsStrict
  <2>2. ASSUME NEW x \in groups, NEW y \in groups, NEW z \in groups, <<x, y>> \in order, <<y, z>> \in order
        PROVE  <<x, z>> \in order
    <3>1. Less(OfGroup(x), OfGroup(y)) /\ Less(OfGroup(y), OfGroup(z))
      BY <1>3, <2>2
    <3>2. 3 \in Nat /\ OfGroup(x) \in Keys(3) /\ OfGroup(y) \in Keys(3) /\ OfGroup(z) \in Keys(3)
      BY <1>4
    <3>3. Less(OfGroup(x), OfGroup(z))
      BY <3>1, <3>2, LessIsTransitive, Zenon
    <3> QED BY <1>3, <3>3
  <2>3. ASSUME NEW x \in groups, NEW y \in groups, x # y PROVE <<x, y>> \in order \/ <<y, x>> \in order
    <3>1. OfGroup(x) # OfGroup(y)
      BY <1>5, <2>3
    <3>2. 3 \in Nat /\ OfGroup(x) \in Keys(3) /\ OfGroup(y) \in Keys(3)
      BY <1>4
    <3>3. Less(OfGroup(x), OfGroup(y)) \/ Less(OfGroup(y), OfGroup(x))
      BY <3>1, <3>2, LessIsTotal, Zenon
    <3> QED BY <1>3, <3>3
  <2> QED BY <2>1, <2>2, <2>3 DEF IsOrder
<1>7. /\ all \in Seq(groups) /\ Range(all) = groups
      /\ \A i, j \in DOMAIN all : i < j => <<all[i], all[j]>> \in order
  BY <1>2, <1>6, ListedProperties
<1> HIDE DEF all
<1>8. ASSUME NEW i \in DOMAIN all, NEW j \in DOMAIN all, i < j PROVE all[j].score <= all[i].score
  <2>1. all[i] \in groups /\ all[j] \in groups /\ <<all[i], all[j]>> \in order
    BY <1>7, <1>8
  <2>2. Less(OfGroup(all[i]), OfGroup(all[j]))
    BY <1>3, <2>1
  <2>3. 3 \in Nat /\ 3 >= 1 /\ OfGroup(all[i]) \in Keys(3) /\ OfGroup(all[j]) \in Keys(3)
    BY <1>4, <2>1
  <2>4. OfGroup(all[i])[1] <= OfGroup(all[j])[1]
    BY <2>2, <2>3, LessStartsSo, Zenon
  <2> QED BY <1>2, <1>4, <2>1, <2>4
<1>9. /\ all \in Seq(groups) /\ Range(all) = groups
      /\ \A i, j \in DOMAIN all : i < j => all[j].score <= all[i].score
  BY <1>7, <1>8
<1> QED BY <1>1, <1>9 DEF groups

\* The groups of an answer: what a group leaves to later ones scores no
\* better than it does.
LEMMA GroupsAreBestFirst ==
  ASSUME NEW T, Candidates(T), NEW given \in Seq(T), NEW limit \in Nat
  PROVE  /\ \A i \in DOMAIN Groups(given, limit) : \A c \in Range(given) :
               \/ \E j \in 1..i : c \in Range(Groups(given, limit)[j].evidence)
               \/ Normalized(c) <= Groups(given, limit)[i].score
         /\ \E S : Groups(given, limit) \in Seq(S)
         /\ given = <<>> => Groups(given, limit) = <<>>
         /\ given # <<>> /\ limit > 0 => Groups(given, limit) # <<>>
<1> DEFINE fused == Fuse(given)
           all == AllGroups(fused)
           groups == GroupsByKey(fused)
           n == Min({limit, Len(all)})
           r == Groups(given, limit)
<1>1. r = SubSeq(all, 1, n)
  BY Zenon DEF Groups
<1>2. /\ fused \in Seq(FusedOf(T))
      /\ \A c \in Range(given) : \E f \in Range(fused) : c \in Range(f.members)
      /\ given = <<>> => fused = <<>>
  BY FuseProperties
<1> HIDE DEF fused
<1>3. /\ \A g \in groups : g.score \in Int
      /\ \A f \in Range(fused) : \E g \in groups : f.score <= g.score /\ Range(f.members) \subseteq Range(g.evidence)
      /\ fused = <<>> => groups = {}
  BY <1>2, GroupsProperties
<1>4. /\ all \in Seq(groups) /\ Range(all) = groups
      /\ \A i, j \in DOMAIN all : i < j => all[j].score <= all[i].score
  BY <1>2, AllGroupsProperties
<1> HIDE DEF groups, all
<1>5. Len(all) \in Nat /\ DOMAIN all = 1..Len(all)
  BY <1>4
<1>6. n \in Nat /\ n <= Len(all)
  BY <1>5, MinOfTwo
<1>6a. n = IF limit <= Len(all) THEN limit ELSE Len(all)
  BY <1>5, MinOfTwo
<1> HIDE DEF n
<1>7. r \in Seq(groups) /\ Len(r) = n /\ DOMAIN r = 1..n /\ \A i \in 1..n : r[i] = all[i]
  <2>1. \A i \in 1..n : i \in 1..Len(all) /\ all[i] \in groups
    BY <1>4, <1>5, <1>6
  <2>2. r = [i \in 1..n |-> all[i]]
    <3>1. 1 \in 1..(Len(all) + 1) /\ n \in 0..Len(all)
      BY <1>5, <1>6
    <3>2. /\ Len(SubSeq(all, 1, n)) = n
          /\ \A i \in 1..n : SubSeq(all, 1, n)[i] = all[i]
      BY <1>4, <1>5, <1>6
    <3>3. SubSeq(all, 1, n) \in Seq(groups)
      BY <1>4, <1>5, <1>6
    <3> QED BY <1>1, <3>2, <3>3
  <2> QED BY <1>6, <2>1, <2>2
<1> HIDE DEF r
<1>8. ASSUME NEW c \in Range(given)
      PROVE  \E g \in groups : c \in Range(g.evidence) /\ Normalized(c) <= g.score
  <2>1. PICK f \in Range(fused) : c \in Range(f.members)
    BY <1>2
  <2>2. PICK g \in groups : f.score <= g.score /\ Range(f.members) \subseteq Range(g.evidence)
    BY <1>3
  <2>3. f \in FusedOf(T)
    BY <1>2 DEF Range
  <2>4. f.score \in Int /\ f.members \in Seq(T) /\ Normalized(c) <= f.score
    BY <2>1, <2>3, FusedIsTyped
  <2>5. c \in T
    BY <2>1, <2>4 DEF Range
  <2>6. Normalized(c) \in Int /\ g.score \in Int
    BY <1>3, <2>5, NormalizedIsInt
  <2> QED BY <2>1, <2>2, <2>4, <2>6
<1>9. ASSUME NEW i \in DOMAIN r, NEW c \in Range(given)
      PROVE  (\E j \in 1..i : c \in Range(r[j].evidence)) \/ Normalized(c) <= r[i].score
  <2>1. PICK g \in groups : c \in Range(g.evidence) /\ Normalized(c) <= g.score
    BY <1>8
  <2>2. PICK k \in DOMAIN all : g = all[k]
    BY <1>4 DEF Range
  <2>3. i \in 1..n /\ i \in DOMAIN all /\ r[i] = all[i]
    <3>1. i \in 1..n
      BY <1>7
    <3>2. i \in 1..Len(all)
      BY <1>5, <1>6, <3>1
    <3> QED BY <1>5, <1>7, <3>1, <3>2
  <2>4. CASE k <= i
    <3>a. k \in Nat /\ i \in Nat /\ 1 <= k /\ i <= n
      <4>1. k \in 1..Len(all)
        BY <1>5
      <4> QED BY <1>5, <1>6, <2>3, <4>1
    <3>b. k \in 1..i /\ k \in 1..n
      BY <1>6, <2>4, <3>a
    <3>1. k \in 1..i /\ k \in 1..n /\ r[k] = g
      BY <1>7, <2>2, <3>b
    <3> QED BY <2>1, <3>1
  <2>5. CASE i < k
    <3>1. g.score <= r[i].score
      BY <1>4, <2>2, <2>3, <2>5
    <3>2. c \in T
      BY DEF Range
    <3>3. all[i] \in groups
      BY <1>4, <2>3
    <3>4. Normalized(c) \in Int /\ g.score \in Int /\ r[i].score \in Int
      BY <1>3, <2>3, <3>2, <3>3, NormalizedIsInt
    <3>5. Normalized(c) <= r[i].score
      BY <2>1, <3>1, <3>4
    <3> QED BY <3>5
  <2>6. k <= i \/ i < k
    BY <1>5, <2>3
  <2> QED BY <2>4, <2>5, <2>6
<1>10. ASSUME given = <<>> PROVE r = <<>>
  <2>1. groups = {}
    BY <1>2, <1>3, <1>10
  <2>2. Len(all) = 0
    <3> SUFFICES ASSUME Len(all) # 0 PROVE FALSE
      OBVIOUS
    <3>1. 1 \in DOMAIN all
      BY <1>5
    <3> QED BY <1>4, <2>1, <3>1
  <2>3. Len(r) = 0
    BY <1>6, <1>7, <2>2
  <2> QED BY <1>7, <2>3, EmptySeq
<1>11. ASSUME given # <<>>, limit > 0 PROVE r # <<>>
  <2>1. Len(given) # 0 /\ Len(given) \in Nat /\ DOMAIN given = 1..Len(given)
    BY <1>11, EmptySeq
  <2>2. given[1] \in Range(given)
    BY <2>1 DEF Range
  <2>3. PICK g \in groups : TRUE
    BY <1>8, <2>2
  <2>4. PICK k \in DOMAIN all : g = all[k]
    BY <1>4 DEF Range
  <2>5. n # 0
    <3>1. Len(all) # 0
      BY <1>5, <2>4
    <3> QED BY <1>6a, <1>11, <3>1
  <2> QED BY <1>7, <2>5
<1> QED BY <1>6, <1>7, <1>9, <1>10, <1>11 DEF r

-----------------------------------------------------------------------------
(* What is planned                                                         *)

LEMMA FirstIsIn ==
  ASSUME NEW T, NEW s \in Seq(T), s # <<>>
  PROVE  Len(s) \in Nat /\ Len(s) # 0 /\ s[1] \in T /\ s[1] \in Range(s)
<1>1. Len(s) \in Nat /\ Len(s) # 0
  BY EmptySeq
<1>2. 1 \in DOMAIN s
  BY <1>1
<1> QED BY <1>1, <1>2 DEF Range

LEMMA NotEmpty ==
  ASSUME NEW T, NEW s \in Seq(T), NEW t \in Seq(T), s # <<>> \/ t # <<>>
  PROVE  s \o t \in Seq(T) /\ s \o t # <<>>
<1>1. Len(s) \in Nat /\ Len(t) \in Nat /\ (Len(s) # 0 \/ Len(t) # 0)
  BY EmptySeq
<1>2. s \o t \in Seq(T) /\ Len(s \o t) = Len(s) + Len(t)
  OBVIOUS
<1>3. Len(s \o t) # 0
  BY <1>1, <1>2
<1> QED BY <1>2, <1>3

LEMMA WhenIsNat ==
  ASSUME NEW condition, NEW n \in Nat
  PROVE  When(condition, n) \in Nat
BY DEF When

LEMMA ScoreIsNat ==
  ASSUME NEW style \in Route
  PROVE  Score(style) \in Nat
<1>1. ContextBias(style) \in Nat
  BY DEF ContextBias
<1>2. CASE style = "exact"
  <2>1. Score(style) = ContextBias(style) + When(Text.exact # None, 6)
    BY <1>2 DEF Score
  <2> QED BY <1>1, <2>1, WhenIsNat
<1>3. CASE style = "symbol"
  <2>1. Score(style) = ContextBias(style) +
           (When(Text.name \in Qualified, 6) + When(HasSymbolSeed /\ Text.name \notin Qualified, 4) + When(Text.keyword, 2)
            + When(Text.exact = "path", 1) + When(request.filters # {}, 1))
    BY <1>3 DEF Score
  <2> QED BY <1>1, <2>1, WhenIsNat
<1>4. CASE style = "semantic"
  <2>1. Score(style) = ContextBias(style) +
           (When(IsQuestion, 4) + When(Text.tokens >= 3, 2) + When(~HasSymbolSeed /\ Text.exact # "path", 1))
    BY <1>4 DEF Score
  <2> QED BY <1>1, <2>1, WhenIsNat
<1>5. CASE style = "impact"
  <2>1. Score(style) = ContextBias(style) +
           (When(Text.phrase, 6) + When(HasAction, 6) + When(IsQuestion /\ HasAction, 1) + When(request.target # None, 1))
    BY <1>5 DEF Score
  <2> QED BY <1>1, <2>1, WhenIsNat
<1> QED BY <1>2, <1>3, <1>4, <1>5 DEF Route

LEMMA RankedIsTyped ==
  /\ Ranked \in Seq(Route) /\ Len(Ranked) = 4
  /\ DOMAIN Ranked = 1..4
<1> DEFINE Rank(s) == <<-Score(s), StyleRank[s]>>
           styles == <<"exact", "symbol", "semantic", "impact">>
           keys == <<Rank("exact"), Rank("symbol"), Rank("semantic"), Rank("impact")>>
<1>1. Ranked = Ordered(styles, keys)
  BY Zenon DEF Ranked
<1>2. ASSUME NEW s \in Route PROVE Rank(s) \in Keys(2)
  <2>1. -Score(s) \in Int /\ StyleRank[s] \in Int
    BY ScoreIsNat DEF Route, StyleRank
  <2> DEFINE a == -Score(s)
             b == StyleRank[s]
  <2> HIDE DEF a, b
  <2>2. <<a, b>> \in Keys(2)
    BY <2>1 DEF Keys, a, b
  <2> QED BY <2>2 DEF a, b
<1>3. styles \in Seq(Route) /\ Len(styles) = 4
  BY DEF Route
<1> HIDE DEF Rank
<1>4. keys \in Seq(Keys(2)) /\ Len(keys) = 4
  BY <1>2 DEF Route
<1> HIDE DEF styles, keys
<1>5. 2 \in Nat /\ 2 >= 1 /\ Len(keys) = Len(styles)
  BY <1>3, <1>4
<1>6. Ordered(styles, keys) \in Seq(Route) /\ Len(Ordered(styles, keys)) = Len(styles)
  BY <1>3, <1>4, <1>5, OrderedProperties
<1> QED BY <1>1, <1>3, <1>6

\* There is a style, and styles are routes.
LEMMA StylesAreRoutes ==
  ASSUME request \in Requests
  PROVE  Styles \in Seq(Route) /\ Styles # <<>>
<1> DEFINE ranked == Ranked
           best == Score(ranked[1])
           set == {s \in Route : Score(s) > 0 /\ Score(s) + 1 >= best}
<1>1. Styles = IF request.override # None THEN <<request.override>>
               ELSE IF best = 0 THEN <<DefaultStyle>> ELSE Kept(ranked, set)
  BY Zenon DEF Styles
<1>2. ranked \in Seq(Route) /\ DOMAIN ranked = 1..4
  BY RankedIsTyped
<1> HIDE DEF ranked
<1>3. ranked[1] \in Route /\ ranked[1] \in Range(ranked)
  BY <1>2 DEF Range
<1>4. best \in Nat
  BY <1>3, ScoreIsNat
<1>5. CASE request.override # None
  BY <1>1, <1>5, HintsAssumption
<1>6. CASE request.override = None /\ best = 0
  <2>1. DefaultStyle \in Route
    BY ModeAssumption DEF DefaultStyle, Route
  <2> QED BY <1>1, <1>6, <2>1
<1>7. CASE request.override = None /\ best # 0
  <2>1. ranked[1] \in set
    BY <1>3, <1>4, <1>7
  <2>2. Styles = Kept(ranked, set)
    BY <1>1, <1>7
  <2> HIDE DEF set
  <2>3. Styles \in Seq(Route) /\ Range(Styles) = Range(ranked) \intersect set
    BY <1>2, <2>2, KeptProperties
  <2>4. Styles # <<>>
    BY <1>3, <2>1, <2>3 DEF Range
  <2> QED BY <2>3, <2>4
<1> QED BY <1>5, <1>6, <1>7

\* Hints and styles only plan routes.
LEMMA PlannedRoutesAreRoutes ==
  ASSUME request \in Requests, NEW styles \in Seq(Route), styles # <<>>
  PROVE  PlannedRoutes(styles) \in Seq(Route)
<1> DEFINE seqs == [i \in DOMAIN styles |-> RoutesOfStyle(styles[i])]
           asked == FlattenSeq(seqs)
           exactToo == IF WantsExact THEN <<"exact">> ELSE <<>>
           withExact == asked \o exactToo
           routes == IF request.override # None THEN styles ELSE Unique(<<withExact[1]>> \o request.preferred \o withExact)
<1>1. PlannedRoutes(styles) = Kept(routes, Route \ request.disabled)
  BY Zenon DEF PlannedRoutes
<1>2. exactToo \in Seq(Route)
  <2>1. <<"exact">> \in Seq(Route) /\ <<>> \in Seq(Route)
    BY DEF Route
  <2> QED BY <2>1, Zenon
<1>3. ASSUME NEW style \in Route
      PROVE  RoutesOfStyle(style) \in Seq(Route) /\ Range(RoutesOfStyle(style)) # {}
  <2>1. RoutesOfStyle(style) =
           CASE style = "exact"    -> <<"exact", "symbol", "semantic">>
             [] style = "symbol"   -> <<"symbol">> \o exactToo \o <<"semantic">>
             [] style = "semantic" -> <<"semantic", "symbol">> \o exactToo
             [] style = "impact"   -> <<"symbol", "semantic", "impact">>
    BY Zenon DEF RoutesOfStyle
  <2> HIDE DEF exactToo
  <2>2. CASE style = "exact"
    <3>1. RoutesOfStyle(style) = <<"exact", "symbol", "semantic">>
      BY <2>1, <2>2
    <3> QED BY <3>1 DEF Route, Range
  <2>3. CASE style = "symbol"
    <3>1. RoutesOfStyle(style) = <<"symbol">> \o exactToo \o <<"semantic">>
      BY <2>1, <2>3
    <3> DEFINE u == <<"symbol">>
               v == <<"semantic">>
    <3>2. u \in Seq(Route) /\ v \in Seq(Route) /\ u # <<>>
      BY DEF Route
    <3> HIDE DEF u, v
    <3>3. u \o exactToo \in Seq(Route) /\ u \o exactToo # <<>>
      BY <1>2, <3>2, NotEmpty
    <3>4. (u \o exactToo) \o v \in Seq(Route) /\ (u \o exactToo) \o v # <<>>
      BY <3>2, <3>3, NotEmpty
    <3>5. RoutesOfStyle(style) = (u \o exactToo) \o v
      BY <3>1 DEF u, v
    <3>6. RoutesOfStyle(style)[1] \in Range(RoutesOfStyle(style))
      BY <3>4, <3>5, FirstIsIn
    <3> QED BY <3>4, <3>5, <3>6
  <2>4. CASE style = "semantic"
    <3>1. RoutesOfStyle(style) = <<"semantic", "symbol">> \o exactToo
      BY <2>1, <2>4
    <3> DEFINE u == <<"semantic", "symbol">>
    <3>2. u \in Seq(Route) /\ u # <<>>
      BY DEF Route
    <3> HIDE DEF u
    <3>3. u \o exactToo \in Seq(Route) /\ u \o exactToo # <<>>
      BY <1>2, <3>2, NotEmpty
    <3>4. RoutesOfStyle(style) = u \o exactToo
      BY <3>1 DEF u
    <3>5. RoutesOfStyle(style)[1] \in Range(RoutesOfStyle(style))
      BY <3>3, <3>4, FirstIsIn
    <3> QED BY <3>3, <3>4, <3>5
  <2>5. CASE style = "impact"
    <3>1. RoutesOfStyle(style) = <<"symbol", "semantic", "impact">>
      BY <2>1, <2>5
    <3> QED BY <3>1 DEF Route, Range
  <2> QED BY <2>2, <2>3, <2>4, <2>5 DEF Route
<1> HIDE DEF exactToo
<1>4. DOMAIN styles = 1..Len(styles) /\ Len(styles) \in Nat /\ Len(styles) # 0
  BY EmptySeq
<1>5. seqs \in Seq(Seq(Route)) /\ Len(seqs) = Len(styles) /\ \A i \in 1..Len(styles) : seqs[i] = RoutesOfStyle(styles[i])
  <2>1. seqs = [i \in 1..Len(styles) |-> RoutesOfStyle(styles[i])]
    BY <1>4
  <2>2. \A i \in 1..Len(styles) : RoutesOfStyle(styles[i]) \in Seq(Route)
    BY <1>3, <1>4
  <2> QED BY <1>4, <2>1, <2>2
<1> HIDE DEF seqs
<1>6. asked \in Seq(Route) /\ asked # <<>>
  <2>1. asked \in Seq(Route) /\ \A i \in 1..Len(seqs) : Range(seqs[i]) \subseteq Range(asked)
    BY <1>5, FlattenProperties
  <2>2. 1 \in 1..Len(seqs) /\ seqs[1] = RoutesOfStyle(styles[1]) /\ styles[1] \in Route
    BY <1>4, <1>5
  <2>3. Range(asked) # {}
    BY <1>3, <2>1, <2>2
  <2> QED BY <2>1, <2>3 DEF Range
<1> HIDE DEF asked
<1>7. withExact \in Seq(Route) /\ withExact[1] \in Route
  <2>1. Len(asked) \in Nat /\ Len(asked) # 0 /\ Len(exactToo) \in Nat
    BY <1>2, <1>6, EmptySeq
  <2>2. withExact \in Seq(Route) /\ Len(withExact) = Len(asked) + Len(exactToo)
    BY <1>2, <1>6
  <2>3. 1 \in 1..Len(withExact)
    BY <2>1, <2>2
  <2> HIDE DEF withExact
  <2> QED BY <2>2, <2>3
<1> HIDE DEF withExact
<1>8. request.preferred \in Seq(Route)
  BY HintsAssumption
<1> DEFINE all == <<withExact[1]>> \o request.preferred \o withExact
<1>9. all \in Seq(Route)
  BY <1>7, <1>8
<1> HIDE DEF all
<1>10. Unique(all) \in Seq(Route)
  BY <1>9, PickedIsInOrder, Zenon DEF Unique
<1>11. routes \in Seq(Route)
  BY <1>10 DEF all
<1> HIDE DEF routes
<1> QED BY <1>1, <1>11, KeptProperties

LEMMA SelectedRoutesAreRoutes ==
  ASSUME NEW primary, NEW planned \in Seq(Route)
  PROVE  SelectedRoutes(primary, planned) \in Seq(Route)
<1>1. ASSUME NEW routes \in Seq(Route) PROVE Present(routes, planned) \in Seq(Route)
  BY KeptProperties DEF Present
<1>2. \A r \in Route : <<r>> \in Seq(Route)
  OBVIOUS
<1>3. <<"symbol", "semantic", "impact">> \in Seq(Route) /\ "semantic" \in Route /\ "impact" \in Route
  BY DEF Route
<1> HIDE DEF Route
<1>4. Present(<<"semantic">>, planned) \in Seq(Route) /\ Present(<<"impact">>, planned) \in Seq(Route)
      /\ Present(<<"symbol", "semantic", "impact">>, planned) \in Seq(Route)
  BY <1>1, <1>2, <1>3
<1> QED BY <1>4 DEF SelectedRoutes

\* A budget cuts routes off and reorders none.
LEMMA AffordableIsInOrder ==
  ASSUME NEW routes \in Seq(Route)
  PROVE  Affordable(routes) \in Seq(Route) /\ InOrder(Affordable(routes), routes)
<1>1. \E places : Affordable(routes) = Picked(routes, places)
  BY Zenon DEF Affordable
<1> QED BY <1>1, PickedIsInOrder

Statuses == {"planned", "executed", "skipped"}
Whys == {None, "hint", "mode", "no budget", "total spent", "filters", "unavailable", "satisfied", "seeded", "ambiguous", "no seed"}
Traces == [status : Statuses, why : Whys]

\* No route is spared before the first attempt.
LEMMA FirstTraceIs ==
  ASSUME NEW r, NEW selected, NEW run
  PROVE  /\ FirstTrace(r, selected, run) \in Traces
         /\ FirstTrace(r, selected, run).why \notin {"satisfied", "seeded"}
<1>1. ASSUME NEW status \in Statuses, NEW why \in Whys \ {"satisfied", "seeded"}
      PROVE  [status |-> status, why |-> why] \in Traces /\ [status |-> status, why |-> why].why \notin {"satisfied", "seeded"}
  BY DEF Traces
<1> DEFINE Fine(t) == t \in Traces /\ t.why \notin {"satisfied", "seeded"}
<1>2. /\ Fine([status |-> "planned", why |-> None]) /\ Fine([status |-> "skipped", why |-> "no budget"])
      /\ Fine([status |-> "skipped", why |-> "total spent"]) /\ Fine([status |-> "skipped", why |-> "hint"])
      /\ Fine([status |-> "skipped", why |-> "mode"])
  <2>1. /\ {"planned", "skipped"} \subseteq Statuses
        /\ {None, "no budget", "total spent", "hint", "mode"} \subseteq Whys \ {"satisfied", "seeded"}
    BY DEF Statuses, Whys, None
  <2> QED BY <1>1, <2>1
<1> HIDE DEF Fine
<1>3. Fine(Unaffordable(r, selected, run))
  <2> DEFINE earlier == SelectInSeq(selected, LAMBDA s : s = r)
             runBefore == {s \in Range(run) : SelectInSeq(selected, LAMBDA t : t = s) < earlier}
  <2>1. Unaffordable(r, selected, run) =
           CASE NoBudget(r) -> [status |-> "skipped", why |-> "no budget"]
             [] ~NoBudget(r) /\ runBefore = {} -> [status |-> "planned", why |-> None]
             [] OTHER -> [status |-> "skipped", why |-> "total spent"]
    BY Zenon DEF Unaffordable
  <2> HIDE DEF runBefore
  <2> QED BY <1>2, <2>1
<1>4. Fine(FirstTrace(r, selected, run))
  BY <1>2, <1>3 DEF FirstTrace
<1> QED BY <1>4 DEF Fine

-----------------------------------------------------------------------------
(* What is found                                                           *)

Anchors == {"symbol", "span", "file", "impact"}
Candidate ==
    [id : Nat, route : Route, anchor : Anchors, symbol : Nat, path : Nat, span : Span, raw : Nat, rank : Nat,
     fits : SUBSET Filter]

InputsOK == request \in Requests /\ engines \in Engines /\ named \in Seq(Named)

\* What fusion needs to know of candidates holds of what adapters make.
LEMMA CandidatesAre == Candidates(Candidate)
BY DEF Candidates, Candidate

LEMMA MinIsInt ==
  ASSUME NEW a \in Int, NEW b \in Int, NEW c \in Int
  PROVE  Min({a, b, c}) \in Int
<1>1. \E x \in {a, b, c} : \A y \in {a, b, c} : x <= y
  <2>1. CASE a <= b /\ a <= c
    BY <2>1
  <2>2. CASE b <= a /\ b <= c
    BY <2>2
  <2>3. CASE c <= a /\ c <= b
    BY <2>3
  <2> QED BY <2>1, <2>2, <2>3
<1>2. Min({a, b, c}) \in {a, b, c}
  BY <1>1 DEF Min
<1> QED BY <1>2

LEMMA MaxIsInt ==
  ASSUME NEW a \in Int, NEW b \in Int
  PROVE  Max({a, b}) \in Int
<1>1. \E x \in {a, b} : \A y \in {a, b} : x >= y
  <2>1. CASE a >= b
    BY <2>1
  <2>2. CASE b >= a
    BY <2>2
  <2> QED BY <2>1, <2>2
<1>2. Max({a, b}) \in {a, b}
  BY <1>1 DEF Max
<1> QED BY <1>2

LEMMA BudgetIsNat ==
  ASSUME InputsOK, NEW r
  PROVE  Budget(r).timeout \in Nat /\ Budget(r).max \in Nat
<1>1. request \in Requests
  BY DEF InputsOK
<1>2. CASE r \in DOMAIN request.budget.routes
  <2>1. Budget(r) = request.budget.routes[r]
    BY <1>2 DEF Budget
  <2> QED BY <1>1, <1>2, <2>1, HintsAssumption
<1>3. CASE r \notin DOMAIN request.budget.routes
  <2>1. Budget(r) = [timeout |-> request.budget.total, max |-> 10]
    BY <1>3 DEF Budget
  <2>2. request.budget.total \in Nat
    BY <1>1, HintsAssumption
  <2> QED BY <2>1, <2>2
<1> QED BY <1>2, <1>3

\* A limit is a number, whatever the budget of a route.
LEMMA LimitIsInt ==
  ASSUME InputsOK, NEW r
  PROVE  Limit(r) \in Int
<1>1. request.limit \in Int /\ MaxLimit \in Int /\ Budget(r).max \in Int
  BY BudgetIsNat, HintsAssumption, LimitAssumption DEF InputsOK
<1>2. Max({1, request.limit}) \in Int
  BY <1>1, MaxIsInt
<1> QED BY <1>1, <1>2, MinIsInt DEF Limit

LEMMA FirstOfIsTyped ==
  ASSUME NEW T, NEW s \in Seq(T), NEW n \in Int
  PROVE  FirstOf(s, n) \in Seq(T)
<1> DEFINE m == Min({n, Len(s)})
<1>1. Len(s) \in Nat
  OBVIOUS
<1>2. m \in Int /\ m <= Len(s)
  BY <1>1, MinOfTwo
<1> HIDE DEF m
<1>3. \A i \in 1..m : s[i] \in T
  <2>1. \A i \in 1..m : i \in 1..Len(s)
    BY <1>1, <1>2
  <2> QED BY <2>1
<1>4. SubSeq(s, 1, m) \in Seq(T)
  BY <1>2, <1>3, SubSeqProperties
<1> QED BY <1>4 DEF FirstOf, m

LEMMA FittingIs ==
  ASSUME NEW T, NEW found \in Seq(T), NEW filters
  PROVE  Fitting(found, filters) \in Seq(T) /\ Range(Fitting(found, filters)) \subseteq Range(found)
BY KeptProperties DEF Fitting

\* What a lookup finds.
LEMMA LookupIsTyped ==
  ASSUME InputsOK, NEW name, NEW n \in Int
  PROVE  Lookup(name, n) \in Seq(Named)
<1>1. Fitting(named, request.filters \cap {"kind"}) \in Seq(Named)
  BY FittingIs DEF InputsOK
<1>2. FirstOf(Fitting(named, request.filters \cap {"kind"}), n) \in Seq(Named)
  BY <1>1, FirstOfIsTyped
<1>3. <<>> \in Seq(Named)
  OBVIOUS
<1> QED BY <1>2, <1>3 DEF Lookup

FoundBy(r, found) == found \in Seq(Candidate) /\ \A c \in Range(found) : c.route = r

LEMMA SymbolCandidateIs ==
  ASSUME NEW hit \in SymbolHit, NEW rank \in Nat
  PROVE  SymbolCandidate(hit, rank) \in Candidate /\ SymbolCandidate(hit, rank).route = "symbol"
<1>1. /\ hit.symbol \in Nat /\ hit.path \in Nat /\ hit.span \in Span /\ hit.score \in Nat
      /\ hit.fits \ {"package"} \in SUBSET Filter /\ 200 + hit.symbol \in Nat
  BY DEF SymbolHit
<1>2. "symbol" \in Route /\ "symbol" \in Anchors
  BY DEF Route, Anchors
<1> QED BY <1>1, <1>2 DEF SymbolCandidate, Candidate

LEMMA SemanticCandidateIs ==
  ASSUME NEW hit \in SemanticHit, NEW rank \in Nat
  PROVE  SemanticCandidate(hit, rank) \in Candidate /\ SemanticCandidate(hit, rank).route = "semantic"
<1> DEFINE anchor == IF hit.symbol # 0 THEN "symbol" ELSE IF hit.span # <<>> THEN "span" ELSE "file"
<1>1. /\ hit.symbol \in Nat /\ hit.path \in Nat /\ hit.span \in Span /\ hit.score \in Nat
      /\ hit.fits \in SUBSET Filter /\ 100 + hit.chunk \in Nat
  BY DEF SemanticHit
<1>2. "semantic" \in Route /\ anchor \in Anchors
  BY DEF Route, Anchors
<1>3. SemanticCandidate(hit, rank) =
         [id |-> 100 + hit.chunk, route |-> "semantic", anchor |-> anchor, symbol |-> hit.symbol, path |-> hit.path,
          span |-> hit.span, raw |-> hit.score, rank |-> rank, fits |-> hit.fits]
  BY Zenon DEF SemanticCandidate
<1> HIDE DEF anchor
<1> QED BY <1>1, <1>2, <1>3 DEF Candidate

LEMMA ImpactCandidateIs ==
  ASSUME NEW hit \in ImpactHit, NEW rank \in Nat
  PROVE  ImpactCandidate(hit, rank) \in Candidate /\ ImpactCandidate(hit, rank).route = "impact"
<1>1. /\ hit.symbol \in Nat /\ hit.path \in Nat /\ <<>> \in Span /\ hit.score \in Nat
      /\ hit.fits \ Unsupported["impact"] \in SUBSET Filter /\ hit.entity \in Nat
  BY DEF ImpactHit, Span
<1>2. "impact" \in Route /\ "impact" \in Anchors
  BY DEF Route, Anchors
<1> QED BY <1>1, <1>2 DEF ImpactCandidate, Candidate

\* What a route finds is of that route.
LEMMA SymbolFindingsAre ==
  ASSUME InputsOK, NEW found \in SymbolFindings
  PROVE  FoundBy("symbol", found)
<1> DEFINE hits == Lookup(Text.name, Limit("symbol"))
<1>1. found = [i \in DOMAIN hits |-> SymbolCandidate(hits[i], i)]
  BY DEF SymbolFindings, Normal
<1>2. hits \in Seq(SymbolHit)
  <2>1. hits \in Seq(Named)
    BY LimitIsInt, LookupIsTyped
  <2> QED BY <2>1, HitsAssumption
<1> HIDE DEF hits
<1>3. DOMAIN hits = 1..Len(hits) /\ Len(hits) \in Nat
  BY <1>2
<1>4. \A i \in 1..Len(hits) : SymbolCandidate(hits[i], i) \in Candidate /\ SymbolCandidate(hits[i], i).route = "symbol"
  BY <1>2, <1>3, SymbolCandidateIs
<1>5. found = [i \in 1..Len(hits) |-> SymbolCandidate(hits[i], i)]
  BY <1>1, <1>3
<1>6. found \in Seq(Candidate) /\ DOMAIN found = 1..Len(hits)
  BY <1>3, <1>4, <1>5
<1>7. \A c \in Range(found) : c.route = "symbol"
  BY <1>4, <1>5, <1>6 DEF Range
<1> QED BY <1>6, <1>7 DEF FoundBy

LEMMA SemanticFindingsAre ==
  ASSUME InputsOK, NEW found \in SemanticFindings
  PROVE  FoundBy("semantic", found)
<1>0. PICK answer1 \in SemanticAnswers :
         found = Normal(FirstOf(Fitting(answer1, request.filters), Limit("semantic")), SemanticCandidate)
  BY DEF SemanticFindings
<1> DEFINE hits == FirstOf(Fitting(answer1, request.filters), Limit("semantic"))
<1>1. found = [i \in DOMAIN hits |-> SemanticCandidate(hits[i], i)]
  BY <1>0 DEF Normal
<1>2. hits \in Seq(SemanticHit)
  <2>1. answer1 \in Seq(SemanticHit)
    BY HitsAssumption
  <2>2. Fitting(answer1, request.filters) \in Seq(SemanticHit)
    BY <2>1, FittingIs
  <2> QED BY <2>2, LimitIsInt, FirstOfIsTyped
<1> HIDE DEF hits
<1>3. DOMAIN hits = 1..Len(hits) /\ Len(hits) \in Nat
  BY <1>2
<1>4. \A i \in 1..Len(hits) : SemanticCandidate(hits[i], i) \in Candidate /\ SemanticCandidate(hits[i], i).route = "semantic"
  BY <1>2, <1>3, SemanticCandidateIs
<1>5. found = [i \in 1..Len(hits) |-> SemanticCandidate(hits[i], i)]
  BY <1>1, <1>3
<1>6. found \in Seq(Candidate) /\ DOMAIN found = 1..Len(hits)
  BY <1>3, <1>4, <1>5
<1>7. \A c \in Range(found) : c.route = "semantic"
  BY <1>4, <1>5, <1>6 DEF Range
<1> QED BY <1>6, <1>7 DEF FoundBy

LEMMA ImpactFindingsAre ==
  ASSUME InputsOK, NEW found \in ImpactFindings
  PROVE  FoundBy("impact", found) /\ TargetIsFound
<1>0. PICK hits \in Analysis(Limit("impact")) : found = Normal(hits, ImpactCandidate)
  BY DEF ImpactFindings
<1>1. found = [i \in DOMAIN hits |-> ImpactCandidate(hits[i], i)]
  BY <1>0 DEF Normal
<1>a. TargetIsFound
  BY DEF Analysis
<1>b. PICK answer1 \in ImpactAnswers : hits = FirstOf(answer1, Limit("impact"))
  BY <1>a DEF Analysis
<1>2. hits \in Seq(ImpactHit)
  <2>1. answer1 \in Seq(ImpactHit)
    BY HitsAssumption
  <2> QED BY <1>b, <2>1, LimitIsInt, FirstOfIsTyped
<1>3. DOMAIN hits = 1..Len(hits) /\ Len(hits) \in Nat
  BY <1>2
<1>4. \A i \in 1..Len(hits) : ImpactCandidate(hits[i], i) \in Candidate /\ ImpactCandidate(hits[i], i).route = "impact"
  BY <1>2, <1>3, ImpactCandidateIs
<1>5. found = [i \in 1..Len(hits) |-> ImpactCandidate(hits[i], i)]
  BY <1>1, <1>3
<1>6. found \in Seq(Candidate) /\ DOMAIN found = 1..Len(hits)
  BY <1>3, <1>4, <1>5
<1>7. \A c \in Range(found) : c.route = "impact"
  BY <1>4, <1>5, <1>6 DEF Range
<1> QED BY <1>a, <1>6, <1>7 DEF FoundBy

\* A route finds what is of it, and only when it can be consulted; an
\* analysis has a target.
LEMMA FindingsAre ==
  ASSUME InputsOK, NEW r \in Route, NEW found \in Findings(r)
  PROVE  /\ FoundBy(r, found)
         /\ found # <<>> => Consultable(r) /\ (r = "impact" => TargetIsFound)
<1>1. found = <<>> => FoundBy(r, found)
  BY DEF FoundBy, Range
<1> SUFFICES ASSUME found # <<>>
             PROVE  FoundBy(r, found) /\ Consultable(r) /\ (r = "impact" => TargetIsFound)
  BY <1>1
<1>2. Consultable(r)
  <2>1. CASE ~Consultable(r)
    BY <2>1 DEF Findings
  <2> QED BY <2>1
<1>3. r # "exact"
  BY <1>2 DEF Consultable, Available, ExactAvailable
<1>4. CASE r = "symbol"
  <2>1. found \in SymbolFindings
    BY <1>2, <1>4 DEF Findings
  <2> QED BY <1>2, <1>4, <2>1, SymbolFindingsAre
<1>5. CASE r = "semantic"
  <2>1. found \in SemanticFindings
    BY <1>2, <1>5 DEF Findings
  <2> QED BY <1>2, <1>5, <2>1, SemanticFindingsAre
<1>6. CASE r = "impact"
  <2>1. found \in ImpactFindings
    BY <1>2, <1>6 DEF Findings
  <2> QED BY <1>2, <1>6, <2>1, ImpactFindingsAre
<1> QED BY <1>3, <1>4, <1>5, <1>6 DEF Route

\* A target is not both found and ambiguous.
LEMMA FoundIsNotAmbiguous ==
  ASSUME TargetIsFound
  PROVE  ~TargetIsAmbiguous
<1>1. CASE Text.subject = "path"
  <2>1. Subjects = <<>>
    BY <1>1 DEF Subjects
  <2> QED BY <2>1 DEF TargetIsFound, TargetIsAmbiguous
<1>2. CASE IsTarget(ContextInUse)
  BY <1>2 DEF TargetIsAmbiguous
<1>3. CASE Len(Subjects) = 1
  <2>1. ~(Len(Subjects) > 1)
    BY <1>3
  <2> QED BY <2>1 DEF TargetIsAmbiguous
<1> QED BY <1>1, <1>2, <1>3, Zenon DEF TargetIsFound

-----------------------------------------------------------------------------
(* The inductive invariant                                                 *)

PlanOK ==
    /\ plan.selected \in Seq(Route) /\ plan.run \in Seq(Route) /\ todo \in Seq(Route)
    /\ trace \in [Route -> Traces]
    /\ candidates \in Seq(Candidate)

NotAnswered == [groups |-> <<>>, noAnswer |-> None, ambiguity |-> None, shown |-> {}, state |-> None]

\* Before a plan there is nothing, and before an answer none.
Unplanned ==
    /\ phase \in {"asked", "classified"} =>
          plan.kind = None /\ plan.selected = <<>> /\ plan.run = <<>> /\ todo = <<>> /\ candidates = <<>> /\ ambiguity = None
    /\ phase # "answered" => answer = NotAnswered

\* Routes are consulted in the order of the plan, and are traced for it or
\* still to come; where the budget cuts a route off, it is exhausted.
Planned ==
    /\ InOrder(todo, plan.selected)
    /\ plan.kind = "single" => Len(plan.selected) <= 1
    /\ \A r \in Range(plan.selected) : r \in Range(plan.run) \/ plan.exhausted
    /\ \A r \in Range(plan.run) : r \in Range(todo) \/ trace[r].status # "planned"

\* Nothing is found where nothing can be consulted.
FromRoutes == Available = {} => candidates = <<>>

\* A staged plan goes on while nothing is found.
Staged ==
    plan.kind = "staged" =>
        /\ todo # <<>> => candidates = <<>>
        /\ ambiguity # None => Executed("impact") /\ Consultable("impact")

ContextOf(c) == <<c.anchor, c.symbol, c.path, c.span>>
SeedsOf(s) == {c \in Range(s) : c.route # "impact"}
OneContext(set) == \A c, d \in set : ContextOf(c) = ContextOf(d)

\* The impact route of a plan with seeds is last, after one seed.
Seeding ==
    plan.kind = "seed" =>
        /\ todo # <<>> => /\ ambiguity = None
                          /\ \A c \in Range(candidates) : c.route # "impact"
                          /\ OneContext(SeedsOf(candidates))
        /\ candidates # <<>> => Range(todo) \subseteq {"impact"}
        /\ (\E c \in Range(candidates) : c.route = "impact") => ambiguity = None /\ OneContext(SeedsOf(candidates))

FoundBefore(r) ==
    \E i, j \in DOMAIN plan.selected :
        i < j /\ plan.selected[j] = r /\ \E c \in Range(candidates) : c.route = plan.selected[i]

\* Why a route was not needed.
Unneeded ==
    \A r \in Route :
        /\ trace[r].why = "satisfied" => plan.kind = "staged" /\ todo = <<>> /\ (candidates # <<>> => FoundBefore(r))
        /\ trace[r].why = "seeded" => /\ plan.kind = "seed" /\ r # "impact" /\ FoundBefore(r)
                                      /\ ambiguity = None \/ Executed("impact")

Core == InputsOK /\ PlanOK /\ Unplanned /\ Planned /\ FromRoutes /\ Staged /\ Seeding /\ Unneeded

-----------------------------------------------------------------------------
(* What a step leaves alone, and what an attempt does                      *)

LEMMA InOrderOfNone ==
  ASSUME NEW s
  PROVE  InOrder(<<>>, s)
BY DEF InOrder

LEMMA InOrderOfTail ==
  ASSUME NEW T, NEW s \in Seq(T), NEW t \in Seq(T), t # <<>>, InOrder(t, s)
  PROVE  InOrder(Tail(t), s)
<1>1. Len(t) \in Nat /\ Len(t) # 0 /\ DOMAIN t = 1..Len(t)
  BY EmptySeq
<1>2. DOMAIN Tail(t) = 1..(Len(t) - 1) /\ \A i \in 1..(Len(t) - 1) : Tail(t)[i] = t[i + 1]
  BY <1>1
<1>3. ASSUME NEW i \in DOMAIN Tail(t), NEW j \in DOMAIN Tail(t), i < j
      PROVE  \E p, q \in DOMAIN s : p < q /\ s[p] = Tail(t)[i] /\ s[q] = Tail(t)[j]
  <2>1. i + 1 \in DOMAIN t /\ j + 1 \in DOMAIN t /\ i + 1 < j + 1
    BY <1>1, <1>2, <1>3
  <2>2. PICK p \in DOMAIN s, q \in DOMAIN s : p < q /\ s[p] = t[i + 1] /\ s[q] = t[j + 1]
    BY <2>1 DEF InOrder
  <2>3. Tail(t)[i] = t[i + 1] /\ Tail(t)[j] = t[j + 1]
    BY <1>2
  <2> QED BY <2>2, <2>3
<1> QED BY <1>3 DEF InOrder

LEMMA InOrderOfInOrder ==
  ASSUME NEW s, NEW t, NEW u, InOrder(u, t), InOrder(t, s)
  PROVE  InOrder(u, s)
<1>1. ASSUME NEW i \in DOMAIN u, NEW j \in DOMAIN u, i < j
      PROVE  \E p, q \in DOMAIN s : p < q /\ s[p] = u[i] /\ s[q] = u[j]
  <2>1. PICK k \in DOMAIN t, l \in DOMAIN t : k < l /\ t[k] = u[i] /\ t[l] = u[j]
    BY <1>1 DEF InOrder
  <2>2. PICK p \in DOMAIN s, q \in DOMAIN s : p < q /\ s[p] = t[k] /\ s[q] = t[l]
    BY <2>1 DEF InOrder
  <2> QED BY <2>1, <2>2
<1> QED BY <1>1 DEF InOrder

LEMMA HeadAndTail ==
  ASSUME NEW T, NEW s \in Seq(T), s # <<>>
  PROVE  /\ Head(s) \in T /\ Head(s) = s[1] /\ Tail(s) \in Seq(T)
         /\ Range(s) = {Head(s)} \union Range(Tail(s))
         /\ \A x \in Range(Tail(s)) : \E j \in DOMAIN s : 1 < j /\ s[j] = x
<1>1. Len(s) \in Nat /\ Len(s) # 0 /\ DOMAIN s = 1..Len(s)
  BY EmptySeq
<1>2. Head(s) = s[1] /\ 1 \in DOMAIN s
  BY <1>1
<1>3. /\ Tail(s) \in Seq(T) /\ DOMAIN Tail(s) = 1..(Len(s) - 1)
      /\ \A i \in 1..(Len(s) - 1) : Tail(s)[i] = s[i + 1]
  BY <1>1
<1>4. ASSUME NEW x \in Range(Tail(s)) PROVE \E j \in DOMAIN s : 1 < j /\ s[j] = x
  <2>1. PICK i \in 1..(Len(s) - 1) : x = Tail(s)[i]
    BY <1>3 DEF Range
  <2>2. i + 1 \in DOMAIN s /\ 1 < i + 1 /\ s[i + 1] = x
    BY <1>1, <1>3, <2>1
  <2> QED BY <2>2
<1>5. ASSUME NEW x \in Range(s) PROVE x = Head(s) \/ x \in Range(Tail(s))
  <2>1. PICK j \in 1..Len(s) : x = s[j]
    BY <1>1 DEF Range
  <2>2. CASE j = 1
    BY <1>2, <2>1, <2>2
  <2>3. CASE j # 1
    <3>1. j - 1 \in 1..(Len(s) - 1) /\ (j - 1) + 1 = j
      BY <1>1, <2>3
    <3>2. Tail(s)[j - 1] = x
      BY <1>3, <2>1, <3>1
    <3> QED BY <1>3, <3>1, <3>2 DEF Range
  <2> QED BY <2>2, <2>3
<1>6. \A x \in Range(Tail(s)) : x \in Range(s)
  BY <1>4 DEF Range
<1>7. Head(s) \in Range(s)
  BY <1>2 DEF Range
<1>8. Head(s) \in T
  BY <1>1, <1>2
<1> QED BY <1>2, <1>3, <1>4, <1>5, <1>6, <1>7, <1>8

LEMMA MarkSkippedIs ==
  ASSUME NEW t \in [Route -> Traces], NEW routes, NEW why \in Whys
  PROVE  /\ MarkSkipped(t, routes, why) \in [Route -> Traces]
         /\ \A q \in Route :
               \/ q \in routes /\ t[q].status = "planned" /\ MarkSkipped(t, routes, why)[q] = Skipped(why)
               \/ ~(q \in routes /\ t[q].status = "planned") /\ MarkSkipped(t, routes, why)[q] = t[q]
<1>1. Skipped(why) \in Traces
  BY DEF Skipped, Traces, Statuses
<1>2. MarkSkipped(t, routes, why) =
         [r \in Route |-> IF r \in routes /\ t[r].status = "planned" THEN Skipped(why) ELSE t[r]]
  BY DEF MarkSkipped
<1> QED BY <1>1, <1>2

LEMMA AttemptedIs ==
  ASSUME trace \in [Route -> Traces], NEW r \in Route
  PROVE  /\ Attempted(r) \in [Route -> Traces]
         /\ \A q \in Route : q # r => Attempted(r)[q] = trace[q]
         /\ Attempted(r)[r].status \in {"executed", "skipped"}
         /\ Attempted(r)[r].why \in {None, "filters", "unavailable"}
         /\ Consultable(r) => Attempted(r)[r].status = "executed"
<1> DEFINE why == IF r \in Available THEN "filters" ELSE "unavailable"
           new == IF Consultable(r) THEN [status |-> "executed", why |-> None] ELSE Skipped(why)
<1>1. Attempted(r) = [trace EXCEPT ![r] = new]
  BY DEF Attempted
<1>2. /\ new \in Traces /\ new.status \in {"executed", "skipped"} /\ new.why \in {None, "filters", "unavailable"}
      /\ Consultable(r) => new.status = "executed"
  BY DEF Skipped, Traces, Statuses, Whys
<1> HIDE DEF new
<1> QED BY <1>1, <1>2

\* What an attempt adds.
LEMMA Consulted ==
  ASSUME InputsOK, PlanOK, NEW r \in Route, NEW found \in Findings(r), Consult(found),
         NEW kept, kept = Fitting(found, request.filters)
  PROVE  /\ candidates' \in Seq(Candidate)
         /\ kept \in Seq(Candidate)
         /\ Range(candidates') = Range(candidates) \union Range(kept)
         /\ \A c \in Range(kept) : c.route = r
         /\ kept # <<>> => Consultable(r) /\ (r = "impact" => ~TargetIsAmbiguous)
         /\ candidates = <<>> => candidates' = kept
         /\ kept = <<>> => candidates' = candidates
<1>1. FoundBy(r, found) /\ (found # <<>> => Consultable(r) /\ (r = "impact" => TargetIsFound))
  BY FindingsAre
<1>2. found \in Seq(Candidate) /\ \A c \in Range(found) : c.route = r
  BY <1>1 DEF FoundBy
<1>3. kept \in Seq(Candidate) /\ Range(kept) \subseteq Range(found)
  BY <1>2, FittingIs
<1>4. candidates \in Seq(Candidate) /\ candidates' = candidates \o kept
  BY DEF PlanOK, Consult
<1>5. kept # <<>> => found # <<>>
  <2> SUFFICES ASSUME kept # <<>> PROVE found # <<>>
    OBVIOUS
  <2>1. kept[1] \in Range(kept)
    BY <1>3, FirstIsIn
  <2>2. Range(found) # {}
    BY <1>3, <2>1
  <2> QED BY <2>2 DEF Range
<1>6. Range(candidates \o kept) = Range(candidates) \union Range(kept)
  BY <1>3, <1>4, RangeConcatenation
<1>7. kept # <<>> => Consultable(r) /\ (r = "impact" => ~TargetIsAmbiguous)
  BY <1>1, <1>5, FoundIsNotAmbiguous
<1>8. candidates' \in Seq(Candidate)
  BY <1>3, <1>4
<1>9. (candidates = <<>> => candidates' = kept) /\ (kept = <<>> => candidates' = candidates)
  BY <1>3, <1>4, ConcatEmptySeq
<1> QED BY <1>2, <1>3, <1>4, <1>6, <1>7, <1>8, <1>9

\* What can be consulted does not change.
LEMMA SameRoutes ==
  ASSUME UNCHANGED inputs
  PROVE  Available' = Available /\ \A r \in Route : Consultable(r)' = Consultable(r)
<1>1. request' = request /\ engines' = engines
  BY DEF inputs
<1>2. RouteEnabled("symbol")' = RouteEnabled("symbol") /\ RouteEnabled("semantic")' = RouteEnabled("semantic")
      /\ RouteEnabled("impact")' = RouteEnabled("impact")
  BY <1>1 DEF RouteEnabled
<1>3. /\ ExactAvailable' = ExactAvailable /\ SymbolAvailable' = SymbolAvailable
      /\ SemanticAvailable' = SemanticAvailable /\ ImpactAvailable' = ImpactAvailable
  BY <1>1, <1>2 DEF ExactAvailable, SymbolAvailable, SemanticAvailable, ImpactAvailable
<1>4. Available' = Available
  BY <1>3 DEF Available
<1>5. ASSUME NEW r \in Route PROVE Consultable(r)' = Consultable(r)
  BY <1>1, <1>4 DEF Consultable
<1> QED BY <1>4, <1>5

LEMMA SameInputs ==
  ASSUME InputsOK, UNCHANGED inputs
  PROVE  InputsOK'
BY DEF InputsOK, inputs

\* What was found stays found.
LEMMA FoundBeforeStays ==
  ASSUME UNCHANGED plan, Range(candidates) \subseteq Range(candidates'), NEW r, FoundBefore(r)
  PROVE  FoundBefore(r)'
<1>1. PICK i \in DOMAIN plan.selected, j \in DOMAIN plan.selected :
         i < j /\ plan.selected[j] = r /\ \E c \in Range(candidates) : c.route = plan.selected[i]
  BY DEF FoundBefore
<1>2. \E c \in Range(candidates') : c.route = plan'.selected[i]
  BY <1>1
<1>3. plan'.selected = plan.selected
  OBVIOUS
<1> QED BY <1>1, <1>2, <1>3 DEF FoundBefore

-----------------------------------------------------------------------------
(* Every step keeps it                                                     *)

\* The invariant holds of a query that is asked.
LEMMA CoreAtStart ==
  ASSUME Init
  PROVE  Core
<1>1. request \in Requests /\ engines \in Engines
  BY DEF Init
<1>2. named \in Seq(Named)
  <2>1. PICK s \in SUBSET Named : named = SetToSeq(s)
    BY DEF Init
  <2>2. IsFiniteSet(s)
    BY HitsAssumption, FS_Subset
  <2>3. Cardinality(s) \in Nat
    BY <2>2, FS_CardinalityType
  <2>4. \E f \in [1..Cardinality(s) -> s] : IsInjective(f)
    <3>1. ExistsBijection(1..Cardinality(s), s)
      BY <2>2, FS_CardinalityType
    <3>2. PICK f \in Bijection(1..Cardinality(s), s) : TRUE
      BY <3>1 DEF ExistsBijection
    <3>3. f \in [1..Cardinality(s) -> s] /\ IsInjective(f)
      BY <3>2 DEF Bijection, Injection, Surjection, IsInjective
    <3> QED BY <3>3
  <2>5. SetToSeq(s) \in [1..Cardinality(s) -> s]
    BY <2>4, Zenon DEF SetToSeq
  <2>6. SetToSeq(s) \in Seq(s)
    BY <2>3, <2>5
  <2> QED BY <2>1, <2>6
<1>3. /\ plan.kind = None /\ plan.selected = <<>> /\ plan.run = <<>> /\ todo = <<>> /\ candidates = <<>>
      /\ ambiguity = None /\ answer = NotAnswered
      /\ \A r \in Route : trace[r].why = None
  BY DEF Init, NotAnswered
<1>4. trace \in [Route -> Traces]
  <2>1. [status |-> "planned", why |-> None] \in Traces
    BY DEF Traces, Statuses, Whys
  <2> QED BY <2>1 DEF Init
<1>5. InputsOK /\ PlanOK /\ Unplanned
  BY <1>1, <1>2, <1>3, <1>4 DEF InputsOK, PlanOK, Unplanned
<1>6. Range(<<>>) = {} /\ InOrder(<<>>, <<>>)
  BY InOrderOfNone DEF Range
<1>7. Planned /\ FromRoutes
  BY <1>3, <1>6 DEF Planned, FromRoutes
<1>8. Staged /\ Seeding /\ Unneeded
  BY <1>3 DEF Staged, Seeding, Unneeded, None
<1> QED BY <1>5, <1>7, <1>8 DEF Core

\* Steps that neither plan nor consult.
LEMMA CoreStays ==
  ASSUME Core, UNCHANGED <<inputs, plan, trace, todo, candidates, ambiguity>>, Unplanned'
  PROVE  Core'
<1>1. InputsOK'
  BY SameInputs DEF Core
<1>2. PlanOK'
  BY DEF Core, PlanOK
<1>3. Planned'
  BY DEF Core, Planned
<1>4. FromRoutes'
  BY SameRoutes DEF Core, FromRoutes
<1>5. Staged'
  BY SameRoutes DEF Core, Staged, Executed, Route
<1>6. Seeding'
  BY DEF Core, Seeding, SeedsOf, OneContext
<1>7. Unneeded'
  <2>1. \A r : FoundBefore(r) => FoundBefore(r)'
    BY FoundBeforeStays
  <2> QED BY <2>1 DEF Core, Unneeded, Executed
<1> QED BY <1>1, <1>2, <1>3, <1>4, <1>5, <1>6, <1>7 DEF Core

\* Steps that neither plan nor consult keep it.
LEMMA CoreOfOthers ==
  ASSUME Core, Refuse \/ Status \/ RuntimeStatus \/ Classify \/ Answer \/ UNCHANGED vars
  PROVE  Core'
<1>1. CASE Refuse \/ Status \/ RuntimeStatus \/ Answer
  <2>1. phase' = "answered" /\ UNCHANGED <<inputs, plan, trace, todo, candidates, ambiguity>>
    BY <1>1 DEF Refuse, Status, RuntimeStatus, Answer, results
  <2>2. Unplanned'
    BY <2>1 DEF Unplanned
  <2> QED BY <2>1, <2>2, CoreStays
<1>2. CASE Classify
  <2>1. phase = "asked" /\ UNCHANGED <<inputs, plan, trace, todo, candidates, ambiguity, answer>>
    BY <1>2 DEF Classify
  <2>2. Unplanned'
    BY <2>1 DEF Core, Unplanned
  <2> QED BY <2>1, <2>2, CoreStays
<1>3. CASE UNCHANGED vars
  <2>1. UNCHANGED <<inputs, plan, trace, todo, candidates, ambiguity, answer, phase>>
    BY <1>3 DEF vars, inputs
  <2>2. Unplanned'
    BY <2>1 DEF Core, Unplanned
  <2> QED BY <2>1, <2>2, CoreStays
<1> QED BY <1>1, <1>2, <1>3

\* A plan starts with nothing found, and all its routes are traced or to come.
LEMMA CoreOfPlanRoutes ==
  ASSUME Core, PlanRoutes
  PROVE  Core'
<1>0. /\ phase = "classified" /\ phase' = "routing" /\ UNCHANGED <<inputs, candidates, ambiguity, answer>>
      /\ candidates = <<>> /\ ambiguity = None /\ answer = NotAnswered
  BY DEF PlanRoutes, Core, Unplanned
<1>1. PICK styles, planned, selected, run :
         /\ styles = Styles /\ planned = PlannedRoutes(styles) /\ selected = SelectedRoutes(Primary(styles), planned)
         /\ run = Affordable(selected)
         /\ plan' = [kind |-> PolicyKind(styles, selected), selected |-> selected, run |-> run,
                     lowSignal |-> LowSignal(Primary(styles)) \/ ImpactUnseeded(Primary(styles)),
                     exhausted |-> \E r \in Range(selected) :
                                       r \notin Range(run) \/ Budget(r).timeout > request.budget.total]
         /\ trace' = [r \in Route |-> FirstTrace(r, selected, run)]
         /\ todo' = run
  BY Zenon DEF PlanRoutes
<1>2. request \in Requests
  BY DEF Core, InputsOK
<1>3. styles \in Seq(Route) /\ styles # <<>>
  BY <1>1, <1>2, StylesAreRoutes
<1>4. planned \in Seq(Route)
  BY <1>1, <1>2, <1>3, PlannedRoutesAreRoutes
<1>5. selected \in Seq(Route)
  BY <1>1, <1>4, SelectedRoutesAreRoutes
<1>6. run \in Seq(Route) /\ InOrder(run, selected)
  BY <1>1, <1>5, AffordableIsInOrder
<1>7. /\ plan'.kind = PolicyKind(styles, selected) /\ plan'.selected = selected /\ plan'.run = run
      /\ plan'.exhausted = \E r \in Range(selected) : r \notin Range(run) \/ Budget(r).timeout > request.budget.total
  BY <1>1
<1>8. /\ trace' \in [Route -> Traces]
      /\ \A r \in Route : trace'[r].why \notin {"satisfied", "seeded"}
  BY <1>1, FirstTraceIs
<1>9. candidates' = <<>> /\ candidates' \in Seq(Candidate) /\ Range(candidates') = {} /\ ambiguity' = None
  BY <1>0 DEF Range
<1>10. InputsOK'
  BY <1>0, SameInputs DEF Core
<1>11. PlanOK'
  BY <1>1, <1>5, <1>6, <1>7, <1>8, <1>9 DEF PlanOK
<1>12. Unplanned'
  BY <1>0 DEF Unplanned
<1>13. Planned'
  <2>1. PolicyKind(styles, selected) = "single" => Len(selected) <= 1
    BY DEF PolicyKind
  <2>2. \A r \in Range(selected) : r \in Range(run) \/ plan'.exhausted
    BY <1>7
  <2>3. todo' = run
    BY <1>1
  <2> QED BY <1>6, <1>7, <2>1, <2>2, <2>3, Zenon DEF Planned
<1>14. FromRoutes' /\ Staged' /\ Seeding'
  BY <1>9 DEF FromRoutes, Staged, Seeding, SeedsOf, OneContext
<1>15. Unneeded'
  BY <1>8 DEF Unneeded
<1> QED BY <1>10, <1>11, <1>12, <1>13, <1>14, <1>15 DEF Core

\* A route of a plan without seeds: what it finds satisfies a staged plan.
LEMMA CoreOfStandard ==
  ASSUME Core, Standard
  PROVE  Core'
<1>0. /\ phase = "routing" /\ plan.kind # "seed" /\ todo # <<>>
      /\ UNCHANGED <<inputs, phase, plan, answer>>
      /\ InputsOK /\ PlanOK /\ Unplanned /\ Planned /\ FromRoutes /\ Staged /\ Unneeded
  BY DEF Standard, Core
<1>1. PICK r \in Route, rest \in Seq(Route) :
         /\ r = Head(todo) /\ rest = Tail(todo) /\ Range(todo) = {r} \union Range(rest) /\ r = todo[1]
         /\ \A x \in Range(rest) : \E j \in DOMAIN todo : 1 < j /\ todo[j] = x
  <2>1. todo \in Seq(Route) /\ todo # <<>>
    BY <1>0 DEF PlanOK
  <2>2. /\ Head(todo) \in Route /\ Head(todo) = todo[1] /\ Tail(todo) \in Seq(Route)
        /\ Range(todo) = {Head(todo)} \union Range(Tail(todo))
        /\ \A x \in Range(Tail(todo)) : \E j \in DOMAIN todo : 1 < j /\ todo[j] = x
    BY <2>1, HeadAndTail
  <2> QED BY <2>2, Zenon
<1>2. PICK found \in Findings(r) :
         /\ Consult(found)
         /\ IF Satisfies(r, Fitting(found, request.filters))
            THEN trace' = MarkSkipped(Attempted(r), Range(rest), "satisfied") /\ todo' = <<>>
            ELSE trace' = Attempted(r) /\ todo' = rest
  BY <1>1 DEF Standard
<1>3. ambiguity' = IF ambiguity = None THEN ImpactAmbiguity(r) ELSE ambiguity
  BY <1>1 DEF Standard
<1>4. PICK kept : kept = Fitting(found, request.filters)
  OBVIOUS
<1>5. /\ candidates' \in Seq(Candidate) /\ kept \in Seq(Candidate)
      /\ Range(candidates') = Range(candidates) \union Range(kept)
      /\ \A c \in Range(kept) : c.route = r
      /\ kept # <<>> => Consultable(r) /\ (r = "impact" => ~TargetIsAmbiguous)
      /\ candidates = <<>> => candidates' = kept
      /\ kept = <<>> => candidates' = candidates
  BY <1>0, <1>2, <1>4, Consulted
<1>6. /\ Attempted(r) \in [Route -> Traces]
      /\ \A q \in Route : q # r => Attempted(r)[q] = trace[q]
      /\ Attempted(r)[r].status \in {"executed", "skipped"}
      /\ Attempted(r)[r].why \in {None, "filters", "unavailable"}
      /\ Consultable(r) => Attempted(r)[r].status = "executed"
  BY <1>0, AttemptedIs DEF PlanOK
<1>7. /\ trace' \in [Route -> Traces]
      /\ \A q \in Route :
            \/ q \in Range(rest) /\ Attempted(r)[q].status = "planned" /\ Satisfies(r, kept) /\ trace'[q] = Skipped("satisfied")
            \/ (Satisfies(r, kept) => ~(q \in Range(rest) /\ Attempted(r)[q].status = "planned"))
               /\ trace'[q] = Attempted(r)[q]
  <2>1. CASE Satisfies(r, kept)
    <3>1. trace' = MarkSkipped(Attempted(r), Range(rest), "satisfied") /\ "satisfied" \in Whys
      BY <1>2, <1>4, <2>1 DEF Whys
    <3>2. /\ MarkSkipped(Attempted(r), Range(rest), "satisfied") \in [Route -> Traces]
          /\ \A q \in Route :
                \/ q \in Range(rest) /\ Attempted(r)[q].status = "planned"
                   /\ MarkSkipped(Attempted(r), Range(rest), "satisfied")[q] = Skipped("satisfied")
                \/ ~(q \in Range(rest) /\ Attempted(r)[q].status = "planned")
                   /\ MarkSkipped(Attempted(r), Range(rest), "satisfied")[q] = Attempted(r)[q]
      BY <1>6, <3>1, MarkSkippedIs
    <3> QED BY <2>1, <3>1, <3>2
  <2>2. CASE ~Satisfies(r, kept)
    BY <1>2, <1>4, <1>6, <2>2
  <2> QED BY <2>1, <2>2
<1>8. (Satisfies(r, kept) => todo' = <<>>) /\ (~Satisfies(r, kept) => todo' = rest)
  BY <1>2, <1>4
<1>9. todo' \in Seq(Route)
  <2>1. <<>> \in Seq(Route)
    OBVIOUS
  <2> QED BY <1>1, <1>8, <2>1, Zenon
<1>10. InputsOK'
  BY <1>0, SameInputs
<1>11. PlanOK'
  BY <1>0, <1>5, <1>7, <1>9 DEF PlanOK
<1>12. Unplanned'
  BY <1>0 DEF Unplanned
<1>13. Planned'
  <2>1. InOrder(todo', plan.selected)
    <3>1. InOrder(rest, plan.selected)
      BY <1>0, <1>1, InOrderOfTail DEF PlanOK, Planned
    <3> QED BY <1>8, <3>1, InOrderOfNone
  <2>2. ASSUME NEW q \in Range(plan.run) PROVE q \in Range(todo') \/ trace'[q].status # "planned"
    <3>0. q \in Route
      BY <1>0 DEF PlanOK, Range
    <3>1. q \in Range(todo) \/ trace[q].status # "planned"
      BY <1>0 DEF Planned
    <3>2. CASE q = r
      <4>1. Attempted(r)[q].status # "planned"
        BY <1>6, <3>2
      <4> QED BY <1>7, <3>0, <4>1
    <3>3. CASE q # r
      <4>1. Attempted(r)[q] = trace[q] /\ (q \in Range(rest) \/ trace[q].status # "planned")
        BY <1>1, <1>6, <3>0, <3>1, <3>3
      <4>2. Skipped("satisfied").status = "skipped"
        BY DEF Skipped
      <4>3. CASE Satisfies(r, kept)
        BY <1>7, <3>0, <4>1, <4>2, <4>3
      <4>4. CASE ~Satisfies(r, kept)
        BY <1>7, <1>8, <3>0, <4>1, <4>4
      <4> QED BY <4>3, <4>4
    <3> QED BY <3>2, <3>3
  <2> QED BY <1>0, <2>1, <2>2 DEF Planned
<1>14. FromRoutes'
  <2>1. Available' = Available
    BY <1>0, SameRoutes
  <2>2. kept # <<>> => Available # {}
    BY <1>5 DEF Consultable
  <2> QED BY <1>0, <1>5, <2>1, <2>2 DEF FromRoutes
<1>15. Staged'
  <2> SUFFICES ASSUME plan.kind = "staged"
               PROVE  /\ todo' # <<>> => candidates' = <<>>
                      /\ ambiguity' # None => Executed("impact")' /\ Consultable("impact")'
    BY <1>0 DEF Staged
  <2>1. candidates = <<>>
    BY <1>0 DEF Staged
  <2>2. todo' # <<>> => kept = <<>>
    BY <1>8 DEF Satisfies
  <2>3. "impact" \in Route /\ Consultable("impact")' = Consultable("impact")
    BY <1>0, SameRoutes DEF Route
  <2>4. ASSUME ambiguity' # None PROVE Executed("impact")' /\ Consultable("impact")
    <3>1. CASE ambiguity # None
      <4>1. trace["impact"].status = "executed" /\ Consultable("impact")
        BY <1>0, <3>1 DEF Staged, Executed
      <4>2. Attempted(r)["impact"].status = "executed"
        BY <1>6, <2>3, <4>1
      <4>3. trace'["impact"].status = "executed"
        BY <1>7, <2>3, <4>2
      <4> QED BY <4>1, <4>3 DEF Executed
    <3>2. CASE ambiguity = None
      <4>1. r = "impact" /\ Consultable(r)
        BY <1>3, <2>4, <3>2 DEF ImpactAmbiguity
      <4>2. Attempted(r)["impact"].status = "executed"
        BY <1>6, <4>1
      <4>3. trace'["impact"].status = "executed"
        BY <1>7, <2>3, <4>2
      <4> QED BY <4>1, <4>3 DEF Executed
    <3> QED BY <3>1, <3>2
  <2> QED BY <1>5, <2>1, <2>2, <2>3, <2>4
<1>16. Seeding'
  BY <1>0 DEF Seeding
<1>17. Unneeded'
  <2>1. ASSUME NEW q \in Route, trace'[q].why = "satisfied"
        PROVE  plan.kind = "staged" /\ todo' = <<>> /\ (candidates' # <<>> => FoundBefore(q)')
    <3>1. trace[q].why # "satisfied"
      BY <1>0 DEF Unneeded
    <3>2. Attempted(r)[q].why # "satisfied"
      BY <1>6, <3>1 DEF None
    <3>3. q \in Range(rest) /\ Satisfies(r, kept)
      BY <1>7, <2>1, <3>2
    <3>4. PICK k \in DOMAIN todo : 1 < k /\ todo[k] = q
      BY <1>1, <3>3
    <3>5. 1 \in DOMAIN todo
      <4>1. todo \in Seq(Route)
        BY <1>0 DEF PlanOK
      <4> QED BY <3>4, <4>1
    <3>6. PICK i \in DOMAIN plan.selected, j \in DOMAIN plan.selected :
             i < j /\ plan.selected[i] = todo[1] /\ plan.selected[j] = q
      BY <1>0, <3>4, <3>5 DEF Planned, InOrder
    <3>7. plan.kind # "single"
      <4>1. plan.selected \in Seq(Route)
        BY <1>0 DEF PlanOK
      <4>2. i \in 1..Len(plan.selected) /\ j \in 1..Len(plan.selected) /\ Len(plan.selected) \in Nat
        BY <4>1
      <4>3. ~(Len(plan.selected) <= 1)
        BY <3>6, <4>2
      <4> QED BY <1>0, <4>3 DEF Planned
    <3>8. plan.kind = "staged"
      BY <3>3, <3>7 DEF Satisfies
    <3>9. todo' = <<>>
      BY <1>8, <3>3
    <3>10. candidates' = kept
      BY <1>0, <1>5, <3>8 DEF Staged
    <3>11. ASSUME candidates' # <<>> PROVE FoundBefore(q)'
      <4>1. kept[1] \in Range(kept)
        BY <1>5, <3>10, <3>11, FirstIsIn
      <4>2. kept[1] \in Range(candidates') /\ kept[1].route = r
        BY <1>5, <4>1
      <4>3. plan' = plan
        BY <1>0
      <4> QED BY <1>1, <3>6, <4>2, <4>3 DEF FoundBefore
    <3> QED BY <3>8, <3>9, <3>11
  <2>2. ASSUME NEW q \in Route, trace'[q].why = "seeded" PROVE FALSE
    <3>1. trace[q].why # "seeded"
      BY <1>0 DEF Unneeded
    <3>2. Attempted(r)[q].why # "seeded"
      BY <1>6, <3>1 DEF None
    <3>3. Skipped("satisfied").why = "satisfied"
      BY DEF Skipped
    <3> QED BY <1>7, <2>2, <3>2, <3>3
  <2> QED BY <1>0, <2>1, <2>2 DEF Unneeded
<1> QED BY <1>10, <1>11, <1>12, <1>13, <1>14, <1>15, <1>16, <1>17 DEF Core

\* What a seed route finds, as it is judged.
LEMMA ResolutionIs ==
  ASSUME NEW kept \in Seq(Candidate)
  PROVE  /\ Resolution(kept) = "none" => kept = <<>>
         /\ Resolution(kept) = "unique" => kept # <<>> /\ OneContext(Range(kept))
         /\ Resolution(kept) \in {"none", "unique", "ambiguous"}
<1> DEFINE contexts == SeedContexts(kept)
<1>0. contexts = {ContextOf(c) : c \in Range(kept)}
  BY Zenon DEF SeedContexts, ContextOf
<1>1. /\ contexts = {} => Resolution(kept) = "none"
      /\ contexts # {} /\ Cardinality(contexts) = 1 => Resolution(kept) = "unique"
      /\ contexts # {} /\ Cardinality(contexts) # 1 => Resolution(kept) = "ambiguous"
  <2>1. Cardinality({}) = 0
    BY FS_EmptySet
  <2>2. Resolution(kept) = CASE contexts = {} -> "none" [] Cardinality(contexts) = 1 -> "unique" [] OTHER -> "ambiguous"
    BY Zenon DEF Resolution
  <2> HIDE DEF contexts
  <2>3. CASE contexts = {}
    <3>1. Cardinality(contexts) # 1
      BY <2>1, <2>3
    <3> QED BY <2>2, <2>3, <3>1
  <2>4. CASE contexts # {} /\ Cardinality(contexts) = 1
    BY <2>2, <2>4
  <2>5. CASE contexts # {} /\ Cardinality(contexts) # 1
    BY <2>2, <2>5
  <2> QED BY <2>3, <2>4, <2>5
<1>2. contexts = {} => kept = <<>>
  <2> SUFFICES ASSUME kept # <<>> PROVE contexts # {}
    OBVIOUS
  <2>1. kept[1] \in Range(kept)
    BY FirstIsIn
  <2> QED BY <1>0, <2>1
<1>3. kept = <<>> => contexts = {}
  BY <1>0 DEF Range
<1>4. ASSUME Cardinality(contexts) = 1, contexts # {} PROVE OneContext(Range(kept))
  <2>1. IsFiniteSet(contexts)
    <3>1. CASE IsFiniteSet(Range(kept))
      <4> DEFINE e == [c \in Range(kept) |-> ContextOf(c)]
      <4>1. contexts = {e[c] : c \in Range(kept)}
        BY <1>0
      <4>2. DOMAIN e = Range(kept) /\ e = [c \in Range(kept) |-> e[c]]
        OBVIOUS
      <4> HIDE DEF e
      <4>3. IsFiniteSet({e[c] : c \in Range(kept)})
        BY <3>1, <4>2, ImageIsFinite, Zenon
      <4> QED BY <4>1, <4>3
    <3>2. IsFiniteSet(Range(kept))
      <4>1. DOMAIN kept = 1..Len(kept) /\ Len(kept) \in Nat /\ kept = [i \in 1..Len(kept) |-> kept[i]]
        OBVIOUS
      <4>2. ASSUME NEW n \in Nat PROVE IsFiniteSet(1..n)
        <5>1. 1 \in Int /\ n \in Int
          OBVIOUS
        <5> QED BY <5>1, FS_Interval, Zenon
      <4>3. IsFiniteSet({kept[i] : i \in 1..Len(kept)})
        BY <4>1, <4>2, ImageIsFinite, Zenon
      <4>4. Range(kept) = {kept[i] : i \in 1..Len(kept)}
        BY <4>1 DEF Range
      <4> QED BY <4>3, <4>4
    <3> QED BY <3>1, <3>2
  <2>2. \E x : contexts = {x}
    BY <1>4, <2>1, FS_Singleton
  <2> QED BY <1>0, <2>2 DEF OneContext
<1> HIDE DEF contexts
<1> QED BY <1>1, <1>2, <1>3, <1>4

\* A seed route: one context leaves only the analysis, several end the plan.
LEMMA CoreOfSeed ==
  ASSUME Core, Seed
  PROVE  Core'
<1>0. /\ phase = "routing" /\ plan.kind = "seed" /\ todo # <<>>
      /\ UNCHANGED <<inputs, phase, plan, answer>>
      /\ InputsOK /\ PlanOK /\ Unplanned /\ Planned /\ FromRoutes /\ Seeding /\ Unneeded
  BY DEF Seed, Core
<1>1. PICK r \in Route, rest \in Seq(Route) :
         /\ r = Head(todo) /\ rest = Tail(todo) /\ Range(todo) = {r} \union Range(rest) /\ r = todo[1]
         /\ \A x \in Range(rest) : \E j \in DOMAIN todo : 1 < j /\ todo[j] = x
  <2>1. todo \in Seq(Route) /\ todo # <<>>
    BY <1>0 DEF PlanOK
  <2>2. /\ Head(todo) \in Route /\ Head(todo) = todo[1] /\ Tail(todo) \in Seq(Route)
        /\ Range(todo) = {Head(todo)} \union Range(Tail(todo))
        /\ \A x \in Range(Tail(todo)) : \E j \in DOMAIN todo : 1 < j /\ todo[j] = x
    BY <2>1, HeadAndTail
  <2> QED BY <2>2, Zenon
<1>2. PICK found, kept :
         /\ found \in Findings(r) /\ r # "impact" /\ Consult(found) /\ kept = Fitting(found, request.filters)
         /\ CASE Resolution(kept) = "none" ->
                    trace' = Attempted(r) /\ todo' = rest /\ ambiguity' = ambiguity
              [] Resolution(kept) = "unique" ->
                    /\ trace' = MarkSkipped(Attempted(r), Range(rest) \ {"impact"}, "seeded")
                    /\ todo' = Kept(rest, {"impact"}) /\ ambiguity' = ambiguity
              [] OTHER ->
                    trace' = MarkSkipped(Attempted(r), Range(rest), "ambiguous") /\ todo' = <<>> /\ ambiguity' = "seeds"
  BY <1>1 DEF Seed
<1>3. candidates = <<>> /\ ambiguity = None
  BY <1>0, <1>1, <1>2 DEF Seeding
<1>4. /\ candidates' = kept /\ kept \in Seq(Candidate)
      /\ \A c \in Range(kept) : c.route = r
      /\ kept # <<>> => Consultable(r)
  BY <1>0, <1>2, <1>3, Consulted
<1>5. /\ Attempted(r) \in [Route -> Traces]
      /\ \A q \in Route : q # r => Attempted(r)[q] = trace[q]
      /\ Attempted(r)[r].status \in {"executed", "skipped"}
      /\ Attempted(r)[r].why \in {None, "filters", "unavailable"}
  BY <1>0, AttemptedIs DEF PlanOK
<1>6. ASSUME NEW q \in Route PROVE trace[q].why \notin {"satisfied", "seeded"}
  <2>1. ~FoundBefore(q)
    BY <1>3 DEF FoundBefore, Range
  <2> QED BY <1>0, <2>1 DEF Unneeded
<1>7. ASSUME NEW q \in Route PROVE Attempted(r)[q].why \notin {"satisfied", "seeded"}
  <2>1. CASE q = r
    BY <1>5, <2>1 DEF None
  <2>2. CASE q # r
    BY <1>5, <1>6, <2>2
  <2> QED BY <2>1, <2>2
<1> DEFINE Outcome ==
             /\ trace' \in [Route -> Traces]
             /\ \A q \in Route :
                   \/ trace'[q] = Attempted(r)[q]
                   \/ /\ q \in Range(rest) /\ trace'[q].status = "skipped"
                      /\ trace'[q].why = "ambiguous"
                         \/ (trace'[q].why = "seeded" /\ q # "impact" /\ kept # <<>> /\ ambiguity' = None)
             /\ \A q \in Range(rest) : q \in Range(todo') \/ trace'[q].status # "planned"
             /\ todo' \in Seq(Route) /\ InOrder(todo', rest)
             /\ kept # <<>> => Range(todo') \subseteq {"impact"}
             /\ todo' # <<>> => ambiguity' = None /\ OneContext(Range(kept))
<1>8. Outcome
  <2>0. Range(rest) \subseteq Route
    BY <1>1 DEF Range
  <2>1. CASE Resolution(kept) = "none"
    <3>1. trace' = Attempted(r) /\ todo' = rest /\ ambiguity' = ambiguity
      BY <1>2, <2>1
    <3>2. kept = <<>> /\ OneContext(Range(kept))
      BY <1>4, <2>1, ResolutionIs DEF OneContext, Range
    <3>3. InOrder(rest, rest)
      BY DEF InOrder
    <3> QED BY <1>1, <1>3, <1>5, <3>1, <3>2, <3>3
  <2>2. CASE Resolution(kept) = "unique"
    <3>1. /\ trace' = MarkSkipped(Attempted(r), Range(rest) \ {"impact"}, "seeded")
          /\ todo' = Kept(rest, {"impact"}) /\ ambiguity' = None
      BY <1>2, <1>3, <2>2
    <3>2. kept # <<>> /\ OneContext(Range(kept))
      BY <1>4, <2>2, ResolutionIs
    <3>3. todo' \in Seq(Route) /\ InOrder(todo', rest) /\ Range(todo') = Range(rest) \intersect {"impact"}
      BY <1>1, <3>1, KeptProperties
    <3>4. "seeded" \in Whys
      BY DEF Whys
    <3>5. /\ trace' \in [Route -> Traces]
          /\ \A q \in Route :
                \/ q \in Range(rest) \ {"impact"} /\ Attempted(r)[q].status = "planned" /\ trace'[q] = Skipped("seeded")
                \/ ~(q \in Range(rest) \ {"impact"} /\ Attempted(r)[q].status = "planned") /\ trace'[q] = Attempted(r)[q]
      BY <1>5, <3>1, <3>4, MarkSkippedIs
    <3>6. Skipped("seeded").status = "skipped" /\ Skipped("seeded").why = "seeded"
      BY DEF Skipped
    <3>7. ASSUME NEW q \in Route
          PROVE  \/ trace'[q] = Attempted(r)[q]
                 \/ q \in Range(rest) /\ trace'[q].status = "skipped" /\ trace'[q].why = "seeded" /\ q # "impact"
      BY <3>5, <3>6
    <3>8. ASSUME NEW q \in Range(rest) PROVE q \in Range(todo') \/ trace'[q].status # "planned"
      <4>1. q \in Route
        BY <2>0
      <4>2. CASE q = "impact"
        BY <3>3, <4>2
      <4>3. CASE q # "impact"
        BY <3>5, <3>6, <4>1, <4>3
      <4> QED BY <4>2, <4>3
    <3> QED BY <3>1, <3>2, <3>3, <3>5, <3>7, <3>8
  <2>3. CASE Resolution(kept) \notin {"none", "unique"}
    <3>1. trace' = MarkSkipped(Attempted(r), Range(rest), "ambiguous") /\ todo' = <<>> /\ ambiguity' = "seeds"
      BY <1>2, <2>3
    <3>2. todo' \in Seq(Route) /\ InOrder(todo', rest) /\ Range(todo') = {}
      BY <3>1, InOrderOfNone DEF Range
    <3>4. "ambiguous" \in Whys
      BY DEF Whys
    <3>5. /\ trace' \in [Route -> Traces]
          /\ \A q \in Route :
                \/ q \in Range(rest) /\ Attempted(r)[q].status = "planned" /\ trace'[q] = Skipped("ambiguous")
                \/ ~(q \in Range(rest) /\ Attempted(r)[q].status = "planned") /\ trace'[q] = Attempted(r)[q]
      BY <1>5, <3>1, <3>4, MarkSkippedIs
    <3>6. Skipped("ambiguous").status = "skipped" /\ Skipped("ambiguous").why = "ambiguous"
      BY DEF Skipped
    <3>7. \A q \in Route :
             trace'[q] = Attempted(r)[q]
             \/ (q \in Range(rest) /\ trace'[q].status = "skipped" /\ trace'[q].why = "ambiguous")
      BY <3>5, <3>6
    <3>8. \A q \in Range(rest) : trace'[q].status # "planned"
      BY <2>0, <3>5, <3>6
    <3> QED BY <3>1, <3>2, <3>5, <3>7, <3>8
  <2> QED BY <2>1, <2>2, <2>3
<1>9. InputsOK'
  BY <1>0, SameInputs
<1>10. PlanOK'
  BY <1>0, <1>4, <1>8 DEF PlanOK
<1>11. Unplanned'
  BY <1>0 DEF Unplanned
<1>12. Planned'
  <2>1. InOrder(todo', plan.selected)
    <3>1. InOrder(rest, plan.selected)
      BY <1>0, <1>1, InOrderOfTail DEF PlanOK, Planned
    <3> QED BY <1>8, <3>1, InOrderOfInOrder
  <2>2. ASSUME NEW q \in Range(plan.run) PROVE q \in Range(todo') \/ trace'[q].status # "planned"
    <3>0. q \in Route
      BY <1>0 DEF PlanOK, Range
    <3>1. q \in Range(todo) \/ trace[q].status # "planned"
      BY <1>0 DEF Planned
    <3>2. CASE q \in Range(rest)
      BY <1>8, <3>2
    <3>3. CASE q = r
      BY <1>5, <1>8, <3>0, <3>3
    <3>4. CASE q \notin Range(rest) /\ q # r
      <4>1. trace'[q] = Attempted(r)[q]
        BY <1>8, <3>0, <3>4
      <4>2. trace'[q] = trace[q]
        BY <1>5, <3>0, <3>4, <4>1
      <4>3. q \notin Range(todo)
        BY <1>1, <3>4
      <4> QED BY <3>1, <4>2, <4>3
    <3> QED BY <3>2, <3>3, <3>4
  <2> QED BY <1>0, <2>1, <2>2 DEF Planned
<1> HIDE DEF Outcome
<1>13. FromRoutes'
  <2>1. Available' = Available
    BY <1>0, SameRoutes
  <2>2. kept # <<>> => Available # {}
    BY <1>4 DEF Consultable
  <2> QED BY <1>4, <2>1, <2>2 DEF FromRoutes
<1>14. Staged'
  BY <1>0 DEF Staged
<1>15. Seeding'
  <2>1. SeedsOf(kept) \subseteq Range(kept)
    BY DEF SeedsOf
  <2>2. todo' # <<>> => ambiguity' = None /\ OneContext(SeedsOf(kept))
    BY <1>8, <2>1 DEF Outcome, OneContext
  <2>3. \A c \in Range(kept) : c.route # "impact"
    BY <1>2, <1>4
  <2>4. kept # <<>> => Range(todo') \subseteq {"impact"}
    BY <1>8 DEF Outcome
  <2> QED BY <1>4, <2>2, <2>3, <2>4 DEF Seeding
<1>16. Unneeded'
  <2>1. ASSUME NEW q \in Route
        PROVE  \/ trace'[q] = Attempted(r)[q]
               \/ /\ q \in Range(rest)
                  /\ trace'[q].why = "ambiguous" \/ (trace'[q].why = "seeded" /\ q # "impact" /\ kept # <<>> /\ ambiguity' = None)
    BY <1>8 DEF Outcome
  <2>2. ASSUME NEW q \in Route, trace'[q].why = "satisfied" PROVE FALSE
    BY <1>7, <2>1, <2>2
  <2>3. ASSUME NEW q \in Route, trace'[q].why = "seeded"
        PROVE  q # "impact" /\ FoundBefore(q)' /\ ambiguity' = None
    <3>1. q \in Range(rest) /\ q # "impact" /\ kept # <<>> /\ ambiguity' = None
      BY <1>7, <2>1, <2>3
    <3>2. PICK k \in DOMAIN todo : 1 < k /\ todo[k] = q
      BY <1>1, <3>1
    <3>3. 1 \in DOMAIN todo
      <4>1. todo \in Seq(Route)
        BY <1>0 DEF PlanOK
      <4> QED BY <3>2, <4>1
    <3>4. PICK i \in DOMAIN plan.selected, j \in DOMAIN plan.selected :
             i < j /\ plan.selected[i] = todo[1] /\ plan.selected[j] = q
      BY <1>0, <3>2, <3>3 DEF Planned, InOrder
    <3>5. kept[1] \in Range(candidates') /\ kept[1].route = r
      BY <1>4, <3>1, FirstIsIn
    <3>6. plan' = plan
      BY <1>0
    <3>7. FoundBefore(q)'
      BY <1>1, <3>4, <3>5, <3>6 DEF FoundBefore
    <3> QED BY <3>1, <3>7
  <2> QED BY <1>0, <2>2, <2>3 DEF Unneeded
<1> QED BY <1>9, <1>10, <1>11, <1>12, <1>13, <1>14, <1>15, <1>16 DEF Core

\* The analysis: of the one seed there is.
LEMMA CoreOfImpact ==
  ASSUME Core, Impact
  PROVE  Core'
<1>0. /\ phase = "routing" /\ plan.kind = "seed" /\ todo = <<"impact">> /\ todo' = <<>>
      /\ UNCHANGED <<inputs, phase, plan, answer>>
      /\ InputsOK /\ PlanOK /\ Unplanned /\ Planned /\ FromRoutes /\ Seeding /\ Unneeded
  BY DEF Impact, Core
<1>1. "impact" \in Route /\ Range(todo) = {"impact"} /\ todo # <<>> /\ Range(todo') = {} /\ todo' \in Seq(Route)
  BY <1>0 DEF Route, Range
<1>2. ambiguity = None /\ (\A c \in Range(candidates) : c.route # "impact") /\ OneContext(SeedsOf(candidates))
  BY <1>0, <1>1 DEF Seeding
<1> DEFINE Outcome ==
             /\ trace' \in [Route -> Traces]
             /\ \A q \in Route \ {"impact"} : trace'[q] = trace[q]
             /\ trace'["impact"].status # "planned" \/ trace["impact"].status # "planned"
             /\ trace'["impact"].status # "planned"
             /\ trace'["impact"].why \notin {"satisfied", "seeded"}
             /\ candidates' \in Seq(Candidate)
             /\ Range(candidates) \subseteq Range(candidates')
             /\ \A c \in Range(candidates') : c \in Range(candidates) \/ (c.route = "impact" /\ ambiguity' = None)
             /\ Available = {} => candidates' = <<>>
             /\ ambiguity' = None \/ trace'["impact"].status = "executed"
<1>3. ASSUME seed = None PROVE Outcome
  <2>1. trace' = MarkSkipped(trace, {"impact"}, "no seed") /\ candidates' = candidates /\ ambiguity' = ambiguity
    BY <1>3 DEF Impact
  <2>2. "no seed" \in Whys /\ Skipped("no seed").status = "skipped" /\ Skipped("no seed").why = "no seed"
    BY DEF Whys, Skipped
  <2>3. /\ trace' \in [Route -> Traces]
        /\ \A q \in Route :
              \/ q \in {"impact"} /\ trace[q].status = "planned" /\ trace'[q] = Skipped("no seed")
              \/ ~(q \in {"impact"} /\ trace[q].status = "planned") /\ trace'[q] = trace[q]
    <3>1. trace \in [Route -> Traces]
      BY <1>0 DEF PlanOK
    <3>2. PICK marked : marked = MarkSkipped(trace, {"impact"}, "no seed")
      OBVIOUS
    <3>3. /\ marked \in [Route -> Traces]
          /\ \A q \in Route :
                \/ q \in {"impact"} /\ trace[q].status = "planned" /\ marked[q] = Skipped("no seed")
                \/ ~(q \in {"impact"} /\ trace[q].status = "planned") /\ marked[q] = trace[q]
      <4>1. PICK routes, why : routes = {"impact"} /\ why = "no seed"
        OBVIOUS
      <4>2. marked = MarkSkipped(trace, routes, why) /\ why \in Whys
        BY <2>2, <3>2, <4>1
      <4>3. /\ marked \in [Route -> Traces]
            /\ \A q \in Route :
                  \/ q \in routes /\ trace[q].status = "planned" /\ marked[q] = Skipped(why)
                  \/ ~(q \in routes /\ trace[q].status = "planned") /\ marked[q] = trace[q]
        BY <3>1, <4>2, MarkSkippedIs
      <4> QED BY <4>1, <4>3
    <3>4. trace' = marked
      BY <2>1, <3>2
    <3> QED BY <3>3, <3>4
  <2>4. trace["impact"].why \notin {"satisfied", "seeded"}
    BY <1>0, <1>1 DEF Unneeded
  <2> QED BY <1>0, <1>1, <1>2, <2>1, <2>2, <2>3, <2>4 DEF PlanOK, FromRoutes
<1>4. ASSUME seed # None PROVE Outcome
  <2>1. PICK found \in Findings("impact") : Consult(found)
    BY <1>4 DEF Impact
  <2>2. trace' = Attempted("impact") /\ ambiguity' = ImpactAmbiguity("impact")
    BY <1>4 DEF Impact
  <2>3. PICK kept : kept = Fitting(found, request.filters)
    OBVIOUS
  <2>4. /\ candidates' \in Seq(Candidate) /\ kept \in Seq(Candidate)
        /\ Range(candidates') = Range(candidates) \union Range(kept)
        /\ \A c \in Range(kept) : c.route = "impact"
        /\ kept # <<>> => Consultable("impact") /\ ~TargetIsAmbiguous
        /\ kept = <<>> => candidates' = candidates
    BY <1>0, <1>1, <2>1, <2>3, Consulted
  <2>5. /\ Attempted("impact") \in [Route -> Traces]
        /\ \A q \in Route : q # "impact" => Attempted("impact")[q] = trace[q]
        /\ Attempted("impact")["impact"].status \in {"executed", "skipped"}
        /\ Attempted("impact")["impact"].why \in {None, "filters", "unavailable"}
        /\ Consultable("impact") => Attempted("impact")["impact"].status = "executed"
    BY <1>0, <1>1, AttemptedIs DEF PlanOK
  <2>6. ambiguity' # None => Consultable("impact") /\ TargetIsAmbiguous
    BY <2>2 DEF ImpactAmbiguity
  <2>7. ASSUME NEW c \in Range(candidates') PROVE c \in Range(candidates) \/ (c.route = "impact" /\ ambiguity' = None)
    <3>1. CASE c \in Range(kept)
      <4>1. kept # <<>>
        BY <3>1 DEF Range
      <4> QED BY <2>4, <2>6, <3>1, <4>1
    <3> QED BY <2>4, <3>1
  <2>8. Available = {} => candidates' = <<>>
    BY <1>0, <2>4 DEF FromRoutes, Consultable
  <2>9. trace'["impact"].why \notin {"satisfied", "seeded"}
    BY <2>2, <2>5 DEF None
  <2> QED BY <2>2, <2>4, <2>5, <2>6, <2>7, <2>8, <2>9
<1>5. Outcome
  BY <1>3, <1>4
<1> HIDE DEF Outcome
<1>6. InputsOK'
  BY <1>0, SameInputs
<1>7. PlanOK'
  BY <1>0, <1>1, <1>5 DEF PlanOK, Outcome
<1>8. Unplanned'
  BY <1>0 DEF Unplanned
<1>9. Planned'
  <2>1. InOrder(todo', plan.selected)
    BY <1>0, InOrderOfNone
  <2>2. ASSUME NEW q \in Range(plan.run) PROVE trace'[q].status # "planned"
    <3>0. q \in Route
      BY <1>0 DEF PlanOK, Range
    <3>1. q = "impact" \/ trace[q].status # "planned"
      BY <1>0, <1>1 DEF Planned
    <3> QED BY <1>5, <3>0, <3>1 DEF Outcome
  <2> QED BY <1>0, <2>1, <2>2 DEF Planned
<1>10. FromRoutes'
  <2>1. Available' = Available
    BY <1>0, SameRoutes
  <2> QED BY <1>5, <2>1 DEF FromRoutes, Outcome
<1>11. Staged'
  BY <1>0 DEF Staged
<1>12. Seeding'
  <2>1. SeedsOf(candidates') \subseteq SeedsOf(candidates)
    <3>1. ASSUME NEW c \in SeedsOf(candidates') PROVE c \in SeedsOf(candidates)
      <4>1. c \in Range(candidates') /\ c.route # "impact"
        BY DEF SeedsOf
      <4> QED BY <1>5, <4>1 DEF Outcome, SeedsOf
    <3> QED BY <3>1
  <2>2. OneContext(SeedsOf(candidates'))
    BY <1>2, <2>1 DEF OneContext
  <2>3. (\E c \in Range(candidates') : c.route = "impact") => ambiguity' = None
    BY <1>2, <1>5 DEF Outcome
  <2> QED BY <1>0, <1>1, <2>2, <2>3 DEF Seeding
<1>13. Unneeded'
  <2>1. ASSUME NEW q \in Route PROVE trace'[q].why # "satisfied"
    <3>1. trace[q].why # "satisfied"
      BY <1>0 DEF Unneeded
    <3> QED BY <1>5, <3>1 DEF Outcome
  <2>2. ASSUME NEW q \in Route, trace'[q].why = "seeded"
        PROVE  q # "impact" /\ FoundBefore(q)' /\ (ambiguity' = None \/ Executed("impact")')
    <3>1. q # "impact"
      BY <1>5, <2>2 DEF Outcome
    <3>2. trace[q].why = "seeded"
      BY <1>5, <2>2, <3>1 DEF Outcome
    <3>3. FoundBefore(q)
      BY <1>0, <3>2 DEF Unneeded
    <3>4. FoundBefore(q)'
      BY <1>0, <1>5, <3>3, FoundBeforeStays DEF Outcome
    <3> QED BY <1>5, <3>1, <3>4 DEF Outcome, Executed
  <2> QED BY <1>0, <2>1, <2>2 DEF Unneeded
<1> QED BY <1>6, <1>7, <1>8, <1>9, <1>10, <1>11, <1>12, <1>13 DEF Core

\* Every step keeps the invariant.
LEMMA CoreIsKept ==
  ASSUME Core, [Next]_vars
  PROVE  Core'
BY CoreOfOthers, CoreOfPlanRoutes, CoreOfStandard, CoreOfSeed, CoreOfImpact DEF Next

-----------------------------------------------------------------------------
(* What is promised                                                        *)

Promises == OmissionsAreSaid /\ ImpactIsNotGuessed /\ AnswerIsExplained /\ BestFirst
IInv == Core /\ Promises

\* What a route has found is what there is of it.
LEMMA FoundIs ==
  ASSUME candidates \in Seq(Candidate), NEW r
  PROVE  /\ Found(r) \in Seq(Candidate)
         /\ Range(Found(r)) = {c \in Range(candidates) : c.route = r}
         /\ Found(r) # <<>> <=> \E c \in Range(candidates) : c.route = r
<1> DEFINE set == {c \in Range(candidates) : c.route = r}
           found == Kept(candidates, set)
<1>1. Found(r) = found
  BY DEF Found
<1>2. found \in Seq(Candidate) /\ Range(found) = Range(candidates) \cap set
  BY KeptProperties
<1>3. Range(found) = set
  BY <1>2
<1> HIDE DEF found
<1>4. found # <<>> => set # {}
  BY <1>2, <1>3, FirstIsIn
<1>5. found = <<>> => set = {}
  BY <1>3 DEF Range
<1> QED BY <1>1, <1>2, <1>3, <1>4, <1>5

\* A selected route without an attempt was not needed, or it is missed.
LEMMA Omitted ==
  ASSUME Core, todo = <<>>, candidates # <<>>, NEW r \in Range(plan.selected)
  PROVE  Executed(r) \/ NotNeeded(r) \/ Partial \/ plan.exhausted
<1>1. PlanOK /\ Planned /\ Staged /\ Unneeded
  BY DEF Core
<1>2. r \in Route
  BY <1>1 DEF PlanOK, Range
<1>3. trace[r].status \in {"planned", "executed", "skipped"}
  BY <1>1, <1>2 DEF PlanOK, Traces, Statuses
<1>4. CASE trace[r].status = "planned"
  <2>1. r \notin Range(todo)
    BY DEF Range
  <2> QED BY <1>1, <1>4, <2>1 DEF Planned
<1>5. CASE trace[r].status = "executed"
  BY <1>5 DEF Executed
<1>6. CASE trace[r].status = "skipped" /\ trace[r].why \notin {"satisfied", "seeded"}
  BY <1>6 DEF Partial
<1>7. CASE trace[r].why \in {"satisfied", "seeded"}
  <2>1. /\ FoundBefore(r) /\ plan.kind \in {"staged", "seed"} /\ (plan.kind = "seed" => r # "impact")
        /\ ambiguity = None \/ Executed("impact")
    BY <1>1, <1>2, <1>7 DEF Unneeded, Staged
  <2>2. PICK i \in DOMAIN plan.selected, j \in DOMAIN plan.selected :
           i < j /\ plan.selected[j] = r /\ \E c \in Range(candidates) : c.route = plan.selected[i]
    BY <2>1 DEF FoundBefore
  <2>3. Found(plan.selected[i]) # <<>>
    BY <1>1, <2>2, FoundIs DEF PlanOK
  <2> QED BY <2>1, <2>2, <2>3 DEF NotNeeded
<1> QED BY <1>3, <1>4, <1>5, <1>6, <1>7

\* An analysis that found something had one seed.
LEMMA Guessless ==
  ASSUME Core, plan.kind = "seed", Found("impact") # <<>>
  PROVE  ambiguity = None /\ Cardinality(SeedContexts(Found("symbol") \o Found("semantic"))) <= 1
<1>1. PlanOK /\ Seeding
  BY DEF Core
<1>2. ambiguity = None /\ OneContext(SeedsOf(candidates))
  BY <1>1, FoundIs DEF PlanOK, Seeding
<1> DEFINE seeds == Found("symbol") \o Found("semantic")
           contexts == SeedContexts(seeds)
<1>3. Range(seeds) \subseteq SeedsOf(candidates)
  <2>1. /\ Found("symbol") \in Seq(Candidate) /\ Found("semantic") \in Seq(Candidate)
        /\ Range(Found("symbol")) = {c \in Range(candidates) : c.route = "symbol"}
        /\ Range(Found("semantic")) = {c \in Range(candidates) : c.route = "semantic"}
    BY <1>1, FoundIs DEF PlanOK
  <2>2. Range(seeds) = Range(Found("symbol")) \union Range(Found("semantic"))
    BY <2>1, RangeConcatenation
  <2> QED BY <2>1, <2>2 DEF SeedsOf
<1> HIDE DEF seeds
<1>4. contexts = {ContextOf(c) : c \in Range(seeds)}
  BY Zenon DEF SeedContexts, ContextOf
<1> HIDE DEF contexts
<1>5. ASSUME NEW a \in contexts, NEW b \in contexts PROVE a = b
  <2>1. PICK c \in Range(seeds), d \in Range(seeds) : a = ContextOf(c) /\ b = ContextOf(d)
    BY <1>4
  <2> QED BY <1>2, <1>3, <2>1 DEF OneContext
<1>6. contexts = {} \/ \E x : contexts = {x}
  <2>1. ASSUME NEW a \in contexts PROVE contexts = {a}
    BY <1>5
  <2> QED BY <2>1
<1>7. Cardinality(contexts) \in {0, 1}
  BY <1>6, FS_EmptySet, FS_Singleton
<1> QED BY <1>2, <1>7 DEF contexts, seeds

\* A degraded planner has nothing to consult.
LEMMA DegradedIs ==
  ASSUME "degraded" \in {QueryState, RuntimeState}
  PROVE  Available = {}
<1>1. CASE QueryState = "degraded"
  <2>1. Available \ {"exact"} = {}
    BY <1>1 DEF QueryState
  <2> QED BY <2>1 DEF Available, ExactAvailable
<1>2. CASE RuntimeState = "degraded"
  <2>1. ~\E r \in Route \ {"exact"} : RouteEnabled(r)
    BY <1>2 DEF RuntimeState
  <2>2. ~RouteEnabled("symbol") /\ ~RouteEnabled("semantic") /\ ~RouteEnabled("impact")
    BY <2>1 DEF Route
  <2> QED BY <2>2 DEF Available, ExactAvailable, SymbolAvailable, SemanticAvailable, ImpactAvailable, Route
<1> QED BY <1>1, <1>2

\* The reason given for no groups.
LEMMA NoAnswerIs ==
  ASSUME engines.planner, NEW groups, request.limit > 0 \/ ~request.explain,
         candidates # <<>> /\ request.limit > 0 => groups # <<>>
  PROVE  NoAnswer(groups) # None <=> (groups = <<>> /\ ambiguity = None)
<1>1. CASE ambiguity # None
  BY <1>1 DEF NoAnswer
<1>2. CASE ambiguity = None /\ request.explain /\ candidates # <<>>
  BY <1>2 DEF NoAnswer
<1>3. CASE ambiguity = None /\ ~(request.explain /\ candidates # <<>>)
  BY <1>3 DEF NoAnswer, None
<1> QED BY <1>1, <1>2, <1>3

\* Where nothing is answered yet, nothing is promised.
LEMMA NothingPromised ==
  ASSUME phase # "answered"
  PROVE  Promises
BY DEF Promises, OmissionsAreSaid, ImpactIsNotGuessed, AnswerIsExplained, BestFirst, Answered

\* The same, after a step.
LEMMA NothingPromisedNext ==
  ASSUME phase' # "answered"
  PROVE  Promises'
BY DEF Promises, OmissionsAreSaid, ImpactIsNotGuessed, AnswerIsExplained, BestFirst, Answered

\* States of the planner that are told do not change.
LEMMA SameStates ==
  ASSUME UNCHANGED inputs
  PROVE  QueryState' = QueryState /\ RuntimeState' = RuntimeState
<1>1. engines' = engines /\ Available' = Available
  BY SameRoutes DEF inputs
<1>2. \A r : RouteEnabled(r)' = RouteEnabled(r)
  BY <1>1 DEF RouteEnabled
<1> QED BY <1>1, <1>2 DEF QueryState, RuntimeState

\* Promises are of the answer and of what it was made from.
LEMMA PromisesStay ==
  ASSUME Promises, UNCHANGED vars
  PROVE  Promises'
<1>0. UNCHANGED <<inputs, request, engines, phase, plan, trace, candidates, ambiguity, answer>>
  BY DEF vars, inputs
<1>1. \A r : Found(r)' = Found(r)
  BY <1>0 DEF Found
<1>2. \A r : Executed(r)' = Executed(r)
  BY <1>0 DEF Executed
<1>3. \A r : NotNeeded(r)' = NotNeeded(r)
  BY <1>0, <1>1, <1>2 DEF NotNeeded
<1>4. OmissionsAreSaid'
  BY <1>0, <1>2, <1>3 DEF Promises, OmissionsAreSaid, Answered
<1>5. ImpactIsNotGuessed'
  BY <1>0, <1>1 DEF Promises, ImpactIsNotGuessed, Answered, SeedContexts
<1>6. AnswerIsExplained'
  <2>1. QueryState' = QueryState /\ RuntimeState' = RuntimeState
    BY <1>0, SameStates
  <2> QED BY <1>0, <2>1 DEF Promises, AnswerIsExplained, Answered, IsQuery
<1>7. BestFirst'
  BY <1>0 DEF Promises, BestFirst, Answered
<1> QED BY <1>4, <1>5, <1>6, <1>7 DEF Promises

\* An answer without groups, of which nothing was planned or found.
LEMMA PromisedOfOthers ==
  ASSUME Core, Refuse \/ Status \/ RuntimeStatus
  PROVE  Promises'
<1>0. /\ phase = "asked" /\ UNCHANGED <<request, engines, plan, trace, candidates, ambiguity>>
      /\ answer'.groups = <<>>
      /\ answer'.noAnswer # None \/ ~IsQuery
  <2>1. phase = "asked" => answer = NotAnswered
    BY DEF Core, Unplanned
  <2>2. CASE Refuse
    <3>1. answer' = [NotAnswered EXCEPT !.noAnswer = "mismatch"] \/ answer' = [NotAnswered EXCEPT !.noAnswer = "no text"]
      BY <2>1, <2>2 DEF Refuse
    <3>2. answer'.groups = <<>> /\ answer'.noAnswer # None
      BY <3>1 DEF NotAnswered, None
    <3> QED BY <2>2, <3>2 DEF Refuse, inputs, results
  <2>3. CASE Status
    <3>1. answer' = [NotAnswered EXCEPT !.state = QueryState, !.shown = Available]
      BY <2>1, <2>3 DEF Status
    <3>2. answer'.groups = <<>>
      BY <3>1 DEF NotAnswered
    <3> QED BY <2>3, <3>2 DEF Status, inputs, results, IsQuery
  <2>4. CASE RuntimeStatus
    <3>1. PICK shown : answer' = [NotAnswered EXCEPT !.state = RuntimeState, !.shown = shown]
      BY <2>1, <2>4, Zenon DEF RuntimeStatus
    <3>2. answer'.groups = <<>>
      BY <3>1 DEF NotAnswered
    <3> QED BY <2>4, <3>2 DEF RuntimeStatus, inputs, results, IsQuery
  <2> QED BY <2>2, <2>3, <2>4
<1>1. plan.kind = None /\ plan.selected = <<>> /\ candidates = <<>> /\ ambiguity = None
  BY <1>0 DEF Core, Unplanned
<1>2. OmissionsAreSaid'
  <2>1. Range(plan'.selected) = {}
    BY <1>0, <1>1 DEF Range
  <2> QED BY <2>1 DEF OmissionsAreSaid
<1>3. ImpactIsNotGuessed'
  BY <1>0, <1>1 DEF ImpactIsNotGuessed, None
<1>4. AnswerIsExplained'
  BY <1>0, <1>1 DEF AnswerIsExplained, IsQuery
<1>5. BestFirst'
  BY <1>0 DEF BestFirst
<1> QED BY <1>2, <1>3, <1>4, <1>5 DEF Promises

\* The answer keeps the promises, of what the routes have left.
LEMMA PromisedOfAnswer ==
  ASSUME Core, Answer
  PROVE  Promises'
<1> DEFINE groups == Groups(candidates, request.limit)
<1>0. /\ UNCHANGED <<inputs, request, engines, plan, trace, candidates, ambiguity>> /\ todo = <<>>
      /\ answer' = [groups |-> [i \in DOMAIN groups |-> Decorated(groups, i, plan.lowSignal, Partial, plan.exhausted)],
                    ambiguity |-> IF ambiguity = None /\ TopIsAmbiguous(groups) THEN "groups" ELSE ambiguity,
                    noAnswer |-> NoAnswer(groups), state |-> None, shown |-> Shown]
  BY DEF Answer, inputs, results
<1>1. /\ candidates \in Seq(Candidate) /\ request.limit \in Nat
      /\ Available = {} => candidates = <<>>
  BY HintsAssumption DEF Core, InputsOK, PlanOK, FromRoutes
<1>2. /\ \A i \in DOMAIN groups : \A c \in Range(candidates) :
             \/ \E j \in 1..i : c \in Range(groups[j].evidence)
             \/ Normalized(c) <= groups[i].score
      /\ \E S : groups \in Seq(S)
      /\ candidates = <<>> => groups = <<>>
      /\ candidates # <<>> /\ request.limit > 0 => groups # <<>>
  BY <1>1, CandidatesAre, GroupsAreBestFirst
<1> HIDE DEF groups
<1>3. PICK n \in Nat : DOMAIN groups = 1..n /\ (groups = <<>> <=> n = 0)
  <2>1. PICK S : groups \in Seq(S)
    BY <1>2
  <2>2. Len(groups) \in Nat /\ DOMAIN groups = 1..Len(groups) /\ (groups = <<>> <=> Len(groups) = 0)
    BY <2>1, EmptySeq
  <2> QED BY <2>2
<1>4. /\ answer'.groups = [i \in 1..n |-> Decorated(groups, i, plan.lowSignal, Partial, plan.exhausted)]
      /\ answer'.noAnswer = NoAnswer(groups)
  BY <1>0, <1>3
<1>5. /\ DOMAIN answer'.groups = 1..n
      /\ \A i \in 1..n : answer'.groups[i].group = groups[i]
      /\ \A i \in 1..n : /\ Partial => "partial" \in answer'.groups[i].warnings
                         /\ plan.exhausted => "budget" \in answer'.groups[i].warnings
  <2>1. ASSUME NEW i \in 1..n
        PROVE  answer'.groups[i] = Decorated(groups, i, plan.lowSignal, Partial, plan.exhausted)
    BY <1>4
  <2>2. ASSUME NEW i, NEW lowSignal, NEW partial, NEW exhausted
        PROVE  LET d == Decorated(groups, i, lowSignal, partial, exhausted)
               IN  /\ d.group = groups[i]
                   /\ partial => "partial" \in d.warnings
                   /\ exhausted => "budget" \in d.warnings
    BY DEF Decorated
  <2> QED BY <1>4, <2>1, <2>2
<1>7. answer'.groups = <<>> <=> groups = <<>>
  BY <1>3, <1>4, <1>5
<1>8. /\ \A r : Found(r)' = Found(r)
      /\ \A r : Executed(r)' = Executed(r)
  BY <1>0 DEF Found, Executed
<1>9. OmissionsAreSaid'
  <2>1. ASSUME NEW r \in Range(plan.selected), NEW i \in 1..n, ~Executed(r), ~NotNeeded(r)
        PROVE  answer'.groups[i].warnings \cap {"partial", "budget"} # {}
    <3>1. candidates # <<>>
      BY <1>2, <1>3
    <3>2. Partial \/ plan.exhausted
      BY <1>0, <2>1, <3>1, Omitted
    <3> QED BY <1>5, <3>2
  <2>2. \A r : NotNeeded(r)' = NotNeeded(r)
    BY <1>0, <1>8 DEF NotNeeded
  <2>3. plan' = plan
    BY <1>0
  <2>4. \A r \in Range(plan'.selected) : \/ Executed(r)' \/ NotNeeded(r)'
                                         \/ \A i \in 1..n : answer'.groups[i].warnings \cap {"partial", "budget"} # {}
    BY <1>8, <2>1, <2>2, <2>3
  <2> QED BY <1>5, <2>4 DEF OmissionsAreSaid
<1>10. ImpactIsNotGuessed'
  <2>1. SeedContexts(Found("symbol") \o Found("semantic"))' = SeedContexts(Found("symbol") \o Found("semantic"))
    BY <1>8 DEF SeedContexts
  <2> QED BY <1>0, <1>8, <2>1, Guessless DEF ImpactIsNotGuessed
<1>11. AnswerIsExplained'
  <2>1. QueryState' = QueryState /\ RuntimeState' = RuntimeState
    BY <1>0, SameStates
  <2>2. ASSUME "degraded" \in {QueryState, RuntimeState} PROVE groups = <<>>
    BY <1>1, <1>2, <2>2, DegradedIs
  <2>3. ASSUME engines.planner, request.limit > 0 \/ ~request.explain
        PROVE  NoAnswer(groups) # None <=> (groups = <<>> /\ ambiguity = None)
    BY <1>2, <2>3, NoAnswerIs
  <2> QED BY <1>0, <1>4, <1>7, <2>1, <2>2, <2>3 DEF AnswerIsExplained
<1>12. BestFirst'
  <2>1. ASSUME NEW i \in 1..n, NEW c \in Range(candidates'),
               c \notin UNION {Range(answer'.groups[j].group.evidence) : j \in 1..i}
        PROVE  Normalized(c) <= answer'.groups[i].group.score
    <3>1. \A j \in 1..i : j \in 1..n
      BY <1>3
    <3>2. ~\E j \in 1..i : c \in Range(groups[j].evidence)
      BY <1>5, <2>1, <3>1
    <3>3. c \in Range(candidates)
      BY <1>0
    <3>4. Normalized(c) <= groups[i].score
      BY <1>2, <1>3, <3>2, <3>3
    <3> QED BY <1>5, <3>4
  <2> QED BY <1>5, <2>1 DEF BestFirst
<1> QED BY <1>9, <1>10, <1>11, <1>12 DEF Promises

\* Every step keeps the promises.
LEMMA PromisesAreKept ==
  ASSUME IInv, [Next]_vars
  PROVE  Promises'
<1>1. CASE Refuse \/ Status \/ RuntimeStatus
  BY <1>1, PromisedOfOthers DEF IInv
<1>2. CASE Classify \/ PlanRoutes \/ Standard \/ Seed \/ Impact
  <2>1. phase' # "answered"
    BY <1>2 DEF Classify, PlanRoutes, Standard, Seed, Impact
  <2> QED BY <2>1, NothingPromisedNext
<1>3. CASE Answer
  BY <1>3, PromisedOfAnswer DEF IInv
<1>4. CASE UNCHANGED vars
  BY <1>4, PromisesStay DEF IInv
<1> QED BY <1>1, <1>2, <1>3, <1>4 DEF Next

\* The inductive invariant holds in every state.
LEMMA IInvAlways == Spec => []IInv
<1>1. Init => IInv
  <2>1. Init => phase # "answered"
    BY DEF Init
  <2> QED BY <2>1, CoreAtStart, NothingPromised DEF IInv
<1>2. IInv /\ [Next]_vars => IInv'
  BY CoreIsKept, PromisesAreKept DEF IInv
<1> QED BY <1>1, <1>2, PTL DEF Spec

\* Whatever is asked and however the engines are: when a selected route was
\* needed and did not run, every group of the answer warns that routes or the
\* budget were short (decorate_group, candidates_exist_with_missing_selected_routes).
THEOREM OmissionsAreSaidAlways == Spec => []OmissionsAreSaid
<1>1. IInv => OmissionsAreSaid
  BY DEF IInv, Promises
<1> QED BY <1>1, IInvAlways, PTL

\* In execute_seed_then_impact_policy an analysis is only made of the one thing
\* the seed routes returned, and never after an ambiguity.
THEOREM ImpactIsNotGuessedAlways == Spec => []ImpactIsNotGuessed
<1>1. IInv => ImpactIsNotGuessed
  BY DEF IInv, Promises
<1> QED BY <1>1, IInvAlways, PTL

\* no_answer_for gives a reason exactly when there are no groups and nothing is
\* ambiguous, and a planner that planner_status calls degraded has no groups.
THEOREM AnswerIsExplainedAlways == Spec => []AnswerIsExplained
<1>1. IInv => AnswerIsExplained
  BY DEF IInv, Promises
<1> QED BY <1>1, IInvAlways, PTL

\* For every list of candidates that the adapters make, fusion and grouping
\* answer best first: no candidate that comes later or is cut off scores better
\* than a group before it.
THEOREM BestFirstAlways == Spec => []BestFirst
<1>1. IInv => BestFirst
  BY DEF IInv, Promises
<1> QED BY <1>1, IInvAlways, PTL
=============================================================================
