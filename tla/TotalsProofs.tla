---------------------------- MODULE TotalsProofs ----------------------------
(***************************************************************************)
(* How a total changes when one entry does: the step every running total   *)
(* of the program takes.                                                   *)
(***************************************************************************)
EXTENDS Totals, FiniteSetTheorems, FunctionTheorems, TLAPS

\* An entry of f contributes f[i] units.
LEMMA UnitsOfSize ==
    ASSUME NEW S, NEW f \in [S -> Nat], NEW i \in S
    PROVE  /\ IsFiniteSet(UnitsOf(f, i))
           /\ Cardinality(UnitsOf(f, i)) = f[i]
<1>1. IsFiniteSet({i}) /\ Cardinality({i}) = 1
  BY FS_Singleton
<1>2. f[i] \in Nat
  OBVIOUS
<1>3. IsFiniteSet(1 .. f[i]) /\ Cardinality(1 .. f[i]) = f[i]
  BY <1>2, FS_Interval
<1>4. /\ IsFiniteSet({i} \X (1 .. f[i]))
      /\ Cardinality({i} \X (1 .. f[i])) = Cardinality({i}) * Cardinality(1 .. f[i])
  BY <1>1, <1>3, FS_Product
<1>5. QED
  BY <1>1, <1>2, <1>3, <1>4 DEF UnitsOf

\* Finitely many entries contribute finitely many units.
LEMMA UnitsFinite ==
    ASSUME NEW S, IsFiniteSet(S), NEW f \in [S -> Nat], NEW R \in SUBSET S
    PROVE  IsFiniteSet(UNION {UnitsOf(f, i) : i \in R})
<1> DEFINE Family == {UnitsOf(f, i) : i \in R}
           tag == [i \in R |-> UnitsOf(f, i)]
<1>1. IsFiniteSet(R)
  BY FS_Subset
<1>2. tag \in Surjection(R, Family)
  BY DEF Surjection
<1>3. IsFiniteSet(Family)
  <2> HIDE DEF Family, tag
  <2>1. QED
    BY <1>1, <1>2, FS_Surjection
<1>4. \A T \in Family : IsFiniteSet(T)
  BY UnitsOfSize
<1>5. QED
  <2> HIDE DEF Family
  <2>1. IsFiniteSet(UNION Family)
    BY <1>3, <1>4, FS_UNION
  <2>2. QED
    BY <2>1 DEF Family

\* A total is one entry plus the units of all the others.
LEMMA TotalSplit ==
    ASSUME NEW S, IsFiniteSet(S), NEW f \in [S -> Nat], NEW i \in S
    PROVE  LET Others == UNION {UnitsOf(f, j) : j \in S \ {i}}
           IN  /\ IsFiniteSet(Others)
               /\ Cardinality(Others) \in Nat
               /\ Total(f) = Cardinality(Others) + f[i]
<1> DEFINE Others == UNION {UnitsOf(f, j) : j \in S \ {i}}
<1>1. IsFiniteSet(Others)
  BY UnitsFinite
<1>2. Cardinality(Others) \in Nat
  BY <1>1, FS_CardinalityType
<1>3. Units(f) = Others \cup UnitsOf(f, i)
  BY DEF Units
<1>4. Others \cap UnitsOf(f, i) = {}
  BY DEF UnitsOf
<1>5. IsFiniteSet(UnitsOf(f, i)) /\ Cardinality(UnitsOf(f, i)) = f[i]
  BY UnitsOfSize
<1>6. QED
  <2> HIDE DEF Others
  <2>1. Cardinality(Others \cup UnitsOf(f, i)) =
          Cardinality(Others) + Cardinality(UnitsOf(f, i)) - Cardinality({})
    BY <1>1, <1>4, <1>5, FS_Union
  <2>2. Cardinality({}) = 0
    BY FS_EmptySet
  <2>3. f[i] \in Nat
    OBVIOUS
  <2>4. Total(f) = Cardinality(Others) + f[i]
    BY <1>2, <1>3, <1>5, <2>1, <2>2, <2>3 DEF Total
  <2>5. QED
    BY <1>1, <1>2, <2>4 DEF Others

\* No entry exceeds the total.
LEMMA EntryAtMostTotal ==
    ASSUME NEW S, IsFiniteSet(S), NEW f \in [S -> Nat], NEW i \in S
    PROVE  Total(f) \in Nat /\ f[i] <= Total(f)
<1>1. PICK rest \in Nat : Total(f) = rest + f[i]
  BY TotalSplit
<1>2. f[i] \in Nat
  OBVIOUS
<1>3. QED
  BY <1>1, <1>2

\* Changing one entry moves the total by as much.
THEOREM TotalOfUpdate ==
    ASSUME NEW S, IsFiniteSet(S), NEW f \in [S -> Nat], NEW i \in S, NEW v \in Nat
    PROVE  Total([f EXCEPT ![i] = v]) = Total(f) - f[i] + v
<1> DEFINE g == [f EXCEPT ![i] = v]
           Others(h) == UNION {UnitsOf(h, j) : j \in S \ {i}}
<1>1. g \in [S -> Nat] /\ g[i] = v
  OBVIOUS
<1>2. Others(g) = Others(f)
  <2>1. \A j \in S \ {i} : UnitsOf(g, j) = UnitsOf(f, j)
    BY DEF UnitsOf
  <2>2. QED
    BY <2>1
<1>3. Cardinality(Others(f)) \in Nat /\ Total(f) = Cardinality(Others(f)) + f[i]
  BY TotalSplit
<1>4. Total(g) = Cardinality(Others(g)) + g[i]
  <2> HIDE DEF g
  <2>1. QED
    BY <1>1, TotalSplit
<1>5. f[i] \in Nat
  OBVIOUS
<1>6. QED
  <2> HIDE DEF Others
  <2>1. QED
    BY <1>1, <1>2, <1>3, <1>4, <1>5

\* Nothing adds up to nothing.
LEMMA TotalOfZeros ==
    ASSUME NEW S
    PROVE  Total([i \in S |-> 0]) = 0
<1>1. Units([i \in S |-> 0]) = {}
  BY DEF Units, UnitsOf
<1>2. QED
  BY <1>1, FS_EmptySet DEF Total

-----------------------------------------------------------------------------
(* Totals of two functions.                                                *)

\* The units of a function are the pairs of an argument and a number up to the value.
LEMMA UnitsAre ==
    ASSUME NEW S, NEW f \in [S -> Nat]
    PROVE  /\ \A i \in S : \A n \in 1 .. f[i] : <<i, n>> \in Units(f)
           /\ \A u \in Units(f) : \E i \in S : \E n \in 1 .. f[i] : u = <<i, n>>
  BY DEF Units, UnitsOf

\* A function over a finite set has a finite total.
LEMMA UnitsAreFinite ==
    ASSUME NEW S, IsFiniteSet(S), NEW f \in [S -> Nat]
    PROVE  IsFiniteSet(Units(f)) /\ Total(f) \in Nat
<1>1. IsFiniteSet(UNION {UnitsOf(f, i) : i \in S})
  BY UnitsFinite
<1>2. IsFiniteSet(Units(f))
  BY <1>1 DEF Units
<1>3. QED
  BY <1>2, FS_CardinalityType DEF Total

\* Entries that are nowhere larger have no larger total.
LEMMA TotalMonotone ==
    ASSUME NEW S, IsFiniteSet(S), NEW f \in [S -> Nat], NEW g \in [S -> Nat],
           \A i \in S : f[i] <= g[i]
    PROVE  Total(f) <= Total(g)
<1>1. Units(f) \subseteq Units(g)
  <2>1. ASSUME NEW u \in Units(f) PROVE u \in Units(g)
    <3>1. PICK i \in S, n \in Nat : n \in 1 .. f[i] /\ u = <<i, n>>
      BY UnitsAre
    <3>2. n \in 1 .. g[i]
      <4>1. f[i] \in Nat /\ g[i] \in Nat /\ f[i] <= g[i]
        OBVIOUS
      <4>2. QED
        BY <3>1, <4>1
    <3>3. QED
      BY <3>1, <3>2, UnitsAre
  <2>2. QED
    BY <2>1
<1>2. IsFiniteSet(Units(g))
  BY UnitsAreFinite
<1>3. QED
  BY <1>1, <1>2, FS_Subset DEF Total

\* The total of a sum is the sum of the totals: its units are those of f, and
\* those of g moved up behind them.
LEMMA TotalOfSum ==
    ASSUME NEW S, IsFiniteSet(S), NEW f \in [S -> Nat], NEW g \in [S -> Nat]
    PROVE  Total([i \in S |-> f[i] + g[i]]) = Total(f) + Total(g)
<1> DEFINE h == [i \in S |-> f[i] + g[i]]
           Moved == [u \in Units(g) |-> <<u[1], u[2] + f[u[1]]>>]
           Upper == {u \in Units(h) : u \notin Units(f)}
<1>1. h \in [S -> Nat] /\ \A i \in S : h[i] = f[i] + g[i] /\ f[i] \in Nat /\ g[i] \in Nat
  OBVIOUS
<1> HIDE DEF h
<1>2. \A i \in S, n \in Nat : <<i, n>> \in Units(f) <=> n \in 1 .. f[i]
  BY DEF Units, UnitsOf
<1>3. Units(h) = Units(f) \cup Upper /\ Units(f) \cap Upper = {}
  <2>1. ASSUME NEW u \in Units(f) PROVE u \in Units(h)
    <3>1. PICK i \in S, n \in Nat : n \in 1 .. f[i] /\ u = <<i, n>>
      BY UnitsAre
    <3>2. n \in 1 .. h[i]
      BY <1>1, <3>1
    <3>3. QED
      BY <1>1, <3>1, <3>2, UnitsAre
  <2>2. QED
    BY <2>1
<1>4. Moved \in [Units(g) -> Upper]
  <2>1. ASSUME NEW u \in Units(g) PROVE <<u[1], u[2] + f[u[1]]>> \in Upper
    <3>1. PICK i \in S, n \in Nat : n \in 1 .. g[i] /\ u = <<i, n>>
      BY UnitsAre
    <3>2. /\ n + f[i] \in Nat /\ n + f[i] \in 1 .. h[i]
          /\ ~(n + f[i] \in 1 .. f[i])
      BY <1>1, <3>1
    <3>3. <<i, n + f[i]>> \in Units(h)
      BY <1>1, <3>2, UnitsAre
    <3>4. <<i, n + f[i]>> \notin Units(f)
      BY <1>2, <3>2
    <3>5. QED
      BY <3>1, <3>3, <3>4
  <2>2. QED
    BY <2>1
<1>5. \A u, v \in Units(g) : Moved[u] = Moved[v] => u = v
  <2>1. ASSUME NEW u \in Units(g), NEW v \in Units(g), Moved[u] = Moved[v]
        PROVE  u = v
    <3>1. PICK i \in S, n \in Nat : n \in 1 .. g[i] /\ u = <<i, n>>
      BY UnitsAre
    <3>2. PICK j \in S, m \in Nat : m \in 1 .. g[j] /\ v = <<j, m>>
      BY UnitsAre
    <3>3. i = j /\ n + f[i] = m + f[j]
      BY <2>1, <3>1, <3>2
    <3>4. n = m
      BY <1>1, <3>3
    <3>5. QED
      BY <3>1, <3>2, <3>3, <3>4
  <2>2. QED
    BY <2>1
<1>6. \A u \in Upper : \E v \in Units(g) : Moved[v] = u
  <2>1. ASSUME NEW u \in Upper PROVE \E v \in Units(g) : Moved[v] = u
    <3>1. PICK i \in S, n \in Nat : n \in 1 .. h[i] /\ u = <<i, n>>
      BY <1>1, UnitsAre
    <3>2. ~(n \in 1 .. f[i])
      BY <1>1, <1>2, <3>1
    <3>3. n - f[i] \in 1 .. g[i] /\ (n - f[i]) + f[i] = n
      BY <1>1, <3>1, <3>2
    <3>4. <<i, n - f[i]>> \in Units(g)
      BY <3>3, UnitsAre
    <3>5. Moved[<<i, n - f[i]>>] = u
      BY <3>1, <3>3, <3>4
    <3>6. QED
      BY <3>4, <3>5
  <2>2. QED
    BY <2>1
<1>7. IsFiniteSet(Upper) /\ Cardinality(Upper) = Cardinality(Units(g))
  <2>1. Moved \in Bijection(Units(g), Upper)
    <3> HIDE DEF Moved, Upper
    <3>1. QED
      BY <1>4, <1>5, <1>6, Fun_IsBij
  <2>2. ExistsBijection(Units(g), Upper)
    BY <2>1 DEF ExistsBijection
  <2> HIDE DEF Upper
  <2>3. QED
    BY <2>2, UnitsAreFinite, FS_Bijection
<1>8. Total(h) = Total(f) + Total(g)
  <2> HIDE DEF Upper
  <2>1. Cardinality(Units(f) \cup Upper)
          = Cardinality(Units(f)) + Cardinality(Upper) - Cardinality({})
    BY <1>3, <1>7, UnitsAreFinite, FS_Union
  <2>2. Cardinality({}) = 0 /\ Total(f) \in Nat /\ Total(g) \in Nat
    BY UnitsAreFinite, FS_EmptySet
  <2>3. QED
    BY <1>3, <1>7, <2>1, <2>2 DEF Total
<1>9. QED
  BY <1>8 DEF h

\* Numbers written as rows of k places: the row and the place are unique ...
LEMMA SamePlace ==
    ASSUME NEW k \in Nat, NEW x \in Nat, NEW y \in Nat, NEW j \in 1 .. k, NEW m \in 1 .. k,
           (x - 1) * k + j = (y - 1) * k + m
    PROVE  x = y /\ j = m
<1>1. ASSUME NEW a \in Nat, NEW b \in Nat, NEW i \in 1 .. k, NEW n \in 1 .. k,
             (a - 1) * k + i = (b - 1) * k + n, a < b
      PROVE  FALSE
  <2>1. PICK d \in Nat : b = a + d + 1
    <3>1. b - a - 1 \in Nat /\ b = a + (b - a - 1) + 1
      BY <1>1
    <3>2. QED
      BY <3>1
  <2>2. (b - 1) * k = (a - 1) * k + d * k + k /\ d * k \in Nat /\ (a - 1) * k \in Int
    BY <2>1, Z3
  <2>3. QED
    BY <1>1, <2>2
<1>2. x = y
  BY <1>1
<1>3. (x - 1) * k \in Int
  OBVIOUS
<1>4. QED
  BY <1>2, <1>3

\* ... and every number has them.
LEMMA PlaceOf ==
    ASSUME NEW k \in Nat, NEW size \in Nat, NEW x \in 1 .. k * size
    PROVE  \E n \in 1 .. size, j \in 1 .. k : x = (n - 1) * k + j
<1>1. k # 0
  BY Z3
<1> DEFINE q == (x - 1) \div k
           r == (x - 1) - q * k
<1>2. x \in Nat /\ x - 1 \in Nat /\ x <= k * size /\ k * size \in Nat
  OBVIOUS
<1>3. q \in Nat /\ q * k <= x - 1 /\ x - 1 < q * k + k /\ q * k \in Nat
  BY <1>1, <1>2, Z3
<1> HIDE DEF q
<1>4. q < size
  <2>1. SUFFICES ASSUME size <= q PROVE FALSE
    BY <1>3
  <2>2. k * size <= q * k
    BY <1>3, <2>1, Z3
  <2>3. QED
    BY <1>2, <1>3, <2>2
<1>5. q + 1 \in 1 .. size /\ r + 1 \in 1 .. k /\ x = ((q + 1) - 1) * k + (r + 1)
  BY <1>2, <1>3, <1>4
<1>6. QED
  BY <1>5

\* Multiplying every entry multiplies the total: each unit becomes k units.
LEMMA TotalOfScaled ==
    ASSUME NEW S, IsFiniteSet(S), NEW f \in [S -> Nat], NEW k \in Nat
    PROVE  Total([i \in S |-> k * f[i]]) = k * Total(f)
<1> DEFINE h == [i \in S |-> k * f[i]]
           Pairs == Units(f) \X (1 .. k)
           Spread == [p \in Pairs |-> <<p[1][1], (p[1][2] - 1) * k + p[2]>>]
<1>1. h \in [S -> Nat] /\ \A i \in S : h[i] = k * f[i] /\ f[i] \in Nat
  OBVIOUS
<1> HIDE DEF h
<1>2. Spread \in [Pairs -> Units(h)]
  <2>1. ASSUME NEW u \in Units(f), NEW j \in 1 .. k
        PROVE  <<u[1], (u[2] - 1) * k + j>> \in Units(h)
    <3>1. PICK i \in S, n \in Nat : n \in 1 .. f[i] /\ u = <<i, n>>
      BY UnitsAre
    <3>2. (n - 1) * k + j \in 1 .. k * f[i]
      <4>1. f[i] \in Nat /\ n \in 1 .. f[i] /\ n \in Nat
        BY <1>1, <3>1
      <4>2. PICK d \in Nat : f[i] = n + d
        <5>1. f[i] - n \in Nat /\ f[i] = n + (f[i] - n)
          BY <4>1
        <5>2. QED
          BY <5>1
      <4>3. PICK m \in Nat : n = m + 1
        <5>1. n - 1 \in Nat /\ n = (n - 1) + 1
          BY <4>1
        <5>2. QED
          BY <5>1
      <4>4. k * f[i] = m * k + k + d * k /\ m * k \in Nat /\ d * k \in Nat
        BY <4>2, <4>3, Z3
      <4>5. QED
        BY <4>3, <4>4
    <3>3. QED
      BY <1>1, <3>1, <3>2, UnitsAre
  <2>2. QED
    BY <2>1
<1>3. \A p, q \in Pairs : Spread[p] = Spread[q] => p = q
  <2>1. ASSUME NEW u \in Units(f), NEW j \in 1 .. k, NEW v \in Units(f), NEW m \in 1 .. k,
               u[1] = v[1], (u[2] - 1) * k + j = (v[2] - 1) * k + m
        PROVE  u = v /\ j = m
    <3>1. PICK i \in S, x \in Nat : x \in 1 .. f[i] /\ u = <<i, x>>
      BY UnitsAre
    <3>2. PICK e \in S, y \in Nat : y \in 1 .. f[e] /\ v = <<e, y>>
      BY UnitsAre
    <3>3. i = e /\ (x - 1) * k + j = (y - 1) * k + m
      BY <2>1, <3>1, <3>2
    <3>4. x = y /\ j = m
      BY <3>3, SamePlace
    <3>5. QED
      BY <3>1, <3>2, <3>3, <3>4
  <2>2. QED
    BY <2>1
<1>4. \A u \in Units(h) : \E p \in Pairs : Spread[p] = u
  <2>1. ASSUME NEW u \in Units(h) PROVE \E p \in Pairs : Spread[p] = u
    <3>1. PICK i \in S, x \in Nat : x \in 1 .. h[i] /\ u = <<i, x>>
      BY <1>1, UnitsAre
    <3>2. PICK n \in 1 .. f[i], j \in 1 .. k : x = (n - 1) * k + j
      <4>1. f[i] \in Nat /\ x \in 1 .. k * f[i]
        BY <1>1, <3>1
      <4>2. QED
        BY <4>1, PlaceOf
    <3>3. <<i, n>> \in Units(f)
      BY <3>2, UnitsAre
    <3>4. <<<<i, n>>, j>> \in Pairs /\ Spread[<<<<i, n>>, j>>] = u
      BY <3>1, <3>2, <3>3
    <3>5. QED
      BY <3>4
  <2>2. QED
    BY <2>1
<1>5. IsFiniteSet(Pairs) /\ Cardinality(Pairs) = Total(f) * k
  <2>1. IsFiniteSet(1 .. k) /\ Cardinality(1 .. k) = k
    BY FS_Interval
  <2>2. QED
    BY <2>1, UnitsAreFinite, FS_Product DEF Total
<1>6. Cardinality(Units(h)) = Cardinality(Pairs)
  <2>1. Spread \in Bijection(Pairs, Units(h))
    <3> HIDE DEF Spread, Pairs
    <3>1. QED
      BY <1>2, <1>3, <1>4, Fun_IsBij
  <2>2. ExistsBijection(Pairs, Units(h))
    BY <2>1 DEF ExistsBijection
  <2> HIDE DEF Pairs
  <2>3. QED
    BY <1>5, <2>2, FS_Bijection
<1>7. Total(f) \in Nat
  BY UnitsAreFinite
<1>8. Total(h) = k * Total(f)
  <2> HIDE DEF Pairs
  <2>1. Total(f) * k = k * Total(f)
    BY <1>7, Z3
  <2>2. QED
    BY <1>5, <1>6, <2>1 DEF Total
<1>9. QED
  BY <1>8 DEF h

\* Counting the members of a set is adding up ones.
LEMMA TotalOfMembers ==
    ASSUME NEW S, NEW T \in SUBSET S, IsFiniteSet(S)
    PROVE  Total([i \in S |-> IF i \in T THEN 1 ELSE 0]) = Cardinality(T)
<1> DEFINE f == [i \in S |-> IF i \in T THEN 1 ELSE 0]
<1>1. f \in [S -> Nat] /\ \A i \in S : f[i] = IF i \in T THEN 1 ELSE 0
  OBVIOUS
<1> HIDE DEF f
<1>2. Units(f) = T \X {1}
  <2>1. ASSUME NEW u \in Units(f) PROVE u \in T \X {1}
    <3>1. PICK i \in S, n \in Nat : n \in 1 .. f[i] /\ u = <<i, n>>
      BY <1>1, UnitsAre
    <3>2. i \in T /\ n = 1
      BY <1>1, <3>1
    <3>3. QED
      BY <3>1, <3>2
  <2>2. ASSUME NEW i \in T PROVE <<i, 1>> \in Units(f)
    <3>1. i \in S /\ 1 \in 1 .. f[i]
      BY <1>1
    <3>2. QED
      BY <1>1, <3>1, UnitsAre
  <2>3. QED
    BY <2>1, <2>2
<1>3. IsFiniteSet(T) /\ Cardinality(T) \in Nat
  BY FS_Subset, FS_CardinalityType
<1>4. IsFiniteSet({1}) /\ Cardinality({1}) = 1
  BY FS_Singleton
<1>5. Cardinality(T \X {1}) = Cardinality(T) * Cardinality({1})
  BY <1>3, <1>4, FS_Product
<1>6. Total(f) = Cardinality(T)
  BY <1>2, <1>3, <1>4, <1>5 DEF Total
<1>7. QED
  BY <1>6 DEF f
=============================================================================
