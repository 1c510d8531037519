---------------------------- MODULE AccrualProofs ----------------------------
(***************************************************************************)
(* What interest can come to, for every rate, term and cut of the time.    *)
(* The loop of pow_wad and the yardstick EverySecond are recursive; the    *)
(* first section shows that such a recursion computes what it says, and    *)
(* what induction over it gives.                                           *)
(***************************************************************************)
EXTENDS Accrual, HaircutsProofs, WellFoundedInduction

-----------------------------------------------------------------------------
(* Induction and recursion.                                                *)

\* A set of numbers that holds 0 and every successor holds all of them.
LEMMA SetInduction ==
    ASSUME NEW S, 0 \in S, \A n \in Nat : n \in S => n + 1 \in S
    PROVE  \A n \in Nat : n \in S
<1> SUFFICES ASSUME ~ \A n \in Nat : n \in S PROVE FALSE
  OBVIOUS
<1> DEFINE T == {n \in Nat : n \notin S}
<1>1. T \subseteq Nat /\ T # {}
  OBVIOUS
<1>2. PICK m \in T : \A y \in T : ~ (<<y, m>> \in OpToRel(<, Nat))
  <2> HIDE DEF T
  <2>1. IsWellFoundedOn(OpToRel(<, Nat), Nat)
    BY NatLessThanWellFounded
  <2>2. QED
    BY <1>1, <2>1, WFMin
<1>3. m \in Nat /\ m # 0 /\ m - 1 \in Nat /\ (m - 1) + 1 = m /\ m - 1 < m
  OBVIOUS
<1>4. m - 1 \notin T
  <2>1. <<m - 1, m>> \in OpToRel(<, Nat)
    BY <1>3 DEF OpToRel
  <2>2. QED
    BY <1>2, <2>1
<1>5. m \in S
  BY <1>3, <1>4
<1>6. QED
  BY <1>5

\* A recursion that calls itself at most once, on something of a lower rank:
\* stop where it ends, with what out, step what it calls itself on, and body
\* what it makes of the answer.
IsRecursion(R, T, rank, stop, out, step, body) ==
    /\ rank \in [R -> Nat] /\ stop \subseteq R /\ out \in [R -> T]
    /\ step \in [R -> R] /\ body \in [T -> T]
    /\ \A r \in R : r \notin stop => rank[step[r]] < rank[r]

\* g satisfies the equation of the recursion up to rank n.
Follows(g, n, R, rank, stop, out, step, body) ==
    \A r \in R : rank[r] <= n =>
        g[r] = IF r \in stop THEN out[r] ELSE body[g[step[r]]]

\* Up to any rank there is such a function.
LEMMA RecursionUpTo ==
    ASSUME NEW R, NEW T, NEW rank, NEW stop, NEW out, NEW step, NEW body,
           IsRecursion(R, T, rank, stop, out, step, body)
    PROVE  \A n \in Nat : \E g \in [R -> T] :
             Follows(g, n, R, rank, stop, out, step, body)
<1> USE DEF IsRecursion
<1> DEFINE Ok(g, n) == Follows(g, n, R, rank, stop, out, step, body)
           S == {n \in Nat : \E g \in [R -> T] : Ok(g, n)}
<1>1. 0 \in S
  <2>1. ASSUME NEW r \in R, rank[r] <= 0 PROVE r \in stop
    <3>1. rank[r] = 0 /\ rank[step[r]] \in Nat
      BY <2>1
    <3>2. QED
      BY <3>1
  <2>2. Ok(out, 0)
    BY <2>1 DEF Follows
  <2>3. QED
    BY <2>2
<1>2. ASSUME NEW n \in Nat, n \in S PROVE n + 1 \in S
  <2>1. PICK g \in [R -> T] : Ok(g, n)
    BY <1>2
  <2> DEFINE h == [r \in R |-> IF r \in stop THEN out[r] ELSE body[g[step[r]]]]
  <2>2. h \in [R -> T]
    OBVIOUS
  <2>3. ASSUME NEW r \in R, rank[r] <= n PROVE h[r] = g[r]
    BY <2>1, <2>3 DEF Follows
  <2>4. ASSUME NEW r \in R, rank[r] <= n + 1, r \notin stop PROVE h[step[r]] = g[step[r]]
    <3>1. step[r] \in R /\ rank[step[r]] < rank[r]
      BY <2>4
    <3>2. rank[step[r]] \in Nat /\ rank[r] \in Nat
      BY <3>1
    <3>3. rank[step[r]] <= n
      BY <2>4, <3>1, <3>2
    <3>4. QED
      BY <2>3, <3>1, <3>3
  <2>5. Ok(h, n + 1)
    BY <2>4 DEF Follows
  <2>6. QED
    BY <2>2, <2>5
<1>3. \A n \in Nat : n \in S
  <2> HIDE DEF S
  <2>1. QED
    BY <1>1, <1>2, SetInduction
<1>4. QED
  BY <1>3

\* Two of them agree as far as both go.
LEMMA RecursionAgrees ==
    ASSUME NEW R, NEW T, NEW rank, NEW stop, NEW out, NEW step, NEW body,
           IsRecursion(R, T, rank, stop, out, step, body),
           NEW g, NEW h, NEW m \in Nat, NEW n \in Nat,
           Follows(g, m, R, rank, stop, out, step, body),
           Follows(h, n, R, rank, stop, out, step, body)
    PROVE  \A r \in R : rank[r] <= m /\ rank[r] <= n => g[r] = h[r]
<1> USE DEF IsRecursion
<1> DEFINE S == {k \in Nat : \A r \in R :
                   rank[r] <= k /\ rank[r] <= m /\ rank[r] <= n => g[r] = h[r]}
<1>1. ASSUME NEW r \in R, rank[r] <= m, rank[r] <= n,
             r \in stop \/ g[step[r]] = h[step[r]]
      PROVE  g[r] = h[r]
  BY <1>1 DEF Follows
<1>2. 0 \in S
  <2>1. ASSUME NEW r \in R, rank[r] <= 0, rank[r] <= m, rank[r] <= n PROVE g[r] = h[r]
    <3>1. rank[r] = 0 /\ rank[step[r]] \in Nat
      BY <2>1
    <3>2. r \in stop
      BY <3>1
    <3>3. QED
      BY <1>1, <2>1, <3>2
  <2>2. QED
    BY <2>1
<1>3. ASSUME NEW k \in Nat, k \in S PROVE k + 1 \in S
  <2>1. ASSUME NEW r \in R, rank[r] <= k + 1, rank[r] <= m, rank[r] <= n, r \notin stop
        PROVE  g[step[r]] = h[step[r]]
    <3>1. step[r] \in R /\ rank[step[r]] < rank[r]
      BY <2>1
    <3>2. rank[step[r]] \in Nat /\ rank[r] \in Nat
      BY <3>1
    <3>3. rank[step[r]] <= k /\ rank[step[r]] <= m /\ rank[step[r]] <= n
      BY <2>1, <3>1, <3>2
    <3>4. QED
      BY <1>3, <3>1, <3>3
  <2>2. QED
    BY <1>1, <2>1
<1>4. \A k \in Nat : k \in S
  <2> HIDE DEF S
  <2>1. QED
    BY <1>2, <1>3, SetInduction
<1>5. ASSUME NEW r \in R, rank[r] <= m, rank[r] <= n PROVE g[r] = h[r]
  <2>1. rank[r] \in Nat /\ rank[r] <= rank[r]
    OBVIOUS
  <2>2. QED
    BY <1>4, <1>5, <2>1
<1>6. QED
  BY <1>5

\* So there is a function that satisfies the equation everywhere.
LEMMA RecursionExists ==
    ASSUME NEW R, NEW T, NEW rank, NEW stop, NEW out, NEW step, NEW body,
           IsRecursion(R, T, rank, stop, out, step, body)
    PROVE  \E f \in [R -> T] :
             f = [r \in R |-> IF r \in stop THEN out[r] ELSE body[f[step[r]]]]
<1> DEFINE Ok(g, n) == Follows(g, n, R, rank, stop, out, step, body)
           G[n \in Nat] == CHOOSE g \in [R -> T] : Ok(g, n)
           f == [r \in R |-> G[rank[r]][r]]
<1>1. ASSUME NEW n \in Nat PROVE G[n] \in [R -> T] /\ Ok(G[n], n)
  <2>1. \E g \in [R -> T] : Ok(g, n)
    BY RecursionUpTo
  <2> HIDE DEF Ok
  <2>2. G[n] = CHOOSE g \in [R -> T] : Ok(g, n)
    OBVIOUS
  <2>3. QED
    BY <2>1, <2>2
<1> HIDE DEF G
<1>2. f \in [R -> T]
  <2>1. ASSUME NEW r \in R PROVE G[rank[r]][r] \in T
    BY <1>1 DEF IsRecursion
  <2>2. QED
    BY <2>1
<1>3. ASSUME NEW r \in R
      PROVE  f[r] = IF r \in stop THEN out[r] ELSE body[f[step[r]]]
  <2>1. rank[r] \in Nat /\ step[r] \in R /\ rank[step[r]] \in Nat
    BY DEF IsRecursion
  <2>2. f[r] = G[rank[r]][r] /\ f[step[r]] = G[rank[step[r]]][step[r]]
    BY <2>1
  <2>3. G[rank[r]][r] = IF r \in stop THEN out[r] ELSE body[G[rank[r]][step[r]]]
    BY <1>1, <2>1 DEF Follows
  <2>4. ASSUME r \notin stop
        PROVE  G[rank[r]][step[r]] = G[rank[step[r]]][step[r]]
    <3>1. rank[step[r]] < rank[r]
      BY <2>4 DEF IsRecursion
    <3>2. rank[step[r]] <= rank[r] /\ rank[step[r]] <= rank[step[r]]
      BY <2>1, <3>1
    <3>3. Ok(G[rank[r]], rank[r]) /\ Ok(G[rank[step[r]]], rank[step[r]])
      BY <1>1, <2>1
    <3>4. QED
      BY <2>1, <3>2, <3>3, RecursionAgrees
  <2> HIDE DEF f
  <2>5. QED
    BY <2>2, <2>3, <2>4
<1>4. f = [r \in R |-> IF r \in stop THEN out[r] ELSE body[f[step[r]]]]
  <2> DEFINE g == [r \in R |-> IF r \in stop THEN out[r] ELSE body[f[step[r]]]]
  <2>1. \A r \in R : f[r] = g[r]
    BY <1>3
  <2>2. f = [r \in R |-> f[r]] /\ g = [r \in R |-> g[r]]
    BY <1>2
  <2> HIDE DEF f, g
  <2>3. f = g
    BY <2>1, <2>2
  <2>4. QED
    BY <2>3 DEF g
<1>5. QED
  BY <1>2, <1>4

-----------------------------------------------------------------------------
(* The two recursions of the model.                                        *)

\* The factors of the interest are at least nothing, the calendar has days.
LEMMA InterestConstants ==
    /\ WAD \in Nat \ {0} /\ WAD > 1 /\ BPS \in Nat \ {0}
    /\ SECONDS_PER_DAY \in Nat \ {0} /\ DAYS_PER_YEAR \in Nat \ {0}
    /\ SECONDS_PER_YEAR \in Nat \ {0}
    /\ SECONDS_PER_YEAR * BPS \in Nat \ {0}
    /\ AnnualInterestBps \in Nat /\ MaturityTimestamp \in Nat
    /\ MaxTotalSupply \in Nat /\ U32Max \in Nat /\ U64Max \in Nat /\ U128Max \in Nat
<1>1. /\ WAD \in Nat \ {0} /\ WAD > 1 /\ BPS \in Nat \ {0}
      /\ SECONDS_PER_DAY \in Nat \ {0} /\ DAYS_PER_YEAR \in Nat \ {0}
      /\ AnnualInterestBps \in Nat /\ MaturityTimestamp \in Nat
      /\ MaxTotalSupply \in Nat /\ U32Max \in Nat /\ U64Max \in Nat /\ U128Max \in Nat
  BY FixedPointAssumption, CalendarAssumption, AccrualAssumption
<1>2. \A a, b \in Nat \ {0} : a * b \in Nat \ {0}
  BY Z3
<1>3. SECONDS_PER_YEAR \in Nat \ {0}
  BY <1>1, <1>2 DEF SECONDS_PER_YEAR
<1>4. SECONDS_PER_YEAR * BPS \in Nat \ {0}
  BY <1>1, <1>2, <1>3
<1>5. QED
  BY <1>1, <1>3, <1>4

\* A seconds' interest on a balance, rounded up.
YearsUp(x) ==
    (x * (SECONDS_PER_YEAR * BPS + AnnualInterestBps) + SECONDS_PER_YEAR * BPS - 1)
      \div (SECONDS_PER_YEAR * BPS)

\* It is a balance.
LEMMA YearsUpType ==
    ASSUME NEW x \in Nat
    PROVE  YearsUp(x) \in Nat
<1> DEFINE year == SECONDS_PER_YEAR * BPS
<1>1. year \in Nat \ {0} /\ AnnualInterestBps \in Nat
  BY InterestConstants
<1> HIDE DEF year
<1>2. x * (year + AnnualInterestBps) \in Nat
  BY <1>1
<1>3. x * (year + AnnualInterestBps) + year - 1 \in Nat
  BY <1>1, <1>2
<1>4. (x * (year + AnnualInterestBps) + year - 1) \div year \in Nat
  BY <1>1, <1>3, DivBounds
<1>5. QED
  BY <1>4 DEF YearsUp, year

\* The yardstick compounds second by second.
LEMMA EverySecondSteps ==
    /\ EverySecond \in [Nat -> Nat]
    /\ EverySecond[0] = WAD
    /\ \A t \in Nat : EverySecond[t + 1] = YearsUp(EverySecond[t])
<1> DEFINE rank == [t \in Nat |-> t]
           stop == {0}
           out  == [t \in Nat |-> WAD]
           step == [t \in Nat |-> IF t = 0 THEN 0 ELSE t - 1]
           body == [x \in Nat |-> YearsUp(x)]
<1>1. IsRecursion(Nat, Nat, rank, stop, out, step, body)
  <2>1. out \in [Nat -> Nat] /\ body \in [Nat -> Nat]
    BY InterestConstants, YearsUpType
  <2>2. step \in [Nat -> Nat]
    <3>1. ASSUME NEW t \in Nat PROVE (IF t = 0 THEN 0 ELSE t - 1) \in Nat
      OBVIOUS
    <3>2. QED
      BY <3>1
  <2>3. rank \in [Nat -> Nat] /\ stop \subseteq Nat
    OBVIOUS
  <2>4. ASSUME NEW t \in Nat, t \notin stop PROVE rank[step[t]] < rank[t]
    BY <2>4
  <2> HIDE DEF rank, stop, out, step, body
  <2>5. QED
    BY <2>1, <2>2, <2>3, <2>4 DEF IsRecursion
<1>2. PICK f \in [Nat -> Nat] :
        f = [t \in Nat |-> IF t \in stop THEN out[t] ELSE body[f[step[t]]]]
  <2> HIDE DEF rank, stop, out, step, body
  <2>1. QED
    BY <1>1, RecursionExists
<1>3. \A t \in Nat : f[t] = IF t = 0 THEN WAD ELSE YearsUp(f[t - 1])
  <2>1. ASSUME NEW t \in Nat PROVE f[t] = IF t = 0 THEN WAD ELSE YearsUp(f[t - 1])
    <3>1. f[t] = IF t \in stop THEN out[t] ELSE body[f[step[t]]]
      BY <1>2
    <3>2. CASE t = 0
      BY <3>1, <3>2
    <3>3. CASE t # 0
      <4>1. t - 1 \in Nat /\ step[t] = t - 1 /\ t \notin stop
        BY <3>3
      <4>2. body[f[t - 1]] = YearsUp(f[t - 1])
        BY <4>1
      <4>3. QED
        BY <3>1, <3>3, <4>1, <4>2
    <3>4. QED
      BY <3>2, <3>3
  <2>2. QED
    BY <2>1
<1> HIDE DEF rank, stop, out, step, body
<1>4. f = [t \in Nat |-> IF t = 0 THEN WAD ELSE YearsUp(f[t - 1])]
  BY <1>3
<1> DEFINE Equation(g) == g = [t \in Nat |-> IF t = 0 THEN WAD ELSE YearsUp(g[t - 1])]
<1>5. EverySecond = CHOOSE g : Equation(g)
  BY DEF EverySecond, YearsUp
<1>6. Equation(EverySecond)
  <2>1. \E g : Equation(g)
    BY <1>4
  <2> HIDE DEF Equation
  <2>2. QED
    BY <1>5, <2>1
<1>7. \A t \in Nat : EverySecond[t] = IF t = 0 THEN WAD ELSE YearsUp(EverySecond[t - 1])
  BY <1>6
<1>8. \A t \in Nat : EverySecond[t + 1] = YearsUp(EverySecond[t])
  <2>1. ASSUME NEW t \in Nat PROVE EverySecond[t + 1] = YearsUp(EverySecond[t])
    <3>1. t + 1 \in Nat /\ t + 1 # 0 /\ (t + 1) - 1 = t
      OBVIOUS
    <3>2. QED
      BY <1>7, <3>1
  <2>2. QED
    BY <2>1
<1>9. EverySecond[0] = WAD
  BY <1>7
<1>10. \A t \in Nat : EverySecond[t] \in Nat
  <2> DEFINE S == {t \in Nat : EverySecond[t] \in Nat}
  <2>1. 0 \in S
    BY <1>9, InterestConstants
  <2>2. ASSUME NEW t \in Nat, t \in S PROVE t + 1 \in S
    BY <1>8, <2>2, YearsUpType
  <2>3. \A t \in Nat : t \in S
    <3> HIDE DEF S
    <3>1. QED
      BY <2>1, <2>2, SetInduction
  <2>4. QED
    BY <2>3
<1>11. EverySecond \in [Nat -> Nat]
  <2>1. EverySecond = [t \in Nat |-> EverySecond[t]]
    BY <1>6
  <2>2. QED
    BY <1>10, <2>1
<1>12. QED
  BY <1>8, <1>9, <1>11

-----------------------------------------------------------------------------
(* The loop of pow_wad.                                                    *)

Loops == Nat \X Nat \X Nat \X Nat

\* The products of one round of the loop.
ResultProduct(r) == IF r[3] % 2 = 1 THEN r[1] * r[2] ELSE 0

BaseProduct(r) == NextBase(r[2], r[3] \div 2)

\* One round.
NextRound(r) ==
    << IF r[3] % 2 = 1 THEN ResultProduct(r) \div WAD ELSE r[1],
       IF r[3] \div 2 > 0 THEN BaseProduct(r) \div WAD ELSE r[2],
       r[3] \div 2,
       Larger(r[4], Larger(ResultProduct(r), BaseProduct(r))) >>

\* The half of a number, rounded down, and what is left over.
LEMMA HalfOf ==
    ASSUME NEW e \in Nat
    PROVE  /\ e \div 2 \in Nat /\ e % 2 \in {0, 1}
           /\ e = (e \div 2) + (e \div 2) + (e % 2)
           /\ e # 0 => e \div 2 < e
  BY Z3

\* A round stays among natural numbers.
LEMMA RoundType ==
    ASSUME NEW r \in Loops
    PROVE  /\ NextRound(r) \in Loops
           /\ ResultProduct(r) \in Nat /\ BaseProduct(r) \in Nat
<1>1. r[1] \in Nat /\ r[2] \in Nat /\ r[3] \in Nat /\ r[4] \in Nat
  BY DEF Loops
<1>2. r[1] * r[2] \in Nat /\ r[2] * r[2] \in Nat
  BY <1>1
<1>3. ResultProduct(r) \in Nat /\ BaseProduct(r) \in Nat
  BY <1>2 DEF ResultProduct, BaseProduct, NextBase
<1>4. \A p \in Nat : p \div WAD \in Nat
  BY InterestConstants, DivBounds
<1>5. (IF r[3] % 2 = 1 THEN ResultProduct(r) \div WAD ELSE r[1]) \in Nat
  BY <1>1, <1>3, <1>4
<1>6. (IF r[3] \div 2 > 0 THEN BaseProduct(r) \div WAD ELSE r[2]) \in Nat
  BY <1>1, <1>3, <1>4
<1>7. Larger(r[4], Larger(ResultProduct(r), BaseProduct(r))) \in Nat
  BY <1>1, <1>3 DEF Larger
<1>8. r[3] \div 2 \in Nat
  BY <1>1, HalfOf
<1>9. QED
  BY <1>3, <1>5, <1>6, <1>7, <1>8 DEF NextRound, Loops

\* What holds when no bit is left, and before a round if after it, holds always.
LEMMA LoopInduction ==
    ASSUME NEW S, \A r \in Loops : r[3] = 0 => r \in S,
           \A r \in Loops : r[3] # 0 /\ NextRound(r) \in S => r \in S
    PROVE  \A r \in Loops : r \in S
<1> DEFINE U == {n \in Nat : \A r \in Loops : r[3] <= n => r \in S}
<1>1. \A r \in Loops : r[3] \in Nat
  BY DEF Loops
<1>2. 0 \in U
  <2>1. ASSUME NEW r \in Loops, r[3] <= 0 PROVE r \in S
    <3>1. r[3] = 0
      BY <1>1, <2>1
    <3>2. QED
      BY <3>1
  <2>2. QED
    BY <2>1
<1>3. ASSUME NEW n \in Nat, n \in U PROVE n + 1 \in U
  <2>1. ASSUME NEW r \in Loops, r[3] <= n + 1, r[3] # 0 PROVE r \in S
    <3>1. r[3] \in Nat /\ r[3] \div 2 \in Nat /\ r[3] \div 2 < r[3]
      BY <1>1, <2>1, HalfOf
    <3>2. NextRound(r)[3] <= n
      <4>1. NextRound(r)[3] = r[3] \div 2
        BY DEF NextRound
      <4>2. QED
        BY <2>1, <3>1, <4>1
    <3>3. NextRound(r) \in S
      BY <1>3, <3>2, RoundType
    <3>4. QED
      BY <2>1, <3>3
  <2>2. QED
    BY <2>1
<1>4. \A n \in Nat : n \in U
  <2> HIDE DEF U
  <2>1. QED
    BY <1>2, <1>3, SetInduction
<1>5. ASSUME NEW r \in Loops PROVE r \in S
  <2>1. r[3] \in Nat /\ r[3] <= r[3]
    BY <1>1
  <2>2. QED
    BY <1>4, <2>1
<1>6. QED
  BY <1>5

\* The loop runs round by round until no bit of the exponent is left.
LEMMA PowLoopRuns ==
    /\ PowLoop \in [Loops -> Nat \X Nat]
    /\ \A r \in Loops :
         PowLoop[r] = IF r[3] = 0 THEN <<r[1], r[4]>> ELSE PowLoop[NextRound(r)]
<1> DEFINE T == Nat \X Nat
           rank == [r \in Loops |-> r[3]]
           stop == {r \in Loops : r[3] = 0}
           out  == [r \in Loops |-> <<r[1], r[4]>>]
           step == [r \in Loops |-> NextRound(r)]
           body == [x \in T |-> x]
<1>1. IsRecursion(Loops, T, rank, stop, out, step, body)
  <2>1. \A r \in Loops : r[1] \in Nat /\ r[3] \in Nat /\ r[4] \in Nat
    BY DEF Loops
  <2>2. rank \in [Loops -> Nat] /\ out \in [Loops -> T] /\ body \in [T -> T]
    BY <2>1
  <2>3. step \in [Loops -> Loops] /\ stop \subseteq Loops
    BY RoundType
  <2>4. ASSUME NEW r \in Loops, r \notin stop PROVE rank[step[r]] < rank[r]
    <3>1. r[3] # 0 /\ r[3] \in Nat
      BY <2>1, <2>4
    <3>2. NextRound(r)[3] = r[3] \div 2
      BY DEF NextRound
    <3>3. NextRound(r)[3] < r[3]
      BY <3>1, <3>2, HalfOf
    <3>4. QED
      BY <3>3, RoundType
  <2> HIDE DEF rank, stop, out, step, body
  <2>5. QED
    BY <2>2, <2>3, <2>4 DEF IsRecursion
<1>2. PICK f \in [Loops -> T] :
        f = [r \in Loops |-> IF r \in stop THEN out[r] ELSE body[f[step[r]]]]
  <2> HIDE DEF T, rank, stop, out, step, body
  <2>1. QED
    BY <1>1, RecursionExists
<1>3. \A r \in Loops :
        f[r] = IF r[3] = 0 THEN <<r[1], r[4]>> ELSE f[NextRound(r)]
  <2>1. ASSUME NEW r \in Loops
        PROVE  f[r] = IF r[3] = 0 THEN <<r[1], r[4]>> ELSE f[NextRound(r)]
    <3>1. f[r] = IF r \in stop THEN out[r] ELSE body[f[step[r]]]
      BY <1>2
    <3>2. step[r] = NextRound(r) /\ f[NextRound(r)] \in T
      BY RoundType
    <3>3. body[f[step[r]]] = f[NextRound(r)]
      BY <3>2
    <3>4. QED
      BY <3>1, <3>3
  <2>2. QED
    BY <2>1
<1> HIDE DEF rank, stop, out, step, body
<1> DEFINE Equation(g) ==
      g = [r \in Loops |-> IF r[3] = 0 THEN <<r[1], r[4]>> ELSE g[NextRound(r)]]
<1>4. Equation(f)
  BY <1>3
<1>5. PowLoop = CHOOSE g : Equation(g)
  BY DEF PowLoop, Loops, NextRound, ResultProduct, BaseProduct
<1>6. Equation(PowLoop)
  <2>1. \E g : Equation(g)
    BY <1>4
  <2> HIDE DEF Equation
  <2>2. QED
    BY <1>5, <2>1
<1>7. \A r \in Loops :
        PowLoop[r] = IF r[3] = 0 THEN <<r[1], r[4]>> ELSE PowLoop[NextRound(r)]
  BY <1>6
<1>8. PowLoop \in [Loops -> T]
  <2> DEFINE S == {r \in Loops : PowLoop[r] \in T}
  <2>1. \A r \in Loops : r[3] = 0 => r \in S
    <3>1. ASSUME NEW r \in Loops PROVE <<r[1], r[4]>> \in T
      BY DEF Loops
    <3>2. QED
      BY <1>7, <3>1
  <2>2. \A r \in Loops : r[3] # 0 /\ NextRound(r) \in S => r \in S
    BY <1>7
  <2>3. \A r \in Loops : r \in S
    <3> HIDE DEF S
    <3>1. QED
      BY <2>1, <2>2, LoopInduction
  <2>4. PowLoop = [r \in Loops |-> PowLoop[r]]
    BY <1>6
  <2>5. QED
    BY <2>3, <2>4
<1>9. QED
  BY <1>7, <1>8

-----------------------------------------------------------------------------
(* The least a growth can be.                                              *)

\* Two growths compounded are at least the two added.
LEMMA MulWadAbove ==
    ASSUME NEW a \in Nat, NEW b \in Nat, a >= WAD, b >= WAD
    PROVE  MulWad(a, b) >= a + (b - WAD)
<1>1. PICK x \in Nat : a = WAD + x
  <2>1. a - WAD \in Nat /\ a = WAD + (a - WAD)
    BY InterestConstants
  <2>2. QED
    BY <2>1
<1>2. PICK y \in Nat : b = WAD + y
  <2>1. b - WAD \in Nat /\ b = WAD + (b - WAD)
    BY InterestConstants
  <2>2. QED
    BY <2>1
<1>3. (a + y) * WAD <= a * b
  <2>1. WAD \in Nat
    BY InterestConstants
  <2>2. a * b = (a + y) * WAD + x * y /\ x * y \in Nat /\ (a + y) * WAD \in Nat
    BY <1>1, <1>2, <2>1, Z3
  <2>3. QED
    BY <2>2
<1>4. a + y <= (a * b) \div WAD
  <2>1. a * b \in Nat /\ a + y \in Nat
    BY <1>2
  <2>2. QED
    BY <1>3, <2>1, InterestConstants, DivAtLeast
<1>5. b - WAD = y
  BY <1>2, InterestConstants
<1>6. QED
  BY <1>4, <1>5 DEF MulWad

\* What a round does to the result and the base is to multiply them.
LEMMA RoundMultiplies ==
    ASSUME NEW r \in Loops, r[3] # 0
    PROVE  /\ NextRound(r)[1] = IF r[3] % 2 = 1 THEN MulWad(r[1], r[2]) ELSE r[1]
           /\ NextRound(r)[2] = IF r[3] \div 2 > 0 THEN MulWad(r[2], r[2]) ELSE r[2]
           /\ NextRound(r)[3] = r[3] \div 2
  BY DEF NextRound, ResultProduct, BaseProduct, NextBase, MulWad

\* pow_wad grows at least by simple interest.
LEMMA PowAtLeastLinear ==
    \A r \in Loops : r[1] >= WAD /\ r[2] >= WAD =>
        PowLoop[r][1] >= r[1] + r[3] * (r[2] - WAD)
<1> DEFINE S == {r \in Loops : r[1] >= WAD /\ r[2] >= WAD =>
                    PowLoop[r][1] >= r[1] + r[3] * (r[2] - WAD)}
<1>1. \A r \in Loops : r[1] \in Nat /\ r[2] \in Nat /\ r[3] \in Nat
  BY DEF Loops
<1>2. ASSUME NEW r \in Loops, r[3] = 0 PROVE r \in S
  <2>1. PowLoop[r][1] = r[1]
    BY <1>2, PowLoopRuns
  <2>2. r[3] * (r[2] - WAD) = 0 /\ r[1] \in Nat
    <3>1. \A k \in Int : 0 * k = 0
      OBVIOUS
    <3>2. r[2] - WAD \in Int
      BY <1>1, InterestConstants
    <3>3. QED
      BY <1>1, <1>2, <3>1, <3>2
  <2>3. QED
    BY <2>1, <2>2
<1>3. ASSUME NEW r \in Loops, r[3] # 0, NextRound(r) \in S,
             r[1] >= WAD, r[2] >= WAD
      PROVE  PowLoop[r][1] >= r[1] + r[3] * (r[2] - WAD)
  <2> DEFINE n == NextRound(r)
             half == r[3] \div 2
             bit == r[3] % 2
             d == r[2] - WAD
  <2>1. /\ PowLoop[r] = PowLoop[n] /\ n \in Loops
        /\ n[1] \in Nat /\ n[2] \in Nat /\ PowLoop[n][1] \in Nat
    <3>1. n \in Loops /\ PowLoop[r] = PowLoop[n]
      BY <1>3, RoundType, PowLoopRuns
    <3>2. PowLoop[n] \in Nat \X Nat
      BY <3>1, PowLoopRuns
    <3>3. QED
      BY <1>1, <3>1, <3>2
  <2>2. half \in Nat /\ bit \in {0, 1} /\ r[3] = half + half + bit
    BY <1>1, HalfOf
  <2>3. d \in Nat /\ WAD \in Nat
    BY <1>1, <1>3, InterestConstants
  <2>4. n[1] >= r[1] + bit * d /\ n[1] >= WAD
    <3>1. MulWad(r[1], r[2]) >= r[1] + d /\ MulWad(r[1], r[2]) \in Nat
      BY <1>1, <1>3, MulWadAbove, MulWadType
    <3>2. n[1] = IF bit = 1 THEN MulWad(r[1], r[2]) ELSE r[1]
      BY <1>3, RoundMultiplies
    <3>3. bit = 0 => bit * d = 0
      BY <2>3
    <3>4. bit = 1 => bit * d = d
      BY <2>3
    <3> HIDE DEF d, bit, n
    <3>5. QED
      BY <1>1, <1>3, <2>2, <2>3, <3>1, <3>2, <3>3, <3>4
  <2>5. half * (n[2] - WAD) >= half * (d + d) /\ n[2] >= WAD
    <3>1. MulWad(r[2], r[2]) >= r[2] + d /\ MulWad(r[2], r[2]) \in Nat
      BY <1>1, <1>3, MulWadAbove, MulWadType
    <3>2. n[2] = IF half > 0 THEN MulWad(r[2], r[2]) ELSE r[2]
      BY <1>3, RoundMultiplies
    <3>3. CASE half = 0
      <4>1. n[2] - WAD \in Int /\ d + d \in Int /\ n[2] >= WAD
        BY <1>3, <2>1, <2>3, <3>2, <3>3
      <4>2. \A k \in Int : 0 * k = 0
        OBVIOUS
      <4> HIDE DEF half, n, d
      <4>3. QED
        BY <3>3, <4>1, <4>2
    <3>4. CASE half # 0
      <4> HIDE DEF half, n
      <4>1. n[2] = MulWad(r[2], r[2])
        BY <2>2, <3>2, <3>4
      <4>2. n[2] >= WAD /\ n[2] - WAD >= d + d
        BY <1>1, <1>3, <2>3, <3>1, <4>1
      <4>3. \A k, j, i \in Nat : k >= j => i * k >= i * j
        BY Z3
      <4>4. n[2] - WAD \in Nat /\ d + d \in Nat
        BY <2>1, <2>3, <4>2
      <4>5. QED
        BY <2>2, <4>2, <4>3, <4>4
    <3>5. QED
      BY <3>3, <3>4
  <2>6. PowLoop[n][1] >= n[1] + half * (n[2] - WAD)
    <3>1. n[3] = half
      BY <1>3, RoundMultiplies
    <3>2. PowLoop[n][1] >= n[1] + n[3] * (n[2] - WAD)
      BY <1>3, <2>4, <2>5
    <3>3. QED
      BY <3>1, <3>2
  <2>7. r[3] * d = half * (d + d) + bit * d
    <3> HIDE DEF half, bit, d
    <3>1. QED
      BY <2>2, <2>3, Z3
  <2>8. half * (n[2] - WAD) \in Nat /\ half * (d + d) \in Nat /\ bit * d \in Nat
    <3>1. n[2] - WAD \in Nat /\ bit \in Nat
      BY <2>1, <2>2, <2>3, <2>5
    <3> HIDE DEF half, bit, d, n
    <3>2. QED
      BY <2>2, <2>3, <3>1
  <2> HIDE DEF half, bit, n
  <2>9. PowLoop[n][1] >= r[1] + r[3] * d
    <3> HIDE DEF d
    <3>1. QED
      BY <1>1, <2>1, <2>4, <2>5, <2>6, <2>7, <2>8
  <2>10. QED
    BY <2>1, <2>9
<1>4. \A r \in Loops : r[3] # 0 /\ NextRound(r) \in S => r \in S
  BY <1>3
<1>5. \A r \in Loops : r \in S
  <2> HIDE DEF S
  <2>1. QED
    BY <1>2, <1>4, LoopInduction
<1>6. QED
  BY <1>5

\* The days and the seconds of a period.
LEMMA DaysAndSeconds ==
    ASSUME NEW elapsed \in Nat
    PROVE  /\ elapsed \div SECONDS_PER_DAY \in Nat /\ elapsed % SECONDS_PER_DAY \in Nat
           /\ elapsed = SECONDS_PER_DAY * (elapsed \div SECONDS_PER_DAY)
                          + (elapsed % SECONDS_PER_DAY)
<1>1. \A e \in Nat, d \in Nat \ {0} :
        e \div d \in Nat /\ e % d \in Nat /\ e = d * (e \div d) + (e % d)
  BY Z3
<1>2. QED
  BY <1>1, InterestConstants

\* The interest of a day and of the seconds left over, before compounding.
LEMMA RatesRoundDown ==
    ASSUME NEW annual \in Nat, NEW seconds \in Nat
    PROVE  /\ DailyRateWad(annual) \in Nat /\ RemainingDeltaWad(annual, seconds) \in Nat
           /\ DailyRateWad(annual) * (DAYS_PER_YEAR * BPS) <= annual * WAD
           /\ annual * WAD < DailyRateWad(annual) * (DAYS_PER_YEAR * BPS)
                               + DAYS_PER_YEAR * BPS
           /\ RemainingDeltaWad(annual, seconds) * (SECONDS_PER_YEAR * BPS)
                <= annual * seconds * WAD
           /\ annual * seconds * WAD
                < RemainingDeltaWad(annual, seconds) * (SECONDS_PER_YEAR * BPS)
                    + SECONDS_PER_YEAR * BPS
<1>1. DAYS_PER_YEAR * BPS \in Nat \ {0} /\ SECONDS_PER_YEAR * BPS \in Nat \ {0}
  <2>1. \A a, b \in Nat \ {0} : a * b \in Nat \ {0}
    BY Z3
  <2>2. QED
    BY <2>1, InterestConstants
<1>2. annual * WAD \in Nat /\ annual * seconds * WAD \in Nat
  <2>1. \A a, b, c \in Nat : a * b \in Nat /\ a * b * c \in Nat
    BY Z3
  <2>2. QED
    BY <2>1, InterestConstants
<1> DEFINE d == DAYS_PER_YEAR * BPS
           y == SECONDS_PER_YEAR * BPS
           p == annual * WAD
           q == annual * seconds * WAD
<1>3. DailyRateWad(annual) = p \div d /\ RemainingDeltaWad(annual, seconds) = q \div y
  BY DEF DailyRateWad, RemainingDeltaWad
<1>4. /\ p \div d \in Nat /\ (p \div d) * d <= p /\ p < (p \div d) * d + d
      /\ q \div y \in Nat /\ (q \div y) * y <= q /\ q < (q \div y) * y + y
  <2> HIDE DEF d, y, p, q
  <2>1. p \in Nat /\ q \in Nat /\ d \in Nat \ {0} /\ y \in Nat \ {0}
    BY <1>1, <1>2 DEF d, y, p, q
  <2>2. QED
    BY <2>1, DivBounds
<1>5. QED
  BY <1>3, <1>4

\* The growth of some days.
LEMMA DaysGrowthBounds ==
    ASSUME NEW annual \in Nat, NEW elapsed \in Nat
    PROVE  /\ DaysGrowthWad(annual, elapsed) \in Nat
           /\ DaysGrowthWad(annual, elapsed)
                >= WAD + (elapsed \div SECONDS_PER_DAY) * DailyRateWad(annual)
<1> DEFINE n == elapsed \div SECONDS_PER_DAY
           d == DailyRateWad(annual)
           r == <<WAD, WAD + d, n, 0>>
<1>1. n \in Nat /\ d \in Nat /\ WAD \in Nat
  <2>1. 0 \in Nat
    OBVIOUS
  <2>2. QED
    BY <2>1, DaysAndSeconds, RatesRoundDown, InterestConstants
<1>2. DaysGrowthWad(annual, elapsed) = PowLoop[r][1]
  BY DEF DaysGrowthWad, PowWad
<1> HIDE DEF n, d
<1>3. r \in Loops /\ r[1] = WAD /\ r[2] = WAD + d /\ r[3] = n
  BY <1>1 DEF Loops
<1>4. PowLoop[r] \in Nat \X Nat
  BY <1>3, PowLoopRuns
<1>5. PowLoop[r][1] >= WAD + n * ((WAD + d) - WAD)
  <2>1. r[1] >= WAD /\ r[2] >= WAD
    BY <1>1, <1>3
  <2>2. PowLoop[r][1] >= r[1] + r[3] * (r[2] - WAD)
    BY <1>3, <2>1, PowAtLeastLinear
  <2>3. QED
    BY <1>3, <2>2
<1>6. (WAD + d) - WAD = d
  BY <1>1
<1>7. QED
  BY <1>2, <1>4, <1>5, <1>6 DEF n, d

\* pow_wad to the power of no days is one.
LEMMA NoDaysNoGrowth ==
    ASSUME NEW annual \in Nat
    PROVE  TotalGrowthWad(annual, 0) = WAD
<1>1. 0 \div SECONDS_PER_DAY = 0 /\ 0 % SECONDS_PER_DAY = 0
  <2>1. \A d \in Nat \ {0} : 0 \div d = 0 /\ 0 % d = 0
    BY Z3
  <2>2. QED
    BY <2>1, InterestConstants
<1> DEFINE d == DailyRateWad(annual)
           r == <<WAD, WAD + d, 0, 0>>
<1>2. d \in Nat /\ WAD \in Nat
  BY RatesRoundDown, InterestConstants
<1>3. DaysGrowthWad(annual, 0) = PowLoop[r][1]
  BY <1>1 DEF DaysGrowthWad, PowWad
<1> HIDE DEF d
<1>4. r \in Loops /\ r[3] = 0 /\ r[1] = WAD
  BY <1>2 DEF Loops
<1>5. PowLoop[r][1] = WAD
  BY <1>4, PowLoopRuns
<1>6. RestGrowthWad(annual, 0) = WAD
  <2>1. annual * 0 * WAD = 0
    BY <1>2
  <2>2. \A y \in Nat \ {0} : 0 \div y = 0
    BY Z3
  <2>3. RemainingDeltaWad(annual, 0) = 0
    BY <2>1, <2>2, InterestConstants DEF RemainingDeltaWad
  <2>4. QED
    BY <1>1, <1>2, <2>3 DEF RestGrowthWad
<1>7. QED
  BY <1>2, <1>3, <1>5, <1>6, MulWadByOne DEF TotalGrowthWad

\* A growth is at least simple interest at the annual rate, but for one unit of
\* the scale for each day and one for the seconds left over.
LEMMA GrowthAtLeastSimple ==
    ASSUME NEW annual \in Nat, NEW elapsed \in Nat
    PROVE  /\ TotalGrowthWad(annual, elapsed) \in Nat
           /\ TotalGrowthWad(annual, elapsed) >= WAD
           /\ annual * elapsed * WAD <=
                (TotalGrowthWad(annual, elapsed) - WAD + elapsed \div SECONDS_PER_DAY + 1)
                  * (SECONDS_PER_YEAR * BPS)
<1> DEFINE n == elapsed \div SECONDS_PER_DAY
           s == elapsed % SECONDS_PER_DAY
           d == DailyRateWad(annual)
           q == RemainingDeltaWad(annual, s)
           y == SECONDS_PER_YEAR * BPS
           c == DAYS_PER_YEAR * BPS
           G == TotalGrowthWad(annual, elapsed)
<1>1. /\ n \in Nat /\ s \in Nat /\ elapsed = SECONDS_PER_DAY * n + s
      /\ SECONDS_PER_DAY \in Nat /\ WAD \in Nat /\ y \in Nat /\ c \in Nat
      /\ y = SECONDS_PER_DAY * c
  <2>1. c \in Nat
    BY InterestConstants
  <2>2. y = SECONDS_PER_DAY * c
    BY InterestConstants, Z3 DEF SECONDS_PER_YEAR
  <2>3. QED
    BY <2>1, <2>2, DaysAndSeconds, InterestConstants
<1>2. /\ d \in Nat /\ q \in Nat
      /\ annual * WAD <= d * c + c
      /\ annual * s * WAD <= q * y + y
  <2>1. /\ d \in Nat /\ q \in Nat
        /\ annual * WAD < d * c + c /\ annual * s * WAD < q * y + y
    <3>1. s \in Nat
      BY <1>1
    <3>2. QED
      BY <3>1, RatesRoundDown
  <2>2. \A a, b, e \in Nat : a * b \in Nat /\ a * b * e \in Nat
    BY Z3
  <2>3. annual * WAD \in Nat /\ d * c \in Nat /\ annual * s * WAD \in Nat /\ q * y \in Nat
    BY <1>1, <2>1, <2>2
  <2> HIDE DEF n, s, d, q, y, c
  <2>4. QED
    BY <1>1, <2>1, <2>3
<1>3. G \in Nat /\ G >= WAD + n * d + q
  <2> DEFINE D == DaysGrowthWad(annual, elapsed)
  <2>1. D \in Nat /\ D >= WAD + n * d
    BY DaysGrowthBounds
  <2>2. G = MulWad(D, WAD + q)
    BY DEF TotalGrowthWad, RestGrowthWad
  <2> HIDE DEF D, G, n, d, q
  <2>3. n * d \in Nat /\ WAD + q \in Nat /\ D >= WAD /\ WAD + q >= WAD
    <3>1. n * d \in Nat
      BY <1>1, <1>2
    <3> DEFINE k == n * d
    <3> HIDE DEF k
    <3>2. k \in Nat /\ D >= WAD + k
      BY <2>1, <3>1 DEF k
    <3>3. D >= WAD
      BY <1>1, <2>1, <3>2
    <3>4. QED
      BY <1>1, <1>2, <3>1, <3>3
  <2>4. MulWad(D, WAD + q) \in Nat
    BY <2>1, <2>3, MulWadType
  <2>5. MulWad(D, WAD + q) >= D + ((WAD + q) - WAD)
    BY <2>1, <2>3, MulWadAbove
  <2>6. QED
    BY <1>1, <1>2, <2>1, <2>2, <2>3, <2>4, <2>5
<1>4. annual * elapsed * WAD <= (n * d + q + n + 1) * y
  <2> HIDE DEF n, s, d, q, y, c
  <2>1. annual * elapsed * WAD
          = (SECONDS_PER_DAY * n) * (annual * WAD) + annual * s * WAD
    BY <1>1, Z3
  <2>2. (SECONDS_PER_DAY * n) * (annual * WAD) <= (SECONDS_PER_DAY * n) * (d * c + c)
    <3>1. \A k, a, b \in Nat : a <= b => k * a <= k * b
      BY Z3
    <3>2. SECONDS_PER_DAY * n \in Nat /\ annual * WAD \in Nat /\ d * c + c \in Nat
      BY <1>1, <1>2
    <3>3. QED
      BY <1>2, <3>1, <3>2
  <2>3. (SECONDS_PER_DAY * n) * (d * c + c) = (n * d + n) * y
    BY <1>1, <1>2, Z3
  <2>4. (n * d + q + n + 1) * y = (n * d + n) * y + (q * y + y)
    BY <1>1, <1>2, Z3
  <2>5. /\ (SECONDS_PER_DAY * n) * (annual * WAD) \in Nat
        /\ annual * s * WAD \in Nat /\ (n * d + n) * y \in Nat /\ q * y + y \in Nat
    <3>1. \A a, b \in Nat : a * b \in Nat /\ a + b \in Nat
      BY Z3
    <3>2. QED
      BY <1>1, <1>2, <3>1
  <2>6. QED
    BY <1>2, <2>1, <2>2, <2>3, <2>4, <2>5
<1>5. (n * d + q + n + 1) * y <= (G - WAD + n + 1) * y
  <2> HIDE DEF n, s, d, q, y, c, G
  <2>1. n * d \in Nat
    BY <1>1, <1>2
  <2>2. G - WAD + n + 1 \in Nat /\ n * d + q + n + 1 <= G - WAD + n + 1
    BY <1>1, <1>2, <1>3, <2>1
  <2>3. \A k, a, b \in Nat : a <= b => a * k <= b * k
    BY Z3
  <2>4. QED
    BY <1>1, <1>2, <2>1, <2>2, <2>3
<1>6. QED
  <2> HIDE DEF n, s, d, q, y, c, G
  <2>1. G >= WAD
    <3>1. n * d \in Nat
      BY <1>1, <1>2
    <3>2. QED
      BY <1>1, <1>2, <1>3, <3>1
  <2>2. annual * elapsed * WAD \in Nat /\ (n * d + q + n + 1) * y \in Nat
        /\ (G - WAD + n + 1) * y \in Nat
    <3>1. \A a, b, e \in Nat : a * b \in Nat /\ a * b * e \in Nat
      BY Z3
    <3>2. n * d + q + n + 1 \in Nat /\ G - WAD + n + 1 \in Nat
      <4>1. n * d \in Nat
        BY <1>1, <1>2
      <4>2. QED
        BY <1>1, <1>2, <1>3, <2>1, <4>1
    <3>3. QED
      BY <1>1, <3>1, <3>2
  <2>3. annual * elapsed * WAD <= (G - WAD + n + 1) * y
    BY <1>4, <1>5, <2>2
  <2>4. QED
    BY <1>3, <2>1, <2>3 DEF G, n, y

\* The growth the runs give to a market is one the market's proofs assume
\* (GrowthAssumption of Market): it is one in no time, and never below one,
\* whatever the rate, the calendar and the term.
THEOREM InterestIsGrowth ==
    ASSUME NEW annual \in Nat, NEW maturity \in Nat
    PROVE  LET growth == [elapsed \in 0 .. maturity |-> TotalGrowthWad(annual, elapsed)]
           IN  /\ growth \in [0 .. maturity -> Nat]
               /\ growth[0] = WAD
               /\ \A elapsed \in 0 .. maturity : growth[elapsed] >= WAD
<1>1. \A elapsed \in 0 .. maturity :
        TotalGrowthWad(annual, elapsed) \in Nat /\ TotalGrowthWad(annual, elapsed) >= WAD
  BY GrowthAtLeastSimple
<1>2. 0 \in 0 .. maturity /\ TotalGrowthWad(annual, 0) = WAD
  BY NoDaysNoGrowth
<1>3. QED
  BY <1>1, <1>2

-----------------------------------------------------------------------------
(* The most a growth can be.                                               *)

\* A second on the yardstick is a second's interest, and not less.
LEMMA SecondsGrow ==
    ASSUME NEW t \in Nat
    PROVE  /\ EverySecond[t] \in Nat /\ EverySecond[t + 1] \in Nat
           /\ EverySecond[t] * (SECONDS_PER_YEAR * BPS + AnnualInterestBps)
                <= EverySecond[t + 1] * (SECONDS_PER_YEAR * BPS)
           /\ EverySecond[t] <= EverySecond[t + 1]
<1> DEFINE y == SECONDS_PER_YEAR * BPS
           x == EverySecond[t]
           p == x * (y + AnnualInterestBps)
           q == (p + y - 1) \div y
<1>1. x \in Nat /\ EverySecond[t + 1] = q /\ EverySecond[t + 1] \in Nat
  BY EverySecondSteps DEF YearsUp
<1>2. y \in Nat \ {0} /\ AnnualInterestBps \in Nat
  BY InterestConstants
<1>3. p \in Nat /\ x * y \in Nat /\ x * y <= p
  <2> HIDE DEF y, x
  <2>1. x * (y + AnnualInterestBps) = x * y + x * AnnualInterestBps
        /\ x * y \in Nat /\ x * AnnualInterestBps \in Nat
    BY <1>1, <1>2, Z3
  <2>2. QED
    BY <2>1
<1> HIDE DEF y, p, x
<1>4. p <= q * y /\ q \in Nat
  <2>1. p + y - 1 \in Nat
    BY <1>2, <1>3
  <2>2. q \in Nat /\ p + y - 1 < q * y + y
    BY <1>2, <2>1, DivBounds
  <2>3. q * y \in Nat
    BY <1>2, <2>2
  <2> HIDE DEF q
  <2>4. QED
    BY <1>2, <1>3, <2>2, <2>3
<1> HIDE DEF q
<1>5. x <= q
  <2>1. x * y <= q * y
    <3>1. q * y \in Nat
      BY <1>2, <1>4
    <3>2. QED
      BY <1>3, <1>4, <3>1
  <2>2. QED
    BY <1>1, <1>2, <1>4, <2>1, CancelFactor
<1>6. QED
  BY <1>1, <1>4, <1>5 DEF p, x, y

\* The yardstick never falls.
LEMMA EverySecondRises ==
    ASSUME NEW s \in Nat, NEW t \in Nat, s <= t
    PROVE  EverySecond[s] <= EverySecond[t]
<1> DEFINE S == {u \in Nat : EverySecond[s] <= EverySecond[s + u]}
<1>1. 0 \in S
  BY EverySecondSteps
<1>2. ASSUME NEW u \in Nat, u \in S PROVE u + 1 \in S
  <2>1. s + u \in Nat /\ s + (u + 1) = (s + u) + 1
    OBVIOUS
  <2>2. /\ EverySecond[s + u] \in Nat /\ EverySecond[(s + u) + 1] \in Nat
        /\ EverySecond[s + u] <= EverySecond[(s + u) + 1]
    BY <2>1, SecondsGrow
  <2>3. EverySecond[s] \in Nat /\ EverySecond[s] <= EverySecond[s + u]
    BY <1>2, EverySecondSteps
  <2>4. EverySecond[s] <= EverySecond[s + (u + 1)]
    BY <2>1, <2>2, <2>3
  <2>5. QED
    BY <2>4
<1>3. \A u \in Nat : u \in S
  <2> HIDE DEF S
  <2>1. QED
    BY <1>1, <1>2, SetInduction
<1>4. t - s \in Nat /\ s + (t - s) = t
  OBVIOUS
<1>5. QED
  BY <1>3, <1>4

\* Compounding by the second is more than simple interest.
LEMMA EverySecondAboveSimple ==
    ASSUME NEW s \in Nat, NEW t \in Nat
    PROVE  EverySecond[s] * (SECONDS_PER_YEAR * BPS + AnnualInterestBps * t)
             <= EverySecond[s + t] * (SECONDS_PER_YEAR * BPS)
<1> DEFINE y == SECONDS_PER_YEAR * BPS
           A == AnnualInterestBps
           E(u) == EverySecond[s + u]
           S == {u \in Nat : E(0) * (y + A * u) <= E(u) * y}
<1>1. y \in Nat /\ A \in Nat /\ \A u \in Nat : E(u) \in Nat
  <2>1. \A u \in Nat : s + u \in Nat
    OBVIOUS
  <2>2. QED
    BY <2>1, EverySecondSteps, InterestConstants
<1>2. ASSUME NEW u \in Nat
      PROVE  E(u) * (y + A) <= E(u + 1) * y /\ E(0) <= E(u)
  <2>1. s + u \in Nat /\ s + (u + 1) = (s + u) + 1 /\ s + 0 \in Nat /\ s + 0 <= s + u
    OBVIOUS
  <2>2. E(u) * (y + A) <= E(u + 1) * y
    BY <2>1, SecondsGrow
  <2>3. E(0) <= E(u)
    BY <2>1, EverySecondRises
  <2>4. QED
    BY <2>2, <2>3
<1> HIDE DEF y, A, E
<1>3. 0 \in S
  <2>1. y + A * 0 = y /\ E(0) * y \in Nat
    BY <1>1
  <2>2. QED
    BY <1>1, <2>1
<1>4. ASSUME NEW u \in Nat, u \in S PROVE u + 1 \in S
  <2>1. /\ E(0) * (y + A * u) <= E(u) * y
        /\ E(u) * (y + A) <= E(u + 1) * y /\ E(0) <= E(u)
        /\ E(0) \in Nat /\ E(u) \in Nat /\ E(u + 1) \in Nat
    BY <1>1, <1>2, <1>4
  <2>2. E(0) * (y + A * (u + 1)) = E(0) * (y + A * u) + E(0) * A
    BY <1>1, <2>1, Z3
  <2>3. E(u) * (y + A) = E(u) * y + E(u) * A
    BY <1>1, <2>1, Z3
  <2>4. E(0) * A <= E(u) * A
    <3>1. \A k, a, b \in Nat : a <= b => a * k <= b * k
      BY Z3
    <3>2. QED
      BY <1>1, <2>1, <3>1
  <2>5. /\ E(0) * (y + A * u) \in Nat /\ E(0) * A \in Nat /\ E(u) * y \in Nat
        /\ E(u) * A \in Nat /\ E(u + 1) * y \in Nat
    <3>1. \A a, b \in Nat : a * b \in Nat /\ a + b \in Nat
      BY Z3
    <3>2. QED
      BY <1>1, <2>1, <3>1
  <2>6. E(0) * (y + A * (u + 1)) <= E(u + 1) * y
    BY <2>1, <2>2, <2>3, <2>4, <2>5
  <2>7. QED
    BY <2>6
<1>5. \A u \in Nat : u \in S
  <2> HIDE DEF S
  <2>1. QED
    BY <1>3, <1>4, SetInduction
<1>6. E(0) * (y + A * t) <= E(t) * y
  BY <1>5
<1>7. s + 0 = s
  OBVIOUS
<1>8. QED
  BY <1>6, <1>7 DEF y, A, E

\* The growths that t seconds of the yardstick reach, wherever they start.
Slow(t) ==
    {g \in Nat : \A s \in Nat : EverySecond[s] * g <= WAD * EverySecond[s + t]}

\* What comes from simple interest is slow.
LEMMA SimpleIsSlow ==
    ASSUME NEW t \in Nat, NEW q \in Nat,
           q * (SECONDS_PER_YEAR * BPS) <= AnnualInterestBps * t * WAD
    PROVE  WAD + q \in Slow(t)
<1> DEFINE y == SECONDS_PER_YEAR * BPS
           A == AnnualInterestBps
<1>1. y \in Nat \ {0} /\ A \in Nat /\ WAD \in Nat
  BY InterestConstants
<1>2. ASSUME NEW s \in Nat
      PROVE  EverySecond[s] * (WAD + q) <= WAD * EverySecond[s + t]
  <2> DEFINE x == EverySecond[s]
             z == EverySecond[s + t]
  <2>1. x \in Nat /\ z \in Nat
    <3>1. s + t \in Nat
      OBVIOUS
    <3>2. QED
      BY <3>1, EverySecondSteps
  <2>2. x * (y + A * t) <= z * y
    BY EverySecondAboveSimple
  <2>3. q * y <= A * t * WAD
    OBVIOUS
  <2> HIDE DEF x, y, z, A
  <2>4. (x * (WAD + q)) * y = x * WAD * y + x * (q * y)
    BY <1>1, <2>1, Z3
  <2>5. x * (q * y) <= x * (A * t * WAD)
    <3>1. \A k, a, b \in Nat : a <= b => k * a <= k * b
      BY Z3
    <3>2. q * y \in Nat /\ A * t * WAD \in Nat
      <4>1. \A a, b, c \in Nat : a * b \in Nat /\ a * b * c \in Nat
        BY Z3
      <4>2. QED
        BY <1>1, <4>1
    <3>3. QED
      BY <2>1, <2>3, <3>1, <3>2
  <2>6. x * WAD * y + x * (A * t * WAD) = WAD * (x * (y + A * t))
    BY <1>1, <2>1, Z3
  <2>7. WAD * (x * (y + A * t)) <= WAD * (z * y)
    <3>1. \A k, a, b \in Nat : a <= b => k * a <= k * b
      BY Z3
    <3>2. x * (y + A * t) \in Nat /\ z * y \in Nat
      <4>1. \A a, b \in Nat : a * b \in Nat /\ a + b \in Nat
        BY Z3
      <4>2. QED
        BY <1>1, <2>1, <4>1
    <3>3. QED
      BY <1>1, <2>2, <3>1, <3>2
  <2>8. WAD * (z * y) = (WAD * z) * y
    BY <1>1, <2>1, Z3
  <2>9. /\ x * WAD * y \in Nat /\ x * (q * y) \in Nat /\ x * (A * t * WAD) \in Nat
        /\ WAD * (x * (y + A * t)) \in Nat /\ WAD * (z * y) \in Nat
        /\ x * (WAD + q) \in Nat /\ WAD * z \in Nat
    <3>1. \A a, b \in Nat : a * b \in Nat /\ a + b \in Nat
      BY Z3
    <3>2. QED
      BY <1>1, <2>1, <3>1
  <2>10. (x * (WAD + q)) * y <= (WAD * z) * y
    BY <2>4, <2>5, <2>6, <2>7, <2>8, <2>9
  <2>11. x * (WAD + q) <= WAD * z
    BY <1>1, <2>9, <2>10, CancelFactor
  <2>12. QED
    BY <2>11 DEF x, z
<1>3. WAD + q \in Nat
  BY <1>1
<1>4. QED
  BY <1>2, <1>3 DEF Slow

\* The product of two slow growths, before it is rounded down, on a balance of the
\* yardstick.
LEMMA SlowProduct ==
    ASSUME NEW t \in Nat, NEW u \in Nat, NEW g \in Slow(t), NEW h \in Slow(u),
           NEW s \in Nat
    PROVE  /\ g \in Nat /\ h \in Nat /\ g * h \in Nat
           /\ EverySecond[s] * (g * h) <= WAD * (WAD * EverySecond[s + (t + u)])
<1>1. g \in Nat /\ h \in Nat /\ WAD \in Nat
  BY InterestConstants DEF Slow
<1>2. EverySecond[s] * g <= WAD * EverySecond[s + t]
  BY DEF Slow
<1>3. EverySecond[s + t] * h <= WAD * EverySecond[s + (t + u)]
  <2>1. s + t \in Nat /\ (s + t) + u = s + (t + u)
    OBVIOUS
  <2>2. QED
    BY <2>1 DEF Slow
<1>4. EverySecond[s] \in Nat /\ EverySecond[s + t] \in Nat /\ EverySecond[s + (t + u)] \in Nat
  <2>1. s + t \in Nat /\ s + (t + u) \in Nat
    OBVIOUS
  <2>2. QED
    BY <2>1, EverySecondSteps
<1> DEFINE x == EverySecond[s]
           z == EverySecond[s + t]
           w == EverySecond[s + (t + u)]
<1> HIDE DEF x, z, w
<1>5. x * g <= WAD * z /\ z * h <= WAD * w /\ x \in Nat /\ z \in Nat /\ w \in Nat
  BY <1>2, <1>3, <1>4 DEF x, z, w
<1>6. (x * g) * h <= (WAD * z) * h
  <2>1. \A k, a, b \in Nat : a <= b => a * k <= b * k
    BY Z3
  <2>2. x * g \in Nat /\ WAD * z \in Nat
    BY <1>1, <1>5
  <2>3. QED
    BY <1>1, <1>5, <2>1, <2>2
<1>7. WAD * (z * h) <= WAD * (WAD * w)
  <2>1. \A k, a, b \in Nat : a <= b => k * a <= k * b
    BY Z3
  <2>2. z * h \in Nat /\ WAD * w \in Nat
    BY <1>1, <1>5
  <2>3. QED
    BY <1>1, <1>5, <2>1, <2>2
<1>8. (x * g) * h = x * (g * h) /\ (WAD * z) * h = WAD * (z * h)
  BY <1>1, <1>5, Z3
<1>9. /\ x * (g * h) \in Nat /\ WAD * (z * h) \in Nat /\ WAD * (WAD * w) \in Nat
      /\ g * h \in Nat
  <2>1. \A a, b \in Nat : a * b \in Nat
    BY Z3
  <2>2. QED
    BY <1>1, <1>5, <2>1
<1>10. x * (g * h) <= WAD * (WAD * w)
  BY <1>6, <1>7, <1>8, <1>9
<1>11. QED
  BY <1>1, <1>9, <1>10 DEF x, w

\* Two slow growths compounded are slow.
LEMMA SlowCompounds ==
    ASSUME NEW t \in Nat, NEW u \in Nat, NEW g \in Slow(t), NEW h \in Slow(u)
    PROVE  MulWad(g, h) \in Slow(t + u)
<1>1. g \in Nat /\ h \in Nat /\ g * h \in Nat
  BY SlowProduct, 0 \in Nat
<1>2. /\ MulWad(g, h) \in Nat /\ MulWad(g, h) * WAD <= g * h
  BY <1>1, InterestConstants, DivBounds DEF MulWad
<1>3. ASSUME NEW s \in Nat
      PROVE  EverySecond[s] * MulWad(g, h) <= WAD * EverySecond[s + (t + u)]
  <2> DEFINE x == EverySecond[s]
             w == EverySecond[s + (t + u)]
             m == MulWad(g, h)
  <2>1. x \in Nat /\ w \in Nat
    <3>1. s + (t + u) \in Nat
      OBVIOUS
    <3>2. QED
      BY <3>1, EverySecondSteps
  <2>2. x * (g * h) <= WAD * (WAD * w)
    BY SlowProduct
  <2>3. m \in Nat /\ m * WAD <= g * h /\ WAD \in Nat \ {0}
    BY <1>2, InterestConstants
  <2> HIDE DEF x, w, m
  <2>4. x * (m * WAD) <= x * (g * h)
    <3>1. \A k, a, b \in Nat : a <= b => k * a <= k * b
      BY Z3
    <3>2. m * WAD \in Nat
      BY <2>3
    <3>3. QED
      BY <1>1, <2>1, <2>3, <3>1, <3>2
  <2>5. x * (m * WAD) = (x * m) * WAD /\ WAD * (WAD * w) = (WAD * w) * WAD
    BY <2>1, <2>3, Z3
  <2>6. /\ x * m \in Nat /\ WAD * w \in Nat /\ (x * m) * WAD \in Nat
        /\ x * (g * h) \in Nat /\ (WAD * w) * WAD \in Nat
    <3>1. \A a, b \in Nat : a * b \in Nat
      BY Z3
    <3>2. QED
      BY <1>1, <2>1, <2>3, <3>1
  <2>7. (x * m) * WAD <= (WAD * w) * WAD
    BY <2>2, <2>4, <2>5, <2>6
  <2>8. x * m <= WAD * w
    BY <2>3, <2>6, <2>7, CancelFactor
  <2>9. QED
    BY <2>8 DEF x, w, m
<1>4. QED
  BY <1>2, <1>3 DEF Slow

\* A slow growth, and the product of two, in figures of the yardstick.
LEMMA SlowIsBounded ==
    ASSUME NEW t \in Nat, NEW u \in Nat, NEW g \in Slow(t), NEW h \in Slow(u)
    PROVE  g <= EverySecond[t] /\ g * h <= WAD * EverySecond[t + u]
<1>1. /\ g \in Nat /\ h \in Nat /\ g * h \in Nat
      /\ EverySecond[0] * (g * h) <= WAD * (WAD * EverySecond[0 + (t + u)])
  BY SlowProduct, 0 \in Nat
<1>2. EverySecond[0] = WAD /\ WAD \in Nat \ {0}
  BY EverySecondSteps, InterestConstants
<1>3. EverySecond[0] * g <= WAD * EverySecond[0 + t]
  BY 0 \in Nat DEF Slow
<1>4. 0 + t = t /\ 0 + (t + u) = t + u
  OBVIOUS
<1>5. EverySecond[t] \in Nat /\ EverySecond[t + u] \in Nat
  BY EverySecondSteps
<1> DEFINE x == EverySecond[t]
           w == EverySecond[t + u]
           p == g * h
<1>6. g * WAD <= x * WAD
  <2>1. WAD * g <= WAD * x /\ x \in Nat
    BY <1>2, <1>3, <1>4, <1>5
  <2> HIDE DEF x
  <2>2. QED
    BY <1>1, <1>2, <2>1
<1>7. p * WAD <= (WAD * w) * WAD
  <2>1. WAD * p <= WAD * (WAD * w) /\ w \in Nat /\ p \in Nat
    BY <1>1, <1>2, <1>4, <1>5
  <2> HIDE DEF w, p
  <2>2. WAD * p = p * WAD /\ WAD * (WAD * w) = (WAD * w) * WAD
    BY <1>2, <2>1, Z3
  <2>3. QED
    BY <2>1, <2>2
<1>8. x \in Nat /\ WAD * w \in Nat /\ p \in Nat
  BY <1>1, <1>2, <1>5
<1> HIDE DEF x, w, p
<1>9. g <= x /\ p <= WAD * w
  BY <1>1, <1>2, <1>6, <1>7, <1>8, CancelFactor
<1>10. QED
  BY <1>9 DEF x, w, p

\* The exponents a round leaves: t more seconds in the result, k in the base.
LEMMA RoundIsSlow ==
    ASSUME NEW r \in Loops, r[3] # 0, NEW t \in Nat, NEW k \in Nat,
           r[1] \in Slow(t), r[2] \in Slow(k)
    PROVE  \E u, j \in Nat :
             /\ NextRound(r)[1] \in Slow(u) /\ NextRound(r)[2] \in Slow(j)
             /\ u + j * NextRound(r)[3] = t + k * r[3]
             /\ ResultProduct(r) <= WAD * EverySecond[t + k * r[3]]
             /\ BaseProduct(r) <= WAD * EverySecond[t + k * r[3]]
<1> DEFINE half == r[3] \div 2
           bit == r[3] % 2
           u == IF bit = 1 THEN t + k ELSE t
           j == IF half > 0 THEN k + k ELSE k
           all == t + k * r[3]
<1>1. r[3] \in Nat
  BY DEF Loops
<1>2. half \in Nat /\ bit \in {0, 1} /\ r[3] = half + half + bit
  BY <1>1, HalfOf
<1>3. /\ NextRound(r)[1] = IF bit = 1 THEN MulWad(r[1], r[2]) ELSE r[1]
      /\ NextRound(r)[2] = IF half > 0 THEN MulWad(r[2], r[2]) ELSE r[2]
      /\ NextRound(r)[3] = half
  BY RoundMultiplies
<1>4. /\ MulWad(r[1], r[2]) \in Slow(t + k) /\ MulWad(r[2], r[2]) \in Slow(k + k)
      /\ r[1] * r[2] <= WAD * EverySecond[t + k]
      /\ r[2] * r[2] <= WAD * EverySecond[k + k]
  BY SlowCompounds, SlowIsBounded
<1>5. ResultProduct(r) = IF bit = 1 THEN r[1] * r[2] ELSE 0
  BY DEF ResultProduct
<1>6. BaseProduct(r) = IF half > 0 THEN r[2] * r[2] ELSE 0
  BY DEF BaseProduct, NextBase
<1>7. all \in Nat /\ u \in Nat /\ j \in Nat
  BY <1>1
<1>8. u + j * half = all
  <2> HIDE DEF half, bit
  <2>1. k * r[3] = (k + k) * half + k * bit
    BY <1>2, Z3
  <2>2. half = 0 => j * half = 0 /\ (k + k) * half = 0
    BY <1>2, <1>7
  <2>3. half # 0 => j = k + k
    BY <1>2
  <2>4. k * bit = IF bit = 1 THEN k ELSE 0
    BY <1>2
  <2>5. (k + k) * half \in Nat
    BY <1>2
  <2>6. j * half = (k + k) * half
    BY <2>2, <2>3
  <2>7. QED
    BY <1>2, <2>1, <2>4, <2>5, <2>6
<1>9. (bit = 1 => t + k <= all) /\ (half > 0 => k + k <= all)
  <2>1. \A a, b \in Nat : b > 0 => a <= a * b
    BY Z3
  <2>2. k <= k * r[3]
    BY <1>1, <2>1
  <2>3. ASSUME half > 0 PROVE k + k <= k * r[3]
    <3> HIDE DEF half, bit
    <3>1. k * r[3] = (k + k) * half + k * bit
      BY <1>2, Z3
    <3>2. k + k <= (k + k) * half /\ (k + k) * half \in Nat /\ k * bit \in Nat
      <4>1. k + k \in Nat /\ bit \in Nat
        BY <1>2
      <4>2. QED
        BY <1>2, <2>1, <2>3, <4>1
    <3>3. QED
      BY <3>1, <3>2
  <2>4. k * r[3] \in Nat
    BY <1>1
  <2> HIDE DEF half, bit
  <2>5. QED
    BY <2>2, <2>3, <2>4
<1>10. \A a \in Nat : a <= all =>
         WAD * EverySecond[a] <= WAD * EverySecond[all] /\ WAD * EverySecond[a] \in Nat
  <2>1. ASSUME NEW a \in Nat, a <= all
        PROVE  WAD * EverySecond[a] <= WAD * EverySecond[all] /\ WAD * EverySecond[a] \in Nat
    <3>1. EverySecond[a] <= EverySecond[all]
      BY <1>7, <2>1, EverySecondRises
    <3>2. EverySecond[a] \in Nat /\ EverySecond[all] \in Nat /\ WAD \in Nat
      BY <1>7, EverySecondSteps, InterestConstants
    <3>3. \A i, b, c \in Nat : b <= c => i * b <= i * c /\ i * b \in Nat
      BY Z3
    <3>4. QED
      BY <3>1, <3>2, <3>3
  <2>2. QED
    BY <2>1
<1> HIDE DEF half, bit, all
<1>11. /\ ResultProduct(r) <= WAD * EverySecond[all]
       /\ BaseProduct(r) <= WAD * EverySecond[all]
  <2>1. t + k \in Nat /\ k + k \in Nat /\ WAD * EverySecond[all] \in Nat
    BY <1>7, <1>10
  <2>2. r[1] * r[2] \in Nat /\ r[2] * r[2] \in Nat
    BY DEF Loops
  <2>3. bit = 1 => r[1] * r[2] <= WAD * EverySecond[all]
    BY <1>4, <1>9, <1>10, <2>1, <2>2
  <2>4. half > 0 => r[2] * r[2] <= WAD * EverySecond[all]
    BY <1>4, <1>9, <1>10, <2>1, <2>2
  <2>5. QED
    BY <1>5, <1>6, <2>1, <2>3, <2>4
<1>12. NextRound(r)[1] \in Slow(u) /\ NextRound(r)[2] \in Slow(j)
  BY <1>3, <1>4
<1> HIDE DEF u, j
<1>13. u + j * NextRound(r)[3] = all
  BY <1>3, <1>8
<1>14. QED
  BY <1>7, <1>11, <1>12, <1>13 DEF all

\* pow_wad by squaring earns no more than the seconds of its days compounded, and
\* none of its products is larger than that allows.
LEMMA PowIsSlow ==
    \A r \in Loops : \A t, k, most \in Nat :
        /\ r[1] \in Slow(t) /\ r[2] \in Slow(k)
        /\ r[4] <= most /\ WAD * EverySecond[t + k * r[3]] <= most
        => /\ PowLoop[r][1] \in Slow(t + k * r[3])
           /\ PowLoop[r][2] <= most
<1> DEFINE Fits(r, t, k, most) ==
             /\ r[1] \in Slow(t) /\ r[2] \in Slow(k)
             /\ r[4] <= most /\ WAD * EverySecond[t + k * r[3]] <= most
           Ends(r, t, k, most) ==
             /\ PowLoop[r][1] \in Slow(t + k * r[3])
             /\ PowLoop[r][2] <= most
           S == {r \in Loops : \A t, k, most \in Nat :
                   Fits(r, t, k, most) => Ends(r, t, k, most)}
<1>1. ASSUME NEW r \in Loops, r[3] = 0, NEW t \in Nat, NEW k \in Nat, NEW most \in Nat,
             Fits(r, t, k, most)
      PROVE  Ends(r, t, k, most)
  <2>1. PowLoop[r] = <<r[1], r[4]>>
    BY <1>1, PowLoopRuns
  <2>2. t + k * r[3] = t
    BY <1>1
  <2>3. QED
    BY <1>1, <2>1, <2>2
<1>2. ASSUME NEW r \in Loops, r[3] # 0, NextRound(r) \in S,
             NEW t \in Nat, NEW k \in Nat, NEW most \in Nat, Fits(r, t, k, most)
      PROVE  Ends(r, t, k, most)
  <2> DEFINE n == NextRound(r)
  <2>1. PowLoop[r] = PowLoop[n] /\ n \in Loops
    BY <1>2, RoundType, PowLoopRuns
  <2>2. PICK u, j \in Nat :
          /\ n[1] \in Slow(u) /\ n[2] \in Slow(j)
          /\ u + j * n[3] = t + k * r[3]
          /\ ResultProduct(r) <= WAD * EverySecond[t + k * r[3]]
          /\ BaseProduct(r) <= WAD * EverySecond[t + k * r[3]]
    BY <1>2, RoundIsSlow
  <2>3. n[4] <= most
    <3>1. ResultProduct(r) \in Nat /\ BaseProduct(r) \in Nat /\ r[4] \in Nat
      BY RoundType DEF Loops
    <3>2. WAD * EverySecond[t + k * r[3]] \in Nat
      <4>1. r[3] \in Nat /\ \A a, b \in Nat : a * b \in Nat /\ a + b \in Nat
        BY DEF Loops
      <4>2. t + k * r[3] \in Nat
        BY <4>1
      <4>3. QED
        BY <4>1, <4>2, EverySecondSteps, InterestConstants
    <3>3. n[4] = Larger(r[4], Larger(ResultProduct(r), BaseProduct(r)))
      BY DEF NextRound
    <3> HIDE DEF n
    <3>4. ResultProduct(r) <= most /\ BaseProduct(r) <= most
      BY <1>2, <2>2, <3>1, <3>2
    <3>5. QED
      BY <1>2, <3>1, <3>3, <3>4 DEF Larger
  <2>4. Fits(n, u, j, most)
    <3> HIDE DEF n
    <3>1. QED
      BY <1>2, <2>2, <2>3
  <2>5. Ends(n, u, j, most)
    <3> HIDE DEF Fits, Ends
    <3>1. QED
      BY <1>2, <2>4
  <2>6. QED
    <3> HIDE DEF n
    <3>1. QED
      BY <2>1, <2>2, <2>5
<1> HIDE DEF Fits, Ends
<1>3. \A r \in Loops : r[3] = 0 => r \in S
  BY <1>1
<1>4. \A r \in Loops : r[3] # 0 /\ NextRound(r) \in S => r \in S
  BY <1>2
<1>5. \A r \in Loops : r \in S
  <2> HIDE DEF S
  <2>1. QED
    BY <1>3, <1>4, LoopInduction
<1>6. QED
  BY <1>5 DEF Fits, Ends

\* The growth of the days of a period, and every product on the way.
LEMMA DaysAreSlow ==
    ASSUME NEW elapsed \in Nat
    PROVE  LET days == SECONDS_PER_DAY * (elapsed \div SECONDS_PER_DAY)
           IN  /\ DaysGrowthWad(AnnualInterestBps, elapsed) \in Slow(days)
               /\ PowLargestProduct(WAD + DailyRateWad(AnnualInterestBps),
                                    elapsed \div SECONDS_PER_DAY)
                    <= WAD * EverySecond[days]
<1> DEFINE n == elapsed \div SECONDS_PER_DAY
           days == SECONDS_PER_DAY * n
           d == DailyRateWad(AnnualInterestBps)
           r == <<WAD, WAD + d, n, 0>>
           c == DAYS_PER_YEAR * BPS
<1>1. /\ n \in Nat /\ SECONDS_PER_DAY \in Nat /\ WAD \in Nat /\ AnnualInterestBps \in Nat
      /\ c \in Nat /\ SECONDS_PER_YEAR * BPS = SECONDS_PER_DAY * c
  <2>1. SECONDS_PER_YEAR * BPS = SECONDS_PER_DAY * c
    BY InterestConstants, Z3 DEF SECONDS_PER_YEAR
  <2>2. QED
    BY <2>1, DaysAndSeconds, InterestConstants
<1>2. d \in Nat /\ d * c <= AnnualInterestBps * WAD
  BY <1>1, RatesRoundDown
<1>3. WAD + d \in Slow(SECONDS_PER_DAY)
  <2>1. d * (SECONDS_PER_DAY * c) <= AnnualInterestBps * SECONDS_PER_DAY * WAD
    <3> HIDE DEF d, c
    <3>1. SECONDS_PER_DAY * (d * c) <= SECONDS_PER_DAY * (AnnualInterestBps * WAD)
      <4>1. \A k, a, b \in Nat : a <= b => k * a <= k * b
        BY Z3
      <4>2. d * c \in Nat /\ AnnualInterestBps * WAD \in Nat
        BY <1>1, <1>2
      <4>3. QED
        BY <1>1, <1>2, <4>1, <4>2
    <3>2. /\ SECONDS_PER_DAY * (d * c) = d * (SECONDS_PER_DAY * c)
          /\ SECONDS_PER_DAY * (AnnualInterestBps * WAD)
               = AnnualInterestBps * SECONDS_PER_DAY * WAD
      BY <1>1, <1>2, Z3
    <3>3. QED
      BY <3>1, <3>2
  <2> HIDE DEF d, c
  <2>2. QED
    BY <1>1, <1>2, <2>1, SimpleIsSlow
<1>4. WAD \in Slow(0)
  <2>1. ASSUME NEW s \in Nat PROVE EverySecond[s] * WAD <= WAD * EverySecond[s + 0]
    <3>1. s + 0 = s /\ EverySecond[s] \in Nat
      BY EverySecondSteps
    <3>2. \A a, b \in Nat : a * b <= b * a
      BY Z3
    <3>3. QED
      BY <1>1, <3>1, <3>2
  <2>2. QED
    BY <1>1, <2>1 DEF Slow
<1>5. WAD * EverySecond[days] \in Nat /\ days \in Nat
  <2>1. \A a, b \in Nat : a * b \in Nat
    BY Z3
  <2>2. days \in Nat
    BY <1>1, <2>1
  <2>3. QED
    BY <1>1, <2>1, <2>2, EverySecondSteps
<1>6. DaysGrowthWad(AnnualInterestBps, elapsed) = PowLoop[r][1]
  BY DEF DaysGrowthWad, PowWad
<1>7. PowLargestProduct(WAD + d, n) = PowLoop[r][2]
  BY DEF PowLargestProduct
<1> HIDE DEF n, d
<1>8. r \in Loops /\ r[1] = WAD /\ r[2] = WAD + d /\ r[3] = n /\ r[4] = 0
  BY <1>1, <1>2 DEF Loops
<1>9. 0 + SECONDS_PER_DAY * r[3] = days
  BY <1>1, <1>5, <1>8
<1> HIDE DEF r, days
<1>10. PowLoop[r][1] \in Slow(days) /\ PowLoop[r][2] <= WAD * EverySecond[days]
  <2> DEFINE most == WAD * EverySecond[days]
  <2>1. /\ r[1] \in Slow(0) /\ r[2] \in Slow(SECONDS_PER_DAY) /\ most \in Nat
        /\ r[4] <= most /\ WAD * EverySecond[0 + SECONDS_PER_DAY * r[3]] <= most
    BY <1>3, <1>4, <1>5, <1>8, <1>9
  <2> HIDE DEF most
  <2>2. /\ PowLoop[r][1] \in Slow(0 + SECONDS_PER_DAY * r[3])
        /\ PowLoop[r][2] <= most
    BY <1>1, <1>8, <2>1, PowIsSlow, 0 \in Nat
  <2>3. QED
    BY <1>9, <2>2 DEF most
<1>11. QED
  BY <1>6, <1>7, <1>10 DEF n, d, r, days

\* The growth of a period, its linear rest included.
LEMMA GrowthIsSlow ==
    ASSUME NEW elapsed \in Nat
    PROVE  /\ TotalGrowthWad(AnnualInterestBps, elapsed) \in Slow(elapsed)
           /\ DaysGrowthWad(AnnualInterestBps, elapsed)
                * RestGrowthWad(AnnualInterestBps, elapsed) <= WAD * EverySecond[elapsed]
           /\ PowLargestProduct(WAD + DailyRateWad(AnnualInterestBps),
                                elapsed \div SECONDS_PER_DAY)
                <= WAD * EverySecond[elapsed]
<1> DEFINE days == SECONDS_PER_DAY * (elapsed \div SECONDS_PER_DAY)
           s == elapsed % SECONDS_PER_DAY
           D == DaysGrowthWad(AnnualInterestBps, elapsed)
           R == RestGrowthWad(AnnualInterestBps, elapsed)
           P == PowLargestProduct(WAD + DailyRateWad(AnnualInterestBps),
                                  elapsed \div SECONDS_PER_DAY)
<1>1. days \in Nat /\ s \in Nat /\ elapsed = days + s /\ days <= elapsed
  <2>1. elapsed \div SECONDS_PER_DAY \in Nat /\ s \in Nat /\ elapsed = days + s
    BY DaysAndSeconds
  <2>2. days \in Nat
    <3>1. \A a, b \in Nat : a * b \in Nat
      BY Z3
    <3>2. QED
      BY <2>1, <3>1, InterestConstants
  <2> HIDE DEF days, s
  <2>3. QED
    BY <2>1, <2>2
<1>2. D \in Slow(days) /\ P <= WAD * EverySecond[days]
  BY DaysAreSlow
<1>3. R \in Slow(s)
  <2>1. /\ RemainingDeltaWad(AnnualInterestBps, s) \in Nat
        /\ RemainingDeltaWad(AnnualInterestBps, s) * (SECONDS_PER_YEAR * BPS)
             <= AnnualInterestBps * s * WAD
    <3> HIDE DEF s
    <3>1. QED
      BY <1>1, InterestConstants, RatesRoundDown
  <2>2. R = WAD + RemainingDeltaWad(AnnualInterestBps, s)
    BY DEF RestGrowthWad
  <2> HIDE DEF s, R
  <2>3. QED
    BY <1>1, <2>1, <2>2, SimpleIsSlow
<1>4. WAD * EverySecond[days] <= WAD * EverySecond[elapsed]
  <2>1. EverySecond[days] <= EverySecond[elapsed]
    BY <1>1, EverySecondRises
  <2>2. \A i, b, c \in Nat : b <= c => i * b <= i * c
    BY Z3
  <2> HIDE DEF days
  <2>3. QED
    BY <1>1, <2>1, <2>2, EverySecondSteps, InterestConstants
<1>5. TotalGrowthWad(AnnualInterestBps, elapsed) = MulWad(D, R)
  BY DEF TotalGrowthWad
<1> HIDE DEF days, s, D, R, P
<1>6. MulWad(D, R) \in Slow(elapsed) /\ D * R <= WAD * EverySecond[elapsed]
  BY <1>1, <1>2, <1>3, SlowCompounds, SlowIsBounded
<1>7. P <= WAD * EverySecond[elapsed]
  <2>1. P \in Nat
    <3>1. <<WAD, WAD + DailyRateWad(AnnualInterestBps), elapsed \div SECONDS_PER_DAY, 0>>
            \in Loops
      <4>1. WAD + DailyRateWad(AnnualInterestBps) \in Nat
        <5>1. DailyRateWad(AnnualInterestBps) \in Nat
          BY <1>1, InterestConstants, RatesRoundDown
        <5>2. QED
          BY <5>1, InterestConstants
      <4>2. elapsed \div SECONDS_PER_DAY \in Nat
        BY DaysAndSeconds
      <4>3. QED
        BY <4>1, <4>2, InterestConstants DEF Loops
    <3>2. QED
      BY <3>1, PowLoopRuns DEF P, PowLargestProduct
  <2>2. \A i, b \in Nat : i * b \in Nat
    BY Z3
  <2>3. WAD * EverySecond[days] \in Nat /\ WAD * EverySecond[elapsed] \in Nat
    BY <1>1, <2>2, EverySecondSteps, InterestConstants
  <2>4. QED
    BY <1>2, <1>4, <2>1, <2>3
<1>8. QED
  BY <1>5, <1>6, <1>7 DEF D, R, P

-----------------------------------------------------------------------------
(* The market whose interest is accrued.                                   *)

\* The highest fee rate there is, at any time.
HighestRate == CHOOSE rate \in FeeRates : \A other \in FeeRates : other <= rate

\* Some fee rate is the highest, and it is at most the whole of the interest.
LEMMA HighestRateIsHighest ==
    ASSUME NEW some \in FeeRates
    PROVE  /\ HighestRate \in FeeRates /\ HighestRate \in 0 .. BPS
           /\ \A rate \in FeeRates : rate <= HighestRate
<1> DEFINE T == {m \in Nat : \E rate \in FeeRates : m = BPS - rate}
<1>1. FeeRates \subseteq 0 .. BPS /\ BPS \in Nat
  BY AccrualAssumption, InterestConstants
<1>2. T \subseteq Nat /\ T # {}
  <2>1. BPS - some \in Nat
    BY <1>1
  <2>2. QED
    BY <2>1
<1>3. PICK m \in T : \A y \in T : ~ (<<y, m>> \in OpToRel(<, Nat))
  <2> HIDE DEF T
  <2>1. IsWellFoundedOn(OpToRel(<, Nat), Nat)
    BY NatLessThanWellFounded
  <2>2. QED
    BY <1>2, <2>1, WFMin
<1>4. PICK highest \in FeeRates : m = BPS - highest
  BY <1>3
<1>5. ASSUME NEW other \in FeeRates PROVE other <= highest
  <2>1. BPS - other \in T
    BY <1>1
  <2>2. ~ (BPS - other < m)
    <3>1. <<BPS - other, m>> \notin OpToRel(<, Nat)
      BY <1>3, <2>1
    <3>2. m \in Nat /\ BPS - other \in Nat
      BY <1>2, <1>3, <2>1
    <3>3. QED
      BY <3>1, <3>2 DEF OpToRel
  <2>3. QED
    BY <1>1, <1>4, <2>2
<1>6. \E rate \in FeeRates : \A other \in FeeRates : other <= rate
  BY <1>4, <1>5
<1>7. HighestRate \in FeeRates /\ \A other \in FeeRates : other <= HighestRate
  BY <1>6 DEF HighestRate
<1>8. QED
  BY <1>1, <1>7

\* No balance without a deposit, as the scale is never below one, and none above the
\* cap on principal.
SupplyIsBacked ==
    /\ scaled_total_supply \in Nat /\ total_deposited \in Nat
    /\ scaled_total_supply <= total_deposited
    /\ total_deposited <= MaxTotalSupply

\* Types, and as many seconds as calls.
AccrualTypeInv ==
    /\ SupplyIsBacked
    /\ now \in Nat /\ fee_rate_bps \in FeeRates
    /\ scale_factor \in Nat /\ accrued_protocol_fees \in Nat
    /\ last_accrual_timestamp \in Nat /\ calls \in Nat
    /\ last_accrual_timestamp <= EffectiveNow
    /\ calls <= last_accrual_timestamp
    /\ scale_factor >= WAD

ScaleIsSlow == scale_factor \in Slow(last_accrual_timestamp)

\* The calls charged no more than the highest rate on the largest supply would have.
ChargedWithinCap ==
    /\ charged \in Nat
    /\ charged <= HighestRate * MaxTotalSupply * (scale_factor - WAD + calls)

AccrualInv ==
    /\ AccrualTypeInv /\ ScaleIsSlow /\ ChargedWithinCap
    /\ FeesWithinInterest /\ NeverBelowSimpleInterest

\* The period to accrue, and its growth.
LEMMA PeriodFacts ==
    ASSUME AccrualTypeInv
    PROVE  /\ EffectiveNow \in Nat /\ EffectiveNow <= MaturityTimestamp
           /\ Elapsed \in Nat /\ last_accrual_timestamp + Elapsed = EffectiveNow
           /\ TotalGrowth \in Nat /\ TotalGrowth >= WAD
           /\ AccruedScale \in Nat /\ AccruedScale >= scale_factor + (TotalGrowth - WAD)
           /\ AccruedScale * WAD <= scale_factor * TotalGrowth
           /\ scale_factor * TotalGrowth < AccruedScale * WAD + WAD
<1>1. EffectiveNow \in Nat /\ EffectiveNow <= MaturityTimestamp
  BY InterestConstants DEF EffectiveNow, Lesser, AccrualTypeInv
<1>2. Elapsed \in Nat /\ last_accrual_timestamp + Elapsed = EffectiveNow
  BY <1>1 DEF Elapsed, AccrualTypeInv
<1>3. TotalGrowth \in Nat /\ TotalGrowth >= WAD
  BY <1>2, InterestConstants, GrowthAtLeastSimple DEF TotalGrowth
<1>4. scale_factor \in Nat /\ scale_factor >= WAD
  BY DEF AccrualTypeInv
<1>5. AccruedScale >= scale_factor + (TotalGrowth - WAD)
  BY <1>3, <1>4, MulWadAbove DEF AccruedScale
<1>6. /\ AccruedScale \in Nat /\ AccruedScale * WAD <= scale_factor * TotalGrowth
      /\ scale_factor * TotalGrowth < AccruedScale * WAD + WAD
  <2>1. scale_factor * TotalGrowth \in Nat
    BY <1>3, <1>4
  <2>2. QED
    BY <2>1, InterestConstants, DivBounds DEF AccruedScale, MulWad
<1>7. QED
  BY <1>1, <1>2, <1>3, <1>5, <1>6

\* The scale after the accrual, in figures of the yardstick.
LEMMA AccruedScaleIsSlow ==
    ASSUME AccrualTypeInv, ScaleIsSlow
    PROVE  /\ AccruedScale \in Slow(EffectiveNow)
           /\ scale_factor * TotalGrowth <= WAD * EverySecond[EffectiveNow]
           /\ AccruedScale <= EverySecond[EffectiveNow]
           /\ scale_factor <= EverySecond[last_accrual_timestamp]
<1>1. /\ EffectiveNow \in Nat /\ Elapsed \in Nat /\ last_accrual_timestamp \in Nat
      /\ last_accrual_timestamp + Elapsed = EffectiveNow
  BY PeriodFacts DEF AccrualTypeInv
<1>2. TotalGrowth \in Slow(Elapsed)
  BY <1>1, GrowthIsSlow DEF TotalGrowth
<1>3. AccruedScale \in Slow(EffectiveNow)
  BY <1>1, <1>2, SlowCompounds DEF AccruedScale, ScaleIsSlow
<1>4. /\ scale_factor * TotalGrowth <= WAD * EverySecond[EffectiveNow]
      /\ scale_factor <= EverySecond[last_accrual_timestamp]
  BY <1>1, <1>2, SlowIsBounded DEF ScaleIsSlow
<1>5. AccruedScale <= EverySecond[EffectiveNow]
  BY <1>1, <1>3, SlowIsBounded
<1>6. QED
  BY <1>3, <1>4, <1>5

\* The fee on a period: a share of its growth.
LEMMA FeeDeltaBounds ==
    ASSUME AccrualTypeInv
    PROVE  /\ FeeDelta \in Nat /\ FeeDelta <= TotalGrowth
           /\ (TotalGrowth - WAD) * fee_rate_bps \in Nat
           /\ (TotalGrowth - WAD) * fee_rate_bps <= TotalGrowth * BPS
           /\ FeeDelta * BPS <= (TotalGrowth - WAD) * fee_rate_bps
           /\ TotalGrowth = WAD => FeeDelta = 0
<1> DEFINE gain == TotalGrowth - WAD
<1>1. gain \in Nat /\ gain <= TotalGrowth /\ TotalGrowth \in Nat
  BY PeriodFacts, InterestConstants
<1>2. fee_rate_bps \in Nat /\ BPS \in Nat \ {0} /\ fee_rate_bps <= BPS
  BY InterestConstants, AccrualAssumption DEF AccrualTypeInv
<1>3. FeeDelta = (gain * fee_rate_bps) \div BPS
  BY DEF FeeDelta
<1> HIDE DEF gain
<1>4. gain * fee_rate_bps \in Nat
  BY <1>1, <1>2
<1>5. FeeDelta \in Nat /\ FeeDelta * BPS <= gain * fee_rate_bps
  BY <1>2, <1>3, <1>4, DivBounds
<1>6. gain * fee_rate_bps <= gain * BPS /\ gain * BPS <= TotalGrowth * BPS
  <2>1. \A k, a, b \in Nat : a <= b => k * a <= k * b /\ a * k <= b * k
    BY Z3
  <2>2. QED
    BY <1>1, <1>2, <2>1
<1>7. /\ FeeDelta * BPS \in Nat /\ gain * BPS \in Nat /\ TotalGrowth * BPS \in Nat
  BY <1>1, <1>2, <1>5
<1>8. FeeDelta * BPS <= gain * BPS /\ gain * fee_rate_bps <= TotalGrowth * BPS
  BY <1>4, <1>5, <1>6, <1>7
<1>9. FeeDelta <= gain
  BY <1>1, <1>2, <1>5, <1>8, CancelFactor
<1>10. gain = 0 => FeeDelta = 0
  BY <1>1, <1>5, <1>9
<1>11. TotalGrowth = WAD => gain = 0
  BY <1>1, InterestConstants DEF gain
<1>12. QED
  BY <1>1, <1>4, <1>5, <1>8, <1>9, <1>10, <1>11 DEF gain

\* What a call adds to the fees is the rate's share of what the scale gains
\* in that call, and of one unit.
LEMMA FeesOfACall ==
    ASSUME AccrualTypeInv
    PROVE  /\ MulWad(FeeBase, FeeDelta) \in Nat /\ FeeBase \in Nat
           /\ MulWad(FeeBase, FeeDelta) * (BPS * WAD)
                <= fee_rate_bps * (scaled_total_supply * (AccruedScale - scale_factor + 1))
<1> DEFINE S == scaled_total_supply
           H == fee_rate_bps
           f == scale_factor
           B == FeeBase
           d == FeeDelta
           gain == TotalGrowth - WAD
           fee == MulWad(B, d)
           up == AccruedScale - f + 1
<1>1. /\ S \in Nat /\ H \in Nat /\ f \in Nat /\ WAD \in Nat \ {0} /\ BPS \in Nat \ {0}
  BY InterestConstants, AccrualAssumption DEF AccrualTypeInv, SupplyIsBacked
<1>2. B \in Nat /\ B * WAD <= S * f
  <2>1. S * f \in Nat
    BY <1>1
  <2>2. QED
    BY <1>1, <2>1, DivBounds DEF FeeBase, MulWad
<1>3. d \in Nat /\ d * BPS <= gain * H
  BY FeeDeltaBounds
<1>4. fee \in Nat /\ fee * WAD <= B * d
  <2>1. B * d \in Nat
    BY <1>2, <1>3
  <2>2. QED
    BY <1>1, <2>1, DivBounds DEF MulWad
<1>5. gain \in Nat /\ up \in Nat /\ f * gain <= up * WAD
  <2>1. /\ TotalGrowth \in Nat /\ TotalGrowth >= WAD /\ AccruedScale \in Nat
        /\ AccruedScale >= f + gain
        /\ f * TotalGrowth < AccruedScale * WAD + WAD
    BY PeriodFacts
  <2>2. gain \in Nat /\ TotalGrowth = WAD + gain
    BY <1>1, <2>1
  <2>3. PICK more \in Nat : AccruedScale = f + more
    <3> HIDE DEF f, gain
    <3>1. AccruedScale - f \in Nat /\ AccruedScale = f + (AccruedScale - f)
      BY <1>1, <2>1, <2>2
    <3>2. QED
      BY <3>1
  <2> HIDE DEF f, gain
  <2>4. up = more + 1
    BY <1>1, <2>3
  <2> HIDE DEF up
  <2>5. f * (WAD + gain) = f * WAD + f * gain
        /\ (f + more) * WAD + WAD = f * WAD + (more + 1) * WAD
    BY <1>1, <2>2, <2>3, Z3
  <2>6. f * WAD \in Nat /\ f * gain \in Nat /\ (more + 1) * WAD \in Nat
    BY <1>1, <2>2, <2>3
  <2>7. f * gain <= (more + 1) * WAD
    BY <2>1, <2>2, <2>3, <2>5, <2>6
  <2>8. QED
    BY <2>2, <2>3, <2>4, <2>7
<1> HIDE DEF S, H, f, B, d, gain, fee, up
<1>6. \A k, a, b \in Nat : a <= b => k * a <= k * b /\ a * k <= b * k
  BY Z3
<1>7. \A a, b \in Nat : a * b \in Nat
  BY Z3
<1>8. (fee * (BPS * WAD)) * WAD <= (H * S * up) * WAD
  <2>1. (fee * (BPS * WAD)) * WAD = (fee * WAD) * (BPS * WAD)
    BY <1>1, <1>4, Z3
  <2>2. (fee * WAD) * (BPS * WAD) <= (B * d) * (BPS * WAD)
    BY <1>1, <1>2, <1>3, <1>4, <1>6, <1>7
  <2>3. (B * d) * (BPS * WAD) = (B * WAD) * (d * BPS)
    BY <1>1, <1>2, <1>3, Z3
  <2>4. (B * WAD) * (d * BPS) <= (S * f) * (d * BPS)
    BY <1>1, <1>2, <1>3, <1>6, <1>7
  <2>5. (S * f) * (d * BPS) <= (S * f) * (gain * H)
    BY <1>1, <1>3, <1>5, <1>6, <1>7
  <2>6. (S * f) * (gain * H) = (H * S) * (f * gain)
    BY <1>1, <1>5, Z3
  <2>7. (H * S) * (f * gain) <= (H * S) * (up * WAD)
    BY <1>1, <1>5, <1>6, <1>7
  <2>8. (H * S) * (up * WAD) = (H * S * up) * WAD
    BY <1>1, <1>5, Z3
  <2>9. /\ (fee * WAD) * (BPS * WAD) \in Nat /\ (B * d) * (BPS * WAD) \in Nat
        /\ (S * f) * (d * BPS) \in Nat /\ (S * f) * (gain * H) \in Nat
        /\ (H * S) * (up * WAD) \in Nat
    BY <1>1, <1>2, <1>3, <1>4, <1>5, <1>7
  <2>10. QED
    BY <2>1, <2>2, <2>3, <2>4, <2>5, <2>6, <2>7, <2>8, <2>9
<1>9. fee * (BPS * WAD) \in Nat /\ H * S * up \in Nat
  BY <1>1, <1>4, <1>5, <1>7
<1>10. fee * (BPS * WAD) <= H * S * up
  BY <1>1, <1>8, <1>9, CancelFactor
<1>11. H * S * up = H * (S * up)
  BY <1>1, <1>5, Z3
<1>12. QED
  BY <1>2, <1>4, <1>10, <1>11 DEF S, H, f, B, d, fee, up

\* The fees after a call stay within what the calls charged.
LEMMA NextFeesWithin ==
    ASSUME AccrualTypeInv, FeesWithinInterest, ChargedWithinCap
    PROVE  /\ NewFees \in Nat /\ Charged \in Nat
           /\ NewFees * BPS * WAD <= Charged
<1> DEFINE fee == MulWad(FeeBase, FeeDelta)
           fees == accrued_protocol_fees
           gain == scaled_total_supply * (AccruedScale - scale_factor + 1)
           unit == BPS * WAD
<1>1. /\ WAD \in Nat /\ BPS \in Nat /\ unit \in Nat /\ fees \in Nat
      /\ charged \in Nat /\ fee_rate_bps \in Nat
  <2>1. \A a, b \in Nat : a * b \in Nat
    BY Z3
  <2>2. QED
    BY <2>1, InterestConstants, AccrualAssumption DEF AccrualTypeInv, ChargedWithinCap
<1>2. fee_rate_bps * gain \in Nat
  <2>1. AccruedScale - scale_factor + 1 \in Nat /\ scaled_total_supply \in Nat
    <3>1. /\ TotalGrowth \in Nat /\ TotalGrowth >= WAD /\ AccruedScale \in Nat
          /\ AccruedScale >= scale_factor + (TotalGrowth - WAD)
      BY PeriodFacts
    <3>2. scale_factor \in Nat /\ scaled_total_supply \in Nat
      BY DEF AccrualTypeInv, SupplyIsBacked
    <3>3. QED
      BY <1>1, <3>1, <3>2
  <2>2. \A a, b \in Nat : a * b \in Nat
    BY Z3
  <2>3. QED
    BY <1>1, <2>1, <2>2
<1>3. fee \in Nat /\ fee * unit <= fee_rate_bps * gain
  BY FeesOfACall
<1>4. fees * BPS * WAD <= charged
  BY DEF FeesWithinInterest
<1>5. NewFees = fees + fee /\ Charged = charged + fee_rate_bps * gain
  BY DEF NewFees, Charged
<1>6. (fees + fee) * BPS * WAD = fees * BPS * WAD + fee * unit
  <2> HIDE DEF fee, fees
  <2>1. QED
    BY <1>1, <1>3, Z3
<1> HIDE DEF fee, fees, gain, unit
<1>7. /\ fees * BPS * WAD \in Nat /\ fee * unit \in Nat
  <2>1. \A a, b, c \in Nat : a * b \in Nat /\ a * b * c \in Nat
    BY Z3
  <2>2. QED
    BY <1>1, <1>3, <2>1
<1>8. QED
  BY <1>1, <1>2, <1>3, <1>4, <1>5, <1>6, <1>7

\* What is charged after a call stays within the highest rate's share of what the
\* largest supply would have earned from the start.
LEMMA NextChargedWithin ==
    ASSUME AccrualTypeInv, ChargedWithinCap
    PROVE  Charged <= HighestRate * MaxTotalSupply * (AccruedScale - WAD + (calls + 1))
<1> DEFINE K == HighestRate * MaxTotalSupply
           M == MaxTotalSupply
           H == HighestRate
           rate == fee_rate_bps
           S == scaled_total_supply
           before == scale_factor - WAD + calls
           up == AccruedScale - scale_factor + 1
<1>1. /\ M \in Nat /\ S \in Nat /\ S <= M /\ before \in Nat /\ up \in Nat
      /\ before + up = AccruedScale - WAD + (calls + 1)
  <2>1. /\ TotalGrowth \in Nat /\ TotalGrowth >= WAD /\ AccruedScale \in Nat
        /\ AccruedScale >= scale_factor + (TotalGrowth - WAD)
    BY PeriodFacts
  <2>2. /\ scale_factor \in Nat /\ scale_factor >= WAD /\ calls \in Nat
        /\ M \in Nat /\ WAD \in Nat /\ S \in Nat /\ S <= M
    BY InterestConstants DEF AccrualTypeInv, SupplyIsBacked
  <2>3. QED
    BY <2>1, <2>2
<1>2. /\ rate \in Nat /\ H \in Nat /\ rate <= H
  BY HighestRateIsHighest, InterestConstants, AccrualAssumption DEF AccrualTypeInv
<1>3. charged \in Nat /\ charged <= K * before
  BY DEF ChargedWithinCap
<1>4. Charged = charged + rate * (S * up)
  BY DEF Charged
<1>5. K = H * M
  OBVIOUS
<1> HIDE DEF K, M, H, rate, S, before, up
<1>6. \A k, a, b \in Nat : (a <= b => k * a <= k * b /\ a * k <= b * k) /\ a * b \in Nat
  BY Z3
<1>7. rate * (S * up) <= K * up
  <2>1. S * up \in Nat /\ M * up \in Nat /\ S * up <= M * up
    BY <1>1, <1>6
  <2>2. rate * (S * up) <= H * (S * up) /\ H * (S * up) <= H * (M * up)
    BY <1>2, <1>6, <2>1
  <2>3. H * (M * up) = K * up
    BY <1>1, <1>2, <1>5, Z3
  <2>4. /\ rate * (S * up) \in Nat /\ H * (S * up) \in Nat /\ H * (M * up) \in Nat
    BY <1>2, <1>6, <2>1
  <2>5. QED
    BY <2>2, <2>3, <2>4
<1>8. K \in Nat /\ K * before \in Nat /\ K * up \in Nat /\ rate * (S * up) \in Nat
  BY <1>1, <1>2, <1>5, <1>6
<1>9. K * (before + up) = K * before + K * up
  BY <1>1, <1>8, Z3
<1>10. Charged <= K * (before + up)
  BY <1>3, <1>4, <1>7, <1>8, <1>9
<1>11. QED
  BY <1>1, <1>10 DEF K

\* The interest after a call is at least simple interest up to it.
LEMMA NextAboveSimple ==
    ASSUME AccrualTypeInv, NeverBelowSimpleInterest
    PROVE  AnnualInterestBps * EffectiveNow * WAD
             <= (AccruedScale - WAD + (EffectiveNow \div SECONDS_PER_DAY) + (calls + 1))
                  * (SECONDS_PER_YEAR * BPS)
<1> DEFINE A == AnnualInterestBps
           y == SECONDS_PER_YEAR * BPS
           t == last_accrual_timestamp
           u == Elapsed
           tDays == t \div SECONDS_PER_DAY
           uDays == u \div SECONDS_PER_DAY
           allDays == EffectiveNow \div SECONDS_PER_DAY
           before == scale_factor - WAD + tDays + calls
           gained == TotalGrowth - WAD + uDays + 1
           after == AccruedScale - WAD + allDays + (calls + 1)
<1>1. /\ A \in Nat /\ y \in Nat /\ WAD \in Nat /\ t \in Nat /\ u \in Nat
      /\ EffectiveNow = t + u /\ EffectiveNow \in Nat
  BY PeriodFacts, InterestConstants DEF AccrualTypeInv
<1>2. tDays \in Nat /\ uDays \in Nat /\ allDays \in Nat /\ tDays + uDays <= allDays
  <2>1. \A a, b \in Nat, d \in Nat \ {0} :
          /\ a \div d \in Nat /\ b \div d \in Nat /\ (a + b) \div d \in Nat
          /\ (a \div d) + (b \div d) <= (a + b) \div d
    <3> SUFFICES ASSUME NEW a \in Nat, NEW b \in Nat, NEW d \in Nat \ {0}
                 PROVE  /\ a \div d \in Nat /\ b \div d \in Nat /\ (a + b) \div d \in Nat
                        /\ (a \div d) + (b \div d) <= (a + b) \div d
      OBVIOUS
    <3>1. /\ a \div d \in Nat /\ b \div d \in Nat /\ (a + b) \div d \in Nat
          /\ (a \div d) * d <= a /\ (b \div d) * d <= b
      <4>1. a + b \in Nat
        OBVIOUS
      <4>2. QED
        BY <4>1, DivBounds
    <3> DEFINE i == a \div d
               j == b \div d
    <3> HIDE DEF i, j
    <3>2. (i + j) * d <= a + b
      <4>1. (i + j) * d = i * d + j * d /\ i * d \in Nat /\ j * d \in Nat
        BY <3>1, Z3 DEF i, j
      <4>2. i * d <= a /\ j * d <= b
        BY <3>1 DEF i, j
      <4>3. QED
        BY <4>1, <4>2
    <3>3. i + j <= (a + b) \div d
      <4>1. a + b \in Nat /\ i + j \in Nat
        BY <3>1 DEF i, j
      <4>2. QED
        BY <3>2, <4>1, DivAtLeast
    <3>4. QED
      BY <3>1, <3>3 DEF i, j
  <2>2. QED
    BY <1>1, <2>1, InterestConstants
<1>3. A * t * WAD <= before * y
  BY DEF NeverBelowSimpleInterest
<1>4. A * u * WAD <= gained * y
  BY <1>1, GrowthAtLeastSimple DEF TotalGrowth
<1>5. /\ before \in Nat /\ gained \in Nat /\ after \in Nat
      /\ before + gained <= after
  <2>1. /\ TotalGrowth \in Nat /\ TotalGrowth >= WAD /\ AccruedScale \in Nat
        /\ AccruedScale >= scale_factor + (TotalGrowth - WAD)
    BY PeriodFacts
  <2>2. scale_factor \in Nat /\ scale_factor >= WAD /\ calls \in Nat
    BY DEF AccrualTypeInv
  <2> HIDE DEF tDays, uDays, allDays
  <2>3. QED
    BY <1>1, <1>2, <2>1, <2>2
<1> HIDE DEF A, y, t, u, before, gained, after
<1>6. A * (t + u) * WAD = A * t * WAD + A * u * WAD
  BY <1>1, Z3
<1>7. before * y + gained * y = (before + gained) * y
  BY <1>1, <1>5, Z3
<1>8. (before + gained) * y <= after * y
  <2>1. \A k, a, b \in Nat : a <= b => a * k <= b * k
    BY Z3
  <2>2. before + gained \in Nat
    BY <1>5
  <2>3. QED
    BY <1>1, <1>5, <2>1, <2>2
<1>9. /\ A * t * WAD \in Nat /\ A * u * WAD \in Nat /\ before * y \in Nat
      /\ gained * y \in Nat /\ after * y \in Nat /\ A * (t + u) * WAD \in Nat
  <2>1. \A a, b, c \in Nat : a * b \in Nat /\ a * b * c \in Nat /\ a + b \in Nat
    BY Z3
  <2>2. QED
    BY <1>1, <1>5, <2>1
<1>10. A * (t + u) * WAD <= after * y
  BY <1>3, <1>4, <1>6, <1>7, <1>8, <1>9
<1>11. QED
  BY <1>1, <1>10 DEF A, y, after

-----------------------------------------------------------------------------
(* The invariant.                                                          *)

\* A market starts at one, without fees.
LEMMA AccrualStart == Init => AccrualInv
<1> SUFFICES ASSUME Init PROVE AccrualInv
  OBVIOUS
<1>1. /\ now = 0 /\ fee_rate_bps \in FeeRates /\ scale_factor = WAD
      /\ scaled_total_supply = 0 /\ total_deposited = 0
      /\ accrued_protocol_fees = 0 /\ last_accrual_timestamp = 0 /\ calls = 0
      /\ charged = 0
  BY DEF Init
<1>2. EffectiveNow = 0
  BY <1>1, InterestConstants DEF EffectiveNow, Lesser
<1>3. AccrualTypeInv
  BY <1>1, <1>2, InterestConstants DEF AccrualTypeInv, SupplyIsBacked
<1>4. ScaleIsSlow
  <2>1. ASSUME NEW s \in Nat PROVE EverySecond[s] * WAD <= WAD * EverySecond[s + 0]
    <3>1. s + 0 = s /\ EverySecond[s] \in Nat
      BY EverySecondSteps
    <3>2. \A a, b \in Nat : a * b <= b * a
      BY Z3
    <3>3. QED
      BY <3>1, <3>2, InterestConstants
  <2>2. QED
    BY <1>1, <2>1, InterestConstants DEF ScaleIsSlow, Slow
<1>5. \A a, b \in Nat : 0 * a * b = 0 /\ a * 0 * b = 0
  BY Z3
<1>6. FeesWithinInterest
  <2>1. 0 * BPS * WAD = 0
    BY <1>5, InterestConstants
  <2>2. QED
    BY <1>1, <2>1 DEF FeesWithinInterest
<1>7. NeverBelowSimpleInterest
  <2>1. 0 \div SECONDS_PER_DAY = 0
    <3>1. \A d \in Nat \ {0} : 0 \div d = 0
      BY Z3
    <3>2. QED
      BY <3>1, InterestConstants
  <2>2. AnnualInterestBps * 0 * WAD = 0
    BY <1>5, InterestConstants
  <2>3. (WAD - WAD + 0 + 0) * (SECONDS_PER_YEAR * BPS) = 0
    <3> DEFINE y == SECONDS_PER_YEAR * BPS
    <3>1. y \in Nat /\ WAD - WAD + 0 + 0 = 0
      BY InterestConstants
    <3> HIDE DEF y
    <3>2. 0 * y = 0
      BY <3>1
    <3>3. QED
      BY <3>1, <3>2 DEF y
  <2>4. QED
    BY <1>1, <2>1, <2>2, <2>3 DEF NeverBelowSimpleInterest
<1>8. ChargedWithinCap
  <2>1. HighestRate \in Nat /\ scale_factor - WAD + calls = 0
    BY <1>1, HighestRateIsHighest, InterestConstants
  <2>2. HighestRate * MaxTotalSupply * 0 = 0
    <3>1. \A a, b \in Nat : a * b * 0 = 0
      BY Z3
    <3>2. QED
      BY <2>1, <3>1, InterestConstants
  <2>3. QED
    BY <1>1, <2>1, <2>2 DEF ChargedWithinCap
<1>9. QED
  BY <1>3, <1>4, <1>6, <1>7, <1>8 DEF AccrualInv

\* A call moves scale, fees and clock together; where there is no period it moves
\* nothing, and its scale is the old one.
LEMMA AccrueKeeps ==
    ASSUME AccrualInv, AccrueInterest, SupplyIsBacked',
           now' = now, fee_rate_bps' = fee_rate_bps
    PROVE  AccrualInv'
<1>1. /\ AccrualTypeInv /\ ScaleIsSlow /\ ChargedWithinCap
      /\ FeesWithinInterest /\ NeverBelowSimpleInterest
  BY DEF AccrualInv
<1>2. CASE Elapsed = 0 /\ UNCHANGED accrualVars
  <2>1. UNCHANGED <<scale_factor, accrued_protocol_fees, last_accrual_timestamp,
                    calls, charged>>
    BY <1>2 DEF accrualVars
  <2>2. EffectiveNow' = EffectiveNow
    BY DEF EffectiveNow
  <2>3. AccrualTypeInv'
    BY <1>1, <2>1, <2>2 DEF AccrualTypeInv
  <2>4. /\ ScaleIsSlow' /\ ChargedWithinCap'
        /\ FeesWithinInterest' /\ NeverBelowSimpleInterest'
    BY <1>1, <2>1 DEF ScaleIsSlow, Slow, ChargedWithinCap, FeesWithinInterest,
       NeverBelowSimpleInterest
  <2>5. QED
    BY <2>3, <2>4 DEF AccrualInv
<1>3. CASE /\ Elapsed > 0
           /\ scale_factor' = AccruedScale /\ accrued_protocol_fees' = NewFees
           /\ last_accrual_timestamp' = EffectiveNow
           /\ calls' = calls + 1 /\ charged' = Charged
  <2>1. EffectiveNow' = EffectiveNow
    BY <1>3 DEF EffectiveNow
  <2>2. AccrualTypeInv'
    <3>1. /\ EffectiveNow \in Nat /\ Elapsed \in Nat
          /\ last_accrual_timestamp + Elapsed = EffectiveNow
          /\ TotalGrowth \in Nat /\ TotalGrowth >= WAD
          /\ AccruedScale \in Nat /\ AccruedScale >= scale_factor + (TotalGrowth - WAD)
      BY <1>1, PeriodFacts
    <3>2. NewFees \in Nat
      BY <1>1, NextFeesWithin
    <3>3. /\ now \in Nat /\ fee_rate_bps \in FeeRates /\ scale_factor \in Nat
          /\ scale_factor >= WAD /\ last_accrual_timestamp \in Nat /\ calls \in Nat
          /\ calls <= last_accrual_timestamp
      BY <1>1 DEF AccrualTypeInv
    <3>4. AccruedScale >= WAD /\ calls + 1 <= EffectiveNow /\ EffectiveNow <= EffectiveNow
      BY <1>3, <3>1, <3>3, InterestConstants
    <3>5. QED
      BY <1>3, <2>1, <3>1, <3>2, <3>3, <3>4 DEF AccrualTypeInv
  <2>3. ScaleIsSlow'
    <3>1. AccruedScale \in Slow(EffectiveNow)
      BY <1>1, AccruedScaleIsSlow
    <3>2. QED
      BY <1>3, <3>1 DEF ScaleIsSlow, Slow
  <2>4. FeesWithinInterest'
    BY <1>1, <1>3, NextFeesWithin DEF FeesWithinInterest
  <2>5. NeverBelowSimpleInterest'
    BY <1>1, <1>3, NextAboveSimple DEF NeverBelowSimpleInterest
  <2>6. ChargedWithinCap'
    BY <1>1, <1>3, NextFeesWithin, NextChargedWithin DEF ChargedWithinCap
  <2>7. QED
    BY <2>2, <2>3, <2>4, <2>5, <2>6 DEF AccrualInv
<1>4. QED
  BY <1>2, <1>3 DEF AccrueInterest

\* A deposit is entered at the scale after the accrual: never for more than it is.
LEMMA DepositIsBacked ==
    ASSUME AccrualInv, NEW amount \in Amounts, Deposit(amount)
    PROVE  SupplyIsBacked'
<1> DEFINE scaled == (amount * WAD) \div AccruedScale
<1>1. /\ scaled_total_supply' = scaled_total_supply + scaled
      /\ total_deposited' = total_deposited + amount
      /\ total_deposited + amount <= MaxTotalSupply
  BY DEF Deposit
<1>2. amount \in Nat /\ AccrualTypeInv /\ SupplyIsBacked /\ WAD \in Nat \ {0}
  BY AccrualAssumption, InterestConstants DEF AccrualInv, AccrualTypeInv
<1>3. AccruedScale \in Nat \ {0} /\ AccruedScale >= WAD
  <2>1. /\ TotalGrowth \in Nat /\ TotalGrowth >= WAD
        /\ AccruedScale \in Nat /\ AccruedScale >= scale_factor + (TotalGrowth - WAD)
    BY <1>2, PeriodFacts
  <2>2. scale_factor \in Nat /\ scale_factor >= WAD
    BY <1>2 DEF AccrualTypeInv
  <2>3. QED
    BY <1>2, <2>1, <2>2
<1>4. scaled \in Nat /\ scaled <= amount
  <2>1. amount * WAD \in Nat /\ amount * WAD <= amount * AccruedScale
    <3>1. \A k, a, b \in Nat : a <= b => k * a <= k * b /\ k * a \in Nat
      BY Z3
    <3>2. QED
      BY <1>2, <1>3, <3>1
  <2>2. scaled \in Nat /\ scaled * AccruedScale <= amount * WAD
    BY <1>3, <2>1, DivBounds
  <2> HIDE DEF scaled
  <2>3. scaled * AccruedScale \in Nat /\ amount * AccruedScale \in Nat
    <3>1. \A a, b \in Nat : a * b \in Nat
      BY Z3
    <3>2. QED
      BY <1>2, <1>3, <2>2, <3>1
  <2>4. scaled * AccruedScale <= amount * AccruedScale
    BY <2>1, <2>2, <2>3
  <2>5. QED
    BY <1>2, <1>3, <2>2, <2>4, CancelFactor
<1> HIDE DEF scaled
<1>5. QED
  BY <1>1, <1>2, <1>4, InterestConstants DEF SupplyIsBacked

\* Nothing else moves them, and the clock goes on.
LEMMA AccrualStep == AccrualInv /\ [Next]_vars => AccrualInv'
<1> SUFFICES ASSUME AccrualInv, [Next]_vars PROVE AccrualInv'
  OBVIOUS
<1>1. CASE Accrue
  <2>1. AccrueInterest /\ now' = now /\ fee_rate_bps' = fee_rate_bps
    BY <1>1 DEF Accrue
  <2>2. SupplyIsBacked'
    BY <1>1 DEF Accrue, supplyVars, SupplyIsBacked, AccrualInv, AccrualTypeInv
  <2>3. QED
    BY <2>1, <2>2, AccrueKeeps
<1>2. ASSUME NEW amount \in Amounts, Deposit(amount) PROVE AccrualInv'
  <2>1. AccrueInterest /\ now' = now /\ fee_rate_bps' = fee_rate_bps
    BY <1>2 DEF Deposit
  <2>2. QED
    BY <1>2, <2>1, DepositIsBacked, AccrueKeeps
<1>3. ASSUME fee_rate_bps' \in FeeRates, now' \in Nat, now' >= now,
             UNCHANGED <<supplyVars, accrualVars>>
      PROVE  AccrualInv'
  <2>1. EffectiveNow' >= EffectiveNow /\ EffectiveNow \in Nat /\ EffectiveNow' \in Nat
    BY <1>3, InterestConstants DEF AccrualInv, AccrualTypeInv, EffectiveNow, Lesser
  <2>2. /\ UNCHANGED <<scale_factor, accrued_protocol_fees, last_accrual_timestamp>>
        /\ UNCHANGED <<calls, charged>>
        /\ UNCHANGED <<scaled_total_supply, total_deposited>>
    BY <1>3 DEF supplyVars, accrualVars
  <2>3. AccrualTypeInv'
    BY <1>3, <2>1, <2>2 DEF AccrualInv, AccrualTypeInv, SupplyIsBacked
  <2>4. /\ ScaleIsSlow' /\ ChargedWithinCap'
        /\ FeesWithinInterest' /\ NeverBelowSimpleInterest'
    BY <2>2 DEF AccrualInv, ScaleIsSlow, Slow, ChargedWithinCap, FeesWithinInterest,
       NeverBelowSimpleInterest
  <2>5. QED
    BY <2>3, <2>4 DEF AccrualInv
<1>4. now \in Nat /\ now >= now /\ fee_rate_bps \in FeeRates
  BY DEF AccrualInv, AccrualTypeInv
<1>5. ASSUME NEW rate \in FeeRates, SetFeeRate(rate) PROVE AccrualInv'
  <2>1. fee_rate_bps' = rate /\ now' = now /\ UNCHANGED <<supplyVars, accrualVars>>
    BY <1>5 DEF SetFeeRate
  <2>2. QED
    BY <1>3, <1>4, <1>5, <2>1
<1>6. ASSUME NEW time \in Times, Tick(time) PROVE AccrualInv'
  <2>1. /\ now' = time /\ time > now /\ fee_rate_bps' = fee_rate_bps
        /\ UNCHANGED <<supplyVars, accrualVars>>
    BY <1>6 DEF Tick
  <2>2. time \in Nat /\ time >= now
    BY <1>4, <1>6, <2>1, AccrualAssumption
  <2>3. QED
    BY <1>3, <1>4, <2>1, <2>2
<1>7. CASE UNCHANGED vars
  BY <1>3, <1>4, <1>7 DEF vars
<1>8. QED
  BY <1>1, <1>2, <1>5, <1>6, <1>7 DEF Next

\* The invariant holds in every reachable state.
LEMMA AccrualInvariant == Spec => []AccrualInv
  BY AccrualStart, AccrualStep, PTL DEF Spec

-----------------------------------------------------------------------------
(* What interest comes to.                                                 *)

\* However the time is cut into calls of accrue_interest, whatever the rate, the
\* term and the calendar, lenders never earn more than by compounding by the second.
THEOREM InterestNeverAbove == Spec => []NeverAboveEverySecond
<1>1. AccrualInv => NeverAboveEverySecond
  BY AccruedScaleIsSlow DEF AccrualInv, NeverAboveEverySecond
<1>2. QED
  BY <1>1, AccrualInvariant, PTL

\* Nor less than simple interest, but for a unit of the scale per day and call.
THEOREM InterestNeverBelow == Spec => []NeverBelowSimpleInterest
<1>1. AccrualInv => NeverBelowSimpleInterest
  BY DEF AccrualInv
<1>2. QED
  BY <1>1, AccrualInvariant, PTL

\* The fees never exceed what the rate of each call gives on the interest of that
\* call, however the rate changes and the deposits come in between the calls.
THEOREM FeesStayWithinInterest == Spec => []FeesWithinInterest
<1>1. AccrualInv => FeesWithinInterest
  BY DEF AccrualInv
<1>2. QED
  BY <1>1, AccrualInvariant, PTL

\* The widths of the integers leave room for the term of the market, compounded by
\* the second: for its scale in units of WAD, of BPS and of its cap, for the rate of
\* a year and of a day, for the days of the term, and for the fees.
HasRoom ==
    LET most == EverySecond[MaturityTimestamp]
    IN  /\ \A unit \in {WAD, BPS, MaxTotalSupply} : unit * most <= U128Max
        /\ WAD + AnnualInterestBps * SECONDS_PER_DAY * WAD <= U128Max
        /\ SECONDS_PER_YEAR * BPS <= U128Max
        /\ MaturityTimestamp \div SECONDS_PER_DAY <= U32Max
        /\ HighestRate * MaxTotalSupply * (most - WAD + MaturityTimestamp)
             <= U64Max * BPS * WAD

\* The figures of a state within those of the term.
LEMMA WithinTheTerm ==
    ASSUME AccrualTypeInv, ScaleIsSlow, NEW t \in Nat, t <= MaturityTimestamp
    PROVE  /\ EverySecond[t] \in Nat /\ EverySecond[MaturityTimestamp] \in Nat
           /\ EverySecond[t] <= EverySecond[MaturityTimestamp]
           /\ WAD * EverySecond[t] \in Nat
           /\ WAD * EverySecond[t] <= WAD * EverySecond[MaturityTimestamp]
           /\ WAD * EverySecond[MaturityTimestamp] \in Nat
<1>1. /\ EverySecond[t] \in Nat /\ EverySecond[MaturityTimestamp] \in Nat
      /\ EverySecond[t] <= EverySecond[MaturityTimestamp]
  BY EverySecondSteps, EverySecondRises, InterestConstants
<1>2. \A k, a, b \in Nat : a <= b => k * a <= k * b /\ k * a \in Nat /\ k * b \in Nat
  BY Z3
<1>3. QED
  BY <1>1, <1>2, InterestConstants

\* A whole number divided gives no more than itself, and less for less.
LEMMA DivGrows ==
    ASSUME NEW a \in Nat, NEW b \in Nat, NEW d \in Nat \ {0}, a <= b
    PROVE  a \div d <= b \div d /\ a \div d \in Nat /\ b \div d \in Nat
<1>1. /\ a \div d \in Nat /\ b \div d \in Nat /\ (a \div d) * d <= a
  BY DivBounds
<1> DEFINE i == a \div d
<1> HIDE DEF i
<1>2. i \in Nat /\ i * d \in Nat /\ i * d <= b
  <2>1. i * d \in Nat
    BY <1>1 DEF i
  <2>2. QED
    BY <1>1, <2>1 DEF i
<1>3. QED
  BY <1>1, <1>2, DivAtLeast DEF i

\* The rates of a year, of a day and of the seconds of a day have room.
LEMMA RatesFit ==
    ASSUME AccrualInv, HasRoom
    PROVE  /\ Elapsed \div SECONDS_PER_DAY <= U32Max
           /\ AnnualInterestBps * WAD <= U128Max /\ DAYS_PER_YEAR * BPS <= U128Max
           /\ WAD + DailyRateWad(AnnualInterestBps) <= U128Max
           /\ AnnualInterestBps * (Elapsed % SECONDS_PER_DAY) * WAD <= U128Max
           /\ SECONDS_PER_YEAR * BPS <= U128Max /\ RestGrowth <= U128Max
<1> DEFINE A == AnnualInterestBps
           D == SECONDS_PER_DAY
           r == Elapsed % SECONDS_PER_DAY
           N == DAYS_PER_YEAR * BPS
           Y == SECONDS_PER_YEAR * BPS
<1>1. /\ A \in Nat /\ D \in Nat \ {0} /\ WAD \in Nat /\ BPS \in Nat \ {0} /\ U128Max \in Nat
      /\ DAYS_PER_YEAR \in Nat \ {0} /\ Y \in Nat \ {0} /\ N \in Nat \ {0}
      /\ Y = D * N
  <2>1. \A a, b \in Nat \ {0} : a * b \in Nat \ {0}
    BY Z3
  <2>2. \A a, b, c \in Nat : a * b * c = a * (b * c)
    BY Z3
  <2>3. QED
    BY <2>1, <2>2, InterestConstants DEF SECONDS_PER_YEAR
<1>2. /\ Elapsed \in Nat /\ Elapsed <= MaturityTimestamp
  <2>1. /\ EffectiveNow \in Nat /\ EffectiveNow <= MaturityTimestamp
        /\ Elapsed \in Nat /\ last_accrual_timestamp + Elapsed = EffectiveNow
    BY PeriodFacts DEF AccrualInv
  <2>2. last_accrual_timestamp \in Nat
    BY DEF AccrualInv, AccrualTypeInv
  <2>3. QED
    BY <2>1, <2>2, InterestConstants
<1>3. r \in Nat /\ r <= D
  BY <1>2, DaysAndSeconds, InterestConstants
<1>4. /\ WAD + A * D * WAD <= U128Max /\ Y <= U128Max
      /\ MaturityTimestamp \div D <= U32Max
  BY DEF HasRoom
<1>5. Elapsed \div D <= U32Max
  <2>1. Elapsed \div D <= MaturityTimestamp \div D
        /\ Elapsed \div D \in Nat /\ MaturityTimestamp \div D \in Nat
    BY <1>1, <1>2, DivGrows, InterestConstants
  <2>2. QED
    BY <1>4, <2>1, InterestConstants
<1> HIDE DEF A, D, r, N, Y
<1>6. \A k, a, b \in Nat : (a <= b => k * a <= k * b /\ a * k <= b * k) /\ a * b \in Nat
  BY Z3
<1>7. /\ A * r * WAD \in Nat /\ A * D * WAD \in Nat /\ A * WAD \in Nat
      /\ A * r * WAD <= A * D * WAD /\ A * WAD <= A * D * WAD
  <2>1. /\ A * r \in Nat /\ A * D \in Nat /\ A * r <= A * D
    BY <1>1, <1>3, <1>6
  <2>2. A <= A * D
    <3>1. 1 <= D /\ A * 1 = A
      BY <1>1
    <3>2. QED
      BY <1>1, <1>6, <3>1
  <2>3. QED
    BY <1>1, <1>6, <2>1, <2>2
<1>8. N <= Y
  <2>1. 1 <= D /\ 1 * N = N
    BY <1>1
  <2>2. QED
    BY <1>1, <1>6, <2>1
<1>9. \A a \in Nat, d \in Nat \ {0} : a \div d \in Nat /\ a \div d <= a
  <2> SUFFICES ASSUME NEW a \in Nat, NEW d \in Nat \ {0}
               PROVE  a \div d \in Nat /\ a \div d <= a
    OBVIOUS
  <2>1. a \div d \in Nat /\ (a \div d) * d <= a
    BY DivBounds
  <2> DEFINE q == a \div d
  <2> HIDE DEF q
  <2>2. q \in Nat /\ q * d <= a
    BY <2>1 DEF q
  <2>3. q * d \in Nat /\ q <= q * d
    <3>1. 1 <= d /\ q * 1 = q
      BY <2>2
    <3>2. QED
      BY <1>6, <2>2, <3>1
  <2>4. QED
    BY <2>2, <2>3 DEF q
<1>10. /\ (A * WAD) \div N <= A * WAD /\ (A * WAD) \div N \in Nat
       /\ (A * r * WAD) \div Y <= A * r * WAD /\ (A * r * WAD) \div Y \in Nat
  BY <1>1, <1>7, <1>9
<1>11. /\ WAD + (A * WAD) \div N <= U128Max /\ WAD + (A * r * WAD) \div Y <= U128Max
       /\ A * WAD <= U128Max /\ A * r * WAD <= U128Max /\ N <= U128Max
  <2> DEFINE i == (A * WAD) \div N
             j == (A * r * WAD) \div Y
             x == A * WAD
             y == A * r * WAD
             z == A * D * WAD
  <2>1. /\ i <= x /\ i \in Nat /\ j <= y /\ j \in Nat
        /\ x <= z /\ y <= z /\ x \in Nat /\ y \in Nat /\ z \in Nat /\ WAD + z <= U128Max
    BY <1>4, <1>7, <1>10
  <2> HIDE DEF i, j, x, y, z
  <2>2. WAD + i <= U128Max /\ WAD + j <= U128Max /\ x <= U128Max /\ y <= U128Max
    BY <1>1, <2>1
  <2>3. N <= U128Max
    BY <1>1, <1>4, <1>8
  <2>4. QED
    BY <2>2, <2>3 DEF i, j, x, y
<1>12. /\ DailyRateWad(AnnualInterestBps) = (A * WAD) \div N
       /\ RestGrowth = WAD + (A * r * WAD) \div Y
  BY DEF DailyRateWad, RestGrowth, RestGrowthWad, RemainingDeltaWad, A, N, Y, r
<1>13. QED
  BY <1>4, <1>5, <1>11, <1>12 DEF A, D, N, Y, r

\* Every product of an accrual has room.
LEMMA ProductsFit ==
    ASSUME AccrualInv, HasRoom
    PROVE  /\ PowLargestProduct(WAD + DailyRateWad(AnnualInterestBps),
                                Elapsed \div SECONDS_PER_DAY) <= U128Max
           /\ DaysGrowth * RestGrowth <= U128Max
           /\ scale_factor * TotalGrowth <= U128Max
           /\ (TotalGrowth - WAD) * fee_rate_bps <= U128Max
           /\ scaled_total_supply * scale_factor <= U128Max
           /\ FeeBase * FeeDelta <= U128Max
<1> DEFINE top == EverySecond[MaturityTimestamp]
           P == PowLargestProduct(WAD + DailyRateWad(AnnualInterestBps),
                                  Elapsed \div SECONDS_PER_DAY)
<1>1. /\ AccrualTypeInv /\ ScaleIsSlow
      /\ WAD * top <= U128Max /\ BPS * top <= U128Max /\ MaxTotalSupply * top <= U128Max
  BY DEF AccrualInv, HasRoom
<1>2. /\ EffectiveNow \in Nat /\ EffectiveNow <= MaturityTimestamp
      /\ Elapsed \in Nat /\ Elapsed <= EffectiveNow /\ Elapsed <= MaturityTimestamp
  <2>1. /\ EffectiveNow \in Nat /\ EffectiveNow <= MaturityTimestamp
        /\ Elapsed \in Nat /\ last_accrual_timestamp + Elapsed = EffectiveNow
    BY <1>1, PeriodFacts
  <2>2. last_accrual_timestamp \in Nat
    BY <1>1 DEF AccrualTypeInv
  <2>3. QED
    BY <2>1, <2>2, InterestConstants
<1>3. /\ top \in Nat /\ WAD * top \in Nat
      /\ WAD * EverySecond[Elapsed] \in Nat /\ WAD * EverySecond[Elapsed] <= WAD * top
      /\ WAD * EverySecond[EffectiveNow] \in Nat
      /\ WAD * EverySecond[EffectiveNow] <= WAD * top
  BY <1>1, <1>2, WithinTheTerm
<1>4. /\ P <= WAD * EverySecond[Elapsed]
      /\ DaysGrowth * RestGrowth <= WAD * EverySecond[Elapsed]
  BY <1>2, GrowthIsSlow DEF DaysGrowth, RestGrowth
<1>5. P \in Nat /\ DaysGrowth * RestGrowth \in Nat
  <2>1. P \in Nat
    <3>1. <<WAD, WAD + DailyRateWad(AnnualInterestBps), Elapsed \div SECONDS_PER_DAY, 0>>
            \in Loops
      <4>1. WAD + DailyRateWad(AnnualInterestBps) \in Nat
        <5>1. DailyRateWad(AnnualInterestBps) \in Nat
          BY <1>2, InterestConstants, RatesRoundDown
        <5>2. QED
          BY <5>1, InterestConstants
      <4>2. Elapsed \div SECONDS_PER_DAY \in Nat
        BY <1>2, DaysAndSeconds
      <4>3. QED
        BY <4>1, <4>2, InterestConstants DEF Loops
    <3>2. QED
      BY <3>1, PowLoopRuns DEF PowLargestProduct
  <2>2. DaysGrowth \in Nat /\ RestGrowth \in Nat
    <3>1. DaysGrowth \in Nat
      BY <1>2, InterestConstants, DaysGrowthBounds DEF DaysGrowth
    <3>2. RemainingDeltaWad(AnnualInterestBps, Elapsed % SECONDS_PER_DAY) \in Nat
      <4>1. Elapsed % SECONDS_PER_DAY \in Nat
        BY <1>2, DaysAndSeconds
      <4>2. QED
        BY <4>1, InterestConstants, RatesRoundDown
    <3>3. RestGrowth \in Nat
      BY <3>2, InterestConstants DEF RestGrowth, RestGrowthWad
    <3>4. QED
      BY <3>1, <3>3
  <2> HIDE DEF P
  <2>3. QED
    BY <2>1, <2>2
<1>6. scale_factor * TotalGrowth <= WAD * EverySecond[EffectiveNow]
      /\ scale_factor * TotalGrowth \in Nat
  <2>1. scale_factor \in Nat /\ TotalGrowth \in Nat
    BY <1>1, PeriodFacts DEF AccrualTypeInv
  <2>2. QED
    BY <1>1, <2>1, AccruedScaleIsSlow
<1>7. FeeBase * FeeDelta <= MaxTotalSupply * top
  <2> DEFINE B == FeeBase
             G == TotalGrowth
             f == scale_factor
             S == scaled_total_supply
             M == MaxTotalSupply
  <2>1. /\ B \in Nat /\ G \in Nat /\ f \in Nat /\ WAD \in Nat \ {0}
        /\ S \in Nat /\ M \in Nat /\ S <= M
        /\ FeeDelta \in Nat /\ FeeDelta <= G
    BY <1>1, FeesOfACall, PeriodFacts, FeeDeltaBounds, InterestConstants 
       DEF AccrualTypeInv, SupplyIsBacked
  <2>2. B * WAD <= S * f
    <3>1. S * f \in Nat
      BY <2>1
    <3>2. QED
      BY <2>1, <3>1, DivBounds DEF FeeBase, MulWad
  <2>3. f * G <= WAD * top
    BY <1>3, <1>6
  <2> HIDE DEF B, G, f, S, M, top
  <2>4. \A k, a, b \in Nat : a <= b => k * a <= k * b /\ a * k <= b * k
    BY Z3
  <2>5. \A a, b \in Nat : a * b \in Nat
    BY Z3
  <2>6. B * FeeDelta <= B * G
    BY <2>1, <2>4
  <2>7. (B * WAD) * G <= (S * f) * G
    BY <2>1, <2>2, <2>4, <2>5
  <2>8. S * (f * G) <= S * (WAD * top)
    BY <1>3, <2>1, <2>3, <2>4, <2>5
  <2>9. /\ (B * WAD) * G = (B * G) * WAD /\ (S * f) * G = S * (f * G)
        /\ S * (WAD * top) = (S * top) * WAD
    BY <1>3, <2>1, Z3
  <2>10. /\ B * FeeDelta \in Nat /\ B * G \in Nat /\ S * top \in Nat /\ M * top \in Nat
         /\ (B * G) * WAD \in Nat /\ (S * top) * WAD \in Nat /\ S * (f * G) \in Nat
    BY <1>3, <2>1, <2>5
  <2>11. (B * G) * WAD <= (S * top) * WAD
    BY <2>7, <2>8, <2>9, <2>10
  <2>12. B * G <= S * top
    BY <2>1, <2>10, <2>11, CancelFactor
  <2>13. S * top <= M * top
    BY <1>3, <2>1, <2>4
  <2>14. B * FeeDelta <= M * top
    BY <2>6, <2>10, <2>12, <2>13
  <2>15. QED
    BY <2>14 DEF B, M
<1>8. FeeBase * FeeDelta \in Nat /\ MaxTotalSupply * top \in Nat
  <2>1. FeeBase \in Nat /\ FeeDelta \in Nat
    BY <1>1, FeesOfACall, FeeDeltaBounds
  <2>2. QED
    BY <1>3, <2>1, InterestConstants
<1>9. scaled_total_supply * scale_factor <= MaxTotalSupply * top
      /\ scaled_total_supply * scale_factor \in Nat
  <2>1. /\ scaled_total_supply \in Nat /\ scaled_total_supply <= MaxTotalSupply
        /\ scale_factor \in Nat /\ MaxTotalSupply \in Nat
    BY <1>1, InterestConstants DEF AccrualTypeInv, SupplyIsBacked
  <2>2. scale_factor <= top
    <3>1. /\ last_accrual_timestamp \in Nat /\ last_accrual_timestamp <= MaturityTimestamp
      BY <1>1, <1>2, InterestConstants DEF AccrualTypeInv
    <3>2. /\ EverySecond[last_accrual_timestamp] \in Nat
          /\ EverySecond[last_accrual_timestamp] <= top
      BY <1>1, <3>1, WithinTheTerm
    <3>3. scale_factor <= EverySecond[last_accrual_timestamp]
      BY <1>1, AccruedScaleIsSlow
    <3>4. QED
      BY <1>3, <2>1, <3>2, <3>3
  <2>3. \A k, a, b \in Nat : (a <= b => k * a <= k * b /\ a * k <= b * k) /\ a * b \in Nat
    BY Z3
  <2> HIDE DEF top
  <2>4. /\ scaled_total_supply * scale_factor <= scaled_total_supply * top
        /\ scaled_total_supply * top <= MaxTotalSupply * top
    BY <1>3, <2>1, <2>2, <2>3
  <2>5. /\ scaled_total_supply * scale_factor \in Nat /\ scaled_total_supply * top \in Nat
        /\ MaxTotalSupply * top \in Nat
    BY <1>3, <2>1, <2>3
  <2>6. QED
    BY <2>4, <2>5
<1>10. (TotalGrowth - WAD) * fee_rate_bps <= BPS * top
       /\ (TotalGrowth - WAD) * fee_rate_bps \in Nat /\ BPS * top \in Nat
  <2>1. /\ (TotalGrowth - WAD) * fee_rate_bps \in Nat
        /\ (TotalGrowth - WAD) * fee_rate_bps <= TotalGrowth * BPS
        /\ TotalGrowth \in Nat
    BY <1>1, FeeDeltaBounds, PeriodFacts
  <2>2. TotalGrowth <= top
    <3>1. TotalGrowth <= EverySecond[Elapsed]
      <4>1. TotalGrowth \in Slow(Elapsed)
        BY <1>2, GrowthIsSlow DEF TotalGrowth
      <4>2. QED
        BY <1>2, <4>1, SlowIsBounded
    <3>2. EverySecond[Elapsed] \in Nat /\ EverySecond[Elapsed] <= top
      BY <1>1, <1>2, WithinTheTerm
    <3>3. QED
      BY <1>3, <2>1, <3>1, <3>2
  <2>3. \A k, a, b \in Nat : (a <= b => a * k <= k * b) /\ a * b \in Nat /\ k * b \in Nat
    BY Z3
  <2> HIDE DEF top
  <2>4. TotalGrowth * BPS <= BPS * top /\ TotalGrowth * BPS \in Nat /\ BPS * top \in Nat
    BY <1>3, <2>1, <2>2, <2>3, InterestConstants
  <2>5. QED
    BY <2>1, <2>4
<1> HIDE DEF top, P
<1>11. /\ P <= U128Max /\ DaysGrowth * RestGrowth <= U128Max
       /\ scale_factor * TotalGrowth <= U128Max /\ FeeBase * FeeDelta <= U128Max
       /\ (TotalGrowth - WAD) * fee_rate_bps <= U128Max
       /\ scaled_total_supply * scale_factor <= U128Max
  BY <1>1, <1>3, <1>4, <1>5, <1>6, <1>7, <1>8, <1>9, <1>10, InterestConstants
<1>12. QED
  BY <1>11 DEF P

\* The fees, now and after a call, in figures of the cap on principal.
LEMMA FeesWithinCap ==
    ASSUME AccrualInv
    PROVE  LET K == HighestRate * MaxTotalSupply
           IN  /\ accrued_protocol_fees * BPS * WAD <= K * (scale_factor - WAD + calls)
               /\ NewFees \in Nat
               /\ NewFees * BPS * WAD <= K * (AccruedScale - WAD + (calls + 1))
<1> DEFINE K == HighestRate * MaxTotalSupply
           x == scale_factor - WAD + calls
           y == AccruedScale - WAD + (calls + 1)
<1>1. /\ AccrualTypeInv /\ FeesWithinInterest /\ ChargedWithinCap
  BY DEF AccrualInv
<1>2. /\ charged \in Nat /\ charged <= K * x /\ Charged \in Nat /\ Charged <= K * y
  BY <1>1, NextFeesWithin, NextChargedWithin DEF ChargedWithinCap
<1>3. /\ accrued_protocol_fees * BPS * WAD <= charged
      /\ NewFees \in Nat /\ NewFees * BPS * WAD <= Charged
  BY <1>1, NextFeesWithin DEF FeesWithinInterest
<1>4. /\ accrued_protocol_fees * BPS * WAD \in Nat /\ NewFees * BPS * WAD \in Nat
  <2>1. \A a, b, c \in Nat : a * b * c \in Nat
    BY Z3
  <2>2. accrued_protocol_fees \in Nat /\ BPS \in Nat /\ WAD \in Nat
    BY <1>1, InterestConstants DEF AccrualTypeInv
  <2>3. QED
    BY <1>3, <2>1, <2>2
<1>5. K * x \in Int /\ K * y \in Int
  <2>1. HighestRate \in Int /\ MaxTotalSupply \in Int /\ x \in Int /\ y \in Int
    <3>1. TotalGrowth \in Nat /\ AccruedScale \in Nat
      BY <1>1, PeriodFacts
    <3>2. /\ scale_factor \in Nat /\ calls \in Nat /\ WAD \in Nat
          /\ MaxTotalSupply \in Nat /\ HighestRate \in Nat
      BY <1>1, HighestRateIsHighest, InterestConstants DEF AccrualTypeInv
    <3>3. QED
      BY <3>1, <3>2
  <2>2. \A a, b \in Int : a * b \in Int
    BY Z3
  <2> HIDE DEF x, y
  <2>3. QED
    BY <2>1, <2>2
<1> HIDE DEF K, x, y
<1>6. /\ accrued_protocol_fees * BPS * WAD <= K * x
      /\ NewFees * BPS * WAD <= K * y
  BY <1>2, <1>3, <1>4, <1>5
<1>7. QED
  BY <1>3, <1>6 DEF K, x, y

\* So have the fees.
LEMMA FeesFit ==
    ASSUME AccrualInv, HasRoom
    PROVE  NewFees <= U64Max
<1> DEFINE top == EverySecond[MaturityTimestamp]
           K == HighestRate * MaxTotalSupply
           M == MaturityTimestamp
<1>1. /\ AccrualTypeInv /\ ScaleIsSlow
      /\ K * (top - WAD + M) <= U64Max * BPS * WAD
  BY DEF AccrualInv, HasRoom
<1>2. /\ EffectiveNow \in Nat /\ EffectiveNow <= M /\ Elapsed \in Nat
      /\ last_accrual_timestamp + Elapsed = EffectiveNow
      /\ TotalGrowth \in Nat /\ TotalGrowth >= WAD /\ AccruedScale \in Nat
      /\ AccruedScale >= scale_factor + (TotalGrowth - WAD)
  BY <1>1, PeriodFacts
<1>3. /\ scale_factor \in Nat /\ scale_factor >= WAD /\ calls \in Nat
      /\ last_accrual_timestamp \in Nat /\ calls <= last_accrual_timestamp
      /\ accrued_protocol_fees \in Nat /\ WAD \in Nat /\ BPS \in Nat \ {0} /\ M \in Nat
      /\ WAD # 0
  BY <1>1, InterestConstants DEF AccrualTypeInv
<1>4. K \in Nat
  <2>1. HighestRate \in Nat
    BY <1>1, HighestRateIsHighest, InterestConstants DEF AccrualTypeInv
  <2>2. QED
    BY <2>1, InterestConstants
<1>5. /\ top \in Nat /\ EverySecond[EffectiveNow] \in Nat /\ EverySecond[EffectiveNow] <= top
      /\ EverySecond[last_accrual_timestamp] \in Nat
      /\ EverySecond[last_accrual_timestamp] <= top
  <2>1. last_accrual_timestamp <= M
    BY <1>2, <1>3
  <2>2. QED
    BY <1>1, <1>2, <1>3, <2>1, WithinTheTerm
<1>6. NewFees \in Nat /\ NewFees * BPS * WAD <= K * (top - WAD + M)
  <2>1. \A a, b \in Nat : a <= b => K * a <= K * b /\ K * a \in Nat /\ K * b \in Nat
    <3> HIDE DEF K
    <3>1. QED
      BY <1>4, Z3
  <2>2. NewFees \in Nat
    BY FeesWithinCap
  <2>3. CASE Elapsed = 0
    <3>1. FeeDelta = 0
      <4>1. TotalGrowth = WAD
        BY <2>3, NoDaysNoGrowth, InterestConstants DEF TotalGrowth
      <4>2. QED
        BY <1>1, <4>1, FeeDeltaBounds
    <3>2. NewFees = accrued_protocol_fees
      <4>1. FeeBase \in Nat
        BY <1>1, FeesOfACall
      <4>2. MulWad(FeeBase, 0) = 0
        <5>1. FeeBase * 0 = 0
          BY <4>1
        <5>2. \A d \in Nat \ {0} : 0 \div d = 0
          BY Z3
        <5>3. QED
          BY <1>3, <5>1, <5>2 DEF MulWad
      <4>3. QED
        BY <1>3, <3>1, <4>2 DEF NewFees
    <3>3. accrued_protocol_fees * BPS * WAD <= K * (scale_factor - WAD + calls)
      BY FeesWithinCap
    <3>4. scale_factor <= EverySecond[last_accrual_timestamp]
      BY <1>1, AccruedScaleIsSlow
    <3> HIDE DEF top, K, M
    <3>5. /\ scale_factor - WAD + calls \in Nat /\ top - WAD + M \in Nat
          /\ scale_factor - WAD + calls <= top - WAD + M
      BY <1>2, <1>3, <1>5, <3>4
    <3>6. accrued_protocol_fees * BPS * WAD \in Nat
      <4>1. \A a, b, c \in Nat : a * b * c \in Nat
        BY Z3
      <4>2. QED
        BY <1>3, <4>1
    <3>7. accrued_protocol_fees * BPS * WAD <= K * (top - WAD + M)
      BY <2>1, <3>3, <3>5, <3>6
    <3>8. QED
      BY <2>2, <3>2, <3>7
  <2>4. CASE Elapsed # 0
    <3>1. NewFees * BPS * WAD <= K * (AccruedScale - WAD + (calls + 1))
      BY FeesWithinCap
    <3>2. AccruedScale <= EverySecond[EffectiveNow]
      BY <1>1, AccruedScaleIsSlow
    <3> HIDE DEF top, K, M
    <3>3. /\ AccruedScale - WAD + (calls + 1) \in Nat /\ top - WAD + M \in Nat
          /\ AccruedScale - WAD + (calls + 1) <= top - WAD + M
      BY <1>2, <1>3, <1>5, <2>4, <3>2
    <3>4. NewFees * BPS * WAD \in Nat
      <4>1. \A a, b, c \in Nat : a * b * c \in Nat
        BY Z3
      <4>2. QED
        BY <1>3, <2>2, <4>1
    <3>5. NewFees * BPS * WAD <= K * (top - WAD + M)
      BY <2>1, <3>1, <3>3, <3>4
    <3>6. QED
      BY <2>2, <3>5
  <2>5. QED
    BY <2>3, <2>4
<1> HIDE DEF top, K, M
<1>7. NewFees * (BPS * WAD) <= U64Max * (BPS * WAD)
  <2>1. U64Max \in Nat
    BY InterestConstants
  <2>2. NewFees * BPS * WAD = NewFees * (BPS * WAD)
        /\ U64Max * BPS * WAD = U64Max * (BPS * WAD)
    BY <1>3, <1>6, <2>1, Z3
  <2>3. /\ NewFees * (BPS * WAD) \in Nat /\ U64Max * (BPS * WAD) \in Nat
        /\ K * (top - WAD + M) \in Int
    <3>1. \A a, b \in Nat : a * b \in Nat
      BY Z3
    <3>2. \A a, b \in Int : a * b \in Int
      BY Z3
    <3>3. top - WAD + M \in Int
      BY <1>3, <1>5
    <3>4. QED
      BY <1>3, <1>4, <1>6, <2>1, <3>1, <3>2, <3>3
  <2>4. QED
    BY <1>1, <1>6, <2>2, <2>3
<1>8. BPS * WAD \in Nat \ {0}
  <2>1. \A a, b \in Nat \ {0} : a * b \in Nat \ {0}
    BY Z3
  <2>2. QED
    BY <1>3, <2>1
<1>9. QED
  BY <1>6, <1>7, <1>8, InterestConstants, CancelFactor

\* Where the integers have room for the longest life of the market, no cut of the
\* time and no change of the fee rate makes an accrual fail: every checked operation
\* of accrue_interest after the check of its clock succeeds, those of pow_wad and
\* mul_wad included, so no instruction is refused for the arithmetic of its interest.
THEOREM InterestAlwaysAccrues == HasRoom => (Spec => []AccrualNeverFails)
<1> SUFFICES ASSUME HasRoom PROVE Spec => []AccrualNeverFails
  OBVIOUS
<1>1. AccrualInv => AccrualNeverFails
  <2> SUFFICES ASSUME AccrualInv PROVE AccrualFits
    BY DEF AccrualNeverFails
  <2>1. \A figure \in GrowthFigures : figure <= U128Max
    BY RatesFit, ProductsFit DEF GrowthFigures
  <2>2. \A figure \in FeeFigures : figure <= U128Max
    BY ProductsFit DEF FeeFigures
  <2>3. TotalGrowth >= WAD
    BY PeriodFacts DEF AccrualInv
  <2>4. QED
    BY <2>1, <2>2, <2>3, RatesFit, FeesFit DEF AccrualFits
<1>2. QED
  BY <1>1, AccrualInvariant, PTL
==============================================================================
