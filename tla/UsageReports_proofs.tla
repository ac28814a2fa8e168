-------------------------- MODULE UsageReports_proofs --------------------------
(***************************************************************************)
(* For any calls, queries and bounds: the two statements of a report       *)
(* follow each other; reports of one moment add up to each other, and the  *)
(* nodes of a tree to the rows below them; and a client that pages through *)
(* a list, while rows arrive late and the window moves, misses nothing but *)
(* what may be missed.  Whoever is listed before the walk began, has not   *)
(* been read and ties with nobody has at least as many in front of it as   *)
(* the offset says; an empty page means that nobody has.                   *)
(***************************************************************************)
EXTENDS UsageReports, FiniteSetTheorems, SequenceTheorems, TLAPS

LEMMA LeastNat ==
  ASSUME NEW T, T \subseteq Nat, T # {}
  PROVE  \E x \in T : \A y \in T : x <= y
<1> DEFINE R == OpToRel(<, Nat)
<1>1. IsWellFoundedOn(R, Nat)
  BY NatLessThanWellFounded
<1>2. \A x, y \in Nat : ~(<<y, x>> \in R) => x <= y
  BY DEF OpToRel
<1> HIDE DEF R
<1>3. PICK x \in T : \A y \in T : ~(<<y, x>> \in R)
  BY <1>1, WFMin
<1> QED
  BY <1>2, <1>3

LEMMA Induction ==
  ASSUME NEW S, 0 \in S, \A n \in Nat : n \in S => n + 1 \in S
  PROVE  Nat \subseteq S
<1> DEFINE T == Nat \ S
<1>1. ASSUME T # {} PROVE FALSE
  <2>1. PICK m \in T : \A k \in T : m <= k
    BY <1>1, LeastNat
  <2>2. m # 0 /\ m - 1 \in Nat /\ (m - 1) + 1 = m
    OBVIOUS
  <2>3. m - 1 \in S
    BY <2>1, <2>2
  <2> QED
    BY <2>2, <2>3
<1> QED
  BY <1>1

LEMMA MinIsFirst ==
  ASSUME NEW T, T \subseteq Nat, T # {}
  PROVE  Min(T) \in T
BY LeastNat DEF Min

LEMMA MaxIsLast ==
  ASSUME NEW n \in Nat, NEW T, T \subseteq 0..n, T # {}
  PROVE  Max(T) \in T /\ \A y \in T : y <= Max(T)
<1> DEFINE D == { n - i : i \in T }
<1>1. PICK d \in D : \A e \in D : d <= e
  <2>1. D \subseteq Nat
    OBVIOUS
  <2>2. PICK i \in T : TRUE
    OBVIOUS
  <2>3. n - i \in D
    OBVIOUS
  <2> QED
    BY <2>1, <2>3, LeastNat
<1>2. PICK x \in T : d = n - x
  OBVIOUS
<1>3. ASSUME NEW y \in T PROVE x >= y
  <2>1. n - y \in D
    OBVIOUS
  <2>2. n - x <= n - y
    BY <1>1, <1>2, <2>1
  <2> QED
    BY <2>2
<1> QED
  BY <1>3 DEF Max

-----------------------------------------------------------------------------
(* Lists in some order, given by those who are ahead of each: the ranks of *)
(* n elements are 0 to n-1.                                                *)

IsOrder(L, A) ==
  /\ IsFiniteSet(L)
  /\ \A x \in L : A[x] \subseteq L /\ x \notin A[x]
  /\ \A x, y \in L : x # y => x \in A[y] \/ y \in A[x]
  /\ \A x, y \in L : x \in A[y] => A[x] \subseteq A[y]

LEMMA RanksAreNumbers ==
  ASSUME NEW L, NEW A, IsOrder(L, A)
  PROVE  \A x \in L : Cardinality(A[x]) \in Nat
<1>1. \A x \in L : IsFiniteSet(A[x])
  BY FS_Subset DEF IsOrder
<1> QED
  BY <1>1, FS_CardinalityType

LEMMA AheadRanksLower ==
  ASSUME NEW L, NEW A, IsOrder(L, A), NEW x \in L, NEW y \in L, x \in A[y]
  PROVE  Cardinality(A[x]) < Cardinality(A[y])
<1>1. IsFiniteSet(A[y]) /\ A[x] \in SUBSET A[y] /\ A[x] # A[y]
  BY FS_Subset DEF IsOrder
<1>2. Cardinality(A[x]) <= Cardinality(A[y]) /\ Cardinality(A[x]) # Cardinality(A[y])
  BY <1>1, FS_Subset
<1> QED
  BY <1>2, RanksAreNumbers

LEMMA RanksDiffer ==
  ASSUME NEW L, NEW A, IsOrder(L, A), NEW x \in L, NEW y \in L,
         Cardinality(A[x]) = Cardinality(A[y])
  PROVE  x = y
<1>1. x \notin A[y] /\ y \notin A[x]
  BY AheadRanksLower, RanksAreNumbers
<1> QED
  BY <1>1 DEF IsOrder

(* Ranks fit into an interval only as often as it has numbers.             *)
LEMMA RanksCount ==
  ASSUME NEW L, NEW A, IsOrder(L, A), NEW a \in Nat, NEW n \in Nat, NEW S,
         S \subseteq L, \A x \in S : Cardinality(A[x]) \in a..(a + n - 1)
  PROVE  IsFiniteSet(S) /\ Cardinality(S) \in Nat /\ Cardinality(S) <= n
<1> DEFINE f == [x \in S |-> Cardinality(A[x])]
           T == a..(a + n - 1)
<1>1. f \in Injection(S, T)
  <2>1. f \in [S -> T]
    OBVIOUS
  <2>2. ASSUME NEW x \in S, NEW y \in S, f[x] = f[y] PROVE x = y
    BY <2>2, RanksDiffer
  <2> QED
    BY <2>1, <2>2 DEF Injection, IsInjective
<1>2. IsFiniteSet(T) /\ Cardinality(T) = n
  BY FS_Interval
<1> HIDE DEF f, T
<1>3. IsFiniteSet(S) /\ Cardinality(S) <= Cardinality(T)
  BY <1>1, <1>2, FS_Injection
<1> QED
  BY <1>2, <1>3, FS_CardinalityType

(* No rank is left out below one that is taken.                            *)
LEMMA RanksHaveNoGap ==
  ASSUME NEW L, NEW A, IsOrder(L, A), NEW x \in L, NEW k \in Nat, k <= Cardinality(A[x])
  PROVE  \E y \in L : Cardinality(A[y]) = k
<1> DEFINE ranks == { Cardinality(A[y]) : y \in { z \in L : k <= Cardinality(A[z]) } }
<1>1. ranks \subseteq Nat /\ Cardinality(A[x]) \in ranks
  BY RanksAreNumbers
<1>2. PICK r \in ranks : \A s \in ranks : r <= s
  BY <1>1, LeastNat
<1>3. PICK y \in L : k <= Cardinality(A[y]) /\ r = Cardinality(A[y])
  BY <1>2
<1>4. r \in Nat /\ k <= r
  BY <1>1, <1>3
<1>5. ASSUME NEW z \in A[y] PROVE Cardinality(A[z]) \in 0..(0 + k - 1)
  <2>1. z \in L
    BY DEF IsOrder
  <2>2. Cardinality(A[z]) \in Nat /\ Cardinality(A[z]) < r
    BY <1>3, <2>1, AheadRanksLower, RanksAreNumbers
  <2>3. Cardinality(A[z]) \notin ranks
    BY <1>2, <1>4, <2>2
  <2>4. ~(k <= Cardinality(A[z]))
    BY <2>1, <2>3
  <2> QED
    BY <2>2, <2>4
<1> HIDE DEF ranks
<1>6. Cardinality(A[y]) <= k
  BY <1>5, RanksCount DEF IsOrder
<1> QED
  BY <1>3, <1>4, <1>6

(* A page takes the ranks from the offset on: whoever is neither on it nor *)
(* before it is behind it, and behind an empty one there is nobody.        *)
LEMMA PageTurns ==
  ASSUME NEW L, NEW A, IsOrder(L, A), NEW o \in Nat, NEW l \in Nat, l > 0,
         NEW P, P = {x \in L : Cardinality(A[x]) \in o..(o + l - 1)}
  PROVE  /\ Cardinality(P) \in Nat
         /\ \A x \in L \ P : o <= Cardinality(A[x]) => o + Cardinality(P) <= Cardinality(A[x])
         /\ P = {} => \A x \in L : Cardinality(A[x]) < o
<1>1. Cardinality(P) \in Nat /\ Cardinality(P) <= l
  BY RanksCount
<1>2. ASSUME NEW x \in L \ P, o <= Cardinality(A[x])
      PROVE  o + Cardinality(P) <= Cardinality(A[x])
  <2>1. Cardinality(A[x]) \in Nat
    BY RanksAreNumbers
  <2>2. ~(Cardinality(A[x]) <= o + l - 1)
    BY <1>2, <2>1
  <2> QED
    BY <1>1, <2>1, <2>2
<1>3. ASSUME P = {}, NEW x \in L PROVE Cardinality(A[x]) < o
  <2>1. Cardinality(A[x]) \in Nat
    BY RanksAreNumbers
  <2>2. CASE o <= Cardinality(A[x])
    <3>1. PICK y \in L : Cardinality(A[y]) = o
      BY <2>2, RanksHaveNoGap
    <3>2. y \in P
      BY <3>1
    <3> QED
      BY <1>3, <3>2
  <2> QED
    BY <2>1, <2>2
<1> QED
  BY <1>1, <1>2, <1>3

LEMMA LimitIsPositive ==
  ASSUME NEW l \in Int
  PROVE  /\ ClampLimit(l, DefaultLimit, MaxLimit) \in Nat
         /\ ClampLimit(l, DefaultLimit, MaxLimit) > 0
BY UsageReportsAssumption DEF ClampLimit

LEMMA MoreAhead ==
  ASSUME NEW B, NEW C, IsFiniteSet(C), B \subseteq C, NEW o \in Nat, o <= Cardinality(B)
  PROVE  o <= Cardinality(C)
<1>1. Cardinality(B) <= Cardinality(C) /\ IsFiniteSet(B)
  BY FS_Subset
<1>2. Cardinality(B) \in Nat /\ Cardinality(C) \in Nat
  BY <1>1, FS_CardinalityType
<1> QED
  BY <1>1, <1>2

-----------------------------------------------------------------------------
(* Midnights come in order, each after the times it is the next one of.    *)
LEMMA Midnight ==
  ASSUME NEW t \in Nat
  PROVE  /\ (t \div DayLength + 1) * DayLength \in Nat
         /\ t < (t \div DayLength + 1) * DayLength
         /\ (t \div DayLength + 1) * DayLength
               <= ((t + 1) \div DayLength + 1) * DayLength
<1> DEFINE D == DayLength
           a == t \div D
           b == (t + 1) \div D
<1>1. D \in Nat /\ D > 0
  BY UsageReportsAssumption
<1>2. /\ a \in Nat /\ a * D <= t /\ t < (a + 1) * D
      /\ b \in Nat /\ b * D <= t + 1 /\ t + 1 < (b + 1) * D
  BY <1>1
<1> HIDE DEF a, b, D
<1>3. a <= b
  <2>1. CASE b < a
    <3>1. (b + 1) * D <= a * D
      BY <1>1, <1>2, <2>1
    <3> QED
      BY <1>1, <1>2, <3>1
  <2> QED
    BY <1>2, <2>1
<1>4. (a + 1) * D <= (b + 1) * D
  BY <1>1, <1>2, <1>3
<1>5. (a + 1) * D \in Nat
  BY <1>1, <1>2
<1> QED
  BY <1>2, <1>4, <1>5 DEF a, b, D

-----------------------------------------------------------------------------
(* Sums over a finite set: MapThenSumSet takes one element after another.  *)
Pick(s) == CHOOSE x \in s : TRUE

Sums(it, c, U) ==
  it = [s \in SUBSET U |-> IF s = {} THEN 0 ELSE c[Pick(s)] + it[s \ {Pick(s)}]]

SumUp(c, S) == (CHOOSE it : Sums(it, c, S))[S]

LEMMA Picked ==
  ASSUME NEW s, s # {}
  PROVE  Pick(s) \in s /\ s \ {Pick(s)} \in SUBSET s /\ s \ {Pick(s)} # s
<1>1. Pick(s) \in s
  BY DEF Pick
<1> QED
  BY <1>1

\* What holds of a set when it holds of its proper subsets holds of all.
LEMMA InductionOnSubsets ==
  ASSUME NEW U, IsFiniteSet(U), NEW P,
         \A T \in SUBSET U : (\A R \in SUBSET T : R # T => R \in P) => T \in P
  PROVE  \A T \in SUBSET U : T \in P
<1> DEFINE S == {n \in Nat : \A T \in SUBSET U : Cardinality(T) <= n => T \in P}
<1>1. ASSUME NEW T \in SUBSET U
      PROVE  IsFiniteSet(T) /\ Cardinality(T) \in Nat
  BY FS_Subset, FS_CardinalityType
<1>2. ASSUME NEW T \in SUBSET U, NEW R \in SUBSET T, R # T
      PROVE  R \in SUBSET U /\ Cardinality(R) < Cardinality(T)
  <2>1. Cardinality(R) <= Cardinality(T) /\ Cardinality(R) # Cardinality(T)
    BY <1>1, <1>2, FS_Subset
  <2> QED
    BY <1>1, <2>1
<1>3. 0 \in S
  <2>1. ASSUME NEW T \in SUBSET U, Cardinality(T) <= 0 PROVE T \in P
    <3>1. ASSUME NEW R \in SUBSET T, R # T PROVE FALSE
      BY <1>1, <1>2, <2>1, <3>1
    <3> QED
      BY <3>1
  <2> QED
    BY <2>1
<1>4. ASSUME NEW n \in Nat, n \in S PROVE n + 1 \in S
  <2>1. ASSUME NEW T \in SUBSET U, Cardinality(T) <= n + 1 PROVE T \in P
    <3>1. ASSUME NEW R \in SUBSET T, R # T PROVE R \in P
      <4>1. R \in SUBSET U /\ Cardinality(R) <= n
        BY <1>1, <1>2, <2>1, <3>1
      <4> QED
        BY <1>4, <4>1
    <3> QED
      BY <3>1
  <2> QED
    BY <2>1
<1>5. Nat \subseteq S
  <2> HIDE DEF S
  <2> QED
    BY <1>3, <1>4, Induction
<1> QED
  BY <1>1, <1>5

LEMMA SumsAt ==
  ASSUME NEW it, NEW c, NEW U, Sums(it, c, U), NEW s \in SUBSET U
  PROVE  it[s] = IF s = {} THEN 0 ELSE c[Pick(s)] + it[s \ {Pick(s)}]
<1> DEFINE Body(g, r) == IF r = {} THEN 0 ELSE c[Pick(r)] + g[r \ {Pick(r)}]
<1>1. it = [r \in SUBSET U |-> Body(it, r)]
  BY DEF Sums
<1>2. it[s] = Body(it, s)
  <2> HIDE DEF Body
  <2> QED
    BY <1>1
<1> QED
  BY <1>2

\* Two functions that sum the same terms are equal wherever both are defined.
LEMMA SumsAgree ==
  ASSUME NEW U, IsFiniteSet(U), NEW V, U \subseteq V, NEW c, NEW d,
         \A x \in U : c[x] = d[x],
         NEW i, Sums(i, c, U), NEW j, Sums(j, d, V)
  PROVE  \A s \in SUBSET U : i[s] = j[s]
<1> DEFINE P == {s \in SUBSET U : i[s] = j[s]}
<1>1. ASSUME NEW T \in SUBSET U, \A R \in SUBSET T : R # T => R \in P PROVE T \in P
  <2>1. /\ i[T] = IF T = {} THEN 0 ELSE c[Pick(T)] + i[T \ {Pick(T)}]
        /\ j[T] = IF T = {} THEN 0 ELSE d[Pick(T)] + j[T \ {Pick(T)}]
    BY SumsAt
  <2>2. CASE T = {}
    BY <2>1, <2>2
  <2>3. CASE T # {}
    <3>1. Pick(T) \in T /\ T \ {Pick(T)} \in SUBSET T /\ T \ {Pick(T)} # T
      BY <2>3, Picked
    <3>2. i[T \ {Pick(T)}] = j[T \ {Pick(T)}]
      BY <1>1, <3>1
    <3> QED
      BY <2>1, <2>3, <3>1, <3>2
  <2> QED
    BY <2>2, <2>3
<1> HIDE DEF P
<1>2. \A T \in SUBSET U : T \in P
  BY <1>1, InductionOnSubsets
<1> QED
  BY <1>2 DEF P

\* A finite set has a sum: the CHOOSE in the definition has a witness.
LEMMA SumsExist ==
  ASSUME NEW U, IsFiniteSet(U), NEW c
  PROVE  \E it : Sums(it, c, U)
<1> DEFINE P == {T \in SUBSET U : \E it : Sums(it, c, T)}
           F(r) == SumUp(c, r)
<1>1. ASSUME NEW T \in SUBSET U, \A R \in SUBSET T : R # T => R \in P PROVE T \in P
  <2> DEFINE Body(r) == IF r = {} THEN 0 ELSE c[Pick(r)] + F(r \ {Pick(r)})
             it == [s \in SUBSET T |-> Body(s)]
  <2>1. ASSUME NEW R \in SUBSET T, R # T
        PROVE  \E g : Sums(g, c, R) /\ F(R) = g[R]
    <3> DEFINE g == CHOOSE h : Sums(h, c, R)
    <3>1. R \in P
      BY <1>1, <2>1
    <3>2. Sums(g, c, R)
      BY <3>1
    <3>3. F(R) = g[R]
      BY DEF SumUp
    <3> QED
      BY <3>2, <3>3
  <2>2. ASSUME NEW R \in SUBSET T, R # T PROVE F(R) = Body(R)
    <3>1. PICK g : Sums(g, c, R) /\ F(R) = g[R]
      BY <2>1, <2>2
    <3>2. g[R] = IF R = {} THEN 0 ELSE c[Pick(R)] + g[R \ {Pick(R)}]
      <4> HIDE DEF F
      <4>1. Sums(g, c, R) /\ R \in SUBSET R
        BY <3>1
      <4> QED
        BY <4>1, SumsAt
    <3>3. CASE R = {}
      BY <3>1, <3>2, <3>3
    <3>4. CASE R # {}
      <4> DEFINE Q == R \ {Pick(R)}
      <4>1. Q \in SUBSET R /\ Q # R
        BY <3>4, Picked
      <4>2. Q \in SUBSET T /\ Q # T
        BY <4>1
      <4> HIDE DEF Q, F
      <4>3. PICK h : Sums(h, c, Q) /\ F(Q) = h[Q]
        BY <2>1, <4>2
      <4>4. IsFiniteSet(Q)
        BY <4>2, FS_Subset
      <4>5. h[Q] = g[Q]
        <5>1. \A s \in SUBSET Q : h[s] = g[s]
          BY <3>1, <4>1, <4>3, <4>4, SumsAgree
        <5> QED
          BY <5>1
      <4> QED
        BY <3>1, <3>2, <3>4, <4>3, <4>5 DEF Q
    <3> QED
      BY <3>3, <3>4
  <2> HIDE DEF F
  <2>3. ASSUME NEW s \in SUBSET T
        PROVE  it[s] = IF s = {} THEN 0 ELSE c[Pick(s)] + it[s \ {Pick(s)}]
    <3>1. it[s] = Body(s)
      OBVIOUS
    <3>2. CASE s = {}
      BY <3>1, <3>2
    <3>3. CASE s # {}
      <4> DEFINE r == s \ {Pick(s)}
      <4>1. r \in SUBSET s /\ r # s
        BY <3>3, Picked
      <4>2. r \in SUBSET T /\ r # T
        BY <4>1
      <4>3. F(r) = Body(r) /\ it[r] = Body(r)
        <5> HIDE DEF r, Body
        <5> QED
          BY <2>2, <4>2
      <4>4. it[s] = c[Pick(s)] + F(r)
        BY <3>1, <3>3
      <4> HIDE DEF it, Body
      <4> QED
        BY <3>3, <4>3, <4>4 DEF r
    <3> QED
      BY <3>2, <3>3
  <2>4. it = [s \in SUBSET T |-> it[s]]
    OBVIOUS
  <2> HIDE DEF it
  <2>5. Sums(it, c, T)
    BY <2>3, <2>4 DEF Sums
  <2> QED
    BY <2>5
<1> HIDE DEF P
<1>2. U \in P
  BY <1>1, InductionOnSubsets
<1> QED
  BY <1>2 DEF P

LEMMA SumUpSums ==
  ASSUME NEW U, IsFiniteSet(U), NEW c, NEW it, Sums(it, c, U), NEW s \in SUBSET U
  PROVE  it[s] = SumUp(c, s)
<1> DEFINE g == CHOOSE h : Sums(h, c, s)
<1>1. IsFiniteSet(s)
  BY FS_Subset
<1>2. Sums(g, c, s)
  BY <1>1, SumsExist
<1>3. SumUp(c, s) = g[s]
  BY DEF SumUp
<1> HIDE DEF g
<1>4. g[s] = it[s]
  BY <1>1, <1>2, SumsAgree
<1> QED
  BY <1>3, <1>4

LEMMA SumOfPicked ==
  ASSUME NEW S, IsFiniteSet(S), NEW c
  PROVE  SumUp(c, S) = IF S = {} THEN 0 ELSE c[Pick(S)] + SumUp(c, S \ {Pick(S)})
<1>1. PICK i : Sums(i, c, S)
  BY SumsExist
<1>2. i[S] = IF S = {} THEN 0 ELSE c[Pick(S)] + i[S \ {Pick(S)}]
  BY <1>1, SumsAt
<1>3. i[S] = SumUp(c, S) /\ i[S \ {Pick(S)}] = SumUp(c, S \ {Pick(S)})
  BY <1>1, SumUpSums
<1> QED
  BY <1>2, <1>3

LEMMA SumOfNone ==
  ASSUME NEW c
  PROVE  SumUp(c, {}) = 0
BY SumOfPicked, FS_EmptySet

LEMMA SumIsNat ==
  ASSUME NEW S, IsFiniteSet(S), NEW c, \A x \in S : c[x] \in Nat
  PROVE  SumUp(c, S) \in Nat
<1> DEFINE P == {T \in SUBSET S : SumUp(c, T) \in Nat}
<1>1. ASSUME NEW T \in SUBSET S, \A R \in SUBSET T : R # T => R \in P PROVE T \in P
  <2>0. IsFiniteSet(T)
    BY FS_Subset
  <2>1. SumUp(c, T) = IF T = {} THEN 0 ELSE c[Pick(T)] + SumUp(c, T \ {Pick(T)})
    BY <2>0, SumOfPicked
  <2>2. CASE T = {}
    BY <2>1, <2>2
  <2>3. CASE T # {}
    <3>1. Pick(T) \in T /\ T \ {Pick(T)} \in SUBSET T /\ T \ {Pick(T)} # T
      BY <2>3, Picked
    <3>2. SumUp(c, T \ {Pick(T)}) \in Nat /\ c[Pick(T)] \in Nat
      BY <1>1, <3>1
    <3> QED
      BY <2>1, <2>3, <3>2
  <2> QED
    BY <2>2, <2>3
<1> HIDE DEF P
<1>2. S \in P
  BY <1>1, InductionOnSubsets
<1> QED
  BY <1>2 DEF P

\* It does not matter which element is taken first.
LEMMA SumWithout ==
  ASSUME NEW S, IsFiniteSet(S), NEW c, \A x \in S : c[x] \in Nat, NEW y \in S
  PROVE  SumUp(c, S) = c[y] + SumUp(c, S \ {y})
<1> DEFINE P == {T \in SUBSET S : \A x \in T : SumUp(c, T) = c[x] + SumUp(c, T \ {x})}
<1>1. ASSUME NEW T \in SUBSET S, \A R \in SUBSET T : R # T => R \in P PROVE T \in P
  <2>0. IsFiniteSet(T)
    BY FS_Subset
  <2>1. ASSUME NEW x \in T PROVE SumUp(c, T) = c[x] + SumUp(c, T \ {x})
    <3> DEFINE p == Pick(T)
               A == T \ {p}
               B == T \ {x}
               C == A \ {x}
    <3>1. p \in T
      BY <2>1, Picked
    <3>2. SumUp(c, T) = c[p] + SumUp(c, A)
      BY <2>0, <2>1, SumOfPicked
    <3> HIDE DEF p
    <3>3. CASE x = p
      BY <3>2, <3>3
    <3>4. CASE x # p
      <4>1. x \in A /\ p \in B /\ C = A \ {x} /\ C = B \ {p} /\ B = T \ {x}
        BY <3>1, <3>4
      <4>2. A \in SUBSET T /\ A # T /\ B \in SUBSET T /\ B # T /\ C \in SUBSET S
        BY <3>1
      <4> HIDE DEF A, B, C
      <4>3. SumUp(c, A) = c[x] + SumUp(c, C)
        BY <1>1, <4>1, <4>2
      <4>4. SumUp(c, B) = c[p] + SumUp(c, C)
        BY <1>1, <4>1, <4>2
      <4>5. SumUp(c, C) \in Nat
        BY <4>2, SumIsNat, FS_Subset
      <4>6. c[x] \in Nat /\ c[p] \in Nat
        BY <2>1, <3>1
      <4>7. SumUp(c, T) = c[x] + SumUp(c, B)
        BY <3>2, <4>3, <4>4, <4>5, <4>6
      <4> QED
        BY <4>7 DEF B
    <3> QED
      BY <3>3, <3>4
  <2> QED
    BY <2>1
<1> HIDE DEF P
<1>2. S \in P
  BY <1>1, InductionOnSubsets
<1> QED
  BY <1>2 DEF P

\* Sets that have nothing in common: the sums add up.
LEMMA SumOfBoth ==
  ASSUME NEW A, IsFiniteSet(A), NEW B, IsFiniteSet(B), A \cap B = {},
         NEW c, \A x \in A \cup B : c[x] \in Nat
  PROVE  SumUp(c, A \cup B) = SumUp(c, A) + SumUp(c, B)
<1> DEFINE P == {T \in SUBSET B : SumUp(c, A \cup T) = SumUp(c, A) + SumUp(c, T)}
<1>0. SumUp(c, A) \in Nat
  BY SumIsNat
<1>1. ASSUME NEW T \in SUBSET B, \A R \in SUBSET T : R # T => R \in P PROVE T \in P
  <2>1. CASE T = {}
    <3>1. A \cup T = A
      BY <2>1
    <3>2. SumUp(c, T) = 0
      BY <2>1, SumOfNone
    <3> QED
      BY <1>0, <3>1, <3>2
  <2>2. CASE T # {}
    <3> DEFINE p == Pick(T)
               R == T \ {p}
               Both == A \cup T
    <3>1. p \in T /\ R \in SUBSET T /\ R # T
      BY <2>2, Picked
    <3>2. p \in Both /\ Both \ {p} = A \cup R
      BY <3>1
    <3>3. IsFiniteSet(T) /\ IsFiniteSet(R)
      BY FS_Subset
    <3>4. IsFiniteSet(Both) /\ (\A x \in Both : c[x] \in Nat) /\ (\A x \in T : c[x] \in Nat)
      BY <3>3, FS_Union
    <3>5. SumUp(c, A \cup R) = SumUp(c, A) + SumUp(c, R)
      BY <1>1, <3>1
    <3>6. SumUp(c, R) \in Nat /\ c[p] \in Nat
      BY <3>1, <3>3, SumIsNat
    <3> HIDE DEF p, P, R, Both
    <3>7. SumUp(c, Both) = c[p] + SumUp(c, A \cup R)
      <4>1. SumUp(c, Both) = c[p] + SumUp(c, Both \ {p})
        BY <3>2, <3>4, SumWithout
      <4> QED
        BY <3>2, <4>1
    <3>8. SumUp(c, T) = c[p] + SumUp(c, R)
      BY <3>1, <3>3, <3>4, SumWithout DEF R
    <3>9. SumUp(c, Both) = SumUp(c, A) + SumUp(c, T)
      BY <1>0, <3>5, <3>6, <3>7, <3>8
    <3> QED
      BY <3>9 DEF P, Both
  <2> QED
    BY <2>1, <2>2
<1> HIDE DEF P
<1>2. B \in P
  BY <1>1, InductionOnSubsets
<1> QED
  BY <1>2 DEF P

(* Classes that have nothing in common: the sums over each add up to the   *)
(* sum over all of them.                                                   *)
IsPartition(All, K, class) ==
  /\ IsFiniteSet(All) /\ IsFiniteSet(K)
  /\ \A k, l \in K : k # l => class[k] \cap class[l] = {}
  /\ \A x : x \in All <=> \E k \in K : x \in class[k]

AreSums(d, c, K, class) == \A k \in K : d[k] = SumUp(c, class[k])

LEMMA SumOfClasses ==
  ASSUME NEW All, NEW K, NEW class, IsPartition(All, K, class),
         NEW c, \A x \in All : c[x] \in Nat,
         NEW d, AreSums(d, c, K, class)
  PROVE  SumUp(d, K) = SumUp(c, All)
<1> DEFINE Of(T) == UNION {class[k] : k \in T}
           P == {T \in SUBSET K : SumUp(d, T) = SumUp(c, Of(T))}
<1>4. IsFiniteSet(All) /\ IsFiniteSet(K) /\ \A k \in K : class[k] \subseteq All
  BY DEF IsPartition
<1>5. \A k, l \in K : k # l => class[k] \cap class[l] = {}
  BY DEF IsPartition
<1>0. ASSUME NEW k \in K PROVE IsFiniteSet(class[k]) /\ d[k] = SumUp(c, class[k]) /\ d[k] \in Nat
  <2>1. IsFiniteSet(class[k])
    BY <1>4, FS_Subset
  <2>2. SumUp(c, class[k]) \in Nat
    BY <1>4, <2>1, SumIsNat
  <2> QED
    BY <2>1, <2>2 DEF AreSums
<1>1. ASSUME NEW T \in SUBSET K, \A R \in SUBSET T : R # T => R \in P PROVE T \in P
  <2>1. CASE T = {}
    <3>1. Of(T) = {}
      BY <2>1
    <3>2. SumUp(d, {}) = 0 /\ SumUp(c, {}) = 0
      BY SumOfNone
    <3> HIDE DEF Of
    <3> QED
      BY <2>1, <3>1, <3>2
  <2>2. CASE T # {}
    <3> DEFINE p == Pick(T)
               R == T \ {p}
    <3>1. p \in T /\ R \in SUBSET T /\ R # T /\ R \in SUBSET K /\ p \in K
      BY <2>2, Picked
    <3>2. Of(T) = class[p] \cup Of(R) /\ class[p] \cap Of(R) = {} /\ Of(R) \subseteq All
      <4>1. \A k \in R : k # p /\ k \in K
        OBVIOUS
      <4>2. T = R \cup {p}
        BY <3>1
      <4> HIDE DEF R, p
      <4> QED
        BY <1>4, <1>5, <3>1, <4>1, <4>2
    <3>3. IsFiniteSet(T) /\ IsFiniteSet(class[p]) /\ d[p] = SumUp(c, class[p])
      BY <1>0, <1>4, <3>1, FS_Subset
    <3>4. \A k \in T : d[k] \in Nat
      BY <1>0
    <3>5. SumUp(d, R) = SumUp(c, Of(R))
      BY <1>1, <3>1
    <3>6. SumUp(d, T) = d[p] + SumUp(d, R)
      BY <3>1, <3>3, <3>4, SumWithout
    <3> HIDE DEF Of, p, R, P
    <3>7. IsFiniteSet(Of(R))
      BY <1>4, <3>2, FS_Subset
    <3>8. \A x \in class[p] \cup Of(R) : c[x] \in Nat
      BY <1>4, <3>1, <3>2
    <3>9. SumUp(c, class[p] \cup Of(R)) = SumUp(c, class[p]) + SumUp(c, Of(R))
      BY <3>2, <3>3, <3>7, <3>8, SumOfBoth
    <3>10. SumUp(d, T) = SumUp(c, Of(T))
      BY <3>2, <3>3, <3>5, <3>6, <3>9
    <3> QED
      BY <3>10 DEF P
  <2> QED
    BY <2>1, <2>2
<1> HIDE DEF P
<1>2. K \in P
  BY <1>1, <1>4, InductionOnSubsets
<1>3. All = Of(K)
  BY DEF IsPartition
<1> HIDE DEF Of
<1> QED
  BY <1>2, <1>3 DEF P

\* The same numbers, named differently.
LEMMA SumRenamed ==
  ASSUME NEW A, IsFiniteSet(A), NEW B, IsFiniteSet(B), NEW g,
         \A x, y \in A : g[x] = g[y] => x = y,
         \A y : y \in B <=> \E x \in A : y = g[x],
         NEW c, \A y \in B : c[y] \in Nat, NEW d, \A x \in A : d[x] = c[g[x]]
  PROVE  SumUp(d, A) = SumUp(c, B)
<1> DEFINE Of(T) == {g[x] : x \in T}
           P == {T \in SUBSET A : SumUp(d, T) = SumUp(c, Of(T))}
<1>0. \A x \in A : d[x] \in Nat
  OBVIOUS
<1>1. ASSUME NEW T \in SUBSET A, \A R \in SUBSET T : R # T => R \in P PROVE T \in P
  <2>1. CASE T = {}
    <3>1. Of(T) = {}
      BY <2>1
    <3>2. SumUp(d, {}) = 0 /\ SumUp(c, {}) = 0
      BY SumOfNone
    <3> HIDE DEF Of
    <3> QED
      BY <2>1, <3>1, <3>2
  <2>2. CASE T # {}
    <3> DEFINE p == Pick(T)
               R == T \ {p}
    <3>1. p \in T /\ R \in SUBSET T /\ R # T /\ R \in SUBSET A /\ p \in A
      BY <2>2, Picked
    <3>2. Of(T) \in SUBSET B /\ g[p] \in Of(T) /\ Of(R) = Of(T) \ {g[p]}
      <4>1. \A k \in R : k # p /\ k \in A
        OBVIOUS
      <4>2. T = R \cup {p}
        BY <3>1
      <4> HIDE DEF R, p
      <4> QED
        BY <3>1, <4>1, <4>2
    <3>3. IsFiniteSet(T) /\ IsFiniteSet(Of(T))
      BY <3>2, FS_Subset
    <3>4. (\A k \in T : d[k] \in Nat) /\ d[p] = c[g[p]]
      BY <1>0, <3>1
    <3>5. SumUp(d, R) = SumUp(c, Of(R))
      BY <1>1, <3>1
    <3>6. SumUp(d, T) = d[p] + SumUp(d, R)
      BY <3>1, <3>3, <3>4, SumWithout
    <3> HIDE DEF Of, p, R, P
    <3>7. \A y \in Of(T) : c[y] \in Nat
      BY <3>2
    <3>8. SumUp(c, Of(T)) = c[g[p]] + SumUp(c, Of(T) \ {g[p]})
      BY <3>2, <3>3, <3>7, SumWithout
    <3>9. SumUp(d, T) = SumUp(c, Of(T))
      BY <3>2, <3>4, <3>5, <3>6, <3>8
    <3> QED
      BY <3>9 DEF P
  <2> QED
    BY <2>1, <2>2
<1> HIDE DEF P
<1>2. A \in P
  BY <1>1, InductionOnSubsets
<1>3. B = Of(A)
  OBVIOUS
<1> HIDE DEF Of
<1> QED
  BY <1>2, <1>3 DEF P

LEMMA CardinalityIsSum ==
  ASSUME NEW S, IsFiniteSet(S), NEW one, \A x \in S : one[x] = 1
  PROVE  Cardinality(S) = SumUp(one, S)
<1> DEFINE P == {T \in SUBSET S : Cardinality(T) = SumUp(one, T)}
<1>1. ASSUME NEW T \in SUBSET S, \A R \in SUBSET T : R # T => R \in P PROVE T \in P
  <2>0. IsFiniteSet(T) /\ Cardinality(T) \in Nat
    BY FS_Subset, FS_CardinalityType
  <2>1. SumUp(one, T) = IF T = {} THEN 0 ELSE one[Pick(T)] + SumUp(one, T \ {Pick(T)})
    BY <2>0, SumOfPicked
  <2>2. CASE T = {}
    BY <2>1, <2>2, FS_EmptySet
  <2>3. CASE T # {}
    <3>1. Pick(T) \in T /\ T \ {Pick(T)} \in SUBSET T /\ T \ {Pick(T)} # T
      BY <2>3, Picked
    <3>2. Cardinality(T \ {Pick(T)}) = SumUp(one, T \ {Pick(T)}) /\ one[Pick(T)] = 1
      BY <1>1, <3>1
    <3>3. Cardinality(T \ {Pick(T)}) = Cardinality(T) - 1
      BY <2>0, <3>1, FS_RemoveElement
    <3> QED
      BY <2>0, <2>1, <2>3, <3>2, <3>3
  <2> QED
    BY <2>2, <2>3
<1> HIDE DEF P
<1>2. S \in P
  BY <1>1, InductionOnSubsets
<1> QED
  BY <1>2 DEF P

-----------------------------------------------------------------------------
(* The sums of the model, each of one column of rows, groups, leaves or    *)
(* nodes.                                                                  *)
ColumnSum(f, a, S) == MapThenSumSet(LAMBDA i : f[i][a], S)

LEMMA ColumnIsSum ==
  ASSUME NEW f, NEW a, NEW S, IsFiniteSet(S), NEW c, \A x \in S : c[x] = f[x][a]
  PROVE  ColumnSum(f, a, S) = SumUp(c, S)
<1> DEFINE Of(it, s) == IF s = {} THEN 0
                        ELSE f[CHOOSE x \in s : TRUE][a] + it[s \ {CHOOSE x \in s : TRUE}]
           In(it, s) == IF s = {} THEN 0 ELSE c[Pick(s)] + it[s \ {Pick(s)}]
           sum == CHOOSE it : it = [s \in SUBSET S |-> Of(it, s)]
<1>1. ColumnSum(f, a, S) = sum[S]
  BY DEF ColumnSum, MapThenSumSet, MapThenFoldSet
<1>2. ASSUME NEW it, NEW s \in SUBSET S PROVE Of(it, s) = In(it, s)
  <2>1. CASE s = {}
    BY <2>1
  <2>2. CASE s # {}
    <3>1. Pick(s) = CHOOSE x \in s : TRUE
      BY DEF Pick
    <3>2. c[Pick(s)] = f[Pick(s)][a]
      BY <2>2, Picked
    <3> QED
      BY <2>2, <3>1, <3>2
  <2> QED
    BY <2>1, <2>2
<1>3. \E it : it = [s \in SUBSET S |-> In(it, s)]
  <2>1. PICK it : Sums(it, c, S)
    BY SumsExist
  <2>2. it = [s \in SUBSET S |-> In(it, s)]
    BY <2>1 DEF Sums
  <2> HIDE DEF In
  <2> QED
    BY <2>2
<1> HIDE DEF Of, In
<1>4. \E it : it = [s \in SUBSET S |-> Of(it, s)]
  BY <1>2, <1>3
<1>5. sum = [s \in SUBSET S |-> Of(sum, s)]
  BY <1>4
<1>6. sum = [s \in SUBSET S |-> In(sum, s)]
  <2> HIDE DEF sum
  <2> QED
    BY <1>2, <1>5
<1>7. Sums(sum, c, S)
  BY <1>6 DEF Sums, In
<1> HIDE DEF sum
<1> QED
  BY <1>1, <1>7, SumUpSums

-----------------------------------------------------------------------------
(* Rows.                                                                   *)

Columns ==
  [key : {c.key : c \in Calls}, provider : {c.provider : c \in Calls},
   model : {c.model : c \in Calls}, ok : {c.ok : c \in Calls},
   trace : {c.trace : c \in Calls}, meta : {c.meta : c \in Calls},
   cost : {c.cost : c \in Calls}, at : Nat, done : Nat, indexed : BOOLEAN,
   path : {CanonicalPath(c.path) : c \in Calls},
   parent : {ParentSpan(c.path) : c \in Calls}]

\* A row is logged when its request is answered, under the canonical path.
WellLogged(r) ==
  /\ r.at <= r.done /\ r.done <= now
  /\ r.indexed => r.meta # None
  /\ r.parent = r.path

Rows ==
  /\ now \in 0..MaxTime
  /\ rows \in Seq(Columns)
  /\ \A i \in Ids : WellLogged(rows[i])

\* All that a row is selected by, the index left out or not.
SameButIndexed(r, s) ==
  /\ r.key = s.key /\ r.provider = s.provider /\ r.model = s.model /\ r.ok = s.ok
  /\ r.trace = s.trace /\ r.meta = s.meta /\ r.at = s.at /\ r.done = s.done
  /\ r.path = s.path /\ r.parent = s.parent

\* Whether a statement about asks selects a row.
Selects(asks, f, r) ==
  /\ f.from <= r.at /\ r.at < f.to
  /\ Fits(r.key, f.key)
  /\ asks = "runs" => r.trace # None
  /\ asks # "runs" => /\ f.meta = None \/ (r.indexed /\ r.meta = f.meta)
                      /\ Fits(r.provider, f.provider) /\ Fits(r.model, f.model)
  /\ asks = "requests" => /\ f.status = None \/ (f.status = "success" <=> r.ok)
                          /\ f.noRuns => r.trace = None

(* Each clause that usage.go repeats selects what the others do.           *)
LEMMA ClausesAgree ==
  ASSUME NEW f
  PROVE  /\ DailyRows(f) = SummaryRows(f) /\ ModelRows(f) = SummaryRows(f)
         /\ ProviderRows(f) = SummaryRows(f)
         /\ ErrorTotals(f) = SummaryRows(f) /\ ErrorDays(f) = SummaryRows(f)
         /\ LatencyTotals(f) = SummaryRows(f) /\ LatencyDays(f) = SummaryRows(f)
         /\ ErrorRows(f) = {i \in SummaryRows(f) : ~rows[i].ok}
         /\ MetadataRows(f) = {i \in SummaryRows(f) : rows[i].indexed}
         /\ CountedRequests(f) = Listed(f) /\ CountedRuns(f) = OfRuns(f)
<1>1. DailyRows(f) = SummaryRows(f) /\ ModelRows(f) = SummaryRows(f)
  BY DEF DailyRows, ModelRows, SummaryRows
<1>2. ProviderRows(f) = SummaryRows(f)
  BY DEF ProviderRows, SummaryRows
<1>3. ErrorTotals(f) = SummaryRows(f) /\ ErrorDays(f) = SummaryRows(f)
  BY DEF ErrorTotals, ErrorDays, SummaryRows
<1>4. LatencyTotals(f) = SummaryRows(f) /\ LatencyDays(f) = SummaryRows(f)
  BY DEF LatencyTotals, LatencyDays, SummaryRows
<1>5. ErrorRows(f) = {i \in SummaryRows(f) : ~rows[i].ok}
  BY DEF ErrorRows, SummaryRows
<1>6. MetadataRows(f) = {i \in SummaryRows(f) : rows[i].indexed}
  BY DEF MetadataRows, SummaryRows
<1>7. CountedRequests(f) = Listed(f) /\ CountedRuns(f) = OfRuns(f)
  BY DEF CountedRequests, Listed, CountedRuns, OfRuns
<1> QED
  BY <1>1, <1>2, <1>3, <1>4, <1>5, <1>6, <1>7

LEMMA StatementsSelect ==
  ASSUME NEW f
  PROVE  /\ Listed(f) = {i \in Ids : Selects("requests", f, rows[i])}
         /\ OfRuns(f) = {i \in Ids : Selects("runs", f, rows[i])}
         /\ \A asks \in {"errors", "latency", "requests", "runs"} :
               /\ ReadFirst(asks, f) = {i \in Ids : Selects(asks, f, rows[i])}
               /\ ReadSecond(asks, f) = {i \in Ids : Selects(asks, f, rows[i])}
<1>1. Listed(f) = {i \in Ids : Selects("requests", f, rows[i])}
  BY DEF Listed, InWindow, Indexed, OfStatus, Selects
<1>2. OfRuns(f) = {i \in Ids : Selects("runs", f, rows[i])}
  BY DEF OfRuns, InWindow, Selects
<1>3. ASSUME NEW asks \in {"errors", "latency"}
      PROVE  SummaryRows(f) = {i \in Ids : Selects(asks, f, rows[i])}
  BY DEF SummaryRows, InWindow, Indexed, Selects
<1> QED
  BY <1>1, <1>2, <1>3, ClausesAgree DEF ReadFirst, ReadSecond

(* Only a filter for metadata asks whether a row is indexed.               *)
LEMMA IndexUnseen ==
  ASSUME NEW asks, NEW f, NEW r, NEW s, SameButIndexed(r, s), asks = "runs" \/ f.meta = None
  PROVE  Selects(asks, f, r) <=> Selects(asks, f, s)
BY DEF SameButIndexed, Selects

(* What the writers do to the rows.                                        *)
Grows ==
  /\ Len(rows') = Len(rows) + 1
  /\ rows' \in Seq(Columns)
  /\ \A i \in Ids : rows'[i] = rows[i]

LEMMA InsertGrows == Rows /\ InsertRow => Grows /\ Rows'
<1> SUFFICES ASSUME Rows, InsertRow PROVE Grows /\ Rows'
  OBVIOUS
<1>1. PICK call \in Calls : \E at \in 0..(now - call.took) :
        rows' = Append(rows,
               [key |-> call.key, provider |-> call.provider, model |-> call.model,
                ok |-> call.ok, trace |-> call.trace, meta |-> call.meta, cost |-> call.cost,
                at |-> at, done |-> at + call.took, indexed |-> call.meta # None,
                path |-> CanonicalPath(call.path), parent |-> ParentSpan(call.path)])
  BY DEF InsertRow
<1>0. PICK at \in 0..(now - call.took) :
        rows' = Append(rows,
               [key |-> call.key, provider |-> call.provider, model |-> call.model,
                ok |-> call.ok, trace |-> call.trace, meta |-> call.meta, cost |-> call.cost,
                at |-> at, done |-> at + call.took, indexed |-> call.meta # None,
                path |-> CanonicalPath(call.path), parent |-> ParentSpan(call.path)])
  BY <1>1
<1> DEFINE r == [key |-> call.key, provider |-> call.provider, model |-> call.model,
                 ok |-> call.ok, trace |-> call.trace, meta |-> call.meta, cost |-> call.cost,
                 at |-> at, done |-> at + call.took, indexed |-> call.meta # None,
                 path |-> CanonicalPath(call.path), parent |-> ParentSpan(call.path)]
<1>2. at \in Nat /\ call.took \in Nat /\ at + call.took \in Nat /\ now' = now
      /\ at + call.took <= now /\ now \in Nat
  <2>1. call.took \in Nat
    BY UsageReportsAssumption
  <2>2. now \in Nat /\ now' = now
    BY UsageReportsAssumption DEF InsertRow, Rows
  <2> HIDE DEF InsertRow
  <2> QED
    BY <2>1, <2>2
<1>3. r \in Columns
  <2>1. /\ call.key \in {c.key : c \in Calls} /\ call.provider \in {c.provider : c \in Calls}
        /\ call.model \in {c.model : c \in Calls} /\ call.ok \in {c.ok : c \in Calls}
        /\ call.trace \in {c.trace : c \in Calls} /\ call.meta \in {c.meta : c \in Calls}
        /\ call.cost \in {c.cost : c \in Calls}
    OBVIOUS
  <2>2. /\ CanonicalPath(call.path) \in {CanonicalPath(c.path) : c \in Calls}
        /\ ParentSpan(call.path) \in {ParentSpan(c.path) : c \in Calls}
    OBVIOUS
  <2>3. (call.meta # None) \in BOOLEAN
    OBVIOUS
  <2> QED
    BY <1>2, <2>1, <2>2, <2>3 DEF Columns
<1>4. /\ r.at <= r.done /\ r.done <= now' /\ (r.indexed => r.meta # None)
      /\ r.parent = r.path
  <2>1. r.at = at /\ r.done = at + call.took
    OBVIOUS
  <2>2. r.indexed => r.meta # None
    OBVIOUS
  <2>3. at <= at + call.took
    BY <1>2
  <2>4. r.parent = r.path
    BY DEF ParentSpan
  <2> HIDE DEF r
  <2> QED
    BY <1>2, <2>1, <2>2, <2>3, <2>4
<1> HIDE DEF r
<1>5. rows' = Append(rows, r)
  BY <1>0 DEF r
<1>6. /\ rows' \in Seq(Columns) /\ Len(rows') = Len(rows) + 1
      /\ \A i \in 1..Len(rows) : rows'[i] = rows[i]
      /\ rows'[Len(rows) + 1] = r
  BY <1>3, <1>5, AppendProperties DEF Rows
<1>7. Ids = 1..Len(rows) /\ Ids' = 1..(Len(rows) + 1) /\ Len(rows) \in Nat
  BY <1>6 DEF Ids, Rows
<1>8. ASSUME NEW i \in Ids' PROVE WellLogged(rows[i])'
  <2>1. CASE i = Len(rows) + 1
    BY <1>4, <1>6, <2>1 DEF WellLogged
  <2>2. CASE i # Len(rows) + 1
    <3>1. i \in Ids
      BY <1>7, <2>2
    <3> QED
      BY <1>2, <1>6, <1>7, <3>1 DEF WellLogged, Rows
  <2> QED
    BY <2>1, <2>2
<1> QED
  BY <1>2, <1>6, <1>7, <1>8 DEF Grows, Rows

Flips ==
  /\ rows' \in Seq(Columns) /\ Len(rows') = Len(rows)
  /\ \A i \in Ids : SameButIndexed(rows'[i], rows[i])

LEMMA ReindexFlips == Rows /\ Reindex => Flips /\ Rows'
<1> SUFFICES ASSUME Rows, Reindex PROVE Flips /\ Rows'
  OBVIOUS
<1>1. PICK k \in Ids : rows[k].meta # None /\ rows' = [rows EXCEPT ![k].indexed = ~@]
  BY DEF Reindex
<1> DEFINE r == [rows[k] EXCEPT !.indexed = ~@]
<1>2. rows[k] \in Columns /\ Ids = 1..Len(rows) /\ Len(rows) \in Nat /\ now' = now
  BY DEF Rows, Ids, Reindex
<1>3. r \in Columns /\ SameButIndexed(r, rows[k])
  BY <1>2 DEF Columns, SameButIndexed
<1>4. rows' = [rows EXCEPT ![k] = r]
  BY <1>1
<1> HIDE DEF r
<1>5. rows' \in Seq(Columns) /\ Len(rows') = Len(rows) /\ Ids' = Ids
  BY <1>2, <1>3, <1>4 DEF Rows, Ids
<1>6. rows'[k] = r /\ \A i \in Ids : i # k => rows'[i] = rows[i]
  BY <1>2, <1>4 DEF Rows, Ids
<1>7. \A i \in Ids : SameButIndexed(rows'[i], rows[i])
  BY <1>3, <1>6 DEF SameButIndexed
<1>8. ASSUME NEW i \in Ids PROVE WellLogged(rows[i])'
  <2>1. CASE i = k
    BY <1>1, <1>2, <1>3, <1>6, <2>1 DEF WellLogged, SameButIndexed, Rows
  <2>2. CASE i # k
    BY <1>2, <1>6, <2>2 DEF WellLogged, Rows
  <2> QED
    BY <2>1, <2>2
<1> QED
  BY <1>2, <1>5, <1>7, <1>8 DEF Flips, Rows

LEMMA TickKeepsRows == Rows /\ Tick => Rows' /\ now \in Nat /\ now' = now + 1
<1> SUFFICES ASSUME Rows, Tick PROVE Rows' /\ now \in Nat /\ now' = now + 1
  OBVIOUS
<1>1. now \in Nat /\ now' = now + 1 /\ now' \in 0..MaxTime /\ rows' = rows
  BY UsageReportsAssumption DEF Rows, Tick
<1>2. ASSUME NEW i \in Ids PROVE WellLogged(rows[i])'
  <2>1. rows[i] \in Columns /\ WellLogged(rows[i])
    BY DEF Rows, Ids
  <2>2. rows[i].done \in Nat
    BY <2>1 DEF Columns
  <2> QED
    BY <1>1, <2>1, <2>2 DEF WellLogged
<1>3. Ids' = Ids
  BY <1>1 DEF Ids
<1> QED
  BY <1>1, <1>2, <1>3 DEF Rows

-----------------------------------------------------------------------------
(* The client.                                                             *)
Walks ==
  [does : {"walk"}, query : {q \in Queries : q.asks \in {"requests", "runs"}},
   window : Int \X Int, offset : Nat, seen : SUBSET (Nat \cup Traces), inserted : Nat,
   disturbed : BOOLEAN]

Client ==
  /\ caller.does \in {"nothing", "report", "compare", "walk"}
  /\ caller.does = "walk" =>
       /\ caller \in Walks
       /\ caller.seen \subseteq IF caller.query.asks = "runs" THEN Traces ELSE Ids

LEMMA ReindexDisturbs ==
  ASSUME Client, Reindex
  PROVE  /\ caller.does # "walk" => caller' = caller
         /\ caller.does = "walk" =>
              /\ caller' \in Walks /\ caller'.query = caller.query
              /\ caller'.window = caller.window /\ caller'.offset = caller.offset
              /\ caller'.seen = caller.seen /\ caller'.inserted = caller.inserted
              /\ caller.query.asks = "requests" /\ caller.query.meta # None
                    => caller'.disturbed
              /\ ~caller'.disturbed => ~caller.disturbed
<1>1. CASE caller.does # "walk"
  BY <1>1 DEF Reindex
<1>2. CASE caller.does = "walk"
  <2>1. caller \in Walks
    BY <1>2 DEF Client
  <2>2. caller' = caller \/ caller' = [caller EXCEPT !.disturbed = TRUE]
    BY DEF Reindex
  <2>3. caller.query.asks = "requests" /\ caller.query.meta # None
          => caller' = [caller EXCEPT !.disturbed = TRUE]
    BY <1>2 DEF Reindex
  <2> QED
    BY <1>2, <2>1, <2>2, <2>3 DEF Walks
<1> QED
  BY <1>1, <1>2

-----------------------------------------------------------------------------
(* Reports of two statements: the totals are the rows selected of those    *)
(* that were there.                                                        *)
Asks == {"errors", "latency", "requests", "runs"}

Counted(c) == {i \in Ids : i <= c.inserted /\ Selects(c.query.asks, c.filter, rows[i])}

Followed ==
  /\ caller.does = "report" =>
       /\ caller.query.asks \in Asks
       /\ caller.inserted \in 0..Len(rows)
       /\ caller.filter.meta = caller.query.meta
       /\ caller.query.meta = None => caller.totals = Counted(caller)
  /\ SeriesFollowTotals

(* Writers of rows leave what was counted alone.                           *)
LEMMA CountStands ==
  ASSUME Rows, NEW c, c.inserted \in 0..Len(rows), c.filter.meta = None,
         UNCHANGED rows \/ Grows \/ Flips
  PROVE  /\ Counted(c)' = Counted(c)
         /\ c.inserted \in 0..Len(rows')
<1>1. Ids = 1..Len(rows) /\ Len(rows) \in Nat
  BY DEF Rows, Ids
<1>2. CASE UNCHANGED rows
  BY <1>2 DEF Counted, Ids
<1>3. CASE Grows
  <2>1. Ids' = 1..(Len(rows) + 1)
    BY <1>3 DEF Grows, Ids
  <2>2. ASSUME NEW i \in Ids', i <= c.inserted PROVE i \in Ids /\ rows'[i] = rows[i]
    BY <1>1, <1>3, <2>1, <2>2 DEF Grows
  <2>3. Ids \subseteq Ids' /\ \A i \in Ids : rows'[i] = rows[i]
    BY <1>1, <1>3, <2>1 DEF Grows
  <2>4. Counted(c)' = {i \in Ids' : i <= c.inserted /\ Selects(c.query.asks, c.filter, rows'[i])}
    BY DEF Counted
  <2>5. Counted(c)' = Counted(c)
    BY <2>2, <2>3, <2>4 DEF Counted
  <2>6. c.inserted \in 0..Len(rows')
    BY <1>1, <1>3 DEF Grows
  <2> QED
    BY <2>5, <2>6
<1>4. CASE Flips
  <2>1. Ids' = Ids /\ Len(rows') = Len(rows)
    BY <1>1, <1>4 DEF Flips, Ids
  <2>2. \A i \in Ids : Selects(c.query.asks, c.filter, rows'[i])
                         <=> Selects(c.query.asks, c.filter, rows[i])
    BY <1>4, IndexUnseen DEF Flips
  <2> QED
    BY <2>1, <2>2 DEF Counted
<1> QED
  BY <1>2, <1>3, <1>4

LEMMA FollowedWhileRowsArrive ==
  ASSUME Rows, Client, Followed, Tick \/ InsertRow \/ Reindex
  PROVE  Followed'
<1>1. UNCHANGED rows \/ Grows \/ Flips
  BY InsertGrows, ReindexFlips DEF Tick
<1>2. caller' = caller \/ caller.does = "walk"
  BY ReindexDisturbs DEF Tick, InsertRow
<1>3. CASE caller.does = "report"
  <2>1. caller' = caller
    BY <1>2, <1>3
  <2>2. caller'.inserted \in 0..Len(rows')
    <3>1. Len(rows') >= Len(rows) /\ Len(rows') \in Nat /\ Len(rows) \in Nat
      BY <1>1 DEF Grows, Flips, Rows
    <3> QED
      BY <1>3, <2>1, <3>1 DEF Followed
  <2>3. ASSUME caller.query.meta = None PROVE caller'.totals = Counted(caller)'
    <3> DEFINE c == caller
    <3>1. caller.totals = Counted(caller) /\ caller.filter.meta = None
          /\ caller.inserted \in 0..Len(rows)
      BY <1>3, <2>3 DEF Followed
    <3>2. \A c2 : /\ c2.inserted \in 0..Len(rows) /\ c2.filter.meta = None
                  => Counted(c2)' = Counted(c2)
      BY <1>1, CountStands
    <3> QED
      BY <2>1, <3>1, <3>2 DEF Counted
  <2> QED
    BY <1>3, <2>1, <2>2, <2>3 DEF Followed, SeriesFollowTotals
<1>4. CASE caller.does = "compare"
  BY <1>2, <1>4 DEF Followed, SeriesFollowTotals
<1>5. CASE caller.does \notin {"report", "compare"}
  <2>1. caller'.does \notin {"report", "compare"}
    <3>1. CASE caller' = caller
      BY <1>5, <3>1
    <3>2. CASE caller.does = "walk" /\ Reindex
      BY <3>2, ReindexDisturbs DEF Walks
    <3> QED
      BY <3>1, <3>2, ReindexDisturbs DEF Tick, InsertRow
  <2> QED
    BY <2>1 DEF Followed, SeriesFollowTotals
<1> QED
  BY <1>3, <1>4, <1>5

LEMMA FirstFollowed == Rows /\ FirstStatement => Followed'
<1> SUFFICES ASSUME Rows, FirstStatement PROVE Followed'
  OBVIOUS
<1>1. PICK q \in Queries :
        caller' = [does |-> "report", query |-> q, filter |-> ResolveFilter(q),
                   inserted |-> Len(rows), totals |-> ReadFirst(q.asks, ResolveFilter(q))]
  BY DEF FirstStatement
<1>2. /\ caller'.does = "report" /\ caller'.query = q /\ caller'.filter = ResolveFilter(q)
      /\ caller'.inserted = Len(rows) /\ caller'.totals = ReadFirst(q.asks, ResolveFilter(q))
  BY <1>1
<1>3. q.asks \in Asks /\ rows' = rows /\ Len(rows) \in 0..Len(rows) /\ Ids = 1..Len(rows)
  BY UsageReportsAssumption DEF Asks, FirstStatement, Rows, Ids
<1>4. ResolveFilter(q).meta = q.meta
  BY DEF ResolveFilter
<1>5. ReadFirst(q.asks, ResolveFilter(q))
        = {i \in Ids : Selects(q.asks, ResolveFilter(q), rows[i])}
  BY <1>3, StatementsSelect DEF Asks
<1>6. \A i \in Ids : i <= Len(rows)
  BY <1>3
<1>7. caller'.totals = Counted(caller)'
  BY <1>2, <1>3, <1>5, <1>6 DEF Counted, Ids
<1> QED
  BY <1>2, <1>3, <1>4, <1>7 DEF Followed, SeriesFollowTotals

LEMMA SecondFollowed == Rows /\ Followed /\ SecondStatement => Followed'
<1> SUFFICES ASSUME Rows, Followed, SecondStatement PROVE Followed'
  OBVIOUS
<1>1. /\ caller.does = "report" /\ caller'.does = "compare"
      /\ caller'.query = caller.query /\ caller'.inserted = caller.inserted
      /\ caller'.totals = caller.totals
      /\ caller'.series = ReadSecond(caller.query.asks, caller.filter)
  BY DEF SecondStatement
<1>2. ReadSecond(caller.query.asks, caller.filter)
        = {i \in Ids : Selects(caller.query.asks, caller.filter, rows[i])}
  BY <1>1, StatementsSelect DEF Followed, Asks
<1>3. caller.query.meta = None => caller.totals = Counted(caller)
  BY <1>1 DEF Followed
<1>4. caller.inserted \in Nat /\ Ids \subseteq Nat
  BY <1>1 DEF Followed, Rows, Ids
<1>5. ASSUME caller.query.meta = None
      PROVE  /\ caller'.totals \subseteq caller'.series
             /\ \A i \in caller'.series \ caller'.totals : i > caller'.inserted
  <2>1. caller'.totals = Counted(caller)
    BY <1>1, <1>3, <1>5
  <2>2. caller'.totals = {i \in caller'.series : i <= caller.inserted}
    BY <1>1, <1>2, <2>1 DEF Counted
  <2>3. caller'.series \subseteq Nat
    BY <1>1, <1>2, <1>4
  <2> QED
    BY <1>1, <1>4, <2>2, <2>3
<1> QED
  BY <1>1, <1>5 DEF Followed, SeriesFollowTotals

-----------------------------------------------------------------------------
(* The window of a query, and what it lists.                               *)
LEMMA WindowTyped ==
  ASSUME now \in Nat, NEW q \in Queries
  PROVE  /\ Window(q) = <<Window(q)[1], Window(q)[2]>>
         /\ Window(q)[1] \in Int /\ Window(q)[2] \in Int
         /\ NextMidnight \in Nat /\ now < NextMidnight
         /\ Window(q)[2] # NextMidnight => q.start # None /\ q.end # None
<1>1. NextMidnight \in Nat /\ now < NextMidnight
  BY Midnight DEF NextMidnight
<1>2. q.start \in Int \cup {None} /\ q.end \in Int \cup {None} /\ q.days * DayLength \in Int
  BY UsageReportsAssumption
<1>3. CASE q.start # None
  BY <1>1, <1>2, <1>3 DEF Window
<1>4. CASE q.start = None
  BY <1>1, <1>2, <1>4 DEF Window
<1> QED
  BY <1>3, <1>4

(* Time moves it towards the future, and only an end that is ahead.        *)
LEMMA WindowMoves ==
  ASSUME now \in Nat, now' = now + 1, NEW q \in Queries
  PROVE  /\ Window(q)'[1] \in Int /\ Window(q)'[2] \in Int
         /\ Window(q)[1] <= Window(q)'[1] /\ Window(q)[2] <= Window(q)'[2]
         /\ Window(q)[2] = Window(q)'[2] \/ now < Window(q)[2]
<1>1. /\ NextMidnight \in Nat /\ NextMidnight' \in Nat /\ NextMidnight <= NextMidnight'
      /\ now < NextMidnight
  <2>1. NextMidnight' = ((now + 1) \div DayLength + 1) * DayLength
    BY DEF NextMidnight
  <2> QED
    BY <2>1, Midnight DEF NextMidnight
<1>2. q.start \in Int \cup {None} /\ q.end \in Int \cup {None} /\ q.days * DayLength \in Int
  BY UsageReportsAssumption
<1>3. CASE q.start # None
  <2>1. /\ Window(q) = <<q.start, IF q.end # None THEN q.end ELSE NextMidnight>>
        /\ Window(q)' = <<q.start, IF q.end # None THEN q.end ELSE NextMidnight'>>
    BY <1>3 DEF Window
  <2> QED
    BY <1>1, <1>2, <1>3, <2>1
<1>4. CASE q.start = None
  <2>1. /\ Window(q) = <<NextMidnight - q.days * DayLength, NextMidnight>>
        /\ Window(q)' = <<NextMidnight' - q.days * DayLength, NextMidnight'>>
    BY <1>4 DEF Window
  <2> DEFINE d == q.days * DayLength
  <2>2. NextMidnight - d <= NextMidnight' - d
    <3> HIDE DEF d
    <3> QED
      BY <1>1, <1>2 DEF d
  <2> QED
    BY <1>1, <1>2, <2>1, <2>2
<1> QED
  BY <1>3, <1>4

LEMMA ListsAreFinite ==
  ASSUME Rows, NEW f
  PROVE  /\ IsFiniteSet(Listed(f)) /\ Listed(f) \subseteq Ids
         /\ IsFiniteSet(OfRuns(f)) /\ OfRuns(f) \subseteq Ids
         /\ IsFiniteSet(RunsOf(OfRuns(f))) /\ RunsOf(OfRuns(f)) \subseteq Traces
         /\ Ids \subseteq Nat
<1>1. Ids = 1..Len(rows) /\ Len(rows) \in Nat
  BY DEF Rows, Ids
<1>2. IsFiniteSet(Ids)
  BY <1>1, FS_Interval
<1>3. Listed(f) \subseteq Ids /\ OfRuns(f) \subseteq Ids
  BY StatementsSelect
<1>4. IsFiniteSet(Listed(f)) /\ IsFiniteSet(OfRuns(f))
  BY <1>2, <1>3, FS_Subset
<1>5. IsFiniteSet(RunsOf(OfRuns(f)))
  <2> DEFINE S == OfRuns(f)
             g == [i \in S |-> rows[i].trace]
  <2>1. g \in Surjection(S, RunsOf(S))
    BY DEF Surjection, RunsOf
  <2> HIDE DEF g
  <2> QED
    BY <1>4, <2>1, FS_Surjection
<1>6. ASSUME NEW i \in OfRuns(f) PROVE rows[i].trace \in Traces
  <2>1. rows[i] \in Columns
    BY <1>3 DEF Rows, Ids
  <2>2. rows[i].trace \in {c.trace : c \in Calls}
    BY <2>1 DEF Columns
  <2> QED
    BY <2>2 DEF OfRuns, Traces
<1> QED
  BY <1>1, <1>3, <1>4, <1>5, <1>6 DEF RunsOf

LEMMA PageTyped ==
  ASSUME Rows, NEW q, q.asks \in {"requests", "runs"}, NEW offset, NEW flip
  PROVE  /\ Page(q, offset, flip) \subseteq IF q.asks = "runs" THEN Traces ELSE Ids
         /\ Cardinality(Page(q, offset, flip)) \in Nat
<1> DEFINE L == Listing(q.asks, ResolveFilter(q))
<1>1. IsFiniteSet(L) /\ L \subseteq IF q.asks = "runs" THEN Traces ELSE Ids
  BY ListsAreFinite DEF Listing
<1>2. Page(q, offset, flip) \subseteq L
  BY DEF Page
<1> HIDE DEF L
<1> QED
  BY <1>1, <1>2, FS_Subset, FS_CardinalityType

(* The page a client gets.                                                 *)
Turns(flip) ==
  LET page == Page(caller.query, caller.offset, flip)
  IN IF page = {} THEN caller' = Idle
     ELSE /\ caller' \in Walks /\ caller'.query = caller.query
          /\ caller'.window = caller.window /\ caller'.inserted = caller.inserted
          /\ caller'.disturbed = caller.disturbed
          /\ caller'.offset = caller.offset + Cardinality(page)
          /\ caller'.seen = caller.seen \cup page

LEMMA NextPageTurns ==
  ASSUME Rows, Client, NextPage
  PROVE  caller.does = "walk" /\ caller \in Walks /\ \E flip \in BOOLEAN : Turns(flip)
<1>1. caller.does = "walk" /\ caller \in Walks
  BY DEF NextPage, Client
<1>2. PICK flip \in BOOLEAN :
        LET page == Page(caller.query, caller.offset, flip)
        IN caller' = IF page = {} THEN Idle
                     ELSE [caller EXCEPT !.offset = @ + Cardinality(page),
                                         !.seen = @ \cup page]
  BY DEF NextPage
<1> DEFINE page == Page(caller.query, caller.offset, flip)
<1>3. /\ page \subseteq Nat \cup Traces /\ Cardinality(page) \in Nat
  <2>1. caller.query.asks \in {"requests", "runs"} /\ Ids \subseteq Nat
    BY <1>1, ListsAreFinite DEF Walks
  <2>2. /\ page \subseteq IF caller.query.asks = "runs" THEN Traces ELSE Ids
        /\ Cardinality(page) \in Nat
    BY <2>1, PageTyped
  <2> HIDE DEF page
  <2> QED
    BY <2>1, <2>2
<1>4. page # {} => caller' = [caller EXCEPT !.offset = caller.offset + Cardinality(page),
                                            !.seen = caller.seen \cup page]
  BY <1>2
<1>5. page = {} => caller' = Idle
  BY <1>2
<1> HIDE DEF page
<1>6. /\ caller.offset + Cardinality(page) \in Nat
      /\ caller.seen \cup page \in SUBSET (Nat \cup Traces)
  <2>1. caller.offset \in Nat /\ caller.seen \in SUBSET (Nat \cup Traces)
    BY <1>1 DEF Walks
  <2>2. caller.offset + Cardinality(page) \in Nat
    BY <1>3, <2>1
  <2> QED
    BY <1>3, <2>1, <2>2
<1>7. page # {} =>
          /\ caller' \in Walks /\ caller'.query = caller.query
          /\ caller'.window = caller.window /\ caller'.inserted = caller.inserted
          /\ caller'.disturbed = caller.disturbed
          /\ caller'.offset = caller.offset + Cardinality(page)
          /\ caller'.seen = caller.seen \cup page
  BY <1>1, <1>4, <1>6 DEF Walks
<1> QED
  BY <1>1, <1>5, <1>7 DEF Turns, page

LEMMA NextClient == Rows /\ Client /\ [Next]_vars => Client'
<1> SUFFICES ASSUME Rows, Client, [Next]_vars PROVE Client'
  OBVIOUS
<1>1. CASE Tick \/ UNCHANGED vars
  BY <1>1 DEF Tick, vars, Client, Ids
<1>2. CASE InsertRow
  <2>1. caller' = caller /\ Ids \subseteq Ids'
    <3>1. Grows
      BY <1>2, InsertGrows
    <3> QED
      BY <1>2, <3>1 DEF InsertRow, Grows, Ids, Rows
  <2> QED
    BY <2>1 DEF Client
<1>3. CASE Reindex
  <2>1. Ids' = Ids
    BY <1>3, ReindexFlips DEF Flips, Ids, Rows
  <2> QED
    BY <1>3, <2>1, ReindexDisturbs DEF Client, Walks
<1>4. CASE FirstStatement \/ SecondStatement \/ ReportReturned
  <2>1. caller'.does \in {"nothing", "report", "compare"}
    BY <1>4 DEF FirstStatement, SecondStatement, ReportReturned, Idle
  <2> QED
    BY <2>1 DEF Client
<1>5. CASE StartWalk
  <2>1. PICK q \in {p \in Queries : p.asks \in {"requests", "runs"}} :
          caller' = [does |-> "walk", query |-> q, window |-> Window(q), offset |-> 0,
                     seen |-> {}, inserted |-> Len(rows), disturbed |-> FALSE]
    BY <1>5 DEF StartWalk
  <2>2. Window(q) \in Int \X Int /\ Len(rows) \in Nat
    BY WindowTyped DEF Rows
  <2>3. caller' \in Walks /\ caller'.does = "walk" /\ caller'.seen = {}
    BY <2>1, <2>2 DEF Walks
  <2> QED
    BY <2>3 DEF Client
<1>6. CASE NextPage
  <2>1. PICK flip \in BOOLEAN : Turns(flip)
    BY <1>6, NextPageTurns
  <2>2. caller.query.asks \in {"requests", "runs"} /\ caller \in Walks
        /\ caller.seen \subseteq IF caller.query.asks = "runs" THEN Traces ELSE Ids
    BY <1>6, NextPageTurns DEF Client, Walks
  <2>3. CASE caller' = Idle
    BY <2>3 DEF Idle, Client
  <2>4. CASE caller' # Idle
    <3>1. /\ caller' \in Walks /\ caller'.query = caller.query
          /\ caller'.seen = caller.seen \cup Page(caller.query, caller.offset, flip)
      BY <2>1, <2>4 DEF Turns
    <3>2. caller'.seen \subseteq IF caller.query.asks = "runs" THEN Traces ELSE Ids
      BY <2>2, <3>1, PageTyped
    <3>3. Ids' = Ids /\ caller'.does = "walk"
      BY <1>6, <3>1 DEF NextPage, Ids, Walks
    <3> QED
      BY <3>1, <3>2, <3>3 DEF Client
  <2> QED
    BY <2>3, <2>4
<1> QED
  BY <1>1, <1>2, <1>3, <1>4, <1>5, <1>6 DEF Next

LEMMA NextRows == Rows /\ [Next]_vars => Rows'
<1> SUFFICES ASSUME Rows, [Next]_vars PROVE Rows'
  OBVIOUS
<1>1. CASE UNCHANGED <<now, rows>>
  BY <1>1 DEF Rows, Ids, WellLogged
<1> QED
  BY <1>1, TickKeepsRows, InsertGrows, ReindexFlips
     DEF Next, vars, FirstStatement, SecondStatement, StartWalk, NextPage, ReportReturned

LEMMA NextFollowed == Rows /\ Client /\ Followed /\ [Next]_vars => Followed'
<1> SUFFICES ASSUME Rows, Client, Followed, [Next]_vars PROVE Followed'
  OBVIOUS
<1>1. CASE Tick \/ InsertRow \/ Reindex
  BY <1>1, FollowedWhileRowsArrive
<1>2. CASE StartWalk \/ NextPage \/ ReportReturned
  <2>1. ASSUME NextPage PROVE caller'.does \in {"nothing", "walk"}
    BY <2>1, NextPageTurns DEF Turns, Idle, Walks
  <2>2. caller'.does \in {"nothing", "walk"}
    BY <1>2, <2>1 DEF StartWalk, ReportReturned, Idle
  <2> QED
    BY <2>2 DEF Followed, SeriesFollowTotals
<1>3. CASE UNCHANGED vars
  BY <1>3 DEF vars, Followed, SeriesFollowTotals, Counted, Ids
<1> QED
  BY <1>1, <1>2, <1>3, FirstFollowed, SecondFollowed DEF Next

-----------------------------------------------------------------------------
(* The walk through the requests.                                          *)
Mine == Listed(ResolveFilter(caller.query))
Newer(i) == {j \in Mine : rows[j].at > rows[i].at}
Untied(i) == \A j \in Mine \ {i} : rows[j].at # rows[i].at

WalksRequests == caller.does = "walk" /\ caller.query.asks = "requests"

RequestsWalk ==
  WalksRequests =>
    /\ caller.inserted \in 0..Len(rows)
    /\ ~caller.disturbed =>
         \A i \in Mine \ caller.seen :
            i <= caller.inserted /\ Untied(i) => caller.offset <= Cardinality(Newer(i))

LEMMA RequestsOrdered ==
  ASSUME Rows, NEW f, NEW flip \in BOOLEAN
  PROVE  IsOrder(Listed(f), [i \in Listed(f) |-> RequestsAhead(f, i, flip)])
<1> DEFINE L == Listed(f)
           A == [i \in L |-> RequestsAhead(f, i, flip)]
<1>1. IsFiniteSet(L) /\ L \subseteq Nat /\ \A i \in L : rows[i].at \in Nat
  <2>1. L \subseteq Ids /\ IsFiniteSet(L) /\ L \subseteq Nat
    BY ListsAreFinite
  <2>2. ASSUME NEW i \in L PROVE rows[i].at \in Nat
    <3>1. rows[i] \in Columns
      BY <2>1 DEF Rows, Ids
    <3> QED
      BY <3>1 DEF Columns
  <2> QED
    BY <2>1, <2>2
<1>2. \A x, y \in L : x \in A[y] <=>
          \/ rows[x].at > rows[y].at
          \/ rows[x].at = rows[y].at /\ (IF flip THEN y < x ELSE x < y)
  BY DEF RequestsAhead
<1>3. \A y \in L : A[y] \subseteq L
  BY DEF RequestsAhead
<1> HIDE DEF L, A
<1>4. \A x \in L : A[x] \subseteq L /\ x \notin A[x]
  BY <1>1, <1>2, <1>3
<1>5. \A x, y \in L : x # y => x \in A[y] \/ y \in A[x]
  BY <1>1, <1>2
<1>6. ASSUME NEW x \in L, NEW y \in L, x \in A[y], NEW z \in A[x] PROVE z \in A[y]
  <2>1. z \in L
    BY <1>3
  <2> QED
    BY <1>1, <1>2, <1>6, <2>1
<1> QED
  BY <1>1, <1>4, <1>5, <1>6 DEF IsOrder, L, A

(* A page reaches a request or stays in front of it, and it is not empty   *)
(* while there is such a request.                                          *)
LEMMA RequestsPage ==
  ASSUME Rows, Client, WalksRequests, NEW flip \in BOOLEAN, NEW i \in Mine,
         Untied(i), caller.offset <= Cardinality(Newer(i))
  PROVE  LET page == Page(caller.query, caller.offset, flip)
         IN /\ page # {}
            /\ i \notin page => caller.offset + Cardinality(page) <= Cardinality(Newer(i))
<1> DEFINE F == ResolveFilter(caller.query)
           L == Listed(F)
           A == [x \in L |-> RequestsAhead(F, x, flip)]
           page == Page(caller.query, caller.offset, flip)
           l == ClampLimit(caller.query.limit, DefaultLimit, MaxLimit)
<1>1. IsOrder(L, A)
  BY RequestsOrdered
<1>2. caller.offset \in Nat /\ caller.query \in Queries
  BY DEF Client, Walks, WalksRequests
<1>3. l \in Nat /\ l > 0
  BY <1>2, LimitIsPositive, UsageReportsAssumption
<1>4. page = {x \in L : Cardinality(A[x]) \in caller.offset..(caller.offset + l - 1)}
  BY DEF Page, Listing, Ahead, WalksRequests
<1>6. i \in L /\ L = Mine
  BY DEF Mine
<1>5. A[i] = Newer(i)
  <2>1. A[i] = { j \in L : \/ rows[j].at > rows[i].at
                           \/ rows[j].at = rows[i].at /\ (IF flip THEN i < j ELSE j < i) }
    BY <1>6 DEF RequestsAhead
  <2>2. ~(i < i)
    BY <1>6, ListsAreFinite
  <2> HIDE DEF L, A
  <2> QED
    BY <1>6, <2>1, <2>2 DEF Newer, Untied
<1> HIDE DEF L, A, page, l
<1>7. Cardinality(A[i]) \in Nat
  BY <1>1, <1>6, RanksAreNumbers
<1>8. page # {}
  <2>1. page = {} => Cardinality(A[i]) < caller.offset
    BY <1>1, <1>2, <1>3, <1>4, <1>6, PageTurns
  <2> QED
    BY <1>2, <1>5, <1>7, <2>1
<1>9. i \notin page => caller.offset + Cardinality(page) <= Cardinality(A[i])
  BY <1>1, <1>2, <1>3, <1>4, <1>5, <1>6, PageTurns
<1> QED
  BY <1>5, <1>8, <1>9 DEF page

(* A step that leaves the client where it is keeps the walk, when it adds  *)
(* only later rows and takes away nothing newer than what stays.           *)
LEMMA RequestsStay ==
  ASSUME Rows, Rows', RequestsWalk, WalksRequests, Client, Len(rows) <= Len(rows'),
         caller'.query = caller.query, caller'.offset = caller.offset,
         caller'.seen = caller.seen, caller'.inserted = caller.inserted,
         ~caller'.disturbed => ~caller.disturbed,
         ~caller'.disturbed =>
            \A i \in Mine' : i <= caller.inserted =>
               /\ i \in Mine /\ (Untied(i)' => Untied(i)) /\ Newer(i) \subseteq Newer(i)'
  PROVE  RequestsWalk'
<1>1. caller.inserted \in 0..Len(rows')
  BY DEF RequestsWalk, Rows
<1>2. ASSUME ~caller'.disturbed, NEW i \in Mine' \ caller.seen, i <= caller.inserted, Untied(i)'
      PROVE  caller.offset <= Cardinality(Newer(i)')
  <2>1. i \in Mine /\ Untied(i) /\ Newer(i) \subseteq Newer(i)' /\ ~caller.disturbed
    BY <1>2
  <2>2. caller.offset <= Cardinality(Newer(i))
    BY <1>2, <2>1 DEF RequestsWalk
  <2>3. caller.offset \in Nat
    BY DEF Client, Walks, WalksRequests
  <2>4. IsFiniteSet(Newer(i)')
    <3>1. IsFiniteSet(Mine')
      <4>1. Mine' \subseteq Ids'
        BY DEF Mine, Listed
      <4>2. IsFiniteSet(Ids')
        BY FS_Interval DEF Rows, Ids
      <4> QED
        BY <4>1, <4>2, FS_Subset
    <3>2. Newer(i)' \subseteq Mine'
      BY DEF Newer
    <3> QED
      BY <3>1, <3>2, FS_Subset
  <2> QED
    BY <2>1, <2>2, <2>3, <2>4, MoreAhead
<1> QED
  BY <1>1, <1>2 DEF RequestsWalk, WalksRequests

(* Filters that differ in their windows alone.                             *)
OnlyWindow(f, g) ==
  /\ f.key = g.key /\ f.provider = g.provider /\ f.model = g.model
  /\ f.status = g.status /\ f.meta = g.meta /\ f.noRuns = g.noRuns

LEMMA OtherWindow ==
  ASSUME NEW asks, NEW f, NEW g, NEW r, OnlyWindow(f, g), Selects(asks, f, r),
         g.from <= r.at, r.at < g.to
  PROVE  Selects(asks, g, r)
BY DEF OnlyWindow, Selects

LEMMA MineSelected ==
  /\ Mine = {i \in Ids : Selects("requests", ResolveFilter(caller.query), rows[i])}
  /\ Mine' = {i \in Ids' : Selects("requests", ResolveFilter(caller.query)', rows'[i])}
<1>1. Mine = {i \in Ids : Selects("requests", ResolveFilter(caller.query), rows[i])}
  BY DEF Mine, Listed, InWindow, Indexed, OfStatus, Selects
<1>2. Mine' = {i \in Ids' : Selects("requests", ResolveFilter(caller.query)', rows'[i])}
  BY DEF Mine, Listed, InWindow, Indexed, OfStatus, Selects
<1> QED
  BY <1>1, <1>2

LEMMA SameFilter ==
  ASSUME now' = now, caller'.query = caller.query
  PROVE  ResolveFilter(caller.query)' = ResolveFilter(caller.query)
BY DEF ResolveFilter, Window, NextMidnight

LEMMA FilterMoves ==
  ASSUME Rows, Tick, caller.query \in Queries
  PROVE  LET f == ResolveFilter(caller.query)
             g == ResolveFilter(caller.query)'
         IN /\ OnlyWindow(f, g)
            /\ f.from \in Int /\ f.to \in Int /\ g.from \in Int /\ g.to \in Int
            /\ f.from <= g.from /\ f.to <= g.to
            /\ f.to = g.to \/ now < f.to
<1> DEFINE f == ResolveFilter(caller.query)
           g == ResolveFilter(caller.query)'
<1>1. now \in Nat /\ now' = now + 1 /\ caller' = caller
  BY TickKeepsRows DEF Tick
<1>2. OnlyWindow(f, g)
  BY <1>1 DEF ResolveFilter, OnlyWindow
<1>3. f.from = Window(caller.query)[1] /\ f.to = Window(caller.query)[2]
  BY DEF ResolveFilter
<1>4. g.from = Window(caller.query)'[1] /\ g.to = Window(caller.query)'[2]
  BY DEF ResolveFilter
<1>5. \A q \in Queries : Window(q)'[1] \in Int /\ Window(q)'[2] \in Int
         /\ Window(q)[1] <= Window(q)'[1] /\ Window(q)[2] <= Window(q)'[2]
         /\ (Window(q)[2] = Window(q)'[2] \/ now < Window(q)[2])
  BY <1>1, WindowMoves
<1>6. Window(caller.query)[1] \in Int /\ Window(caller.query)[2] \in Int
  BY <1>1, WindowTyped
<1> HIDE DEF f, g
<1> QED
  BY <1>1, <1>2, <1>3, <1>4, <1>5, <1>6 DEF f, g

LEMMA RequestsTick ==
  ASSUME Rows, Rows', Client, RequestsWalk, WalksRequests, Tick
  PROVE  RequestsWalk'
<1> DEFINE f == ResolveFilter(caller.query)
           g == ResolveFilter(caller.query)'
<1>1. caller' = caller /\ rows' = rows /\ Ids' = Ids /\ now \in Nat
  BY TickKeepsRows DEF Tick, Ids
<1>2. /\ OnlyWindow(f, g) /\ OnlyWindow(g, f)
      /\ f.from \in Int /\ f.to \in Int /\ g.from \in Int /\ g.to \in Int
      /\ f.from <= g.from /\ f.to <= g.to
      /\ f.to = g.to \/ now < f.to
  <2>1. caller.query \in Queries
    BY DEF Client, Walks, WalksRequests
  <2> QED
    BY <2>1, FilterMoves DEF OnlyWindow
<1>3. /\ Mine = {i \in Ids : Selects("requests", f, rows[i])}
      /\ Mine' = {i \in Ids : Selects("requests", g, rows[i])}
  BY <1>1, MineSelected
<1> HIDE DEF f, g
<1>4. ASSUME NEW i \in Ids
      PROVE  rows[i].at \in Nat /\ rows[i].at <= now
  <2>1. rows[i] \in Columns /\ WellLogged(rows[i])
    BY DEF Rows, Ids
  <2>2. rows[i].at \in Nat /\ rows[i].done \in Nat
    BY <2>1 DEF Columns
  <2> QED
    BY <1>1, <2>1, <2>2 DEF WellLogged
<1>5. ASSUME NEW i \in Mine'
      PROVE  i \in Mine /\ g.from <= rows[i].at
  <2>1. i \in Ids /\ Selects("requests", g, rows[i])
    BY <1>3
  <2>2. g.from <= rows[i].at /\ rows[i].at < g.to
    BY <2>1 DEF Selects
  <2>3. f.from <= rows[i].at /\ rows[i].at < f.to
    BY <1>1, <1>2, <1>4, <2>1, <2>2
  <2>4. Selects("requests", f, rows[i])
    BY <1>2, <2>1, <2>3, OtherWindow
  <2> QED
    BY <1>3, <2>1, <2>2, <2>4
<1>6. ASSUME NEW j \in Mine, g.from <= rows[j].at
      PROVE  j \in Mine'
  <2>1. j \in Ids /\ Selects("requests", f, rows[j])
    BY <1>3
  <2>2. rows[j].at < f.to
    BY <2>1 DEF Selects
  <2>3. rows[j].at < g.to
    BY <1>2, <1>4, <2>1, <2>2
  <2>4. Selects("requests", g, rows[j])
    BY <1>2, <1>6, <2>1, <2>3, OtherWindow
  <2> QED
    BY <1>3, <2>1, <2>4
<1>7. ASSUME NEW i \in Mine', i <= caller.inserted
      PROVE  i \in Mine /\ (Untied(i)' => Untied(i)) /\ Newer(i) \subseteq Newer(i)'
  <2>1. i \in Mine /\ g.from <= rows[i].at
    BY <1>5
  <2>2. ASSUME NEW j \in Mine, rows[j].at >= rows[i].at PROVE j \in Mine'
    <3>1. j \in Ids /\ i \in Ids
      BY <1>3, <2>1
    <3>2. g.from <= rows[j].at
      BY <1>2, <1>4, <2>1, <2>2, <3>1
    <3> QED
      BY <1>6, <3>2
  <2>3. \A j \in Mine : rows[j].at = rows[i].at => rows[j].at >= rows[i].at
    BY <1>3, <1>4, <2>1
  <2>4. \A j \in Mine : rows[j].at > rows[i].at => rows[j].at >= rows[i].at
    BY <1>3, <1>4, <2>1
  <2>5. Untied(i)' => Untied(i)
    BY <1>1, <2>2, <2>3 DEF Untied
  <2>6. Newer(i) \subseteq Newer(i)'
    BY <1>1, <2>2, <2>4 DEF Newer
  <2> QED
    BY <2>1, <2>5, <2>6
<1> QED
  BY <1>1, <1>7, RequestsStay DEF Rows

LEMMA RequestsInsert ==
  ASSUME Rows, Rows', Client, RequestsWalk, WalksRequests, InsertRow
  PROVE  RequestsWalk'
<1>1. caller' = caller /\ now' = now /\ Grows
  BY InsertGrows DEF InsertRow
<1>2. Ids = 1..Len(rows) /\ Ids' = 1..(Len(rows) + 1) /\ Len(rows) \in Nat
      /\ \A i \in Ids : rows'[i] = rows[i]
  BY <1>1 DEF Grows, Rows, Ids
<1>3. caller.inserted \in 0..Len(rows)
  BY DEF RequestsWalk
<1> DEFINE f == ResolveFilter(caller.query)
<1>4. /\ Mine = {i \in Ids : Selects("requests", f, rows[i])}
      /\ Mine' = {i \in Ids' : Selects("requests", f, rows'[i])}
  BY <1>1, MineSelected, SameFilter
<1> HIDE DEF f
<1>5. Mine \subseteq Mine' /\ Mine \subseteq Ids
  BY <1>2, <1>4
<1>6. ASSUME NEW i \in Mine', i <= caller.inserted
      PROVE  i \in Mine /\ (Untied(i)' => Untied(i)) /\ Newer(i) \subseteq Newer(i)'
  <2>1. i \in Ids /\ rows'[i] = rows[i]
    BY <1>2, <1>3, <1>4, <1>6
  <2>2. i \in Mine
    BY <1>4, <2>1
  <2>3. Untied(i)' => Untied(i)
    BY <1>2, <1>5, <2>1 DEF Untied
  <2>4. Newer(i) \subseteq Newer(i)'
    BY <1>2, <1>5, <2>1 DEF Newer
  <2> QED
    BY <2>2, <2>3, <2>4
<1>7. Len(rows) <= Len(rows')
  BY <1>1, <1>2 DEF Grows
<1> QED
  BY <1>1, <1>6, <1>7, RequestsStay

LEMMA RequestsReindex ==
  ASSUME Rows, Rows', Client, RequestsWalk, WalksRequests, Reindex
  PROVE  RequestsWalk'
<1>1. /\ Flips /\ now' = now
      /\ caller'.query = caller.query /\ caller'.offset = caller.offset
      /\ caller'.seen = caller.seen /\ caller'.inserted = caller.inserted
      /\ ~caller'.disturbed => ~caller.disturbed
      /\ ~caller'.disturbed => caller.query.meta = None
  BY ReindexFlips, ReindexDisturbs DEF Reindex, WalksRequests
<1>2. Ids = Ids' /\ Len(rows) <= Len(rows')
      /\ \A i \in Ids : SameButIndexed(rows'[i], rows[i])
  BY <1>1 DEF Flips, Rows, Ids
<1> DEFINE f == ResolveFilter(caller.query)
<1>3. /\ Mine = {i \in Ids : Selects("requests", f, rows[i])}
      /\ Mine' = {i \in Ids' : Selects("requests", f, rows'[i])}
  BY <1>1, MineSelected, SameFilter
<1>4. f.meta = caller.query.meta
  BY DEF ResolveFilter
<1> HIDE DEF f
<1>5. ASSUME ~caller'.disturbed, NEW i \in Mine', i <= caller.inserted
      PROVE  i \in Mine /\ (Untied(i)' => Untied(i)) /\ Newer(i) \subseteq Newer(i)'
  <2>1. f.meta = None
    BY <1>1, <1>4, <1>5
  <2>2. \A j \in Ids : Selects("requests", f, rows'[j]) <=> Selects("requests", f, rows[j])
    BY <1>2, <2>1, IndexUnseen
  <2>3. Mine' = Mine /\ Mine \subseteq Ids
    BY <1>2, <1>3, <2>2
  <2>4. \A j \in Mine : rows'[j].at = rows[j].at
    BY <1>2, <2>3 DEF SameButIndexed
  <2>5. Untied(i)' => Untied(i)
    BY <2>3, <2>4 DEF Untied
  <2>6. Newer(i) \subseteq Newer(i)'
    BY <2>3, <2>4 DEF Newer
  <2> QED
    BY <2>3, <2>5, <2>6
<1> QED
  BY <1>1, <1>2, <1>5, RequestsStay

LEMMA NextRequestsWalk ==
  Rows /\ Rows' /\ Client /\ RequestsWalk /\ [Next]_vars => RequestsWalk'
<1> SUFFICES ASSUME Rows, Rows', Client, RequestsWalk, [Next]_vars PROVE RequestsWalk'
  OBVIOUS
<1>1. CASE Tick \/ InsertRow \/ Reindex
  <2>1. CASE WalksRequests
    BY <1>1, <2>1, RequestsTick, RequestsInsert, RequestsReindex
  <2>2. CASE ~WalksRequests
    <3>1. ~WalksRequests'
      BY <1>1, <2>2, ReindexDisturbs DEF WalksRequests, Tick, InsertRow
    <3> QED
      BY <3>1 DEF RequestsWalk
  <2> QED
    BY <2>1, <2>2
<1>2. CASE StartWalk
  <2>1. PICK q \in {p \in Queries : p.asks \in {"requests", "runs"}} :
          caller' = [does |-> "walk", query |-> q, window |-> Window(q), offset |-> 0,
                     seen |-> {}, inserted |-> Len(rows), disturbed |-> FALSE]
    BY <1>2 DEF StartWalk
  <2>2. caller'.offset = 0 /\ caller'.inserted = Len(rows) /\ rows' = rows /\ Len(rows) \in Nat
    BY <1>2, <2>1 DEF StartWalk, Rows
  <2>3. ASSUME NEW i \in Mine' PROVE 0 <= Cardinality(Newer(i)')
    <3>1. Newer(i)' \subseteq Mine' /\ Mine' \subseteq Ids'
      BY DEF Newer, Mine, Listed
    <3>2. IsFiniteSet(Ids')
      BY FS_Interval DEF Rows, Ids
    <3>3. IsFiniteSet(Newer(i)')
      BY <3>1, <3>2, FS_Subset
    <3> QED
      BY <3>3, FS_CardinalityType
  <2> QED
    BY <2>2, <2>3 DEF RequestsWalk
<1>3. CASE NextPage
  <2>1. PICK flip \in BOOLEAN : Turns(flip)
    BY <1>3, NextPageTurns
  <2> DEFINE page == Page(caller.query, caller.offset, flip)
  <2>2. CASE page = {}
    BY <2>1, <2>2 DEF Turns, Idle, RequestsWalk, WalksRequests
  <2>3. CASE page # {}
    <3>1. /\ caller.does = "walk" /\ caller'.query = caller.query
          /\ caller'.inserted = caller.inserted /\ caller'.disturbed = caller.disturbed
          /\ caller'.offset = caller.offset + Cardinality(page)
          /\ caller'.seen = caller.seen \cup page
      BY <1>3, <2>1, <2>3, NextPageTurns DEF Turns
    <3>2. rows' = rows /\ now' = now /\ Ids' = Ids
      BY <1>3 DEF NextPage, Ids
    <3>3. Mine' = Mine
      BY <3>1, <3>2, MineSelected, SameFilter
    <3>4. ASSUME WalksRequests, ~caller.disturbed,
                 NEW i \in Mine \ (caller.seen \cup page), i <= caller.inserted, Untied(i)
          PROVE  caller.offset + Cardinality(page) <= Cardinality(Newer(i))
      <4>1. caller.offset <= Cardinality(Newer(i))
        BY <3>4 DEF RequestsWalk
      <4> QED
        BY <3>4, <4>1, RequestsPage
    <3>5. \A i \in Mine : Newer(i)' = Newer(i) /\ (Untied(i)' <=> Untied(i))
      BY <3>2, <3>3 DEF Newer, Untied
    <3>6. WalksRequests' => WalksRequests
      BY <3>1 DEF WalksRequests
    <3> HIDE DEF page
    <3>7. WalksRequests => caller.inserted \in 0..Len(rows)
      BY DEF RequestsWalk
    <3> QED
      BY <3>1, <3>2, <3>3, <3>4, <3>5, <3>6, <3>7 DEF RequestsWalk
  <2> QED
    BY <2>2, <2>3
<1>4. CASE FirstStatement \/ SecondStatement \/ ReportReturned
  <2>1. caller'.does # "walk"
    BY <1>4 DEF FirstStatement, SecondStatement, ReportReturned, Idle
  <2> QED
    BY <2>1 DEF RequestsWalk, WalksRequests
<1>5. CASE UNCHANGED vars
  <2>1. rows' = rows /\ now' = now /\ caller' = caller /\ Ids' = Ids
    BY <1>5 DEF vars, Ids
  <2>2. Mine' = Mine
    BY <2>1, MineSelected, SameFilter
  <2> QED
    BY <2>1, <2>2 DEF RequestsWalk, WalksRequests, Untied, Newer
<1> QED
  BY <1>1, <1>2, <1>3, <1>4, <1>5 DEF Next

(* A walk ends with an empty page.                                         *)
LEMMA WalksEndEmpty ==
  ASSUME Rows, Client, [Next]_vars, NEW asks, WalkEnds(asks)
  PROVE  /\ caller \in Walks /\ rows' = rows
         /\ \E flip \in BOOLEAN : Page(caller.query, caller.offset, flip) = {}
<1>1. caller.does = "walk" /\ caller'.does = "nothing"
  BY DEF WalkEnds, Idle
<1>2. NextPage
  BY <1>1, ReindexDisturbs
     DEF Next, vars, Tick, InsertRow, FirstStatement, SecondStatement, StartWalk,
         ReportReturned, Walks
<1>3. PICK flip \in BOOLEAN : Turns(flip)
  BY <1>2, NextPageTurns
<1>4. Page(caller.query, caller.offset, flip) = {}
  BY <1>1, <1>3 DEF Turns, Walks
<1> QED
  BY <1>2, <1>4, NextPageTurns DEF NextPage

LEMMA RequestsNotMissed ==
  ASSUME Rows, Client, RequestsWalk, [Next]_vars, WalkEnds("requests"), ~caller.disturbed,
         NEW i \in Listed(ResolveFilter(caller.query)) \ caller.seen
  PROVE  \/ i > caller.inserted
         \/ \E j \in Listed(ResolveFilter(caller.query)) \ {i} : rows[j].at = rows[i].at
<1>1. i \in Mine \ caller.seen /\ WalksRequests
  BY DEF Mine, WalkEnds, WalksRequests
<1>2. i \in Nat /\ caller.inserted \in Nat
  BY <1>1, ListsAreFinite DEF RequestsWalk, Rows, Mine
<1>3. SUFFICES ASSUME i <= caller.inserted, Untied(i) PROVE FALSE
  BY <1>2 DEF Untied, Mine
<1>4. caller.offset <= Cardinality(Newer(i))
  BY <1>1, <1>3 DEF RequestsWalk
<1>5. PICK flip \in BOOLEAN : Page(caller.query, caller.offset, flip) = {}
  BY WalksEndEmpty
<1> QED
  BY <1>1, <1>3, <1>4, <1>5, RequestsPage

-----------------------------------------------------------------------------
(* The walk through the runs, of which the calls are taken together: who   *)
(* ended last is first.                                                    *)
MyCalls == OfRuns(ResolveFilter(caller.query))
EndingLater(t) == {u \in RunsOf(MyCalls) : EndedAt(MyCalls, u) > EndedAt(MyCalls, t)}
Stayed(t) == \A i \in CallsOf(MyCalls, t) : i <= caller.inserted
EndsAlone(t) == \A j \in MyCalls : rows[j].trace # t => rows[j].done # EndedAt(MyCalls, t)

WalksRuns == caller.does = "walk" /\ caller.query.asks = "runs"

RunsWalk ==
  WalksRuns =>
    /\ caller.inserted \in 0..Len(rows)
    /\ \A k \in {1, 2} : caller.window[k] <= Window(caller.query)[k]
    /\ caller.window = Window(caller.query) =>
         \A t \in RunsOf(MyCalls) \ caller.seen :
            Stayed(t) /\ EndsAlone(t) => caller.offset <= Cardinality(EndingLater(t))

EndIn(r, S, t) == Max({r[i].done : i \in {j \in S : r[j].trace = t}})

LEMMA EndsAreReached ==
  ASSUME NEW r \in Seq(Columns), NEW S, S \subseteq DOMAIN r, NEW n \in Nat,
         \A i \in S : r[i].done <= n, NEW k \in S
  PROVE  /\ EndIn(r, S, r[k].trace) \in Nat
         /\ \E i \in S : r[i].trace = r[k].trace /\ r[i].done = EndIn(r, S, r[k].trace)
         /\ \A i \in S : r[i].trace = r[k].trace => r[i].done <= EndIn(r, S, r[k].trace)
<1> DEFINE T == {r[i].done : i \in {j \in S : r[j].trace = r[k].trace}}
<1>1. \A i \in S : r[i].done \in Nat
  <2>1. \A i \in S : r[i] \in Columns
    OBVIOUS
  <2> QED
    BY <2>1 DEF Columns
<1>2. T \subseteq 0..n /\ T # {}
  BY <1>1
<1>3. EndIn(r, S, r[k].trace) = Max(T)
  BY DEF EndIn
<1>4. Max(T) \in T /\ \A y \in T : y <= Max(T)
  BY <1>2, MaxIsLast
<1>5. Max(T) \in Nat
  BY <1>2, <1>4
<1>6. \E i \in S : r[i].trace = r[k].trace /\ r[i].done = Max(T)
  BY <1>4
<1>7. \A i \in S : r[i].trace = r[k].trace => r[i].done <= Max(T)
  BY <1>4
<1> QED
  BY <1>3, <1>5, <1>6, <1>7

LEMMA RunsEnd ==
  ASSUME Rows, NEW S, S \subseteq Ids, NEW t \in RunsOf(S)
  PROVE  /\ EndedAt(S, t) \in Nat
         /\ \E i \in S : rows[i].trace = t /\ rows[i].done = EndedAt(S, t)
         /\ \A i \in S : rows[i].trace = t => rows[i].done <= EndedAt(S, t)
<1>1. PICK k \in S : rows[k].trace = t
  BY DEF RunsOf
<1>2. EndedAt(S, t) = EndIn(rows, S, t)
  BY DEF EndedAt, CallsOf, EndIn
<1>3. now \in Nat /\ \A i \in S : rows[i].done <= now
  BY DEF Rows, WellLogged
<1>4. rows \in Seq(Columns) /\ S \subseteq DOMAIN rows
  BY DEF Rows, Ids
<1> DEFINE e == EndIn(rows, S, rows[k].trace)
<1>5. e = EndedAt(S, t)
  BY <1>1, <1>2
<1>6. /\ e \in Nat
      /\ \E i \in S : rows[i].trace = rows[k].trace /\ rows[i].done = e
      /\ \A i \in S : rows[i].trace = rows[k].trace => rows[i].done <= e
  BY <1>1, <1>3, <1>4, EndsAreReached
<1> HIDE DEF e
<1> QED
  BY <1>1, <1>5, <1>6

LEMMA RunsOrdered ==
  ASSUME Rows, NEW f, NEW flip \in BOOLEAN
  PROVE  IsOrder(RunsOf(OfRuns(f)), [t \in RunsOf(OfRuns(f)) |-> RunsAhead(f, t, flip)])
<1> DEFINE C == OfRuns(f)
           L == RunsOf(C)
           A == [t \in L |-> RunsAhead(f, t, flip)]
           e == [t \in L |-> EndedAt(C, t)]
           c == [t \in L |-> FirstCall(t)]
<1>1. IsFiniteSet(L) /\ C \subseteq Ids /\ Ids \subseteq Nat
  BY ListsAreFinite
<1>2. ASSUME NEW t \in L PROVE e[t] \in Nat
  BY <1>1, RunsEnd
<1>3. ASSUME NEW t \in L PROVE c[t] \in Nat /\ rows[c[t]].trace = t
  <2> DEFINE T == {i \in Ids : rows[i].trace = t}
  <2>1. T \subseteq Nat /\ T # {}
    BY <1>1 DEF RunsOf
  <2>2. FirstCall(t) = Min(T)
    BY DEF FirstCall
  <2>3. Min(T) \in T
    BY <2>1, MinIsFirst
  <2> QED
    BY <2>1, <2>2, <2>3
<1>4. \A t, u \in L : u \in A[t] <=>
          \/ e[u] > e[t]
          \/ e[u] = e[t] /\ (IF flip THEN c[t] < c[u] ELSE c[u] < c[t])
  BY DEF RunsAhead, Precedes
<1>5. \A t \in L : A[t] \subseteq L
  BY DEF RunsAhead
<1> HIDE DEF C, L, A, e, c
<1>6. \A t \in L : A[t] \subseteq L /\ t \notin A[t]
  BY <1>2, <1>3, <1>4, <1>5
<1>7. \A t, u \in L : t # u => t \in A[u] \/ u \in A[t]
  <2>1. \A t, u \in L : t # u => c[t] # c[u]
    BY <1>3
  <2> QED
    BY <1>2, <1>3, <1>4, <2>1
<1>8. ASSUME NEW t \in L, NEW u \in L, t \in A[u], NEW v \in A[t] PROVE v \in A[u]
  <2>1. v \in L
    BY <1>5
  <2> QED
    BY <1>2, <1>3, <1>4, <1>8, <2>1
<1> QED
  BY <1>1, <1>6, <1>7, <1>8 DEF IsOrder, L, A, C

LEMMA RunsPage ==
  ASSUME Rows, Client, WalksRuns, NEW flip \in BOOLEAN, NEW t \in RunsOf(MyCalls),
         EndsAlone(t), caller.offset <= Cardinality(EndingLater(t))
  PROVE  LET page == Page(caller.query, caller.offset, flip)
         IN /\ page # {}
            /\ t \notin page => caller.offset + Cardinality(page) <= Cardinality(EndingLater(t))
<1> DEFINE F == ResolveFilter(caller.query)
           L == RunsOf(OfRuns(F))
           A == [x \in L |-> RunsAhead(F, x, flip)]
           page == Page(caller.query, caller.offset, flip)
           l == ClampLimit(caller.query.limit, DefaultLimit, MaxLimit)
<1>1. IsOrder(L, A)
  BY RunsOrdered
<1>2. caller.offset \in Nat /\ caller.query \in Queries
  BY DEF Client, Walks, WalksRuns
<1>3. l \in Nat /\ l > 0
  BY <1>2, LimitIsPositive, UsageReportsAssumption
<1>4. page = {x \in L : Cardinality(A[x]) \in caller.offset..(caller.offset + l - 1)}
  BY DEF Page, Listing, Ahead, WalksRuns
<1>5. t \in L /\ L = RunsOf(MyCalls)
  BY DEF MyCalls
<1>6. A[t] = EndingLater(t)
  <2>1. A[t] = { u \in L : \/ EndedAt(MyCalls, u) > EndedAt(MyCalls, t)
                           \/ /\ EndedAt(MyCalls, u) = EndedAt(MyCalls, t)
                              /\ Precedes(u, t, flip) }
    BY <1>5 DEF RunsAhead, MyCalls
  <2>2. t \notin A[t]
    BY <1>1, <1>5 DEF IsOrder
  <2>3. ASSUME NEW u \in L, u # t PROVE EndedAt(MyCalls, u) # EndedAt(MyCalls, t)
    <3>1. MyCalls \subseteq Ids
      BY ListsAreFinite DEF MyCalls
    <3>2. PICK i \in MyCalls : rows[i].trace = u /\ rows[i].done = EndedAt(MyCalls, u)
      BY <1>5, <3>1, RunsEnd
    <3> QED
      BY <2>3, <3>2 DEF EndsAlone
  <2>4. ~(EndedAt(MyCalls, t) > EndedAt(MyCalls, t))
    <3>1. EndedAt(MyCalls, t) \in Nat
      BY ListsAreFinite, RunsEnd DEF MyCalls
    <3> QED
      BY <3>1
  <2> HIDE DEF A, L
  <2> QED
    BY <1>5, <2>1, <2>2, <2>3, <2>4 DEF EndingLater
<1> HIDE DEF L, A, page, l
<1>7. Cardinality(A[t]) \in Nat
  BY <1>1, <1>5, RanksAreNumbers
<1>8. page # {}
  <2>1. page = {} => Cardinality(A[t]) < caller.offset
    BY <1>1, <1>2, <1>3, <1>4, <1>5, PageTurns
  <2> QED
    BY <1>2, <1>6, <1>7, <2>1
<1>9. t \notin page => caller.offset + Cardinality(page) <= Cardinality(A[t])
  BY <1>1, <1>2, <1>3, <1>4, <1>5, <1>6, PageTurns
<1> QED
  BY <1>6, <1>8, <1>9 DEF page

LEMMA MyCallsSelected ==
  /\ MyCalls = {i \in Ids : Selects("runs", ResolveFilter(caller.query), rows[i])}
  /\ MyCalls' = {i \in Ids' : Selects("runs", ResolveFilter(caller.query)', rows'[i])}
<1>1. MyCalls = {i \in Ids : Selects("runs", ResolveFilter(caller.query), rows[i])}
  BY DEF MyCalls, OfRuns, InWindow, Selects
<1>2. MyCalls' = {i \in Ids' : Selects("runs", ResolveFilter(caller.query)', rows'[i])}
  BY DEF MyCalls, OfRuns, InWindow, Selects
<1> QED
  BY <1>1, <1>2

LEMMA FinitelyManyLater ==
  ASSUME NEW t
  PROVE  /\ Rows => IsFiniteSet(EndingLater(t))
         /\ Rows' => IsFiniteSet(EndingLater(t)')
<1>1. ASSUME NEW r, NEW S, IsFiniteSet(S), NEW E, E \subseteq {r[i].trace : i \in S}
      PROVE  IsFiniteSet(E)
  <2> DEFINE g == [i \in S |-> r[i].trace]
             T == {r[i].trace : i \in S}
  <2>1. g \in Surjection(S, T)
    BY DEF Surjection
  <2>2. IsFiniteSet(T)
    <3> HIDE DEF g, T
    <3> QED
      BY <1>1, <2>1, FS_Surjection
  <2> QED
    BY <1>1, <2>2, FS_Subset
<1>2. Rows => IsFiniteSet(MyCalls)
  BY ListsAreFinite DEF MyCalls
<1>3. EndingLater(t) \subseteq {rows[i].trace : i \in MyCalls}
  BY DEF EndingLater, RunsOf
<1>4. Rows' => IsFiniteSet(MyCalls')
  <2>1. MyCalls' \subseteq Ids'
    BY DEF MyCalls, OfRuns
  <2>2. Rows' => IsFiniteSet(Ids')
    BY FS_Interval DEF Rows, Ids
  <2> QED
    BY <2>1, <2>2, FS_Subset
<1>5. EndingLater(t)' \subseteq {rows'[i].trace : i \in MyCalls'}
  BY DEF EndingLater, RunsOf
<1> QED
  BY <1>1, <1>2, <1>3, <1>4, <1>5

LEMMA RunsStay ==
  ASSUME Rows', RunsWalk, WalksRuns, Client, Len(rows) <= Len(rows'), Len(rows) \in Nat,
         caller'.query = caller.query, caller'.offset = caller.offset,
         caller'.seen = caller.seen, caller'.inserted = caller.inserted,
         caller'.window = caller.window,
         \A k \in {1, 2} : caller.window[k] <= Window(caller.query)'[k],
         caller.window = Window(caller.query)' =>
            /\ caller.window = Window(caller.query)
            /\ \A t \in RunsOf(MyCalls)' : Stayed(t)' /\ EndsAlone(t)' =>
                  /\ t \in RunsOf(MyCalls) /\ Stayed(t) /\ EndsAlone(t)
                  /\ EndingLater(t) \subseteq EndingLater(t)'
  PROVE  RunsWalk'
<1>1. caller.inserted \in 0..Len(rows')
  BY DEF RunsWalk, Rows
<1>2. ASSUME caller.window = Window(caller.query)', NEW t \in RunsOf(MyCalls)' \ caller.seen,
             Stayed(t)', EndsAlone(t)'
      PROVE  caller.offset <= Cardinality(EndingLater(t)')
  <2>1. t \in RunsOf(MyCalls) /\ Stayed(t) /\ EndsAlone(t)
        /\ EndingLater(t) \subseteq EndingLater(t)' /\ caller.window = Window(caller.query)
    BY <1>2
  <2>2. caller.offset <= Cardinality(EndingLater(t))
    BY <1>2, <2>1 DEF RunsWalk
  <2>3. caller.offset \in Nat
    BY DEF Client, Walks, WalksRuns
  <2>4. IsFiniteSet(EndingLater(t)')
    BY FinitelyManyLater
  <2> QED
    BY <2>1, <2>2, <2>3, <2>4, MoreAhead
<1> QED
  BY <1>1, <1>2 DEF RunsWalk, WalksRuns

(* Calls that are the same, as far as runs are concerned.                  *)
LEMMA RunsUnmoved ==
  ASSUME MyCalls' = MyCalls, caller'.inserted = caller.inserted,
         \A i \in MyCalls : rows'[i].trace = rows[i].trace /\ rows'[i].done = rows[i].done
  PROVE  /\ RunsOf(MyCalls)' = RunsOf(MyCalls)
         /\ \A t : /\ Stayed(t)' <=> Stayed(t)
                   /\ EndsAlone(t)' <=> EndsAlone(t)
                   /\ EndingLater(t)' = EndingLater(t)
<1>1. RunsOf(MyCalls)' = RunsOf(MyCalls)
  BY DEF RunsOf
<1>2. \A t : CallsOf(MyCalls, t)' = CallsOf(MyCalls, t)
  BY DEF CallsOf
<1>3. \A t : EndedAt(MyCalls, t)' = EndedAt(MyCalls, t)
  <2> TAKE t
  <2>1. {rows'[i].done : i \in CallsOf(MyCalls, t)'} = {rows[i].done : i \in CallsOf(MyCalls, t)}
    BY <1>2 DEF CallsOf
  <2> QED
    BY <2>1 DEF EndedAt
<1>4. \A t : Stayed(t)' <=> Stayed(t)
  BY <1>2 DEF Stayed
<1>5. \A t : EndsAlone(t)' <=> EndsAlone(t)
  BY <1>3 DEF EndsAlone
<1>6. \A t : EndingLater(t)' = EndingLater(t)
  BY <1>1, <1>3 DEF EndingLater
<1> QED
  BY <1>1, <1>4, <1>5, <1>6

LEMMA RunsTick ==
  ASSUME Rows, Rows', Client, RunsWalk, WalksRuns, Tick
  PROVE  RunsWalk'
<1>1. caller' = caller /\ rows' = rows /\ Ids' = Ids /\ now \in Nat /\ now' = now + 1
      /\ Len(rows) \in Nat
  BY TickKeepsRows DEF Tick, Ids, Rows
<1>2. caller.query \in Queries /\ caller.window \in Int \X Int
  BY DEF Client, Walks, WalksRuns
<1>3. \A k \in {1, 2} : Window(caller.query)[k] <= Window(caller.query)'[k]
  BY <1>1, <1>2, WindowMoves
<1>4. \A k \in {1, 2} : /\ caller.window[k] <= Window(caller.query)[k]
                       /\ caller.window[k] \in Int /\ Window(caller.query)[k] \in Int
                       /\ Window(caller.query)'[k] \in Int
  BY <1>1, <1>2, WindowMoves, WindowTyped DEF RunsWalk
<1>5. \A k \in {1, 2} : caller.window[k] <= Window(caller.query)'[k]
  BY <1>3, <1>4
<1>6. ASSUME caller.window = Window(caller.query)'
      PROVE  /\ caller.window = Window(caller.query)
             /\ \A t \in RunsOf(MyCalls)' : Stayed(t)' /\ EndsAlone(t)' =>
                   /\ t \in RunsOf(MyCalls) /\ Stayed(t) /\ EndsAlone(t)
                   /\ EndingLater(t) \subseteq EndingLater(t)'
  <2>1. caller.window[1] = Window(caller.query)[1] /\ caller.window[2] = Window(caller.query)[2]
    BY <1>3, <1>4, <1>6
  <2>2. Window(caller.query) = <<Window(caller.query)[1], Window(caller.query)[2]>>
    BY <1>1, <1>2, WindowTyped
  <2>3. caller.window = Window(caller.query)
    BY <1>2, <2>1, <2>2
  <2>4. ResolveFilter(caller.query)' = ResolveFilter(caller.query)
    BY <1>1, <1>6, <2>3 DEF ResolveFilter
  <2>5. MyCalls' = MyCalls
    BY <1>1, <2>4, MyCallsSelected
  <2> QED
    BY <1>1, <2>3, <2>5, RunsUnmoved
<1> QED
  BY <1>1, <1>5, <1>6, RunsStay

LEMMA RunsReindex ==
  ASSUME Rows, Rows', Client, RunsWalk, WalksRuns, Reindex
  PROVE  RunsWalk'
<1>1. /\ Flips /\ now' = now
      /\ caller'.query = caller.query /\ caller'.offset = caller.offset
      /\ caller'.seen = caller.seen /\ caller'.inserted = caller.inserted
      /\ caller'.window = caller.window
  BY ReindexFlips, ReindexDisturbs DEF Reindex, WalksRuns
<1>2. Ids = Ids' /\ Len(rows) <= Len(rows') /\ Len(rows) \in Nat
      /\ \A i \in Ids : SameButIndexed(rows'[i], rows[i])
  BY <1>1 DEF Flips, Rows, Ids
<1> DEFINE f == ResolveFilter(caller.query)
<1>3. /\ MyCalls = {i \in Ids : Selects("runs", f, rows[i])}
      /\ MyCalls' = {i \in Ids' : Selects("runs", f, rows'[i])}
  BY <1>1, MyCallsSelected, SameFilter
<1> HIDE DEF f
<1>4. \A j \in Ids : Selects("runs", f, rows'[j]) <=> Selects("runs", f, rows[j])
  BY <1>2, IndexUnseen
<1>5. MyCalls' = MyCalls /\ MyCalls \subseteq Ids
  BY <1>2, <1>3, <1>4
<1>6. \A i \in MyCalls : rows'[i].trace = rows[i].trace /\ rows'[i].done = rows[i].done
  BY <1>2, <1>5 DEF SameButIndexed
<1>7. Window(caller.query)' = Window(caller.query)
  BY <1>1 DEF Window, NextMidnight
<1>8. /\ RunsOf(MyCalls)' = RunsOf(MyCalls)
      /\ \A t : /\ Stayed(t)' <=> Stayed(t)
                /\ EndsAlone(t)' <=> EndsAlone(t)
                /\ EndingLater(t)' = EndingLater(t)
  BY <1>1, <1>5, <1>6, RunsUnmoved
<1>9. \A k \in {1, 2} : caller.window[k] <= Window(caller.query)'[k]
  BY <1>7 DEF RunsWalk
<1> QED
  BY <1>1, <1>2, <1>7, <1>8, <1>9, RunsStay

LEMMA RunsInsert ==
  ASSUME Rows, Rows', Client, RunsWalk, WalksRuns, InsertRow
  PROVE  RunsWalk'
<1>1. caller' = caller /\ now' = now /\ Grows
  BY InsertGrows DEF InsertRow
<1>2. Ids = 1..Len(rows) /\ Ids' = 1..(Len(rows) + 1) /\ Len(rows) \in Nat
      /\ \A i \in Ids : rows'[i] = rows[i]
  BY <1>1 DEF Grows, Rows, Ids
<1>3. caller.inserted \in 0..Len(rows)
  BY DEF RunsWalk
<1> DEFINE f == ResolveFilter(caller.query)
<1>4. /\ MyCalls = {i \in Ids : Selects("runs", f, rows[i])}
      /\ MyCalls' = {i \in Ids' : Selects("runs", f, rows'[i])}
  BY <1>1, MyCallsSelected, SameFilter
<1> HIDE DEF f
<1>5. MyCalls \subseteq MyCalls' /\ MyCalls \subseteq Ids /\ MyCalls' \subseteq Ids'
      /\ \A i \in MyCalls' : i <= caller.inserted => i \in MyCalls
  BY <1>2, <1>3, <1>4
<1>6. \A i \in MyCalls : rows'[i] = rows[i]
  BY <1>2, <1>5
<1> DEFINE C == MyCalls
           D == MyCalls'
<1>7. ASSUME NEW t \in RunsOf(MyCalls)', Stayed(t)', EndsAlone(t)'
      PROVE  /\ t \in RunsOf(MyCalls) /\ Stayed(t) /\ EndsAlone(t)
             /\ EndingLater(t) \subseteq EndingLater(t)'
  <2>1. {i \in D : rows'[i].trace = t} = {i \in C : rows[i].trace = t}
    <3>1. \A i \in D : rows'[i].trace = t => i <= caller.inserted
      BY <1>1, <1>7 DEF Stayed, CallsOf
    <3> QED
      BY <1>5, <1>6, <3>1
  <2>2. t \in RunsOf(MyCalls)
    <3>1. PICK i \in D : rows'[i].trace = t
      BY DEF RunsOf
    <3> QED
      BY <2>1, <3>1 DEF RunsOf
  <2>3. Stayed(t)
    BY <1>1, <1>7, <2>1 DEF Stayed, CallsOf
  <2>4. EndedAt(MyCalls, t)' = EndedAt(MyCalls, t)
    <3>1. CallsOf(MyCalls, t)' = CallsOf(MyCalls, t)
      BY <2>1 DEF CallsOf
    <3>2. \A i \in CallsOf(MyCalls, t) : rows'[i].done = rows[i].done
      BY <1>6 DEF CallsOf
    <3>3. {rows'[i].done : i \in CallsOf(MyCalls, t)'} = {rows[i].done : i \in CallsOf(MyCalls, t)}
      BY <3>1, <3>2
    <3> QED
      BY <3>3 DEF EndedAt
  <2>5. EndsAlone(t)
    BY <1>5, <1>6, <1>7, <2>4 DEF EndsAlone
  <2>6. ASSUME NEW u \in EndingLater(t) PROVE u \in EndingLater(t)'
    <3>1. u \in RunsOf(MyCalls) /\ EndedAt(MyCalls, u) > EndedAt(MyCalls, t)
      BY DEF EndingLater
    <3>2. PICK i \in C : rows[i].trace = u /\ rows[i].done = EndedAt(MyCalls, u)
      BY <1>5, <3>1, RunsEnd
    <3>3. i \in D /\ rows'[i].trace = u /\ rows'[i].done = EndedAt(MyCalls, u)
      BY <1>5, <1>6, <3>2
    <3>4. u \in RunsOf(MyCalls)'
      BY <3>3 DEF RunsOf
    <3>5. EndedAt(MyCalls, u)' = EndIn(rows', D, u)
      BY DEF EndedAt, CallsOf, EndIn
    <3>6. rows' \in Seq(Columns) /\ D \subseteq DOMAIN rows' /\ now' \in Nat
          /\ \A j \in D : rows'[j].done <= now'
      BY <1>5 DEF Rows, Ids, WellLogged
    <3>7. EndIn(rows', D, u) \in Nat /\ rows'[i].done <= EndIn(rows', D, u)
      <4> HIDE DEF D
      <4> QED
        BY <3>3, <3>6, EndsAreReached
    <3>8. EndedAt(MyCalls, u) \in Nat /\ EndedAt(MyCalls, t) \in Nat
      BY <1>5, <2>2, <3>1, RunsEnd
    <3>9. EndedAt(MyCalls, u)' > EndedAt(MyCalls, t)'
      BY <2>4, <3>1, <3>3, <3>5, <3>7, <3>8
    <3> QED
      BY <3>4, <3>9 DEF EndingLater
  <2> QED
    BY <2>2, <2>3, <2>5, <2>6
<1>8. Len(rows) <= Len(rows')
  BY <1>1, <1>2 DEF Grows
<1>9. Window(caller.query)' = Window(caller.query)
  BY <1>1 DEF Window, NextMidnight
<1>10. \A k \in {1, 2} : caller.window[k] <= Window(caller.query)'[k]
  BY <1>9 DEF RunsWalk
<1> QED
  BY <1>1, <1>2, <1>7, <1>8, <1>9, <1>10, RunsStay

LEMMA NextRunsWalk ==
  Rows /\ Rows' /\ Client /\ RunsWalk /\ [Next]_vars => RunsWalk'
<1> SUFFICES ASSUME Rows, Rows', Client, RunsWalk, [Next]_vars PROVE RunsWalk'
  OBVIOUS
<1>1. CASE Tick \/ InsertRow \/ Reindex
  <2>1. CASE WalksRuns
    BY <1>1, <2>1, RunsTick, RunsInsert, RunsReindex
  <2>2. CASE ~WalksRuns
    <3>1. ~WalksRuns'
      BY <1>1, <2>2, ReindexDisturbs DEF WalksRuns, Tick, InsertRow
    <3> QED
      BY <3>1 DEF RunsWalk
  <2> QED
    BY <2>1, <2>2
<1>2. CASE StartWalk
  <2>1. PICK q \in {p \in Queries : p.asks \in {"requests", "runs"}} :
          caller' = [does |-> "walk", query |-> q, window |-> Window(q), offset |-> 0,
                     seen |-> {}, inserted |-> Len(rows), disturbed |-> FALSE]
    BY <1>2 DEF StartWalk
  <2>2. /\ caller'.offset = 0 /\ caller'.inserted = Len(rows) /\ caller'.query = q
        /\ caller'.window = Window(q) /\ rows' = rows /\ now' = now /\ Len(rows) \in Nat
        /\ now \in Nat
    BY <1>2, <2>1 DEF StartWalk, Rows
  <2>3. ASSUME NEW t PROVE 0 <= Cardinality(EndingLater(t)')
    BY FinitelyManyLater, FS_CardinalityType
  <2>4. Window(caller.query)' = Window(q)
    BY <2>2 DEF Window, NextMidnight
  <2>5. \A k \in {1, 2} : caller'.window[k] <= Window(caller.query)'[k]
    BY <2>2, <2>4, WindowTyped
  <2> QED
    BY <2>2, <2>3, <2>5 DEF RunsWalk
<1>3. CASE NextPage
  <2>1. PICK flip \in BOOLEAN : Turns(flip)
    BY <1>3, NextPageTurns
  <2> DEFINE page == Page(caller.query, caller.offset, flip)
  <2>2. CASE page = {}
    BY <2>1, <2>2 DEF Turns, Idle, RunsWalk, WalksRuns
  <2>3. CASE page # {}
    <3>1. /\ caller.does = "walk" /\ caller'.query = caller.query
          /\ caller'.inserted = caller.inserted /\ caller'.window = caller.window
          /\ caller'.offset = caller.offset + Cardinality(page)
          /\ caller'.seen = caller.seen \cup page
      BY <1>3, <2>1, <2>3, NextPageTurns DEF Turns
    <3>2. rows' = rows /\ now' = now /\ Ids' = Ids
      BY <1>3 DEF NextPage, Ids
    <3>3. MyCalls' = MyCalls
      BY <3>1, <3>2, MyCallsSelected, SameFilter
    <3>4. ASSUME WalksRuns, caller.window = Window(caller.query),
                 NEW t \in RunsOf(MyCalls) \ (caller.seen \cup page), Stayed(t), EndsAlone(t)
          PROVE  caller.offset + Cardinality(page) <= Cardinality(EndingLater(t))
      <4>1. caller.offset <= Cardinality(EndingLater(t))
        BY <3>4 DEF RunsWalk
      <4> QED
        BY <3>4, <4>1, RunsPage
    <3>5. /\ RunsOf(MyCalls)' = RunsOf(MyCalls)
          /\ \A t : /\ Stayed(t)' <=> Stayed(t)
                    /\ EndsAlone(t)' <=> EndsAlone(t)
                    /\ EndingLater(t)' = EndingLater(t)
      BY <3>1, <3>2, <3>3, RunsUnmoved
    <3>6. WalksRuns' => WalksRuns
      BY <3>1 DEF WalksRuns
    <3>7. Window(caller.query)' = Window(caller.query)
      BY <3>1, <3>2 DEF Window, NextMidnight
    <3> HIDE DEF page
    <3>8. WalksRuns => /\ caller.inserted \in 0..Len(rows)
                       /\ \A k \in {1, 2} : caller.window[k] <= Window(caller.query)[k]
      BY DEF RunsWalk
    <3> QED
      BY <3>1, <3>2, <3>4, <3>5, <3>6, <3>7, <3>8 DEF RunsWalk
  <2> QED
    BY <2>2, <2>3
<1>4. CASE FirstStatement \/ SecondStatement \/ ReportReturned
  <2>1. caller'.does # "walk"
    BY <1>4 DEF FirstStatement, SecondStatement, ReportReturned, Idle
  <2> QED
    BY <2>1 DEF RunsWalk, WalksRuns
<1>5. CASE UNCHANGED vars
  <2>1. rows' = rows /\ now' = now /\ caller' = caller /\ Ids' = Ids
    BY <1>5 DEF vars, Ids
  <2>2. MyCalls' = MyCalls
    BY <2>1, MyCallsSelected, SameFilter
  <2>3. /\ RunsOf(MyCalls)' = RunsOf(MyCalls)
        /\ \A t : /\ Stayed(t)' <=> Stayed(t)
                  /\ EndsAlone(t)' <=> EndsAlone(t)
                  /\ EndingLater(t)' = EndingLater(t)
    BY <2>1, <2>2, RunsUnmoved
  <2>4. Window(caller.query)' = Window(caller.query)
    BY <2>1 DEF Window, NextMidnight
  <2> QED
    BY <2>1, <2>3, <2>4 DEF RunsWalk, WalksRuns
<1> QED
  BY <1>1, <1>2, <1>3, <1>4, <1>5 DEF Next

LEMMA RunsNotMissed ==
  ASSUME Rows, Client, RunsWalk, [Next]_vars, WalkEnds("runs"),
         caller.window = Window(caller.query),
         NEW t \in RunsOf(OfRuns(ResolveFilter(caller.query))) \ caller.seen
  PROVE  LET calls == OfRuns(ResolveFilter(caller.query))
         IN \/ \E i \in CallsOf(calls, t) : i > caller.inserted
            \/ \E j \in calls : rows[j].trace # t /\ rows[j].done = EndedAt(calls, t)
<1>1. t \in RunsOf(MyCalls) \ caller.seen /\ WalksRuns
  BY DEF MyCalls, WalkEnds, WalksRuns
<1>2. \A i \in CallsOf(MyCalls, t) : i \in Nat
  BY ListsAreFinite DEF MyCalls, CallsOf
<1>3. caller.inserted \in Nat
  BY <1>1 DEF RunsWalk
<1>4. ASSUME Stayed(t), EndsAlone(t) PROVE FALSE
  <2>1. caller.offset <= Cardinality(EndingLater(t))
    BY <1>1, <1>4 DEF RunsWalk
  <2>2. PICK flip \in BOOLEAN : Page(caller.query, caller.offset, flip) = {}
    BY WalksEndEmpty
  <2> QED
    BY <1>1, <1>4, <2>1, <2>2, RunsPage
<1>5. ~Stayed(t) => \E i \in CallsOf(MyCalls, t) : i > caller.inserted
  BY <1>2, <1>3 DEF Stayed
<1>6. ~EndsAlone(t) => \E j \in MyCalls : rows[j].trace # t /\ rows[j].done = EndedAt(MyCalls, t)
  BY DEF EndsAlone
<1> QED
  BY <1>4, <1>5, <1>6 DEF MyCalls

-----------------------------------------------------------------------------
(* GROUP BY: the groups of a set of rows add up to its totals.             *)
GroupedBy(S, col) == [v \in {col[i] : i \in S} |-> Total({i \in S : col[i] = v})]

LEMMA RowsCost ==
  ASSUME Rows
  PROVE  IsFiniteSet(Ids) /\ \A i \in Ids : rows[i].cost \in Nat
<1>1. Ids = 1..Len(rows) /\ Len(rows) \in Nat
  BY DEF Rows, Ids
<1>2. ASSUME NEW i \in Ids PROVE rows[i].cost \in Nat
  <2>1. rows[i] \in Columns
    BY DEF Rows, Ids
  <2>2. rows[i].cost \in {c.cost : c \in Calls}
    BY <2>1 DEF Columns
  <2> QED
    BY <2>2, UsageReportsAssumption
<1> QED
  BY <1>1, <1>2, FS_Interval

FailedOf(S) == {i \in S : ~rows[i].ok}

LEMMA TotalSums ==
  ASSUME Rows, NEW T, T \subseteq Ids, NEW c, \A i \in T : c[i] = rows[i].cost,
         NEW one, \A i \in T : one[i] = 1
  PROVE  /\ Total(T).count = SumUp(one, T)
         /\ Total(T).cost = SumUp(c, T)
         /\ Total(T).errors = SumUp(one, FailedOf(T))
<1> DEFINE E == FailedOf(T)
<1>0. E \subseteq T
  BY DEF FailedOf
<1>1. IsFiniteSet(T) /\ IsFiniteSet(E)
  BY <1>0, RowsCost, FS_Subset
<1>2. Total(T) = [count |-> Cardinality(T), cost |-> ColumnSum(rows, "cost", T),
                  errors |-> Cardinality(E)]
  BY DEF Total, FailedOf, ColumnSum, MapThenSumSet, MapThenFoldSet
<1>3. Cardinality(T) = SumUp(one, T)
  BY <1>1, CardinalityIsSum
<1>4. Cardinality(E) = SumUp(one, E)
  <2>1. \A i \in E : one[i] = 1
    BY <1>0
  <2> HIDE DEF E
  <2> QED
    BY <1>1, <2>1, CardinalityIsSum
<1>5. ColumnSum(rows, "cost", T) = SumUp(c, T)
  <2>1. \A i \in T : c[i] = rows[i]["cost"]
    OBVIOUS
  <2> QED
    BY <1>1, <2>1, ColumnIsSum
<1> QED
  BY <1>2, <1>3, <1>4, <1>5

LEMMA GroupsAddUp ==
  ASSUME Rows, NEW S, S \subseteq Ids, NEW col
  PROVE  Combined(GroupedBy(S, col)) = Total(S)
<1> DEFINE V == {col[i] : i \in S}
           class == [v \in V |-> {i \in S : col[i] = v}]
           failed == [v \in V |-> FailedOf(class[v])]
           E == FailedOf(S)
           groups == GroupedBy(S, col)
           c == [i \in S |-> rows[i].cost]
           one == [i \in S |-> 1]
<1>1. IsFiniteSet(S) /\ \A i \in S : c[i] \in Nat /\ c[i] = rows[i].cost
  BY RowsCost, FS_Subset
<1>2. \A i \in S : one[i] \in Nat /\ one[i] = 1
  OBVIOUS
<1>3. IsFiniteSet(V)
  <2> DEFINE g == [i \in S |-> col[i]]
  <2>1. g \in Surjection(S, V)
    BY DEF Surjection
  <2> HIDE DEF g, V
  <2> QED
    BY <1>1, <2>1, FS_Surjection
<1>0. /\ \A v \in V : \A i : i \in class[v] <=> (i \in S /\ col[i] = v)
      /\ \A v \in V : \A i : i \in failed[v] <=> (i \in class[v] /\ ~rows[i].ok)
      /\ \A i \in S : col[i] \in V
  BY DEF FailedOf
<1>4. (\A v \in V : class[v] \subseteq S) /\ IsPartition(S, V, class)
  <2> HIDE DEF class, failed, V
  <2> QED
    BY <1>0, <1>1, <1>3 DEF IsPartition
<1>5. IsPartition(E, V, failed)
  <2>1. \A i : i \in E <=> (i \in S /\ ~rows[i].ok)
    BY DEF FailedOf
  <2> HIDE DEF class, failed, V, E
  <2>2. IsFiniteSet(E) /\ E \subseteq S
    BY <1>1, <2>1, FS_Subset
  <2> QED
    BY <1>0, <1>3, <2>1, <2>2 DEF IsPartition
<1>6. ASSUME NEW v \in V
      PROVE  /\ groups[v].count = SumUp(one, class[v])
             /\ groups[v].cost = SumUp(c, class[v])
             /\ groups[v].errors = SumUp(one, failed[v])
  <2>1. groups[v] = Total(class[v])
    BY DEF GroupedBy
  <2>2. failed[v] = FailedOf(class[v])
    OBVIOUS
  <2>3. class[v] \subseteq S
    BY <1>4
  <2>4. class[v] \subseteq Ids /\ \A i \in class[v] : c[i] = rows[i].cost /\ one[i] = 1
    <3>1. \A i \in S : c[i] = rows[i].cost /\ one[i] = 1
      BY <1>1, <1>2
    <3> HIDE DEF class, c, one, V
    <3> QED
      BY <2>3, <3>1
  <2> HIDE DEF class, failed, groups, c, one, V
  <2> QED
    BY <2>1, <2>2, <2>4, TotalSums
<1>7. DOMAIN groups = V
  BY DEF GroupedBy
<1>8. Combined(groups) = [count |-> ColumnSum(groups, "count", V),
                          cost |-> ColumnSum(groups, "cost", V),
                          errors |-> ColumnSum(groups, "errors", V)]
  <2> HIDE DEF groups, V
  <2> QED
    BY <1>7 DEF Combined, ColumnSum, MapThenSumSet, MapThenFoldSet
<1>9. /\ Total(S) = [count |-> Total(S).count, cost |-> Total(S).cost,
                      errors |-> Total(S).errors]
      /\ Total(S).count = SumUp(one, S)
      /\ Total(S).cost = SumUp(c, S)
      /\ Total(S).errors = SumUp(one, E)
  <2> HIDE DEF c, one
  <2>1. Total(S) = [count |-> Total(S).count, cost |-> Total(S).cost,
                    errors |-> Total(S).errors]
    BY DEF Total
  <2>3. \A i \in S : c[i] = rows[i].cost /\ one[i] = 1
    BY <1>1, <1>2
  <2> QED
    BY <2>1, <2>3, TotalSums
<1>14. \A i \in E : one[i] \in Nat
  BY <1>2 DEF FailedOf
<1>15. (\A i \in S : one[i] \in Nat) /\ (\A i \in S : c[i] \in Nat)
  BY <1>1, <1>2
<1> HIDE DEF class, failed, E, groups, c, one, V
<1> DEFINE counts == [v \in V |-> SumUp(one, class[v])]
           costs == [v \in V |-> SumUp(c, class[v])]
           errors == [v \in V |-> SumUp(one, failed[v])]
<1>10. ColumnSum(groups, "count", V) = SumUp(one, S)
  <2>1. \A v \in V : counts[v] = groups[v]["count"] /\ counts[v] = SumUp(one, class[v])
    BY <1>6
  <2> HIDE DEF counts
  <2>4. AreSums(counts, one, V, class)
    BY <2>1 DEF AreSums
  <2>2. ColumnSum(groups, "count", V) = SumUp(counts, V)
    BY <1>3, <2>1, ColumnIsSum
  <2>3. SumUp(counts, V) = SumUp(one, S)
    BY <1>4, <1>15, <2>4, SumOfClasses
  <2> QED
    BY <2>2, <2>3
<1>11. ColumnSum(groups, "cost", V) = SumUp(c, S)
  <2>1. \A v \in V : costs[v] = groups[v]["cost"] /\ costs[v] = SumUp(c, class[v])
    BY <1>6
  <2> HIDE DEF costs
  <2>4. AreSums(costs, c, V, class)
    BY <2>1 DEF AreSums
  <2>2. ColumnSum(groups, "cost", V) = SumUp(costs, V)
    BY <1>3, <2>1, ColumnIsSum
  <2>3. SumUp(costs, V) = SumUp(c, S)
    BY <1>4, <1>15, <2>4, SumOfClasses
  <2> QED
    BY <2>2, <2>3
<1>12. ColumnSum(groups, "errors", V) = SumUp(one, E)
  <2>1. \A v \in V : errors[v] = groups[v]["errors"] /\ errors[v] = SumUp(one, failed[v])
    BY <1>6
  <2> HIDE DEF errors
  <2>4. AreSums(errors, one, V, failed)
    BY <2>1 DEF AreSums
  <2>2. ColumnSum(groups, "errors", V) = SumUp(errors, V)
    BY <1>3, <2>1, ColumnIsSum
  <2>3. SumUp(errors, V) = SumUp(one, E)
    BY <1>5, <1>14, <2>4, SumOfClasses
  <2> QED
    BY <2>2, <2>3
<1>13. Combined(groups) = Total(S)
  BY <1>8, <1>9, <1>10, <1>11, <1>12
<1> QED
  BY <1>13 DEF groups

(* The columns that the reports group by.                                  *)
LEMMA ReportsAreGroups ==
  ASSUME NEW f
  PROVE  /\ DailyUsage(f) = GroupedBy(SummaryRows(f), [i \in SummaryRows(f) |-> Day(i)])
         /\ ModelBreakdown(f) = GroupedBy(SummaryRows(f),
                [i \in SummaryRows(f) |-> <<rows[i].provider, rows[i].model>>])
         /\ ProviderBreakdown(f) = GroupedBy(SummaryRows(f),
                [i \in SummaryRows(f) |-> rows[i].provider])
         /\ APIKeyBreakdown(f) = GroupedBy(AnyKey(f), [i \in AnyKey(f) |-> rows[i].key])
         /\ MetadataBreakdown(f) = GroupedBy(MetadataRows(f),
                [i \in MetadataRows(f) |-> rows[i].meta])
<1>1. DailyUsage(f) = GroupedBy(SummaryRows(f), [i \in SummaryRows(f) |-> Day(i)])
  BY ClausesAgree DEF DailyUsage, Grouped, GroupedBy
<1>2. ModelBreakdown(f) = GroupedBy(SummaryRows(f),
                [i \in SummaryRows(f) |-> <<rows[i].provider, rows[i].model>>])
  BY ClausesAgree DEF ModelBreakdown, Grouped, GroupedBy
<1>3. ProviderBreakdown(f) = GroupedBy(SummaryRows(f),
                [i \in SummaryRows(f) |-> rows[i].provider])
  BY ClausesAgree DEF ProviderBreakdown, Grouped, GroupedBy
<1>4. APIKeyBreakdown(f) = GroupedBy(AnyKey(f), [i \in AnyKey(f) |-> rows[i].key])
  BY DEF APIKeyBreakdown, Grouped, GroupedBy
<1>5. MetadataBreakdown(f) = GroupedBy(MetadataRows(f),
                [i \in MetadataRows(f) |-> rows[i].meta])
  BY DEF MetadataBreakdown, Grouped, GroupedBy
<1> QED
  BY <1>1, <1>2, <1>3, <1>4, <1>5

(* The filters with one of their columns left out or replaced.             *)
LEMMA FiltersSelect ==
  ASSUME NEW q
  PROVE  LET f == ResolveFilter(q)
             plain == [f EXCEPT !.provider = None, !.model = None, !.meta = None,
                                !.status = None]
             open(i) == f.from <= rows[i].at /\ rows[i].at < f.to
         IN /\ AnyKey(f) = {i \in Ids : /\ open(i)
                                        /\ f.meta = None \/ (rows[i].indexed /\ rows[i].meta = f.meta)
                                        /\ Fits(rows[i].provider, f.provider)
                                        /\ Fits(rows[i].model, f.model)}
            /\ AnyKey(f) = SummaryRows([f EXCEPT !.key = None])
            /\ Listed([f EXCEPT !.status = "error", !.noRuns = FALSE])
                 = {i \in SummaryRows(f) : OfStatus(i, "error")}
            /\ OfRuns(plain)
                 = {i \in Ids : open(i) /\ rows[i].trace # None /\ Fits(rows[i].key, f.key)}
            /\ Listed([plain EXCEPT !.noRuns = TRUE])
                 = {i \in Ids : open(i) /\ rows[i].trace = None /\ Fits(rows[i].key, f.key)}
            /\ Listed([plain EXCEPT !.noRuns = FALSE])
                 = {i \in Ids : open(i) /\ Fits(rows[i].key, f.key)}
<1> DEFINE f == ResolveFilter(q)
           from == Window(q)[1]
           to == Window(q)[2]
           plain == [f EXCEPT !.provider = None, !.model = None, !.meta = None,
                              !.status = None]
           open(i) == f.from <= rows[i].at /\ rows[i].at < f.to
<1>1. f = [from |-> from, to |-> to, key |-> q.key, provider |-> q.provider,
           model |-> q.model, status |-> q.status, meta |-> q.meta, noRuns |-> q.noRuns]
  BY DEF ResolveFilter
<1> HIDE DEF f, from, to
<1>2. AnyKey(f) = {i \in Ids : /\ open(i)
                               /\ f.meta = None \/ (rows[i].indexed /\ rows[i].meta = f.meta)
                               /\ Fits(rows[i].provider, f.provider)
                               /\ Fits(rows[i].model, f.model)}
  BY DEF AnyKey, InWindow, Indexed
<1>9. AnyKey(f) = SummaryRows([f EXCEPT !.key = None])
  <2> DEFINE g == [f EXCEPT !.key = None]
  <2>1. /\ g.from = f.from /\ g.to = f.to /\ g.key = None /\ g.provider = f.provider
        /\ g.model = f.model /\ g.meta = f.meta
    BY <1>1
  <2> HIDE DEF g
  <2>2. ASSUME NEW i PROVE Fits(rows[i].key, g.key)
    BY <2>1 DEF Fits
  <2>3. AnyKey(f) = SummaryRows(g)
    BY <2>1, <2>2 DEF AnyKey, SummaryRows, InWindow, Indexed
  <2> QED
    BY <2>3 DEF g
<1>3. Listed([f EXCEPT !.status = "error", !.noRuns = FALSE])
        = {i \in SummaryRows(f) : OfStatus(i, "error")}
  <2> DEFINE g == [f EXCEPT !.status = "error", !.noRuns = FALSE]
  <2>1. /\ g.from = f.from /\ g.to = f.to /\ g.key = f.key /\ g.provider = f.provider
        /\ g.model = f.model /\ g.meta = f.meta /\ g.status = "error" /\ g.noRuns = FALSE
    BY <1>1
  <2> HIDE DEF g
  <2>2. SummaryRows(g) = SummaryRows(f)
    BY <2>1 DEF SummaryRows, InWindow, Indexed
  <2>3. Listed(g) = {i \in SummaryRows(g) : OfStatus(i, "error")}
    BY <2>1 DEF Listed, SummaryRows
  <2> QED
    BY <2>2, <2>3 DEF g
<1>4. /\ plain = [from |-> from, to |-> to, key |-> q.key, provider |-> None,
                  model |-> None, status |-> None, meta |-> None, noRuns |-> q.noRuns]
      /\ f.from = from /\ f.to = to /\ f.key = q.key
  <2> DEFINE key == q.key
             a == q.provider
             b == q.model
             c == q.status
             d == q.meta
             e == q.noRuns
             g == [f EXCEPT !.provider = None]
             h == [g EXCEPT !.model = None]
             k == [h EXCEPT !.meta = None]
             l == [k EXCEPT !.status = None]
  <2>0. f = [from |-> from, to |-> to, key |-> key, provider |-> a,
             model |-> b, status |-> c, meta |-> d, noRuns |-> e]
    BY <1>1
  <2>1. plain = l
    OBVIOUS
  <2> HIDE DEF plain, l, k, h, g, a, b, c, d, e, key
  <2>2. g = [from |-> from, to |-> to, key |-> key, provider |-> None,
             model |-> b, status |-> c, meta |-> d, noRuns |-> e]
    BY <2>0 DEF g
  <2>3. h = [from |-> from, to |-> to, key |-> key, provider |-> None,
             model |-> None, status |-> c, meta |-> d, noRuns |-> e]
    BY <2>2 DEF h
  <2>4. k = [from |-> from, to |-> to, key |-> key, provider |-> None,
             model |-> None, status |-> c, meta |-> None, noRuns |-> e]
    BY <2>3 DEF k
  <2>5. l = [from |-> from, to |-> to, key |-> key, provider |-> None,
             model |-> None, status |-> None, meta |-> None, noRuns |-> e]
    BY <2>4 DEF l
  <2>6. f.from = from /\ f.to = to /\ f.key = key
    BY <2>0
  <2> QED
    BY <2>1, <2>5, <2>6 DEF key, e
<1>5. OfRuns(plain) = {i \in Ids : open(i) /\ rows[i].trace # None /\ Fits(rows[i].key, f.key)}
  <2>1. plain.from = f.from /\ plain.to = f.to /\ plain.key = f.key
    BY <1>4
  <2> HIDE DEF plain
  <2> QED
    BY <2>1 DEF OfRuns, InWindow
<1>6. ASSUME NEW b \in BOOLEAN
      PROVE  Listed([plain EXCEPT !.noRuns = b])
               = {i \in Ids : open(i) /\ Fits(rows[i].key, f.key) /\ (b => rows[i].trace = None)}
  <2> DEFINE g == [plain EXCEPT !.noRuns = b]
  <2>1. /\ g.from = f.from /\ g.to = f.to /\ g.key = f.key /\ g.provider = None
        /\ g.model = None /\ g.meta = None /\ g.status = None
    <3> HIDE DEF plain
    <3> QED
      BY <1>4
  <2>2. g.noRuns = b
    <3> HIDE DEF plain
    <3> QED
      BY <1>4
  <2> HIDE DEF g
  <2>3. SummaryRows(g) = {i \in Ids : open(i) /\ Fits(rows[i].key, f.key)}
    BY <2>1 DEF SummaryRows, InWindow, Indexed, Fits
  <2>4. \A i : OfStatus(i, g.status)
    BY <2>1 DEF OfStatus
  <2>5. Listed(g) = {i \in SummaryRows(g) : b => rows[i].trace = None}
    BY <2>2, <2>4 DEF Listed, SummaryRows
  <2> QED
    BY <2>3, <2>5 DEF g
<1>7. Listed([plain EXCEPT !.noRuns = TRUE])
        = {i \in Ids : open(i) /\ rows[i].trace = None /\ Fits(rows[i].key, f.key)}
  <2> HIDE DEF plain
  <2> QED
    BY <1>6
<1>8. Listed([plain EXCEPT !.noRuns = FALSE])
        = {i \in Ids : open(i) /\ Fits(rows[i].key, f.key)}
  <2> HIDE DEF plain
  <2> QED
    BY <1>6
<1> QED
  BY <1>2, <1>3, <1>5, <1>7, <1>8, <1>9 DEF f

LEMMA ReportsAgree ==
  ASSUME Rows, NEW q
  PROVE  LET f == ResolveFilter(q)
             failed == [f EXCEPT !.status = "error", !.noRuns = FALSE]
             plain == [f EXCEPT !.provider = None, !.model = None, !.meta = None,
                                !.status = None]
         IN /\ Combined(DailyUsage(f)) = UsageSummary(f)
            /\ Combined(ModelBreakdown(f)) = UsageSummary(f)
            /\ Combined(ProviderBreakdown(f)) = UsageSummary(f)
            /\ Combined(APIKeyBreakdown(f)) = UsageSummary([f EXCEPT !.key = None])
            /\ f.key \in DOMAIN APIKeyBreakdown(f) => APIKeyBreakdown(f)[f.key] = UsageSummary(f)
            /\ f.meta # None => Combined(MetadataBreakdown(f)) = UsageSummary(f)
            /\ \A asks \in {"errors", "latency", "requests", "runs"} :
                  ReadFirst(asks, f) = ReadSecond(asks, f)
            /\ Total(ErrorTotals(f)) = UsageSummary(f) /\ LatencyTotals(f) = ErrorTotals(f)
            /\ \A limit : \A flip \in BOOLEAN :
                  RecentErrors(f, limit, flip)
                    = {i \in Listed(failed) :
                          Cardinality(RequestsAhead(failed, i, flip)) < limit}
            /\ Cardinality(ErrorRows(f)) = UsageSummary(f).errors
            /\ OfRuns(plain) \cup Listed([plain EXCEPT !.noRuns = TRUE])
                 = Listed([plain EXCEPT !.noRuns = FALSE])
<1> DEFINE f == ResolveFilter(q)
           failed == [f EXCEPT !.status = "error", !.noRuns = FALSE]
           plain == [f EXCEPT !.provider = None, !.model = None, !.meta = None,
                              !.status = None]
           open(i) == f.from <= rows[i].at /\ rows[i].at < f.to
<1> HIDE DEF f
<1>0. SummaryRows(f) \subseteq Ids /\ AnyKey(f) \subseteq Ids
  BY DEF SummaryRows, AnyKey
<1>1. UsageSummary(f) = Total(SummaryRows(f))
  BY DEF UsageSummary
<1>2. Combined(DailyUsage(f)) = UsageSummary(f)
  BY <1>0, <1>1, ReportsAreGroups, GroupsAddUp
<1>3. Combined(ModelBreakdown(f)) = UsageSummary(f)
  BY <1>0, <1>1, ReportsAreGroups, GroupsAddUp
<1>4. Combined(ProviderBreakdown(f)) = UsageSummary(f)
  BY <1>0, <1>1, ReportsAreGroups, GroupsAddUp
<1>5. Combined(APIKeyBreakdown(f)) = UsageSummary([f EXCEPT !.key = None])
  <2>1. Combined(APIKeyBreakdown(f)) = Total(AnyKey(f))
    BY <1>0, ReportsAreGroups, GroupsAddUp
  <2> QED
    BY <2>1, FiltersSelect DEF UsageSummary, f
<1>6. ASSUME f.key \in DOMAIN APIKeyBreakdown(f)
      PROVE  APIKeyBreakdown(f)[f.key] = UsageSummary(f)
  <2> DEFINE col == [i \in AnyKey(f) |-> rows[i].key]
             keyed == {i \in AnyKey(f) : col[i] = f.key}
  <2>1. APIKeyBreakdown(f) = GroupedBy(AnyKey(f), col)
    BY ReportsAreGroups
  <2>2. f.key \in {col[i] : i \in AnyKey(f)} /\ APIKeyBreakdown(f)[f.key] = Total(keyed)
    <3> HIDE DEF col
    <3> QED
      BY <1>6, <2>1 DEF GroupedBy
  <2>3. f.key # None
    <3>1. PICK i \in AnyKey(f) : f.key = rows[i].key
      BY <2>2
    <3>2. rows[i] \in Columns
      BY <1>0, <3>1 DEF Rows, Ids
    <3>3. rows[i].key \in {c.key : c \in Calls}
      BY <3>2 DEF Columns
    <3> QED
      BY <3>1, <3>3, UsageReportsAssumption
  <2>4. keyed = SummaryRows(f)
    <3>1. AnyKey(f) = {i \in Ids : /\ open(i)
                                   /\ f.meta = None \/ (rows[i].indexed /\ rows[i].meta = f.meta)
                                   /\ Fits(rows[i].provider, f.provider)
                                   /\ Fits(rows[i].model, f.model)}
      BY FiltersSelect DEF f
    <3>2. keyed = {i \in AnyKey(f) : rows[i].key = f.key}
      OBVIOUS
    <3> HIDE DEF keyed
    <3>3. \A i : Fits(rows[i].key, f.key) <=> rows[i].key = f.key
      BY <2>3 DEF Fits
    <3> QED
      BY <3>1, <3>2, <3>3 DEF SummaryRows, InWindow, Indexed
  <2> HIDE DEF keyed
  <2> QED
    BY <1>1, <2>2, <2>4
<1>7. ASSUME f.meta # None PROVE Combined(MetadataBreakdown(f)) = UsageSummary(f)
  <2>1. MetadataRows(f) = SummaryRows(f)
    BY <1>7 DEF MetadataRows, SummaryRows, Indexed
  <2>2. MetadataBreakdown(f)
          = GroupedBy(MetadataRows(f), [i \in MetadataRows(f) |-> rows[i].meta])
    BY ReportsAreGroups
  <2> QED
    BY <1>0, <1>1, <2>1, <2>2, GroupsAddUp
<1>8. ErrorRows(f) = Listed(failed)
  <2>1. Listed(failed)
          = {i \in SummaryRows(f) : OfStatus(i, "error")}
    BY FiltersSelect DEF f
  <2>2. ASSUME NEW i PROVE OfStatus(i, "error") <=> ~rows[i].ok
    <3>1. "error" # "success" /\ "error" # None
      BY UsageReportsAssumption
    <3> QED
      BY <3>1 DEF OfStatus
  <2>3. ErrorRows(f) = {i \in SummaryRows(f) : ~rows[i].ok}
    BY ClausesAgree
  <2> HIDE DEF failed
  <2> QED
    BY <2>1, <2>2, <2>3
<1>9. Cardinality(ErrorRows(f)) = UsageSummary(f).errors
  <2>1. Total(SummaryRows(f)).errors = Cardinality({i \in SummaryRows(f) : ~rows[i].ok})
    BY DEF Total
  <2>2. ErrorRows(f) = {i \in SummaryRows(f) : ~rows[i].ok}
    BY ClausesAgree
  <2> QED
    BY <1>1, <2>1, <2>2
<1>11. ASSUME NEW limit, NEW flip \in BOOLEAN
       PROVE  RecentErrors(f, limit, flip)
                = {i \in Listed(failed) : Cardinality(RequestsAhead(failed, i, flip)) < limit}
  <2> HIDE DEF failed
  <2>1. ASSUME NEW i PROVE ErrorsAhead(f, i, flip) = RequestsAhead(failed, i, flip)
    BY <1>8 DEF ErrorsAhead, RequestsAhead
  <2> QED
    BY <1>8, <2>1 DEF RecentErrors
<1>12. ASSUME NEW asks \in {"errors", "latency", "requests", "runs"}
       PROVE  ReadFirst(asks, f) = ReadSecond(asks, f)
  BY StatementsSelect
<1>13. Total(ErrorTotals(f)) = UsageSummary(f) /\ LatencyTotals(f) = ErrorTotals(f)
  BY <1>1, ClausesAgree
<1>10. OfRuns(plain) \cup Listed([plain EXCEPT !.noRuns = TRUE])
         = Listed([plain EXCEPT !.noRuns = FALSE])
  <2>1. OfRuns(plain)
          = {i \in Ids : open(i) /\ rows[i].trace # None /\ Fits(rows[i].key, f.key)}
    BY FiltersSelect DEF f
  <2>2. Listed([plain EXCEPT !.noRuns = TRUE])
          = {i \in Ids : open(i) /\ rows[i].trace = None /\ Fits(rows[i].key, f.key)}
    BY FiltersSelect DEF f
  <2>3. Listed([plain EXCEPT !.noRuns = FALSE])
          = {i \in Ids : open(i) /\ Fits(rows[i].key, f.key)}
    BY FiltersSelect DEF f
  <2> HIDE DEF plain, open
  <2> QED
    BY <2>1, <2>2, <2>3
<1> QED
  BY <1>2, <1>3, <1>4, <1>5, <1>6, <1>7, <1>9, <1>10, <1>11, <1>12, <1>13 DEF f

-----------------------------------------------------------------------------
(* The waterfall: what the loops of CanonicalPath and assembleRunTree      *)
(* compute.  A loop over n elements has a result for each number of them.  *)
LEMMA Splits ==
  ASSUME NEW path, Len(path) \in Nat
  PROVE  SplitPath(path) =
           [n \in 0..Len(path) |->
              IF n = 0 THEN <<>>
              ELSE IF path[n] = "" THEN SplitPath(path)[n - 1]
              ELSE Append(SplitPath(path)[n - 1], path[n])]
<1> DEFINE Split(g, n) ==
             IF n = 0 THEN <<>>
             ELSE IF path[n] = "" THEN g[n - 1] ELSE Append(g[n - 1], path[n])
           Runs(m) == \E g : g = [n \in 0..m |-> Split(g, n)]
<1>1. Runs(0)
  <2> DEFINE g == [n \in 0..0 |-> <<>>]
  <2>1. g = [n \in 0..0 |-> Split(g, n)]
    OBVIOUS
  <2> QED
    BY <2>1
<1>2. ASSUME NEW m \in Nat, Runs(m) PROVE Runs(m + 1)
  <2>1. PICK g : g = [n \in 0..m |-> Split(g, n)]
    BY <1>2
  <2> DEFINE h == [n \in 0..(m + 1) |-> IF n \in 0..m THEN g[n] ELSE Split(g, n)]
  <2>2. ASSUME NEW n \in 0..m PROVE h[n] = g[n] /\ g[n] = Split(g, n)
    <3>1. h[n] = g[n]
      <4>1. n \in 0..(m + 1)
        OBVIOUS
      <4> HIDE DEF Split
      <4> QED
        BY <4>1
    <3>2. g[n] = Split(g, n)
      <4> HIDE DEF h, Split
      <4> QED
        BY <2>1
    <3> QED
      BY <3>1, <3>2
  <2>3. ASSUME NEW n \in 0..(m + 1) PROVE h[n] = Split(h, n)
    <3>1. n = 0 \/ n - 1 \in 0..m
      OBVIOUS
    <3>2. n # 0 => h[n - 1] = g[n - 1]
      BY <2>2, <3>1
    <3>3. h[n] = Split(g, n)
      BY <2>2
    <3> HIDE DEF h
    <3>4. CASE n = 0
      BY <3>3, <3>4
    <3>5. CASE n # 0
      BY <3>2, <3>3, <3>5
    <3> QED
      BY <3>4, <3>5
  <2>4. h = [n \in 0..(m + 1) |-> Split(h, n)]
    <3>1. h = [n \in 0..(m + 1) |-> h[n]]
      OBVIOUS
    <3> HIDE DEF h, Split
    <3> QED
      BY <2>3, <3>1
  <2> HIDE DEF h
  <2> QED
    BY <2>4
<1> HIDE DEF Runs
<1>3. \A m \in Nat : Runs(m)
  <2> DEFINE S == {m \in Nat : Runs(m)}
  <2>1. 0 \in S /\ \A m \in Nat : m \in S => m + 1 \in S
    BY <1>1, <1>2
  <2>2. Nat \subseteq S
    <3> HIDE DEF S
    <3> QED
      BY <2>1, Induction
  <2> QED
    BY <2>2
<1>4. \E g : g = [n \in 0..Len(path) |-> Split(g, n)]
  BY <1>3 DEF Runs
<1>5. SplitPath(path) = CHOOSE g : g = [n \in 0..Len(path) |-> Split(g, n)]
  BY DEF SplitPath
<1> QED
  BY <1>4, <1>5

LEMMA Assembles ==
  ASSUME NEW c, Len(c) \in Nat
  PROVE  Assembled(c) =
           [n \in 0..Len(c) |->
              IF n = 0 THEN EmptyTree ELSE AddRow(Assembled(c)[n - 1], c[n])]
<1> DEFINE Grow(g, n) ==
             IF n = 0 THEN EmptyTree ELSE AddRow(g[n - 1], c[n])
           Runs(m) == \E g : g = [n \in 0..m |-> Grow(g, n)]
<1>1. Runs(0)
  <2> DEFINE g == [n \in 0..0 |-> EmptyTree]
  <2>1. g = [n \in 0..0 |-> Grow(g, n)]
    OBVIOUS
  <2> QED
    BY <2>1
<1>2. ASSUME NEW m \in Nat, Runs(m) PROVE Runs(m + 1)
  <2>1. PICK g : g = [n \in 0..m |-> Grow(g, n)]
    BY <1>2
  <2> DEFINE h == [n \in 0..(m + 1) |-> IF n \in 0..m THEN g[n] ELSE Grow(g, n)]
  <2>2. ASSUME NEW n \in 0..m PROVE h[n] = g[n] /\ g[n] = Grow(g, n)
    <3>1. h[n] = g[n]
      <4>1. n \in 0..(m + 1)
        OBVIOUS
      <4> HIDE DEF Grow
      <4> QED
        BY <4>1
    <3>2. g[n] = Grow(g, n)
      <4> HIDE DEF h, Grow
      <4> QED
        BY <2>1
    <3> QED
      BY <3>1, <3>2
  <2>3. ASSUME NEW n \in 0..(m + 1) PROVE h[n] = Grow(h, n)
    <3>1. n = 0 \/ n - 1 \in 0..m
      OBVIOUS
    <3>2. n # 0 => h[n - 1] = g[n - 1]
      BY <2>2, <3>1
    <3>3. h[n] = Grow(g, n)
      BY <2>2
    <3> HIDE DEF h
    <3>4. CASE n = 0
      BY <3>3, <3>4
    <3>5. CASE n # 0
      BY <3>2, <3>3, <3>5
    <3> QED
      BY <3>4, <3>5
  <2>4. h = [n \in 0..(m + 1) |-> Grow(h, n)]
    <3>1. h = [n \in 0..(m + 1) |-> h[n]]
      OBVIOUS
    <3> HIDE DEF h, Grow
    <3> QED
      BY <2>3, <3>1
  <2> HIDE DEF h
  <2> QED
    BY <2>4
<1> HIDE DEF Runs
<1>3. \A m \in Nat : Runs(m)
  <2> DEFINE S == {m \in Nat : Runs(m)}
  <2>1. 0 \in S /\ \A m \in Nat : m \in S => m + 1 \in S
    BY <1>1, <1>2
  <2>2. Nat \subseteq S
    <3> HIDE DEF S
    <3> QED
      BY <2>1, Induction
  <2> QED
    BY <2>2
<1>4. \E g : g = [n \in 0..Len(c) |-> Grow(g, n)]
  BY <1>3 DEF Runs
<1>5. Assembled(c) = CHOOSE g : g = [n \in 0..Len(c) |-> Grow(g, n)]
  BY DEF Assembled
<1> QED
  BY <1>4, <1>5

(* Canonical paths have no empty names, and splitting one again changes    *)
(* nothing.                                                                *)
Names == STRING \ {""}

LEMMA SplitSteps ==
  ASSUME NEW path \in Seq(STRING)
  PROVE  /\ SplitPath(path)[0] = <<>>
         /\ \A n \in 1..Len(path) : SplitPath(path)[n] =
               IF path[n] = "" THEN SplitPath(path)[n - 1]
               ELSE Append(SplitPath(path)[n - 1], path[n])
<1> DEFINE f == SplitPath(path)
           Split(g, n) ==
             IF n = 0 THEN <<>>
             ELSE IF path[n] = "" THEN g[n - 1] ELSE Append(g[n - 1], path[n])
<1>1. Len(path) \in Nat
  OBVIOUS
<1>2. f = [n \in 0..Len(path) |-> Split(f, n)]
  BY <1>1, Splits
<1>3. ASSUME NEW n \in 0..Len(path) PROVE f[n] = Split(f, n)
  <2> HIDE DEF f, Split
  <2> QED
    BY <1>2
<1>4. f[0] = <<>>
  <2>1. 0 \in 0..Len(path)
    BY <1>1
  <2> HIDE DEF f
  <2> QED
    BY <1>3, <2>1
<1>5. ASSUME NEW n \in 1..Len(path)
      PROVE  f[n] = IF path[n] = "" THEN f[n - 1] ELSE Append(f[n - 1], path[n])
  <2>1. n \in 0..Len(path) /\ n # 0
    OBVIOUS
  <2> HIDE DEF f
  <2> QED
    BY <1>3, <2>1
<1> QED
  BY <1>4, <1>5

LEMMA CanonicalIsClean ==
  ASSUME NEW path \in Seq(STRING)
  PROVE  CanonicalPath(path) \in Seq(Names)
<1> DEFINE f == SplitPath(path)
           S == {n \in Nat : n <= Len(path) => f[n] \in Seq(Names)}
<1>1. Len(path) \in Nat /\ \A n \in 1..Len(path) : path[n] \in STRING
  OBVIOUS
<1>2. /\ f[0] = <<>>
      /\ \A n \in 1..Len(path) : f[n] = IF path[n] = "" THEN f[n - 1]
                                       ELSE Append(f[n - 1], path[n])
  BY SplitSteps
<1> HIDE DEF f
<1>3. 0 \in S
  <2>1. <<>> \in Seq(Names)
    OBVIOUS
  <2> QED
    BY <1>2, <2>1
<1>4. ASSUME NEW n \in Nat, n \in S PROVE n + 1 \in S
  <2>1. CASE n + 1 <= Len(path)
    <3>1. n + 1 \in 1..Len(path) /\ (n + 1) - 1 = n /\ n <= Len(path)
      BY <1>1, <2>1
    <3>2. f[n] \in Seq(Names)
      BY <1>4, <3>1
    <3>3. f[n + 1] = IF path[n + 1] = "" THEN f[n] ELSE Append(f[n], path[n + 1])
      BY <1>2, <3>1
    <3>4. path[n + 1] # "" => path[n + 1] \in Names
      BY <1>1, <3>1 DEF Names
    <3>5. f[n + 1] \in Seq(Names)
      <4>1. CASE path[n + 1] = ""
        BY <3>2, <3>3, <4>1
      <4>2. CASE path[n + 1] # ""
        <5>1. f[n + 1] = Append(f[n], path[n + 1]) /\ path[n + 1] \in Names
          BY <3>3, <3>4, <4>2
        <5>2. \A s \in Seq(Names), e \in Names : Append(s, e) \in Seq(Names)
          OBVIOUS
        <5> QED
          BY <3>2, <5>1, <5>2
      <4> QED
        BY <4>1, <4>2
    <3> QED
      BY <3>5
  <2> QED
    BY <2>1
<1>5. Nat \subseteq S
  <2> HIDE DEF S
  <2> QED
    BY <1>3, <1>4, Induction
<1> QED
  BY <1>1, <1>5 DEF CanonicalPath, f

LEMMA CanonicalStays ==
  ASSUME NEW path \in Seq(Names)
  PROVE  CanonicalPath(path) = path
<1> DEFINE f == SplitPath(path)
           Copied(n) == f[n] \in Seq(Names) /\ Len(f[n]) = n /\ \A i \in 1..n : f[n][i] = path[i]
           S == {n \in Nat : n <= Len(path) => Copied(n)}
<1>1. Len(path) \in Nat
  OBVIOUS
<1>9. \A n \in 1..Len(path) : path[n] \in Names
  OBVIOUS
<1>10. \A x \in Names : x # ""
  BY DEF Names
<1>2. path \in Seq(STRING)
  <2>1. \A n \in 1..Len(path) : path[n] \in STRING
    BY <1>9 DEF Names
  <2>2. path = [n \in 1..Len(path) |-> path[n]]
    OBVIOUS
  <2> QED
    BY <1>1, <2>1, <2>2
<1>3. f[0] = <<>> /\ \A n \in 1..Len(path) : f[n] = Append(f[n - 1], path[n])
  BY <1>2, <1>9, <1>10, SplitSteps
<1> HIDE DEF f
<1>4. 0 \in S
  <2>1. <<>> \in Seq(Names) /\ Len(<<>>) = 0
    OBVIOUS
  <2>2. Copied(0)
    BY <1>3, <2>1
  <2> QED
    BY <2>2
<1>5. ASSUME NEW n \in Nat, n \in S PROVE n + 1 \in S
  <2>1. CASE n + 1 <= Len(path)
    <3>1. n + 1 \in 1..Len(path) /\ (n + 1) - 1 = n /\ n <= Len(path)
      BY <1>1, <2>1
    <3>2. f[n] \in Seq(Names) /\ Len(f[n]) = n /\ \A i \in 1..n : f[n][i] = path[i]
      BY <1>5, <3>1
    <3>3. f[n + 1] = Append(f[n], path[n + 1]) /\ path[n + 1] \in Names
      BY <1>3, <1>9, <3>1
    <3>4. /\ f[n + 1] \in Seq(Names) /\ Len(f[n + 1]) = n + 1
          /\ \A i \in 1..n : f[n + 1][i] = f[n][i]
          /\ f[n + 1][n + 1] = path[n + 1]
      BY <3>2, <3>3, AppendProperties
    <3>5. \A i \in 1..(n + 1) : f[n + 1][i] = path[i]
      BY <3>2, <3>4
    <3> QED
      BY <3>4, <3>5
  <2> QED
    BY <2>1
<1>6. Nat \subseteq S
  <2> HIDE DEF S
  <2> QED
    BY <1>4, <1>5, Induction
<1>7. Copied(Len(path))
  BY <1>1, <1>6
<1>8. f[Len(path)] = path
  BY <1>1, <1>7, SeqEqual
<1> QED
  BY <1>8 DEF CanonicalPath, f

(* The calls of a run are rows: there is one of each rank.                 *)
LEMMA RunCallsAreRows ==
  ASSUME Rows, NEW t
  PROVE  /\ Len(RunCalls(t)) \in Nat /\ DOMAIN RunCalls(t) = 1..Len(RunCalls(t))
         /\ RunCalls(t) \in Seq(Columns)
         /\ \A n \in 1..Len(RunCalls(t)) : \E i \in Ids : RunCalls(t)[n] = rows[i]
         /\ \E g : /\ \A n \in 1..Len(RunCalls(t)) : RunCalls(t)[n] = rows[g[n]]
                   /\ \A n, k \in 1..Len(RunCalls(t)) : g[n] = g[k] => n = k
                   /\ \A i : i \in CallsOf(Ids, t) <=> \E n \in 1..Len(RunCalls(t)) : i = g[n]
<1> DEFINE L == {i \in Ids : rows[i].trace = t}
           before(i) == {j \in L : \/ rows[j].at < rows[i].at
                                   \/ rows[j].at = rows[i].at /\ j < i}
           A == [i \in L |-> before(i)]
           m == Cardinality(L)
           calls == [n \in 1..m |-> rows[CHOOSE i \in L : Cardinality(before(i)) = n - 1]]
<1>1. Ids = 1..Len(rows) /\ Len(rows) \in Nat /\ IsFiniteSet(Ids)
  BY FS_Interval DEF Rows, Ids
<1>2. L \subseteq Ids /\ L \subseteq Nat /\ IsFiniteSet(L)
  BY <1>1, FS_Subset
<1>3. ASSUME NEW i \in L PROVE rows[i].at \in Nat
  <2>1. rows[i] \in Columns
    BY DEF Rows, Ids
  <2> QED
    BY <2>1 DEF Columns
<1>4. RunCalls(t) = calls
  BY DEF RunCalls
<1> HIDE DEF L
<1>5. ASSUME NEW x \in L, NEW y \in L
      PROVE  x \in before(y) <=> (rows[x].at < rows[y].at \/ (rows[x].at = rows[y].at /\ x < y))
  OBVIOUS
<1>6. ASSUME NEW y \in L PROVE before(y) \subseteq L /\ A[y] = before(y)
  OBVIOUS
<1> HIDE DEF before, A
<1>7. IsOrder(L, A)
  <2>1. ASSUME NEW x \in L PROVE A[x] \subseteq L /\ x \notin A[x]
    <3>1. ~(rows[x].at < rows[x].at) /\ ~(x < x)
      BY <1>2, <1>3
    <3> QED
      BY <1>5, <1>6, <3>1
  <2>2. ASSUME NEW x \in L, NEW y \in L, x # y PROVE x \in A[y] \/ y \in A[x]
    BY <1>2, <1>3, <1>5, <1>6, <2>2
  <2>3. ASSUME NEW x \in L, NEW y \in L, x \in A[y], NEW z \in A[x] PROVE z \in A[y]
    <3>1. z \in L
      BY <1>6
    <3>2. x \in Nat /\ y \in Nat /\ z \in Nat
      BY <1>2, <3>1
    <3>3. rows[x].at \in Nat /\ rows[y].at \in Nat /\ rows[z].at \in Nat
      BY <1>3, <3>1
    <3> QED
      BY <1>5, <1>6, <2>3, <3>1, <3>2, <3>3
  <2> QED
    BY <1>2, <2>1, <2>2, <2>3 DEF IsOrder
<1>8. m \in Nat
  BY <1>2, FS_CardinalityType
<1>9. ASSUME NEW n \in 1..m PROVE \E i \in L : Cardinality(A[i]) = n - 1
  <2>1. n - 1 \in Nat /\ 0 + (n - 1) - 1 = n - 2
    BY <1>8
  <2>2. CASE \E x \in L : n - 1 <= Cardinality(A[x])
    BY <1>7, <2>1, <2>2, RanksHaveNoGap
  <2>3. CASE ~\E x \in L : n - 1 <= Cardinality(A[x])
    <3>1. \A x \in L : Cardinality(A[x]) \in 0..(0 + (n - 1) - 1)
      BY <1>7, <2>1, <2>3, RanksAreNumbers
    <3>2. m <= n - 1
      BY <1>7, <2>1, <3>1, RanksCount
    <3> QED
      BY <1>8, <3>2
  <2> QED
    BY <2>2, <2>3
<1>10. ASSUME NEW n \in 1..m PROVE \E i \in Ids : calls[n] = rows[i]
  <2> DEFINE i == CHOOSE j \in L : Cardinality(before(j)) = n - 1
  <2>1. i \in L
    BY <1>6, <1>9
  <2>2. calls[n] = rows[i]
    OBVIOUS
  <2> HIDE DEF i
  <2> QED
    BY <1>2, <2>1, <2>2
<1> DEFINE g == [n \in 1..m |-> CHOOSE i \in L : Cardinality(before(i)) = n - 1]
<1>14. ASSUME NEW n \in 1..m
       PROVE  g[n] \in L /\ Cardinality(A[g[n]]) = n - 1 /\ calls[n] = rows[g[n]]
  <2> DEFINE i == CHOOSE j \in L : Cardinality(before(j)) = n - 1
  <2>1. i \in L /\ Cardinality(before(i)) = n - 1
    BY <1>6, <1>9
  <2>2. g[n] = i /\ calls[n] = rows[i]
    OBVIOUS
  <2> HIDE DEF i, g, calls
  <2> QED
    BY <1>6, <2>1, <2>2
<1>15. /\ \A n, k \in 1..m : g[n] = g[k] => n = k
       /\ L = {g[n] : n \in 1..m}
  <2> DEFINE T == 1..m
  <2>1. DOMAIN g = T /\ g = [n \in T |-> g[n]]
    OBVIOUS
  <2>2. IsFiniteSet(T) /\ Cardinality(T) = m /\ T \subseteq Int
    BY <1>8, FS_Interval
  <2>3. \A n \in T : g[n] \in L /\ Cardinality(A[g[n]]) = n - 1
    BY <1>14
  <2> HIDE DEF g, T
  <2>4. ASSUME NEW n \in T, NEW k \in T, g[n] = g[k] PROVE n = k
    <3>1. n - 1 = k - 1 /\ n \in Int /\ k \in Int
      BY <2>2, <2>3, <2>4
    <3> QED
      BY <3>1
  <2>5. g \in [T -> L]
    BY <2>1, <2>3
  <2>6. g \in Injection(T, L)
    BY <2>4, <2>5 DEF Injection, IsInjective
  <2>7. g \in Surjection(T, L)
    BY <1>2, <2>2, <2>6, FS_Injection
  <2>8. L = {g[n] : n \in T}
    BY <2>3, <2>7 DEF Surjection
  <2> QED
    BY <2>4, <2>8 DEF T
<1>16. CallsOf(Ids, t) = L
  BY DEF CallsOf, L
<1>17. /\ \A n \in 1..m : calls[n] = rows[g[n]]
       /\ \A n, k \in 1..m : g[n] = g[k] => n = k
       /\ \A i : i \in CallsOf(Ids, t) <=> \E n \in 1..m : i = g[n]
  BY <1>14, <1>15, <1>16
<1> HIDE DEF g
<1>11. DOMAIN calls = 1..m /\ Len(calls) = m /\ calls = [n \in 1..m |-> calls[n]]
  BY <1>8
<1> HIDE DEF calls, m
<1>12. \A n \in 1..m : calls[n] \in Columns
  BY <1>10 DEF Rows, Ids
<1>13. calls \in Seq(Columns)
  BY <1>8, <1>11, <1>12
<1>18. \E h : /\ \A n \in 1..m : calls[n] = rows[h[n]]
              /\ \A n, k \in 1..m : h[n] = h[k] => n = k
              /\ \A i : i \in CallsOf(Ids, t) <=> \E n \in 1..m : i = h[n]
  BY <1>17
<1>19. RunCalls(t) = calls /\ Len(RunCalls(t)) = m
  BY <1>4, <1>11
<1>20. \E h : /\ \A n \in 1..Len(RunCalls(t)) : RunCalls(t)[n] = rows[h[n]]
              /\ \A n, k \in 1..Len(RunCalls(t)) : h[n] = h[k] => n = k
              /\ \A i : i \in CallsOf(Ids, t) <=> \E n \in 1..Len(RunCalls(t)) : i = h[n]
  <2>1. PICK h : /\ \A n \in 1..m : calls[n] = rows[h[n]]
                 /\ \A n, k \in 1..m : h[n] = h[k] => n = k
                 /\ \A i : i \in CallsOf(Ids, t) <=> \E n \in 1..m : i = h[n]
    BY <1>18
  <2>2. \A n \in 1..Len(RunCalls(t)) : RunCalls(t)[n] = rows[h[n]]
    BY <1>19, <2>1
  <2>3. \A n, k \in 1..Len(RunCalls(t)) : h[n] = h[k] => n = k
    BY <1>19, <2>1
  <2>4. \A i : i \in CallsOf(Ids, t) <=> \E n \in 1..Len(RunCalls(t)) : i = h[n]
    BY <1>19, <2>1
  <2> QED
    BY <2>2, <2>3, <2>4
<1>21. /\ Len(RunCalls(t)) \in Nat /\ DOMAIN RunCalls(t) = 1..Len(RunCalls(t))
       /\ RunCalls(t) \in Seq(Columns)
  BY <1>8, <1>11, <1>13, <1>19
<1>22. \A n \in 1..Len(RunCalls(t)) : \E i \in Ids : RunCalls(t)[n] = rows[i]
  BY <1>10, <1>19
<1> QED
  BY <1>20, <1>21, <1>22

-----------------------------------------------------------------------------
(* One row more: its leaf hangs under a node of the tree, no node is lost, *)
(* and the nodes on the way down to it are each put under the one before.  *)
Above(path, n) == IF Len(n) = 1 THEN Root ELSE AncestorPaths(path)[Len(n) - 1]

LEMMA DeepestIsPrefix ==
  ASSUME NEW path \in Seq(Names), path # Root
  PROVE  /\ Deepest(path) \in ToSet(AncestorPaths(path))
         /\ Len(path) <= MaxSpanDepth => Deepest(path) = path
<1> DEFINE m == IF Len(path) > MaxSpanDepth THEN MaxSpanDepth ELSE Len(path)
           way == [i \in 1..m |-> SubSeq(path, 1, i)]
<1>1. Len(path) \in Nat /\ Len(path) # 0 /\ MaxSpanDepth \in Nat /\ MaxSpanDepth # 0
  BY RunTreeAssumption DEF Root
<1>2. m \in 1..m /\ m \in Nat /\ (Len(path) <= MaxSpanDepth => m = Len(path))
  BY <1>1
<1>3. AncestorPaths(path) = way
  BY DEF AncestorPaths
<1> HIDE DEF m
<1>4. Len(way) = m /\ DOMAIN way = 1..m
  BY <1>2
<1>5. Deepest(path) = way[m]
  BY <1>3, <1>4 DEF Deepest, Last
<1>6. way[m] \in ToSet(way)
  BY <1>2, <1>4 DEF ToSet
<1>7. way[m] = SubSeq(path, 1, m)
  BY <1>2
<1>8. SubSeq(path, 1, Len(path)) = path
  BY SubSeqFull
<1> HIDE DEF way
<1> QED
  BY <1>2, <1>3, <1>5, <1>6, <1>7, <1>8

LEMMA AddRowAdds ==
  ASSUME NEW tree, tree = [parent |-> tree.parent, leaves |-> tree.leaves],
         Root \in DOMAIN tree.parent, NEW row, row.path \in Seq(Names)
  PROVE  LET new == AddRow(tree, row)
         IN /\ new = [parent |-> new.parent, leaves |-> new.leaves]
            /\ DOMAIN tree.parent \subseteq DOMAIN new.parent
            /\ Deepest(row.path) \in DOMAIN new.parent
            /\ new.leaves = Append(tree.leaves, [at |-> Deepest(row.path), cost |-> row.cost])
            /\ DOMAIN new.parent = DOMAIN tree.parent \cup ToSet(AncestorPaths(row.path))
            /\ \A n \in DOMAIN new.parent :
                  new.parent[n] = IF n \in DOMAIN tree.parent THEN tree.parent[n]
                                  ELSE Above(row.path, n)
<1> DEFINE new == AddRow(tree, row)
           grown == EnsurePath(tree, row.path)
           leaf == [at |-> Deepest(row.path), cost |-> row.cost]
<1>1. CanonicalPath(row.path) = row.path
  BY CanonicalStays
<1>2. new = [grown EXCEPT !.leaves = Append(@, leaf)]
  BY <1>1 DEF AddRow
<1>3. /\ grown = [parent |-> grown.parent, leaves |-> tree.leaves]
      /\ DOMAIN grown.parent = DOMAIN tree.parent \cup ToSet(AncestorPaths(row.path))
      /\ \A n \in DOMAIN grown.parent :
            grown.parent[n] = IF n \in DOMAIN tree.parent THEN tree.parent[n]
                              ELSE Above(row.path, n)
  <2> DEFINE way == AncestorPaths(row.path)
             above(n) == IF Len(n) = 1 THEN Root ELSE way[Len(n) - 1]
             parent == [n \in DOMAIN tree.parent \cup ToSet(way) |->
                          IF n \in DOMAIN tree.parent THEN tree.parent[n] ELSE above(n)]
  <2>1. grown = [tree EXCEPT !.parent = parent]
    BY DEF EnsurePath
  <2>2. DOMAIN parent = DOMAIN tree.parent \cup ToSet(way)
    OBVIOUS
  <2>4. ASSUME NEW n \in DOMAIN parent
        PROVE  parent[n] = IF n \in DOMAIN tree.parent THEN tree.parent[n]
                           ELSE Above(row.path, n)
    BY DEF Above
  <2> HIDE DEF grown, parent, way
  <2>3. grown = [parent |-> parent, leaves |-> tree.leaves]
    BY <2>1
  <2> QED
    BY <2>2, <2>3, <2>4 DEF way
<1> HIDE DEF grown, leaf
<1>4. new = [parent |-> grown.parent, leaves |-> Append(tree.leaves, leaf)]
  <2> DEFINE p == grown.parent
             l == tree.leaves
             more == Append(grown.leaves, leaf)
  <2>1. grown = [parent |-> p, leaves |-> l]
    BY <1>3
  <2>2. new = [grown EXCEPT !.leaves = more]
    BY <1>2
  <2>3. grown.leaves = l
    BY <2>1
  <2> HIDE DEF p, l, new, more
  <2>4. new = [parent |-> p, leaves |-> more]
    BY <2>1, <2>2
  <2> QED
    BY <2>3, <2>4 DEF p, l, more
<1>5. Deepest(row.path) \in DOMAIN grown.parent
  <2>1. CASE row.path = Root
    BY <1>3, <2>1 DEF Deepest
  <2>2. CASE row.path # Root
    BY <1>3, <2>2, DeepestIsPrefix
  <2> QED
    BY <2>1, <2>2
<1> HIDE DEF new
<1> QED
  BY <1>3, <1>4, <1>5 DEF leaf, new

-----------------------------------------------------------------------------
LEMMA Cuts ==
  ASSUME NEW path \in Seq(Names), NEW k \in 0..Len(path)
  PROVE  /\ SubSeq(path, 1, k) \in Seq(Names) /\ Len(SubSeq(path, 1, k)) = k
         /\ \A i \in 1..k : SubSeq(path, 1, k)[i] = path[i]
<1>1. k \in Nat /\ Len(path) \in Nat /\ 1 \in 1..(Len(path) + 1)
  OBVIOUS
<1>2. /\ Len(SubSeq(path, 1, k)) = IF k < 1 THEN 0 ELSE k - 1 + 1
      /\ \A i \in 1..(k - 1 + 1) : SubSeq(path, 1, k)[i] = path[1 + i - 1]
      /\ SubSeq(path, 1, k) \in Seq(Names)
  BY <1>1, SubSeqProperties
<1> QED
  BY <1>1, <1>2

LEMMA CutsOfCuts ==
  ASSUME NEW path \in Seq(Names), NEW m \in 0..Len(path), NEW k \in 0..m
  PROVE  SubSeq(SubSeq(path, 1, m), 1, k) = SubSeq(path, 1, k)
<1> DEFINE cut == SubSeq(path, 1, m)
<1>1. k \in 0..Len(path) /\ m \in Nat /\ k \in Nat
  OBVIOUS
<1>2. cut \in Seq(Names) /\ Len(cut) = m /\ \A i \in 1..m : cut[i] = path[i]
  BY Cuts
<1>3. /\ SubSeq(path, 1, k) \in Seq(Names) /\ Len(SubSeq(path, 1, k)) = k
      /\ \A i \in 1..k : SubSeq(path, 1, k)[i] = path[i]
  BY <1>1, Cuts
<1> HIDE DEF cut
<1>4. /\ SubSeq(cut, 1, k) \in Seq(Names) /\ Len(SubSeq(cut, 1, k)) = k
      /\ \A i \in 1..k : SubSeq(cut, 1, k)[i] = cut[i]
  BY <1>2, Cuts
<1>5. \A i \in 1..k : SubSeq(cut, 1, k)[i] = SubSeq(path, 1, k)[i]
  BY <1>1, <1>2, <1>3, <1>4
<1>6. SubSeq(cut, 1, k) = SubSeq(path, 1, k)
  BY <1>1, <1>3, <1>4, <1>5, SeqEqual
<1> QED
  BY <1>6 DEF cut

DepthOf(path) == IF Len(path) > MaxSpanDepth THEN MaxSpanDepth ELSE Len(path)

LEMMA WayDown ==
  ASSUME NEW path \in Seq(Names)
  PROVE  /\ DepthOf(path) \in 0..Len(path) /\ DepthOf(path) <= MaxSpanDepth
         /\ IsFiniteSet(ToSet(AncestorPaths(path)))
         /\ \A k \in 1..DepthOf(path) : SubSeq(path, 1, k) \in ToSet(AncestorPaths(path))
         /\ \A n \in ToSet(AncestorPaths(path)) :
               /\ n \in Seq(Names) /\ Len(n) <= MaxSpanDepth
               /\ Above(path, n) = Front(n)
         /\ Deepest(path) = SubSeq(path, 1, DepthOf(path))
<1> DEFINE m == DepthOf(path)
           way == [i \in 1..m |-> SubSeq(path, 1, i)]
<1>1. Len(path) \in Nat /\ MaxSpanDepth \in Nat /\ MaxSpanDepth # 0
  BY RunTreeAssumption
<1>2. m \in Nat /\ m \in 0..Len(path) /\ m <= MaxSpanDepth
  BY <1>1 DEF DepthOf
<1>3. AncestorPaths(path) = way
  BY DEF AncestorPaths, DepthOf
<1>0. (path = Root => m = 0) /\ (m = 0 => path = Root)
  BY <1>1 DEF DepthOf, Root
<1> HIDE DEF m
<1>4. DOMAIN way = 1..m /\ Len(way) = m /\ \A i \in 1..m : way[i] = SubSeq(path, 1, i)
  BY <1>2
<1> HIDE DEF way
<1>5. ToSet(way) = {way[i] : i \in 1..m}
  BY <1>4 DEF ToSet
<1>6. IsFiniteSet(ToSet(way))
  <2> DEFINE T == 1..m
             g == [i \in T |-> way[i]]
             W == ToSet(way)
  <2>1. g \in Surjection(T, W)
    BY <1>5 DEF Surjection
  <2>2. IsFiniteSet(T)
    BY <1>2, FS_Interval
  <2> HIDE DEF g, T, W
  <2>3. IsFiniteSet(W)
    BY <2>1, <2>2, FS_Surjection
  <2> QED
    BY <2>3 DEF W
<1>7. \A k \in 1..m : SubSeq(path, 1, k) \in ToSet(way)
  BY <1>4, <1>5
<1>8. ASSUME NEW n \in ToSet(way)
      PROVE  n \in Seq(Names) /\ Len(n) <= MaxSpanDepth /\ Above(path, n) = Front(n)
  <2>1. PICK i \in 1..m : n = SubSeq(path, 1, i)
    BY <1>4, <1>5
  <2>2. i \in 0..Len(path) /\ i \in Nat /\ i # 0 /\ i <= MaxSpanDepth /\ i - 1 \in 0..i
    BY <1>1, <1>2
  <2>3. n \in Seq(Names) /\ Len(n) = i
    BY <2>1, <2>2, Cuts
  <2>4. Front(n) = SubSeq(path, 1, i - 1)
    BY <2>1, <2>2, <2>3, CutsOfCuts DEF Front
  <2>5. Above(path, n) = SubSeq(path, 1, i - 1)
    <3>1. CASE i = 1
      <4>1. SubSeq(path, 1, 0) \in Seq(Names) /\ Len(SubSeq(path, 1, 0)) = 0
        BY <1>1, Cuts
      <4>2. SubSeq(path, 1, 0) = <<>>
        BY <4>1
      <4>3. Above(path, n) = Root
        BY <2>3, <3>1 DEF Above
      <4> QED
        BY <3>1, <4>2, <4>3 DEF Root
    <3>2. CASE i # 1
      <4>1. i - 1 \in 1..m
        BY <1>2, <2>2, <3>2
      <4> QED
        BY <1>3, <1>4, <2>3, <3>2, <4>1 DEF Above
    <3> QED
      BY <3>1, <3>2
  <2> QED
    BY <2>2, <2>3, <2>4, <2>5
<1>9. Deepest(path) = SubSeq(path, 1, m)
  <2>1. CASE path = Root
    <3>1. SubSeq(path, 1, m) \in Seq(Names) /\ Len(SubSeq(path, 1, m)) = 0
      BY <1>0, <1>2, <2>1, Cuts
    <3>2. SubSeq(path, 1, m) = <<>>
      BY <3>1
    <3> QED
      BY <2>1, <3>2 DEF Deepest, Root
  <2>2. CASE path # Root
    <3>1. m \in 1..m
      BY <1>0, <1>2, <2>2
    <3> QED
      BY <1>3, <1>4, <2>2, <3>1 DEF Deepest, Last
  <2> QED
    BY <2>1, <2>2
<1> QED
  BY <1>2, <1>3, <1>6, <1>7, <1>8, <1>9 DEF m

(* The loop over the rows of a run: after n of them there are n leaves, in *)
(* the order of the rows, each under the deepest node of its path.  Every  *)
(* node is a path, under the node that is one name shorter.                *)
WellPlaced(tree, n) ==
  n \in Seq(Names) /\ Len(n) <= MaxSpanDepth /\ (n # Root => tree.parent[n] = Front(n))

LEMMA TreeGrows ==
  ASSUME NEW c, Len(c) \in Nat, \A i \in 1..Len(c) : c[i].path \in Seq(Names),
         NEW m \in 0..Len(c)
  PROVE  LET tree == Assembled(c)[m]
         IN /\ DOMAIN tree.leaves = 1..m
            /\ \A i \in 1..m : /\ tree.leaves[i].at = Deepest(c[i].path)
                               /\ tree.leaves[i].at \in DOMAIN tree.parent
                               /\ tree.leaves[i].cost = c[i].cost
                               /\ ToSet(AncestorPaths(c[i].path)) \subseteq DOMAIN tree.parent
            /\ IsFiniteSet(DOMAIN tree.parent) /\ Root \in DOMAIN tree.parent
            /\ \A n \in DOMAIN tree.parent : WellPlaced(tree, n)
<1> DEFINE f == Assembled(c)
           leaf(i) == [at |-> Deepest(c[i].path), cost |-> c[i].cost]
           Leaves == {leaf(i) : i \in 1..Len(c)}
           Grown(n) == /\ f[n] = [parent |-> f[n].parent, leaves |-> f[n].leaves]
                       /\ Root \in DOMAIN f[n].parent
                       /\ f[n].leaves \in Seq(Leaves) /\ Len(f[n].leaves) = n
                       /\ \A i \in 1..n : /\ f[n].leaves[i] = leaf(i)
                                          /\ Deepest(c[i].path) \in DOMAIN f[n].parent
                                          /\ ToSet(AncestorPaths(c[i].path))
                                               \subseteq DOMAIN f[n].parent
                       /\ IsFiniteSet(DOMAIN f[n].parent)
                       /\ \A x \in DOMAIN f[n].parent : WellPlaced(f[n], x)
           S == {n \in Nat : n <= Len(c) => Grown(n)}
<1>1. f = [n \in 0..Len(c) |-> IF n = 0 THEN EmptyTree ELSE AddRow(f[n - 1], c[n])]
  BY Assembles
<1> HIDE DEF f
<1>2. f[0] = EmptyTree
  <2>1. 0 \in 0..Len(c)
    OBVIOUS
  <2> QED
    BY <1>1, <2>1
<1>3. ASSUME NEW n \in Nat, n + 1 <= Len(c) PROVE f[n + 1] = AddRow(f[n], c[n + 1])
  <2>1. n + 1 \in 0..Len(c) /\ n + 1 # 0 /\ (n + 1) - 1 = n
    BY <1>3
  <2> QED
    BY <1>1, <2>1
<1>4. 0 \in S
  <2>1. /\ f[0].leaves = <<>> /\ f[0].parent = [n \in {Root} |-> Root]
        /\ f[0] = [parent |-> f[0].parent, leaves |-> f[0].leaves]
    BY <1>2 DEF EmptyTree
  <2>2. <<>> \in Seq(Leaves) /\ Len(<<>>) = 0
    OBVIOUS
  <2>3. Root \in DOMAIN f[0].parent
    BY <2>1
  <2>5. DOMAIN f[0].parent = {Root} /\ IsFiniteSet({Root})
    BY <2>1, FS_Singleton
  <2>6. WellPlaced(f[0], Root)
    BY RunTreeAssumption DEF WellPlaced, Root
  <2> HIDE DEF Leaves, leaf
  <2>4. Grown(0)
    BY <2>1, <2>2, <2>3, <2>5, <2>6
  <2> QED
    BY <2>4
<1>5. ASSUME NEW n \in Nat, n \in S PROVE n + 1 \in S
  <2>1. ASSUME n + 1 <= Len(c) PROVE Grown(n + 1)
    <3> DEFINE row == c[n + 1]
               new == f[n + 1]
    <3>1. n + 1 \in 1..Len(c) /\ n <= Len(c)
      BY <2>1
    <3>2. Grown(n)
      BY <1>5, <3>1
    <3>3. /\ new = [parent |-> new.parent, leaves |-> new.leaves]
          /\ DOMAIN f[n].parent \subseteq DOMAIN new.parent
          /\ Deepest(row.path) \in DOMAIN new.parent
          /\ new.leaves = Append(f[n].leaves, [at |-> Deepest(row.path), cost |-> row.cost])
          /\ DOMAIN new.parent = DOMAIN f[n].parent \cup ToSet(AncestorPaths(row.path))
          /\ \A x \in DOMAIN new.parent :
                new.parent[x] = IF x \in DOMAIN f[n].parent THEN f[n].parent[x]
                                ELSE Above(row.path, x)
      <4>1. row.path \in Seq(Names)
        BY <3>1
      <4>2. new = AddRow(f[n], row)
        BY <1>3, <2>1
      <4>3. f[n] = [parent |-> f[n].parent, leaves |-> f[n].leaves] /\ Root \in DOMAIN f[n].parent
        BY <3>2
      <4> HIDE DEF row, new, Grown
      <4> QED
        BY <4>1, <4>2, <4>3, AddRowAdds
    <3>4. new.leaves = Append(f[n].leaves, leaf(n + 1)) /\ leaf(n + 1) \in Leaves
      BY <3>1, <3>3
    <3>5. f[n].leaves \in Seq(Leaves) /\ Len(f[n].leaves) = n
      BY <3>2
    <3>6. /\ new.leaves \in Seq(Leaves) /\ Len(new.leaves) = n + 1
          /\ \A i \in 1..n : new.leaves[i] = f[n].leaves[i]
          /\ new.leaves[n + 1] = leaf(n + 1)
      <4> HIDE DEF Leaves, leaf, new
      <4> QED
        BY <3>4, <3>5, AppendProperties
    <3>7. ASSUME NEW i \in 1..(n + 1)
          PROVE  /\ new.leaves[i] = leaf(i) /\ Deepest(c[i].path) \in DOMAIN new.parent
                 /\ ToSet(AncestorPaths(c[i].path)) \subseteq DOMAIN new.parent
      <4>1. CASE i = n + 1
        BY <3>3, <3>6, <4>1
      <4>2. CASE i # n + 1
        <5>1. i \in 1..n
          BY <4>2
        <5>2. /\ f[n].leaves[i] = leaf(i) /\ Deepest(c[i].path) \in DOMAIN f[n].parent
              /\ ToSet(AncestorPaths(c[i].path)) \subseteq DOMAIN f[n].parent
          BY <3>2, <5>1
        <5> HIDE DEF leaf, new
        <5> QED
          BY <3>3, <3>6, <5>1, <5>2
      <4> QED
        BY <4>1, <4>2
    <3>8. Root \in DOMAIN new.parent
      BY <3>2, <3>3
    <3>9. IsFiniteSet(ToSet(AncestorPaths(row.path)))
          /\ \A x \in ToSet(AncestorPaths(row.path)) :
               x \in Seq(Names) /\ Len(x) <= MaxSpanDepth /\ Above(row.path, x) = Front(x)
      <4>1. row.path \in Seq(Names)
        BY <3>1
      <4> HIDE DEF row
      <4> QED
        BY <4>1, WayDown
    <3>10. IsFiniteSet(DOMAIN new.parent)
      <4>1. IsFiniteSet(DOMAIN f[n].parent)
        BY <3>2
      <4> HIDE DEF Grown, new, row
      <4> QED
        <5>1. DOMAIN new.parent = DOMAIN f[n].parent \cup ToSet(AncestorPaths(row.path))
          BY <3>3
        <5>2. IsFiniteSet(ToSet(AncestorPaths(row.path)))
          BY <3>9
        <5> QED
          BY <4>1, <5>1, <5>2, FS_Union
    <3>11. ASSUME NEW x \in DOMAIN new.parent PROVE WellPlaced(new, x)
      <4>1. \A y \in DOMAIN f[n].parent : WellPlaced(f[n], y)
        BY <3>2
      <4> HIDE DEF Grown, new, row
      <4>2. CASE x \in DOMAIN f[n].parent
        BY <3>3, <4>1, <4>2 DEF WellPlaced
      <4>3. CASE x \notin DOMAIN f[n].parent
        <5>1. x \in ToSet(AncestorPaths(row.path)) /\ new.parent[x] = Above(row.path, x)
          BY <3>3, <4>3
        <5> QED
          BY <3>9, <5>1 DEF WellPlaced
      <4> QED
        BY <4>2, <4>3
    <3> HIDE DEF Leaves, leaf, row
    <3> QED
      BY <3>3, <3>6, <3>7, <3>8, <3>10, <3>11
  <2> QED
    BY <2>1
<1>6. Nat \subseteq S
  <2> HIDE DEF S
  <2> QED
    BY <1>4, <1>5, Induction
<1>7. Grown(m)
  <2>1. m \in Nat /\ m <= Len(c)
    OBVIOUS
  <2> HIDE DEF Grown
  <2> QED
    BY <1>6, <2>1
<1>8. DOMAIN f[m].leaves = 1..m
  BY <1>7
<1>9. ASSUME NEW i \in 1..m
      PROVE  /\ f[m].leaves[i].at = Deepest(c[i].path) /\ f[m].leaves[i].at \in DOMAIN f[m].parent
             /\ f[m].leaves[i].cost = c[i].cost
             /\ ToSet(AncestorPaths(c[i].path)) \subseteq DOMAIN f[m].parent
  <2>1. /\ f[m].leaves[i] = leaf(i) /\ Deepest(c[i].path) \in DOMAIN f[m].parent
        /\ ToSet(AncestorPaths(c[i].path)) \subseteq DOMAIN f[m].parent
    BY <1>7
  <2> QED
    BY <2>1
<1>10. IsFiniteSet(DOMAIN f[m].parent) /\ Root \in DOMAIN f[m].parent
       /\ \A x \in DOMAIN f[m].parent : WellPlaced(f[m], x)
  BY <1>7
<1> QED
  BY <1>8, <1>9, <1>10 DEF f

\* Every row is logged under a clean path and under the node it is given.
LEMMA RowsAreClean ==
  ASSUME Rows, NEW i \in Ids
  PROVE  rows[i].path \in Seq(Names) /\ rows[i].parent = rows[i].path
<1>1. rows[i] \in Columns /\ WellLogged(rows[i])
  BY DEF Rows, Ids
<1>2. PICK call \in Calls : rows[i].path = CanonicalPath(call.path)
  BY <1>1 DEF Columns
<1>3. call.path \in Seq(STRING)
  BY UsageReportsAssumption
<1> QED
  BY <1>1, <1>2, <1>3, CanonicalIsClean DEF WellLogged

\* What is fetched of a run are its first calls.
LEMMA FetchedAreRows ==
  ASSUME NEW calls \in Seq(Columns)
  PROVE  /\ Len(Fetched(calls)) \in Nat /\ Len(Fetched(calls)) <= Len(calls)
         /\ DOMAIN Fetched(calls) = 1..Len(Fetched(calls))
         /\ \A i \in 1..Len(Fetched(calls)) : Fetched(calls)[i] = calls[i]
<1> DEFINE c == Fetched(calls)
<1>1. FetchCap \in Nat /\ Len(calls) \in Nat /\ DOMAIN calls = 1..Len(calls)
  BY RunTreeAssumption
<1>2. CASE Len(calls) > FetchCap
  <2>1. c = SubSeq(calls, 1, FetchCap)
    BY <1>2 DEF Fetched
  <2>2. /\ SubSeq(calls, 1, FetchCap) \in Seq(Columns)
        /\ Len(SubSeq(calls, 1, FetchCap)) = FetchCap
        /\ \A i \in 1..FetchCap : SubSeq(calls, 1, FetchCap)[i] = calls[i]
    <3>1. 1 \in 1..(Len(calls) + 1) /\ FetchCap \in 0..Len(calls)
      BY <1>1, <1>2
    <3> QED
      BY <1>1, <3>1, SubSeqProperties
  <2> HIDE DEF c
  <2>3. DOMAIN c = 1..Len(c)
    BY <2>1, <2>2
  <2>4. Len(c) \in Nat /\ Len(c) <= Len(calls) /\ \A i \in 1..Len(c) : c[i] = calls[i]
    BY <1>1, <1>2, <2>1, <2>2
  <2> QED
    BY <2>3, <2>4 DEF c
<1>3. CASE ~(Len(calls) > FetchCap)
  <2>1. c = calls
    BY <1>3 DEF Fetched
  <2> QED
    BY <1>1, <2>1
<1> QED
  BY <1>2, <1>3

LEMMA RunsHang ==
  ASSUME Rows, NEW t
  PROVE  LET calls == RunCalls(t)
             tree == AssembleRunTree(calls)
         IN \A i \in DOMAIN tree.leaves :
                /\ "" \notin ToSet(calls[i].path)
                /\ tree.leaves[i].at \in DOMAIN tree.parent
                /\ Len(calls[i].path) <= MaxSpanDepth => tree.leaves[i].at = calls[i].parent
<1> DEFINE calls == RunCalls(t)
           c == Fetched(calls)
           tree == AssembleRunTree(calls)
<1>1. /\ Len(calls) \in Nat /\ DOMAIN calls = 1..Len(calls)
      /\ calls \in Seq(Columns)
      /\ \A n \in 1..Len(calls) : \E i \in Ids : calls[n] = rows[i]
  BY RunCallsAreRows
<1> HIDE DEF calls
<1>2. ASSUME NEW n \in 1..Len(calls)
      PROVE  calls[n].path \in Seq(Names) /\ calls[n].parent = calls[n].path
  <2>1. PICK i \in Ids : calls[n] = rows[i]
    BY <1>1
  <2>2. rows[i].path \in Seq(Names) /\ rows[i].parent = rows[i].path
    BY RowsAreClean
  <2> QED
    BY <2>1, <2>2
<1>4. Len(c) \in Nat /\ Len(c) <= Len(calls) /\ \A i \in 1..Len(c) : c[i] = calls[i]
  BY <1>1, FetchedAreRows
<1>5. tree = Assembled(c)[Len(c)]
  BY DEF AssembleRunTree
<1> HIDE DEF c, tree
<1>6. \A i \in 1..Len(c) : c[i].path \in Seq(Names)
  BY <1>1, <1>2, <1>4
<1>7. /\ DOMAIN tree.leaves = 1..Len(c)
      /\ \A i \in 1..Len(c) : /\ tree.leaves[i].at = Deepest(c[i].path)
                              /\ tree.leaves[i].at \in DOMAIN tree.parent
  <2>1. Len(c) \in 0..Len(c)
    BY <1>4
  <2> QED
    BY <1>4, <1>5, <1>6, <2>1, TreeGrows
<1>8. ASSUME NEW i \in DOMAIN tree.leaves
      PROVE  /\ "" \notin ToSet(calls[i].path)
             /\ tree.leaves[i].at \in DOMAIN tree.parent
             /\ Len(calls[i].path) <= MaxSpanDepth => tree.leaves[i].at = calls[i].parent
  <2> DEFINE path == calls[i].path
  <2>1. i \in 1..Len(c) /\ i \in 1..Len(calls) /\ c[i] = calls[i]
    BY <1>1, <1>4, <1>7
  <2>2. path \in Seq(Names) /\ calls[i].parent = path
    BY <1>2, <2>1
  <2>3. tree.leaves[i].at = Deepest(path) /\ tree.leaves[i].at \in DOMAIN tree.parent
    BY <1>7, <2>1
  <2> HIDE DEF path
  <2>4. "" \notin ToSet(path)
    <3>1. \A k \in DOMAIN path : path[k] \in Names
      BY <2>2
    <3>2. "" \notin Names
      BY DEF Names
    <3> QED
      BY <3>1, <3>2 DEF ToSet
  <2>5. ASSUME Len(path) <= MaxSpanDepth PROVE Deepest(path) = path
    <3>1. CASE path = Root
      BY <3>1 DEF Deepest
    <3>2. CASE path # Root
      BY <2>2, <2>5, <3>2, DeepestIsPrefix
    <3> QED
      BY <3>1, <3>2
  <2> QED
    BY <2>2, <2>3, <2>4, <2>5 DEF path
<1> QED
  BY <1>8 DEF calls, tree

-----------------------------------------------------------------------------
(* rollUpRunNode, for any tree of bounded depth in which what is below a   *)
(* node is what hangs at the node and what is below its children: every    *)
(* node has the costs and the number of the leaves below it.               *)
LeavesAt(tree, n) == {i \in DOMAIN tree.leaves : tree.leaves[i].at = n}
Children(tree, n) == {k \in DOMAIN tree.parent \ {Root} : tree.parent[k] = n}

LEMMA ColumnOfSame ==
  ASSUME NEW K, IsFiniteSet(K), NEW f, NEW g, \A k \in K : f[k] = g[k], NEW a
  PROVE  ColumnSum(f, a, K) = ColumnSum(g, a, K)
<1> DEFINE c == [k \in K |-> f[k][a]]
<1>1. (\A k \in K : c[k] = f[k][a]) /\ (\A k \in K : c[k] = g[k][a])
  OBVIOUS
<1> HIDE DEF c
<1>2. ColumnSum(f, a, K) = SumUp(c, K)
  BY <1>1, ColumnIsSum
<1>3. ColumnSum(g, a, K) = SumUp(c, K)
  BY <1>1, ColumnIsSum
<1> QED
  BY <1>2, <1>3

\* What the children have, and what hangs at the node itself.
IsSplit(All, At, K, below) ==
  /\ IsFiniteSet(All) /\ IsFiniteSet(K)
  /\ \A k \in K : At \cap below[k] = {}
  /\ \A k, l \in K : k # l => below[k] \cap below[l] = {}
  /\ \A i : i \in All <=> i \in At \/ \E k \in K : i \in below[k]

LEMMA NodeAdds ==
  ASSUME NEW All, NEW At, NEW K, NEW below, IsSplit(All, At, K, below),
         NEW c, \A i \in All : c[i] \in Nat,
         NEW d, AreSums(d, c, K, below)
  PROVE  SumUp(c, All) = SumUp(c, At) + SumUp(d, K)
<1> DEFINE Rest == UNION {below[k] : k \in K}
<1>1. /\ IsFiniteSet(All) /\ IsFiniteSet(K)
      /\ \A k, l \in K : k # l => below[k] \cap below[l] = {}
      /\ \A i : i \in All <=> i \in At \/ \E k \in K : i \in below[k]
      /\ \A k \in K : At \cap below[k] = {}
  BY DEF IsSplit
<1>2. \A i : i \in Rest <=> \E k \in K : i \in below[k]
  OBVIOUS
<1> HIDE DEF Rest
<1>3. Rest \subseteq All /\ At \subseteq All /\ At \cap Rest = {} /\ All = At \cup Rest
  BY <1>1, <1>2
<1>4. IsFiniteSet(At) /\ IsFiniteSet(Rest)
  BY <1>1, <1>3, FS_Subset
<1>5. IsPartition(Rest, K, below)
  BY <1>1, <1>2, <1>4 DEF IsPartition
<1>6. (\A i \in Rest : c[i] \in Nat) /\ (\A i \in At \cup Rest : c[i] \in Nat)
  BY <1>3
<1>7. SumUp(d, K) = SumUp(c, Rest)
  BY <1>5, <1>6, SumOfClasses
<1>8. SumUp(c, At \cup Rest) = SumUp(c, At) + SumUp(c, Rest)
  BY <1>3, <1>4, <1>6, SumOfBoth
<1> QED
  BY <1>3, <1>7, <1>8

AddsDown(tree, below) ==
  /\ IsFiniteSet(DOMAIN tree.parent) /\ IsFiniteSet(DOMAIN tree.leaves)
  /\ \A n \in DOMAIN tree.parent :
        /\ Len(n) \in 0..MaxSpanDepth /\ below[n] \subseteq DOMAIN tree.leaves
        /\ IsSplit(below[n], LeavesAt(tree, n), Children(tree, n), below)
        /\ \A k \in Children(tree, n) : Len(k) = Len(n) + 1

LEMMA RollUpAdds ==
  ASSUME NEW tree, NEW below, AddsDown(tree, below),
         NEW c, \A i \in DOMAIN tree.leaves : c[i] \in Nat /\ c[i] = tree.leaves[i].cost
  PROVE  \A n \in DOMAIN tree.parent : /\ RollUp(tree)[n].cost = SumUp(c, below[n])
                                       /\ RollUp(tree)[n].calls = Cardinality(below[n])
<1> DEFINE nodes == DOMAIN tree.parent
           L == DOMAIN tree.leaves
           Body(g, n) ==
             [cost |-> ColumnSum(tree.leaves, "cost", LeavesAt(tree, n))
                       + ColumnSum(g, "cost", Children(tree, n)),
              calls |-> Cardinality(LeavesAt(tree, n))
                        + ColumnSum(g, "calls", Children(tree, n))]
           one == [i \in L |-> 1]
           sums == [n \in nodes |-> [cost |-> SumUp(c, below[n]), calls |-> SumUp(one, below[n])]]
           up == RollUp(tree)
<1>1. up = CHOOSE g : g = [n \in nodes |-> Body(g, n)]
  BY DEF RollUp, LeavesAt, Children, ColumnSum, MapThenSumSet, MapThenFoldSet
<1> HIDE DEF up
<1>13. IsFiniteSet(nodes) /\ IsFiniteSet(L)
  BY DEF AddsDown
<1>14. \A n \in nodes : /\ Len(n) \in 0..MaxSpanDepth /\ below[n] \subseteq L
                        /\ IsSplit(below[n], LeavesAt(tree, n), Children(tree, n), below)
                        /\ \A k \in Children(tree, n) : Len(k) = Len(n) + 1
  BY DEF AddsDown
<1>2. \A n \in nodes : Children(tree, n) \subseteq nodes /\ LeavesAt(tree, n) \subseteq L
  BY DEF Children, LeavesAt
<1>3. \A n \in nodes : IsFiniteSet(Children(tree, n)) /\ IsFiniteSet(LeavesAt(tree, n))
  BY <1>2, <1>13, FS_Subset
<1>4. ASSUME NEW n \in nodes PROVE sums[n] = Body(sums, n)
  <2> DEFINE K == Children(tree, n)
             At == LeavesAt(tree, n)
             costs == [k \in K |-> SumUp(c, below[k])]
             calls == [k \in K |-> SumUp(one, below[k])]
  <2>1. IsFiniteSet(K) /\ IsFiniteSet(At) /\ K \subseteq nodes /\ At \subseteq L
    BY <1>2, <1>3
  <2>2. IsSplit(below[n], At, K, below) /\ below[n] \subseteq L
    BY <1>14
  <2>3. /\ \A k \in K : costs[k] = SumUp(c, below[k]) /\ costs[k] = sums[k]["cost"]
        /\ \A k \in K : calls[k] = SumUp(one, below[k]) /\ calls[k] = sums[k]["calls"]
    BY <2>1
  <2>4. sums[n].cost = SumUp(c, below[n]) /\ sums[n].calls = SumUp(one, below[n])
        /\ sums[n] = [cost |-> sums[n].cost, calls |-> sums[n].calls]
    OBVIOUS
  <2>5. \A i \in L : one[i] \in Nat /\ one[i] = 1
    OBVIOUS
  <2>13. \A i \in L : c[i] \in Nat
    OBVIOUS
  <2>14. AreSums(costs, c, K, below) /\ AreSums(calls, one, K, below)
    BY <2>3 DEF AreSums
  <2> HIDE DEF K, At, L, costs, calls, sums, one, nodes
  <2>15. (\A i \in below[n] : c[i] \in Nat) /\ (\A i \in below[n] : one[i] \in Nat)
    BY <2>2, <2>5, <2>13
  <2>6. SumUp(c, below[n]) = SumUp(c, At) + SumUp(costs, K)
    BY <2>2, <2>14, <2>15, NodeAdds
  <2>7. SumUp(one, below[n]) = SumUp(one, At) + SumUp(calls, K)
    BY <2>2, <2>14, <2>15, NodeAdds
  <2>8. ColumnSum(sums, "cost", K) = SumUp(costs, K)
    BY <2>1, <2>3, ColumnIsSum
  <2>9. ColumnSum(sums, "calls", K) = SumUp(calls, K)
    BY <2>1, <2>3, ColumnIsSum
  <2>10. ColumnSum(tree.leaves, "cost", At) = SumUp(c, At)
    <3>1. \A i \in At : c[i] = tree.leaves[i]["cost"]
      BY <2>1 DEF L
    <3> QED
      BY <2>1, <3>1, ColumnIsSum
  <2>11. Cardinality(At) = SumUp(one, At)
    <3>1. \A i \in At : one[i] = 1
      BY <2>1, <2>5
    <3> QED
      BY <2>1, <3>1, CardinalityIsSum
  <2>12. Body(sums, n) = [cost |-> SumUp(c, below[n]), calls |-> SumUp(one, below[n])]
    BY <2>6, <2>7, <2>8, <2>9, <2>10, <2>11 DEF K, At
  <2> HIDE DEF Body
  <2> QED
    BY <2>4, <2>12
<1>5. sums = [n \in nodes |-> Body(sums, n)]
  <2>1. sums = [n \in nodes |-> sums[n]]
    OBVIOUS
  <2> HIDE DEF sums, Body, nodes
  <2> QED
    BY <1>4, <2>1
<1>6. up = [n \in nodes |-> Body(up, n)]
  <2> HIDE DEF sums, Body, nodes
  <2>1. \E g : g = [n \in nodes |-> Body(g, n)]
    BY <1>5
  <2> QED
    BY <1>1, <2>1
<1> DEFINE S == {k \in Nat : \A n \in nodes : MaxSpanDepth - Len(n) < k => up[n] = sums[n]}
<1>7. MaxSpanDepth \in Nat /\ \A n \in nodes : Len(n) \in 0..MaxSpanDepth
  BY <1>14, RunTreeAssumption
<1>8. 0 \in S
  BY <1>7
<1>9. ASSUME NEW k \in Nat, k \in S PROVE k + 1 \in S
  <2>1. ASSUME NEW n \in nodes, MaxSpanDepth - Len(n) < k + 1 PROVE up[n] = sums[n]
    <3> DEFINE K == Children(tree, n)
    <3>1. ASSUME NEW m \in K PROVE up[m] = sums[m]
      <4>1. m \in nodes /\ Len(m) = Len(n) + 1
        BY <1>2, <1>14
      <4>2. MaxSpanDepth - Len(m) < k
        BY <1>7, <2>1, <4>1
      <4> HIDE DEF sums
      <4> QED
        BY <1>9, <4>1, <4>2
    <3>2. IsFiniteSet(K)
      BY <1>3
    <3> HIDE DEF K, sums
    <3>3. \A a : ColumnSum(up, a, K) = ColumnSum(sums, a, K)
      BY <3>1, <3>2, ColumnOfSame
    <3>4. Body(up, n) = Body(sums, n)
      BY <3>3 DEF K
    <3> HIDE DEF Body
    <3> QED
      BY <1>4, <1>6, <3>4
  <2> HIDE DEF sums
  <2> QED
    BY <2>1
<1>10. Nat \subseteq S
  <2> HIDE DEF S
  <2> QED
    BY <1>8, <1>9, Induction
<1>11. ASSUME NEW n \in nodes PROVE up[n] = sums[n]
  <2>1. MaxSpanDepth + 1 \in S
    <3> HIDE DEF S
    <3> QED
      BY <1>7, <1>10
  <2>3. MaxSpanDepth - Len(n) < MaxSpanDepth + 1
    BY <1>7
  <2> HIDE DEF sums
  <2> QED
    BY <2>1, <2>3
<1>12. ASSUME NEW n \in nodes
       PROVE  up[n].cost = SumUp(c, below[n]) /\ up[n].calls = Cardinality(below[n])
  <2>1. sums[n].cost = SumUp(c, below[n]) /\ sums[n].calls = SumUp(one, below[n])
    OBVIOUS
  <2>2. \A i \in below[n] : one[i] = 1
    BY <1>14
  <2>3. IsFiniteSet(below[n])
    BY <1>13, <1>14, FS_Subset
  <2> HIDE DEF sums, one
  <2>4. Cardinality(below[n]) = SumUp(one, below[n])
    BY <2>2, <2>3, CardinalityIsSum
  <2> QED
    BY <1>11, <2>1, <2>4
<1> QED
  BY <1>12 DEF up

(* The tree of a run: what is below a node are the rows whose paths go     *)
(* through it.                                                             *)
LEMMA PrefixIsCut ==
  ASSUME NEW path \in Seq(Names), NEW n \in Seq(Names)
  PROVE  IsPrefix(n, path) <=> Len(n) <= Len(path) /\ n = SubSeq(path, 1, Len(n))
<1>1. SubSeq(n, 1, Len(n)) = n
  BY SubSeqFull
<1> QED
  BY <1>1 DEF IsPrefix

\* A row hangs at a node, or goes on to the child it names next.
LEMMA RowsGoOn ==
  ASSUME NEW path \in Seq(Names), NEW n \in Seq(Names), Len(n) <= MaxSpanDepth, IsPrefix(n, path)
  PROVE  \/ Deepest(path) = n
         \/ LET k == SubSeq(path, 1, Len(n) + 1)
            IN /\ k \in ToSet(AncestorPaths(path)) /\ k \in Seq(Names) /\ Len(k) = Len(n) + 1
               /\ k # Root /\ Front(k) = n /\ IsPrefix(k, path)
<1> DEFINE d == DepthOf(path)
           k == SubSeq(path, 1, Len(n) + 1)
<1>1. Len(path) \in Nat /\ Len(n) \in Nat /\ MaxSpanDepth \in Nat
  BY RunTreeAssumption
<1>2. Len(n) <= Len(path) /\ n = SubSeq(path, 1, Len(n))
  BY PrefixIsCut
<1>3. Len(n) <= d /\ d \in Nat /\ d <= Len(path)
  BY <1>1, <1>2 DEF DepthOf
<1>4. CASE Len(n) = d
  BY <1>2, <1>4, WayDown
<1>5. CASE Len(n) # d
  <2>1. Len(n) + 1 \in 1..d /\ Len(n) + 1 \in 0..Len(path) /\ Len(n) \in 0..(Len(n) + 1)
        /\ (Len(n) + 1) - 1 = Len(n) /\ Len(n) + 1 <= Len(path) /\ Len(n) + 1 # 0
    BY <1>1, <1>3, <1>5
  <2>2. k \in ToSet(AncestorPaths(path))
    BY <2>1, WayDown
  <2>3. k \in Seq(Names) /\ Len(k) = Len(n) + 1
    BY <2>1, Cuts
  <2>4. k # Root
    BY <2>1, <2>3 DEF Root
  <2>5. Front(k) = n
    BY <1>2, <2>1, <2>3, CutsOfCuts DEF Front
  <2>6. IsPrefix(k, path)
    <3> HIDE DEF k
    <3>1. k = SubSeq(path, 1, Len(k))
      BY <2>3 DEF k
    <3> QED
      BY <2>1, <2>3, <3>1, PrefixIsCut
  <2> QED
    BY <2>2, <2>3, <2>4, <2>5, <2>6
<1> QED
  BY <1>4, <1>5

\* Whoever goes through a child goes through the node, and does not hang there.
LEMMA RowsCameFrom ==
  ASSUME NEW path \in Seq(Names), NEW n \in Seq(Names), NEW k \in Seq(Names),
         k # Root, Front(k) = n, Len(k) <= MaxSpanDepth, IsPrefix(k, path)
  PROVE  /\ Len(k) = Len(n) + 1 /\ k = SubSeq(path, 1, Len(n) + 1)
         /\ IsPrefix(n, path) /\ Deepest(path) # n
<1>1. Len(k) \in Nat /\ Len(path) \in Nat /\ Len(k) # 0 /\ MaxSpanDepth \in Nat
  BY RunTreeAssumption DEF Root
<1>2. Len(k) <= Len(path) /\ k = SubSeq(path, 1, Len(k))
  BY PrefixIsCut
<1>3. /\ Len(k) \in 0..Len(path) /\ Len(k) - 1 \in 0..Len(k) /\ Len(k) - 1 \in 0..Len(path)
      /\ Len(k) - 1 <= Len(path)
  BY <1>1, <1>2
<1>4. n = SubSeq(path, 1, Len(k) - 1)
  BY <1>2, <1>3, CutsOfCuts DEF Front
<1>5. Len(n) = Len(k) - 1
  BY <1>3, <1>4, Cuts
<1>6. IsPrefix(n, path)
  BY <1>3, <1>4, <1>5, PrefixIsCut
<1>7. Deepest(path) # n
  <2>1. DepthOf(path) \in 0..Len(path) /\ Deepest(path) = SubSeq(path, 1, DepthOf(path))
    BY WayDown
  <2>2. Len(Deepest(path)) = DepthOf(path)
    BY <2>1, Cuts
  <2>3. DepthOf(path) >= Len(k)
    BY <1>1, <1>2 DEF DepthOf
  <2> QED
    BY <1>1, <1>5, <2>2, <2>3
<1> QED
  BY <1>1, <1>2, <1>5, <1>6, <1>7

LEMMA TreeAdds ==
  ASSUME NEW c, Len(c) \in Nat,
         \A i \in 1..Len(c) : c[i].path \in Seq(Names) /\ c[i].cost \in Nat
  PROVE  LET tree == Assembled(c)[Len(c)]
             below(n) == {i \in 1..Len(c) : IsPrefix(n, c[i].path)}
         IN /\ Root \in DOMAIN tree.parent
            /\ \A n \in DOMAIN tree.parent :
                  /\ RollUp(tree)[n].cost = ColumnSum(c, "cost", below(n))
                  /\ RollUp(tree)[n].calls = Cardinality(below(n))
                  /\ n # Root => tree.parent[n] = Front(n)
<1> DEFINE tree == Assembled(c)[Len(c)]
           nodes == DOMAIN tree.parent
           L == 1..Len(c)
           under(n) == {i \in L : IsPrefix(n, c[i].path)}
           below == [n \in nodes |-> under(n)]
           costs == [i \in L |-> c[i].cost]
<1>1. /\ DOMAIN tree.leaves = L
      /\ \A i \in L : /\ tree.leaves[i].at = Deepest(c[i].path)
                      /\ tree.leaves[i].cost = c[i].cost
                      /\ ToSet(AncestorPaths(c[i].path)) \subseteq nodes
      /\ IsFiniteSet(nodes) /\ Root \in nodes
      /\ \A n \in nodes : WellPlaced(tree, n)
  <2>1. Len(c) \in 0..Len(c)
    OBVIOUS
  <2> QED
    BY <2>1, TreeGrows
<1>2. IsFiniteSet(L)
  BY FS_Interval
<1> HIDE DEF tree
<1>3. \A i \in L : costs[i] \in Nat /\ costs[i] = c[i].cost
  OBVIOUS
<1>4. \A n \in nodes : n \in Seq(Names) /\ Len(n) <= MaxSpanDepth /\ Len(n) \in Nat
                       /\ (n # Root => tree.parent[n] = Front(n))
  BY <1>1 DEF WellPlaced
<1>5. \A n \in nodes : \A i : i \in below[n] <=> (i \in L /\ IsPrefix(n, c[i].path))
  OBVIOUS
<1>7. \A n \in nodes : \A i : i \in LeavesAt(tree, n) <=> (i \in L /\ Deepest(c[i].path) = n)
  BY <1>1 DEF LeavesAt
<1>8. \A i \in L : c[i].path \in Seq(Names)
  OBVIOUS
<1>9. \A n \in nodes : \A k : k \in Children(tree, n) <=> (k \in nodes /\ k # Root /\ Front(k) = n)
  <2>1. \A n \in nodes : \A k : k \in Children(tree, n) <=>
                                  (k \in nodes /\ k # Root /\ tree.parent[k] = n)
    BY DEF Children
  <2> HIDE DEF nodes
  <2> QED
    BY <1>4, <2>1
<1>10. \A n \in nodes : below[n] = under(n)
  OBVIOUS
<1> HIDE DEF nodes, L, below, costs, under
<1>11. ASSUME NEW n \in nodes, NEW i \in L, IsPrefix(n, c[i].path)
       PROVE  \/ i \in LeavesAt(tree, n)
              \/ \E k \in Children(tree, n) : i \in below[k]
  <2> DEFINE path == c[i].path
             k == SubSeq(path, 1, Len(n) + 1)
  <2>1. path \in Seq(Names) /\ n \in Seq(Names) /\ Len(n) <= MaxSpanDepth
    BY <1>4, <1>8
  <2>2. ToSet(AncestorPaths(path)) \subseteq nodes
    BY <1>1
  <2>3. CASE Deepest(path) = n
    BY <1>7, <2>3
  <2>4. CASE Deepest(path) # n
    <3> HIDE DEF path
    <3>1. k \in ToSet(AncestorPaths(path)) /\ k # Root /\ Front(k) = n /\ IsPrefix(k, path)
      BY <1>11, <2>1, <2>4, RowsGoOn DEF path
    <3> HIDE DEF k
    <3>2. k \in nodes
      BY <2>2, <3>1
    <3>3. k \in Children(tree, n) /\ i \in below[k]
      BY <1>5, <1>9, <3>1, <3>2 DEF path
    <3> QED
      BY <3>3
  <2> QED
    BY <2>3, <2>4
<1>12. ASSUME NEW n \in nodes, NEW k \in Children(tree, n), NEW i \in below[k]
       PROVE  /\ k = SubSeq(c[i].path, 1, Len(n) + 1)
              /\ i \in below[n] /\ i \notin LeavesAt(tree, n)
  <2> DEFINE path == c[i].path
  <2>1. k \in nodes /\ k # Root /\ Front(k) = n
    BY <1>9
  <2>2. i \in L /\ IsPrefix(k, path)
    BY <1>5, <2>1
  <2>3. path \in Seq(Names) /\ n \in Seq(Names) /\ k \in Seq(Names) /\ Len(k) <= MaxSpanDepth
    BY <1>4, <1>8, <2>1, <2>2
  <2> HIDE DEF path
  <2>4. k = SubSeq(path, 1, Len(n) + 1) /\ IsPrefix(n, path) /\ Deepest(path) # n
    BY <2>1, <2>2, <2>3, RowsCameFrom
  <2> QED
    BY <1>5, <1>7, <2>2, <2>4 DEF path
<1>13. ASSUME NEW n \in nodes
       PROVE  /\ Len(n) \in 0..MaxSpanDepth
              /\ \A i : i \in below[n] <=>
                          \/ i \in LeavesAt(tree, n)
                          \/ \E k \in Children(tree, n) : i \in below[k]
              /\ below[n] \subseteq DOMAIN tree.leaves
  <2>1. Len(n) \in 0..MaxSpanDepth
    BY <1>4, RunTreeAssumption
  <2>2. below[n] \subseteq DOMAIN tree.leaves
    BY <1>1, <1>5
  <2>3. ASSUME NEW i \in below[n]
        PROVE  i \in LeavesAt(tree, n) \/ \E k \in Children(tree, n) : i \in below[k]
    BY <1>5, <1>11
  <2>4. ASSUME NEW i \in LeavesAt(tree, n) PROVE i \in below[n]
    <3> DEFINE path == c[i].path
    <3>1. i \in L /\ Deepest(path) = n
      BY <1>7
    <3>2. path \in Seq(Names)
      BY <1>8, <3>1
    <3> HIDE DEF path
    <3>3. DepthOf(path) \in 0..Len(path) /\ n = SubSeq(path, 1, DepthOf(path))
      BY <3>1, <3>2, WayDown
    <3>4. Len(n) = DepthOf(path) /\ n \in Seq(Names)
      BY <3>2, <3>3, Cuts
    <3>6. Len(n) <= Len(path) /\ n = SubSeq(path, 1, Len(n))
      BY <3>2, <3>3, <3>4
    <3>5. IsPrefix(n, path)
      BY <3>2, <3>4, <3>6, PrefixIsCut
    <3> QED
      BY <1>5, <3>1, <3>5 DEF path
  <2>5. ASSUME NEW i, NEW k \in Children(tree, n), i \in below[k] PROVE i \in below[n]
    BY <1>12, <2>5
  <2> QED
    BY <2>1, <2>2, <2>3, <2>4, <2>5
<1>14. ASSUME NEW n \in nodes, NEW k \in Children(tree, n)
       PROVE  /\ Len(k) = Len(n) + 1
              /\ LeavesAt(tree, n) \cap below[k] = {}
              /\ \A l \in Children(tree, n) : k # l => below[k] \cap below[l] = {}
  <2>1. k \in nodes /\ k # Root /\ Front(k) = n
    BY <1>9
  <2>2. Len(k) = Len(n) + 1
    <3>1. k \in Seq(Names) /\ Len(k) \in Nat /\ Len(k) # 0
      BY <1>4, <2>1 DEF Root
    <3>2. Len(k) \in 0..Len(k) /\ Len(k) - 1 \in 0..Len(k)
      BY <3>1
    <3>3. Len(n) = Len(k) - 1
      BY <2>1, <3>1, <3>2, Cuts DEF Front
    <3> QED
      BY <3>1, <3>3
  <2>3. LeavesAt(tree, n) \cap below[k] = {}
    BY <1>12
  <2>4. ASSUME NEW l \in Children(tree, n), k # l PROVE below[k] \cap below[l] = {}
    BY <1>12, <2>4
  <2> QED
    BY <2>2, <2>3, <2>4
<1>15. \A i \in DOMAIN tree.leaves : costs[i] \in Nat /\ costs[i] = tree.leaves[i].cost
  BY <1>1, <1>3
<1>19. AddsDown(tree, below)
  <2>1. IsFiniteSet(nodes) /\ IsFiniteSet(DOMAIN tree.leaves) /\ IsFiniteSet(L)
    BY <1>1, <1>2
  <2>2. ASSUME NEW n \in nodes
        PROVE  IsSplit(below[n], LeavesAt(tree, n), Children(tree, n), below)
    <3>1. Children(tree, n) \subseteq nodes /\ below[n] \subseteq L
      BY <1>5, <1>9
    <3>2. IsFiniteSet(Children(tree, n)) /\ IsFiniteSet(below[n])
      BY <2>1, <3>1, FS_Subset
    <3>3. \A k \in Children(tree, n) : LeavesAt(tree, n) \cap below[k] = {}
      BY <1>14
    <3>4. \A k, l \in Children(tree, n) : k # l => below[k] \cap below[l] = {}
      BY <1>14
    <3>5. \A i : i \in below[n] <=> \/ i \in LeavesAt(tree, n)
                                  \/ \E k \in Children(tree, n) : i \in below[k]
      BY <1>13
    <3> QED
      BY <3>2, <3>3, <3>4, <3>5 DEF IsSplit
  <2>3. ASSUME NEW n \in nodes
        PROVE  /\ Len(n) \in 0..MaxSpanDepth /\ below[n] \subseteq DOMAIN tree.leaves
               /\ \A k \in Children(tree, n) : Len(k) = Len(n) + 1
    BY <1>13, <1>14
  <2> QED
    BY <2>1, <2>2, <2>3 DEF AddsDown, nodes
<1>16. \A n \in nodes : /\ RollUp(tree)[n].cost = SumUp(costs, below[n])
                        /\ RollUp(tree)[n].calls = Cardinality(below[n])
  BY <1>15, <1>19, RollUpAdds DEF nodes
<1>17. ASSUME NEW n \in nodes PROVE SumUp(costs, below[n]) = ColumnSum(c, "cost", below[n])
  <2>1. below[n] \subseteq L
    BY <1>5
  <2>2. IsFiniteSet(below[n])
    BY <1>2, <2>1, FS_Subset
  <2>3. \A i \in below[n] : costs[i] = c[i]["cost"]
    BY <1>3, <2>1
  <2> QED
    BY <2>2, <2>3, ColumnIsSum
<1>18. ASSUME NEW n \in nodes
       PROVE  /\ RollUp(tree)[n].cost = ColumnSum(c, "cost", under(n))
              /\ RollUp(tree)[n].calls = Cardinality(under(n))
              /\ n # Root => tree.parent[n] = Front(n)
  BY <1>4, <1>10, <1>16, <1>17
<1> QED
  BY <1>1, <1>18 DEF tree, nodes, under, L

LEMMA RunTreeAdds ==
  ASSUME Rows, NEW t
  PROVE  LET calls == RunCalls(t)
             tree == AssembleRunTree(calls)
             below(n) == {i \in DOMAIN Fetched(calls) : IsBelow(calls[i], n)}
         IN /\ Root \in DOMAIN tree.parent
            /\ \A n \in DOMAIN tree.parent :
                  /\ RollUp(tree)[n].cost = ColumnSum(calls, "cost", below(n))
                  /\ RollUp(tree)[n].calls = Cardinality(below(n))
                  /\ n # Root => tree.parent[n] = Front(n)
<1> DEFINE calls == RunCalls(t)
           c == Fetched(calls)
           tree == AssembleRunTree(calls)
           below(n) == {i \in DOMAIN c : IsBelow(calls[i], n)}
           under(n) == {i \in 1..Len(c) : IsPrefix(n, c[i].path)}
<1>1. /\ Len(calls) \in Nat /\ DOMAIN calls = 1..Len(calls)
      /\ calls \in Seq(Columns)
      /\ \A n \in 1..Len(calls) : \E i \in Ids : calls[n] = rows[i]
  BY RunCallsAreRows
<1> HIDE DEF calls
<1>2. ASSUME NEW n \in 1..Len(calls) PROVE calls[n].path \in Seq(Names) /\ calls[n].cost \in Nat
  <2>1. PICK i \in Ids : calls[n] = rows[i]
    BY <1>1
  <2>2. rows[i].path \in Seq(Names) /\ rows[i].cost \in Nat
    BY RowsAreClean, RowsCost
  <2> QED
    BY <2>1, <2>2
<1>3. /\ Len(c) \in Nat /\ Len(c) <= Len(calls) /\ DOMAIN c = 1..Len(c)
      /\ \A i \in 1..Len(c) : c[i] = calls[i]
  BY <1>1, FetchedAreRows
<1>4. tree = Assembled(c)[Len(c)]
  BY DEF AssembleRunTree
<1> HIDE DEF c, tree
<1>5. \A i \in 1..Len(c) : c[i].path \in Seq(Names) /\ c[i].cost \in Nat
  BY <1>1, <1>2, <1>3
<1>6. /\ Root \in DOMAIN tree.parent
      /\ \A n \in DOMAIN tree.parent :
            /\ RollUp(tree)[n].cost = ColumnSum(c, "cost", under(n))
            /\ RollUp(tree)[n].calls = Cardinality(under(n))
            /\ n # Root => tree.parent[n] = Front(n)
  BY <1>3, <1>4, <1>5, TreeAdds
<1>7. ASSUME NEW n PROVE below(n) = under(n)
  BY <1>3 DEF IsBelow
<1>8. ASSUME NEW n PROVE ColumnSum(c, "cost", under(n)) = ColumnSum(calls, "cost", under(n))
  <2>1. under(n) \subseteq 1..Len(c) /\ IsFiniteSet(1..Len(c))
    BY <1>3, FS_Interval
  <2> HIDE DEF under
  <2>2. IsFiniteSet(under(n)) /\ \A i \in under(n) : c[i] = calls[i]
    BY <1>3, <2>1, FS_Subset
  <2> QED
    BY <2>2, ColumnOfSame
<1> HIDE DEF below, under
<1>9. ASSUME NEW n \in DOMAIN tree.parent
      PROVE  /\ RollUp(tree)[n].cost = ColumnSum(calls, "cost", below(n))
             /\ RollUp(tree)[n].calls = Cardinality(below(n))
             /\ n # Root => tree.parent[n] = Front(n)
  BY <1>6, <1>7, <1>8
<1> QED
  BY <1>6, <1>9 DEF calls, c, tree, below

LEMMA TreesConserve == Rows => TreeConserves
<1> SUFFICES ASSUME Rows, NEW t \in Traces
             PROVE  LET calls == RunCalls(t)
                        tree == AssembleRunTree(calls)
                        up == RollUp(tree)
                        below(n) == {i \in DOMAIN Fetched(calls) : IsBelow(calls[i], n)}
                    IN \A n \in DOMAIN tree.parent :
                          /\ up[n].cost = MapThenSumSet(LAMBDA i : calls[i].cost, below(n))
                          /\ up[n].calls = Cardinality(below(n))
                          /\ n # Root => tree.parent[n] = Front(n)
  BY DEF TreeConserves, MapThenSumSet, MapThenFoldSet
<1> DEFINE calls == RunCalls(t)
           tree == AssembleRunTree(calls)
           below(n) == {i \in DOMAIN Fetched(calls) : IsBelow(calls[i], n)}
<1>1. ASSUME NEW n \in DOMAIN tree.parent
      PROVE  /\ RollUp(tree)[n].cost = ColumnSum(calls, "cost", below(n))
             /\ RollUp(tree)[n].calls = Cardinality(below(n))
             /\ n # Root => tree.parent[n] = Front(n)
  BY RunTreeAdds
<1> HIDE DEF calls, tree, below
<1>2. ASSUME NEW n \in DOMAIN tree.parent
      PROVE  /\ RollUp(tree)[n].cost = MapThenSumSet(LAMBDA i : calls[i].cost, below(n))
             /\ RollUp(tree)[n].calls = Cardinality(below(n))
             /\ n # Root => tree.parent[n] = Front(n)
  <2>1. ColumnSum(calls, "cost", below(n))
          = MapThenSumSet(LAMBDA i : calls[i].cost, below(n))
    BY DEF ColumnSum, MapThenSumSet, MapThenFoldSet
  <2> QED
    BY <1>1, <2>1 DEF MapThenSumSet, MapThenFoldSet
<1> QED
  BY <1>2 DEF calls, tree, below, MapThenSumSet, MapThenFoldSet

\* The root of the tree costs what the run costs in the list.
LEMMA RunCostsAgree ==
  ASSUME Rows, NEW t, Len(RunCalls(t)) <= FetchCap
  PROVE  RollUp(AssembleRunTree(RunCalls(t)))[Root].cost = Total(CallsOf(Ids, t)).cost
<1> DEFINE calls == RunCalls(t)
           tree == AssembleRunTree(calls)
           mine == CallsOf(Ids, t)
           below == {i \in DOMAIN Fetched(calls) : IsBelow(calls[i], Root)}
           c == [i \in Ids |-> rows[i].cost]
           d == [n \in 1..Len(calls) |-> calls[n].cost]
           one == [i \in Ids |-> 1]
<1>1. /\ Len(calls) \in Nat /\ DOMAIN calls = 1..Len(calls)
      /\ calls \in Seq(Columns)
      /\ \A n \in 1..Len(calls) : \E i \in Ids : calls[n] = rows[i]
  BY RunCallsAreRows
<1>2. PICK g : /\ \A n \in 1..Len(calls) : calls[n] = rows[g[n]]
               /\ \A n, k \in 1..Len(calls) : g[n] = g[k] => n = k
               /\ \A i : i \in mine <=> \E n \in 1..Len(calls) : i = g[n]
  BY RunCallsAreRows
<1>3. RollUp(tree)[Root].cost = ColumnSum(calls, "cost", below)
  BY RunTreeAdds
<1>4. mine \subseteq Ids
  BY DEF CallsOf
<1> HIDE DEF calls, mine
<1>5. below = 1..Len(calls)
  <2>1. Fetched(calls) = calls
    <3>1. Len(calls) <= FetchCap
      BY DEF calls
    <3>2. Len(calls) \in Nat
      BY <1>1
    <3>3. ~(Len(calls) > FetchCap)
      BY <3>1, <3>2, RunTreeAssumption
    <3> QED
      BY <3>3 DEF Fetched
  <2>2. ASSUME NEW n \in 1..Len(calls) PROVE IsBelow(calls[n], Root)
    <3> DEFINE path == calls[n].path
    <3>1. path \in Seq(Names)
      BY <1>1, RowsAreClean
    <3> HIDE DEF path
    <3>2. 0 \in 0..Len(path) /\ 0 <= Len(path)
      BY <3>1
    <3>3. SubSeq(path, 1, 0) \in Seq(Names) /\ Len(SubSeq(path, 1, 0)) = 0
      BY <3>1, <3>2, Cuts
    <3>4. SubSeq(path, 1, 0) = <<>>
      BY <3>3
    <3>5. Root \in Seq(Names) /\ Len(Root) = 0
      BY DEF Root
    <3>6. IsPrefix(Root, path)
      BY <3>1, <3>2, <3>4, <3>5, PrefixIsCut DEF Root
    <3> QED
      BY <3>6 DEF IsBelow, path
  <2> QED
    BY <1>1, <2>1, <2>2
<1> HIDE DEF below, tree
<1>6. \A i \in Ids : c[i] \in Nat /\ c[i] = rows[i].cost /\ one[i] = 1
  BY RowsCost
<1>7. \A n \in 1..Len(calls) : d[n] = calls[n].cost
  OBVIOUS
<1> HIDE DEF c, d, one
<1>8. IsFiniteSet(1..Len(calls)) /\ IsFiniteSet(mine)
  BY <1>1, <1>4, FS_Interval, FS_Subset, RowsCost
<1>9. ColumnSum(calls, "cost", 1..Len(calls)) = SumUp(d, 1..Len(calls))
  <2>1. \A n \in 1..Len(calls) : d[n] = calls[n]["cost"]
    BY <1>7
  <2> QED
    BY <1>8, <2>1, ColumnIsSum
<1>10. SumUp(d, 1..Len(calls)) = SumUp(c, mine)
  <2> DEFINE A == 1..Len(calls)
  <2>1. \A n \in A : g[n] \in mine
    BY <1>2
  <2>2. \A n \in A : d[n] = c[g[n]]
    BY <1>2, <1>4, <1>6, <1>7, <2>1
  <2>3. \A i \in mine : c[i] \in Nat
    BY <1>4, <1>6
  <2>4. /\ \A n, k \in A : g[n] = g[k] => n = k
        /\ \A i : i \in mine <=> \E n \in A : i = g[n]
        /\ IsFiniteSet(A)
    BY <1>2, <1>8
  <2> HIDE DEF A
  <2>5. SumUp(d, A) = SumUp(c, mine)
    BY <1>8, <2>2, <2>3, <2>4, SumRenamed
  <2> QED
    BY <2>5 DEF A
<1>11. Total(mine).cost = SumUp(c, mine)
  BY <1>4, <1>6, TotalSums
<1>12. RollUp(tree)[Root].cost = Total(mine).cost
  BY <1>3, <1>5, <1>9, <1>10, <1>11
<1> QED
  BY <1>12 DEF tree, calls, mine

LEMMA ReportsAdd == Rows => ReportsAddUp
<1> SUFFICES ASSUME Rows, NEW q \in Queries
             PROVE  LET f == ResolveFilter(q)
                        failed == [f EXCEPT !.status = "error", !.noRuns = FALSE]
                        plain == [f EXCEPT !.provider = None, !.model = None,
                                           !.meta = None, !.status = None]
                        limit == ClampLimit(q.limit, DefaultErrors, MaxErrors)
                    IN /\ Combined(DailyUsage(f)) = UsageSummary(f)
                       /\ Combined(ModelBreakdown(f)) = UsageSummary(f)
                       /\ Combined(ProviderBreakdown(f)) = UsageSummary(f)
                       /\ Combined(APIKeyBreakdown(f)) = UsageSummary([f EXCEPT !.key = None])
                       /\ f.key \in DOMAIN APIKeyBreakdown(f) =>
                             APIKeyBreakdown(f)[f.key] = UsageSummary(f)
                       /\ f.meta # None => Combined(MetadataBreakdown(f)) = UsageSummary(f)
                       /\ \A asks \in {"errors", "latency", "requests", "runs"} :
                             ReadFirst(asks, f) = ReadSecond(asks, f)
                       /\ Total(ErrorTotals(f)) = UsageSummary(f)
                       /\ LatencyTotals(f) = ErrorTotals(f)
                       /\ \A flip \in BOOLEAN :
                             RecentErrors(f, limit, flip)
                               = {i \in Listed(failed) :
                                     Cardinality(RequestsAhead(failed, i, flip)) < limit}
                       /\ Cardinality(ErrorRows(f)) = UsageSummary(f).errors
                       /\ OfRuns(plain) \cup Listed([plain EXCEPT !.noRuns = TRUE])
                            = Listed([plain EXCEPT !.noRuns = FALSE])
                       /\ \A t \in RunsOf(OfRuns(f)) :
                            CallsOf(OfRuns(f), t) = CallsOf(Ids, t)
                                /\ Len(RunCalls(t)) <= FetchCap =>
                              RollUp(AssembleRunTree(RunCalls(t)))[Root].cost
                                = Total(CallsOf(OfRuns(f), t)).cost
  BY DEF ReportsAddUp
<1> DEFINE f == ResolveFilter(q)
           failed == [f EXCEPT !.status = "error", !.noRuns = FALSE]
           limit == ClampLimit(q.limit, DefaultErrors, MaxErrors)
<1>1. ASSUME NEW t, CallsOf(OfRuns(f), t) = CallsOf(Ids, t), Len(RunCalls(t)) <= FetchCap
      PROVE  RollUp(AssembleRunTree(RunCalls(t)))[Root].cost = Total(CallsOf(OfRuns(f), t)).cost
  <2> HIDE DEF f
  <2> QED
    BY <1>1, RunCostsAgree
<1>2. \A n : \A flip \in BOOLEAN :
         RecentErrors(f, n, flip)
           = {i \in Listed(failed) : Cardinality(RequestsAhead(failed, i, flip)) < n}
  BY ReportsAgree
<1>3. \A flip \in BOOLEAN :
         RecentErrors(f, limit, flip)
           = {i \in Listed(failed) : Cardinality(RequestsAhead(failed, i, flip)) < limit}
  <2> HIDE DEF f, failed, limit
  <2> QED
    BY <1>2
<1> QED
  BY <1>1, <1>3, ReportsAgree

-----------------------------------------------------------------------------
(* The theorems.                                                           *)
IInv == Rows /\ Client /\ Followed /\ RequestsWalk /\ RunsWalk

LEMMA InitIInv == Init => IInv
<1> SUFFICES ASSUME Init PROVE IInv
  OBVIOUS
<1>1. now = 0 /\ rows = <<>> /\ caller.does = "nothing"
  BY DEF Init, Idle
<1>2. Rows
  <2>1. rows \in Seq(Columns) /\ Ids = {}
    BY <1>1 DEF Ids
  <2>2. 0 \in 0..MaxTime
    BY UsageReportsAssumption
  <2> QED
    BY <1>1, <2>1, <2>2 DEF Rows
<1> QED
  BY <1>1, <1>2
     DEF IInv, Client, Followed, SeriesFollowTotals, RequestsWalk, RunsWalk,
         WalksRequests, WalksRuns

LEMMA NextIInv == IInv /\ [Next]_vars => IInv'
BY NextRows, NextClient, NextFollowed, NextRequestsWalk, NextRunsWalk DEF IInv

LEMMA IInvTypes == IInv => TypeOK
<1> SUFFICES ASSUME IInv PROVE TypeOK
  OBVIOUS
<1>1. ASSUME NEW i \in Ids
      PROVE  /\ 0 <= rows[i].at /\ rows[i].at <= rows[i].done /\ rows[i].done <= now
             /\ rows[i].indexed => rows[i].meta # None
  <2>1. rows[i] \in Columns /\ WellLogged(rows[i])
    BY DEF IInv, Rows, Ids
  <2>2. rows[i].at \in Nat
    BY <2>1 DEF Columns
  <2> QED
    BY <2>1, <2>2 DEF WellLogged
<1> QED
  BY <1>1 DEF IInv, Rows, Client, TypeOK

(* Rows are logged when their request is answered, have their metadata     *)
(* indexed only when they have some, and a client has received nothing but *)
(* rows, or runs (usage.go:593-793).                                       *)
THEOREM UsageTyped == Spec => []TypeOK
<1>1. Spec => []IInv
  BY InitIInv, NextIInv, PTL DEF Spec
<1> QED
  BY <1>1, IInvTypes, PTL

(* The second statement of a report returns all that the first one         *)
(* returned, and beyond it only what was inserted in between, since both   *)
(* have the same bounds (usage.go:394-465, 516-590, 593-635, 744-793).     *)
THEOREM SeriesAlwaysFollow == Spec => []SeriesFollowTotals
<1>1. Spec => []IInv
  BY InitIInv, NextIInv, PTL DEF Spec
<1>2. IInv => SeriesFollowTotals
  BY DEF IInv, Followed
<1> QED
  BY <1>1, <1>2, PTL

(* Whatever run is asked for, each of its rows hangs in the tree under the *)
(* node whose id it was logged with, unless its path is deeper than the    *)
(* tree (spanid.go:8-10, usage.go:881-943).                                *)
THEOREM RowsAlwaysHangWhereLogged == Spec => []RowsHangWhereLogged
<1>1. IInv => RowsHangWhereLogged
  BY RunsHang DEF IInv, RowsHangWhereLogged
<1> QED
  BY <1>1, InitIInv, NextIInv, PTL DEF Spec

(* Reports of one moment agree, whatever is asked and whatever is filtered *)
(* by: the series and the breakdowns add up to the summary, the recent     *)
(* errors are the top of the requests that failed, and a run costs in the  *)
(* list what its tree adds up to (usage.go:108-682, 744-793, 840-943).     *)
THEOREM ReportsAlwaysAddUp == Spec => []ReportsAddUp
<1>1. IInv => ReportsAddUp
  BY ReportsAdd DEF IInv
<1> QED
  BY <1>1, InitIInv, NextIInv, PTL DEF Spec

(* The cost and the calls of every node of a run's tree are those of the   *)
(* rows below it, each counted once, however many the rows are, however    *)
(* their paths overlap and in whatever order they were made                *)
(* (usage.go:840-943).                                                     *)
THEOREM TreesAlwaysConserve == Spec => []TreeConserves
<1>1. IInv => TreeConserves
  BY TreesConserve DEF IInv
<1> QED
  BY <1>1, InitIInv, NextIInv, PTL DEF Spec

(* Reading the list of requests page by page misses no request that was    *)
(* there and ties with nobody, whatever is inserted meanwhile and however  *)
(* the window moves (usage.go:593-635).                                    *)
THEOREM PagesNeverMissARow == Spec => PagesMissNoRow
<1> DEFINE A == WalkEnds("requests") /\ ~caller.disturbed =>
                  LET listed == Listed(ResolveFilter(caller.query))
                  IN \A i \in listed \ caller.seen :
                        \/ i > caller.inserted
                        \/ \E j \in listed \ {i} : rows[j].at = rows[i].at
<1>1. Spec => []IInv
  BY InitIInv, NextIInv, PTL DEF Spec
<1>2. IInv /\ [Next]_vars => [A]_vars
  BY RequestsNotMissed DEF IInv
<1>3. PagesMissNoRow <=> [][A]_vars
  BY DEF PagesMissNoRow
<1> HIDE DEF A
<1> QED
  BY <1>1, <1>2, <1>3, PTL DEF Spec

(* Reading the list of runs page by page misses no run but one that grew   *)
(* meanwhile, ties with another, or left a window that moved               *)
(* (usage.go:744-793).                                                     *)
THEOREM OnlyRunsThatGrewAreMissed == Spec => MissedRunsGrew
<1> DEFINE A == WalkEnds("runs") /\ caller.window = Window(caller.query) =>
                  LET calls == OfRuns(ResolveFilter(caller.query))
                  IN \A t \in RunsOf(calls) \ caller.seen :
                        \/ \E i \in CallsOf(calls, t) : i > caller.inserted
                        \/ \E j \in calls :
                             rows[j].trace # t /\ rows[j].done = EndedAt(calls, t)
<1>1. Spec => []IInv
  BY InitIInv, NextIInv, PTL DEF Spec
<1>2. IInv /\ [Next]_vars => [A]_vars
  BY RunsNotMissed DEF IInv
<1>3. MissedRunsGrew <=> [][A]_vars
  BY DEF MissedRunsGrew
<1> HIDE DEF A
<1> QED
  BY <1>1, <1>2, <1>3, PTL DEF Spec

=============================================================================
