----------------------------- MODULE Recursion ------------------------------
(***************************************************************************)
(* Induction over the natural numbers for the proofs: a set of numbers has *)
(* a least one, and from that a set closed under the successor is all of   *)
(* them and a function defined from its value at 0 and from one value to   *)
(* the next exists and is the only one; and counting, one number after the *)
(* other.                                                                  *)
(***************************************************************************)
EXTENDS Integers, WellFoundedInduction, FiniteSetTheorems, TLAPS

(* A set of natural numbers has a least element.                           *)
LEMMA LeastNat ==
  ASSUME NEW T, T \subseteq Nat, T # {}
  PROVE  \E u \in T : \A v \in T : u <= v
<1> DEFINE R == {ss \in Nat \X Nat : ss[1] < ss[2]}
<1>1. IsWellFoundedOn(R, Nat)
  BY NatLessThanWellFounded, Zenon DEF OpToRel
<1>2. \A m, n \in Nat : m < n => <<m, n>> \in R
  OBVIOUS
<1> HIDE DEF R
<1>3. \E u \in T : \A v \in T : ~(<<v, u>> \in R)
  BY <1>1, WFMin, Zenon
<1>4. \A u, v \in T : u \in Nat /\ v \in Nat /\ (~(v < u) => u <= v)
  OBVIOUS
<1> QED BY <1>2, <1>3, <1>4

(* What holds at a and from each number up to b to the next holds from a   *)
(* to b.                                                                   *)
LEMMA UpTo ==
  ASSUME NEW a \in Nat, NEW b \in Nat, NEW T, a \in T,
         \A k \in a..(b - 1) : k \in T => k + 1 \in T
  PROVE  a..b \subseteq T
<1> DEFINE Bad == {k \in a..b : k \notin T}
<1> SUFFICES ASSUME Bad # {} PROVE FALSE
  OBVIOUS
<1>1. PICK u \in Bad : \A v \in Bad : u <= v
  <2>1. Bad \subseteq Nat
    OBVIOUS
  <2> HIDE DEF Bad
  <2> QED BY <2>1, LeastNat
<1>2. u # a /\ u \in a..b
  OBVIOUS
<1>3. u - 1 \in a..(b - 1) /\ u - 1 \notin Bad /\ u - 1 \in a..b
  <2>1. u - 1 \in a..(b - 1) /\ u - 1 \in a..b /\ ~(u <= u - 1)
    BY <1>2
  <2> HIDE DEF Bad
  <2> QED BY <1>1, <2>1
<1>4. u - 1 \in T /\ u - 1 + 1 = u
  BY <1>2, <1>3
<1>5. u \in T
  BY <1>3, <1>4
<1> QED BY <1>5

(* Two functions that start alike and go on alike are alike.               *)
LEMMA SameSoFar ==
  ASSUME NEW n \in Nat, NEW f, NEW g, f[0] = g[0],
         \A k \in 1..n : f[k - 1] = g[k - 1] => f[k] = g[k]
  PROVE  \A k \in 0..n : f[k] = g[k]
<1> DEFINE T == {k \in 0..n : f[k] = g[k]}
<1>1. 0 \in T
  OBVIOUS
<1>2. ASSUME NEW k \in 0..(n - 1), k \in T PROVE k + 1 \in T
  <2>1. k + 1 \in 1..n /\ k + 1 - 1 = k
    OBVIOUS
  <2> QED BY <1>2, <2>1
<1>3. 0..n \subseteq T
  <2> HIDE DEF T
  <2> QED BY <1>1, <1>2, UpTo
<1> QED BY <1>3

(* The function exists: its values stay in D when every step does.         *)
Keeps(step, D, n)      == \A k \in 1..n : \A d \in D : step[k][d] \in D
Runs(f, step, base, n) == f[0] = base /\ \A k \in 1..n : f[k] = step[k][f[k - 1]]

LEMMA Recursive ==
  ASSUME NEW D, NEW base \in D, NEW n \in Nat, NEW step, Keeps(step, D, n)
  PROVE  \E f \in [0..n -> D] : Runs(f, step, base, n)
<1> USE DEF Keeps, Runs
<1> DEFINE Good(f, m) == /\ f \in [0..m -> D] /\ f[0] = base
                         /\ \A k \in 1..m : f[k] = step[k][f[k - 1]]
           T == {m \in 0..n : \E f : Good(f, m)}
<1>1. 0 \in T
  <2>1. Good([k \in 0..0 |-> base], 0)
    OBVIOUS
  <2> HIDE DEF Good
  <2> QED BY <2>1
<1>2. ASSUME NEW m \in 0..(n - 1), m \in T PROVE m + 1 \in T
  <2>1. PICK f : Good(f, m)
    BY <1>2
  <2> DEFINE g == [k \in 0..(m + 1) |-> IF k = m + 1 THEN step[m + 1][f[m]] ELSE f[k]]
  <2>2. m + 1 \in 1..n /\ f[m] \in D /\ step[m + 1][f[m]] \in D
    BY <2>1
  <2>3. g \in [0..(m + 1) -> D] /\ g[0] = base
    BY <2>1, <2>2
  <2>4. ASSUME NEW k \in 1..(m + 1) PROVE g[k] = step[k][g[k - 1]]
    <3>1. k - 1 \in 0..m /\ k - 1 # m + 1 /\ k - 1 \in 0..(m + 1) /\ k \in 0..(m + 1)
      OBVIOUS
    <3>2. g[k - 1] = f[k - 1]
      BY <3>1
    <3>3. CASE k = m + 1
      <4>1. k - 1 = m /\ g[k] = step[m + 1][f[m]]
        BY <3>1, <3>3
      <4> HIDE DEF g
      <4> QED BY <3>2, <3>3, <4>1
    <3>4. CASE k # m + 1
      <4>1. k \in 1..m /\ g[k] = f[k]
        BY <3>1, <3>4
      <4> HIDE DEF g
      <4> QED BY <2>1, <3>2, <4>1
    <3> QED BY <3>3, <3>4
  <2>5. Good(g, m + 1)
    <3> HIDE DEF g
    <3> QED BY <2>3, <2>4
  <2> HIDE DEF g, Good
  <2> QED BY <2>2, <2>5
<1>3. 0..n \subseteq T
  <2> HIDE DEF T
  <2> QED BY <1>1, <1>2, UpTo
<1>4. n \in T
  <2> HIDE DEF T
  <2> QED BY <1>3
<1> QED BY <1>4
-----------------------------------------------------------------------------
(* Counting the numbers of a set up to a bound.                            *)
LEMMA PrefixCount ==
  ASSUME NEW T, NEW k \in Nat
  PROVE  /\ IsFiniteSet({j \in 1..k : j \in T})
         /\ Cardinality({j \in 1..k : j \in T}) \in Nat
<1>1. IsFiniteSet(1..k)
  BY FS_Interval
<1>2. {j \in 1..k : j \in T} \subseteq 1..k
  OBVIOUS
<1>3. IsFiniteSet({j \in 1..k : j \in T})
  BY <1>1, <1>2, FS_Subset
<1> QED BY <1>3, FS_CardinalityType

LEMMA PrefixStep ==
  ASSUME NEW T, NEW k \in Nat \ {0}
  PROVE  Cardinality({j \in 1..k : j \in T})
           = Cardinality({j \in 1..(k - 1) : j \in T}) + (IF k \in T THEN 1 ELSE 0)
<1> DEFINE A == {j \in 1..(k - 1) : j \in T}
           B == {j \in 1..k : j \in T}
<1>1. k - 1 \in Nat
  OBVIOUS
<1>2. IsFiniteSet(A) /\ Cardinality(A) \in Nat
  BY <1>1, PrefixCount
<1>3. k \notin A /\ 1..k = 1..(k - 1) \cup {k}
  OBVIOUS
<1>4. CASE k \in T
  <2>1. B = A \cup {k}
    BY <1>3, <1>4
  <2>2. Cardinality(A \cup {k}) = Cardinality(A) + 1
    BY <1>2, <1>3, FS_AddElement
  <2> QED BY <1>4, <2>1, <2>2
<1>5. CASE k \notin T
  <2>1. B = A
    BY <1>3, <1>5
  <2> QED BY <1>2, <1>5, <2>1
<1> QED BY <1>4, <1>5

(* How many more of the first n numbers are in T than in U.                *)
Surplus(T, U, n) == Cardinality({j \in 1..n : j \in T}) - Cardinality({j \in 1..n : j \in U})

LEMMA SurplusStep ==
  ASSUME NEW T, NEW U, NEW k \in Nat \ {0}, NEW d,
         ~(k \in T /\ k \in U), d = IF k \in T THEN 1 ELSE IF k \in U THEN -1 ELSE 0
  PROVE  /\ Surplus(T, U, 0) = 0 /\ Surplus(T, U, k - 1) \in Int
         /\ Surplus(T, U, k) = Surplus(T, U, k - 1) + d
<1>1. Surplus(T, U, 0) = 0
  <2>1. {j \in 1..0 : j \in T} = {} /\ {j \in 1..0 : j \in U} = {}
    OBVIOUS
  <2>2. Cardinality({}) = 0
    BY FS_EmptySet
  <2> QED BY <2>1, <2>2 DEF Surplus
<1> DEFINE a == Cardinality({j \in 1..(k - 1) : j \in T})
           b == Cardinality({j \in 1..(k - 1) : j \in U})
<1>2. a \in Nat /\ b \in Nat
  <2>1. k - 1 \in Nat
    OBVIOUS
  <2> QED BY <2>1, PrefixCount
<1>3. /\ Cardinality({j \in 1..k : j \in T}) = a + (IF k \in T THEN 1 ELSE 0)
      /\ Cardinality({j \in 1..k : j \in U}) = b + (IF k \in U THEN 1 ELSE 0)
  BY PrefixStep
<1>4. Surplus(T, U, k - 1) = a - b
  BY DEF Surplus
<1>5. Surplus(T, U, k) = (a + (IF k \in T THEN 1 ELSE 0)) - (b + (IF k \in U THEN 1 ELSE 0))
  BY <1>3 DEF Surplus
<1> HIDE DEF a, b
<1> QED BY <1>1, <1>2, <1>4, <1>5
=============================================================================
