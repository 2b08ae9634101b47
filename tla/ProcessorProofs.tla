-------------------------- MODULE ProcessorProofs ---------------------------
(***************************************************************************)
(* Theorems about compiled programs at run time, whatever the programs,    *)
(* the values of a byte and the size of the stack.                         *)
(***************************************************************************)
EXTENDS ProcessorProps, Recursion

USE ByteValuesAssumption

-----------------------------------------------------------------------------
(* Powers of ByteValues.                                                   *)
PowerFrom(n, f) == f = [k \in 0..n |-> IF k = 0 THEN 1 ELSE ByteValues * f[k - 1]]

LEMMA PowerSteps ==
  ASSUME NEW n \in Nat, NEW f, PowerFrom(n, f)
  PROVE  f[0] = 1 /\ \A k \in 1..n : f[k] = ByteValues * f[k - 1]
<1>1. 0 \in 0..n /\ \A k \in 1..n : k \in 0..n /\ k # 0
  OBVIOUS
<1> QED BY <1>1 DEF PowerFrom

LEMMA PowerOnce ==
  ASSUME NEW m \in Nat, NEW n \in Nat, m <= n, NEW f, NEW g, PowerFrom(m, f), PowerFrom(n, g)
  PROVE  \A k \in 0..m : f[k] = g[k]
<1>1. f[0] = 1 /\ \A k \in 1..m : f[k] = ByteValues * f[k - 1]
  BY PowerSteps
<1>2. g[0] = 1 /\ \A k \in 1..n : g[k] = ByteValues * g[k - 1]
  BY PowerSteps
<1>3. \A k \in 1..m : k \in 1..n
  OBVIOUS
<1>4. \A k \in 1..m : f[k - 1] = g[k - 1] => f[k] = g[k]
  BY <1>1, <1>2, <1>3, Zenon
<1> QED BY <1>1, <1>2, <1>4, SameSoFar

LEMMA PowerExists ==
  ASSUME NEW n \in Nat
  PROVE  LET f == CHOOSE f : PowerFrom(n, f)
         IN  PowerFrom(n, f) /\ Values(n) = f[n] /\ \A k \in 0..n : f[k] \in Nat \ {0}
<1> DEFINE D == Nat \ {0}
           step == [k \in 1..n |-> [d \in D |-> ByteValues * d]]
           F == CHOOSE f : PowerFrom(n, f)
<1>1. \A d \in D : ByteValues * d \in D
  OBVIOUS
<1>2. \A k \in 1..n : \A d \in D : step[k][d] = ByteValues * d /\ step[k][d] \in D
  BY <1>1
<1>3. PICK f \in [0..n -> D] : f[0] = 1 /\ \A k \in 1..n : f[k] = step[k][f[k - 1]]
  <2>1. 1 \in D /\ Keeps(step, D, n)
    BY <1>2 DEF Keeps
  <2>2. \E f \in [0..n -> D] : Runs(f, step, 1, n)
    <3> HIDE DEF step, D
    <3> QED BY <2>1, Recursive
  <2> HIDE DEF step, D
  <2> QED BY <2>2 DEF Runs
<1> HIDE DEF step
<1>4. PowerFrom(n, f)
  <2> DEFINE h == [k \in 0..n |-> IF k = 0 THEN 1 ELSE ByteValues * f[k - 1]]
  <2>1. \A k \in 0..n : h[k] = f[k]
    <3> SUFFICES ASSUME NEW k \in 0..n PROVE h[k] = f[k]
      OBVIOUS
    <3>1. CASE k = 0
      BY <1>3, <3>1
    <3>2. CASE k # 0
      <4>1. k \in 1..n /\ k - 1 \in 0..n
        BY <3>2
      <4>2. f[k - 1] \in D /\ f[k] = step[k][f[k - 1]]
        BY <1>3, <4>1
      <4>3. f[k] = ByteValues * f[k - 1]
        BY <1>2, <4>1, <4>2
      <4>4. h[k] = ByteValues * f[k - 1]
        BY <3>2
      <4> QED BY <4>3, <4>4, Zenon
    <3> QED BY <3>1, <3>2
  <2>2. f = [k \in 0..n |-> f[k]] /\ h = [k \in 0..n |-> h[k]]
    BY <1>3
  <2>3. h = f
    <3> HIDE DEF h
    <3> QED BY <2>1, <2>2
  <2> QED BY <2>3 DEF PowerFrom
<1>5. PowerFrom(n, F)
  BY <1>4
<1>6. Values(n) = F[n]
  BY DEF Values, PowerFrom
<1> HIDE DEF F
<1>7. \A k \in 0..n : F[k] = f[k]
  BY <1>4, <1>5, PowerOnce
<1>8. \A k \in 0..n : F[k] \in D
  BY <1>3, <1>7
<1> QED BY <1>5, <1>6, <1>8 DEF F

(* One byte more is ByteValues times as many.                              *)
LEMMA PowerGoes ==
  ASSUME NEW n \in Nat
  PROVE  /\ Values(n) \in Nat \ {0} /\ Values(0) = 1
         /\ Values(n + 1) = ByteValues * Values(n)
<1> DEFINE f == CHOOSE f : PowerFrom(n + 1, f)
           g == CHOOSE g : PowerFrom(n, g)
           z == CHOOSE z : PowerFrom(0, z)
<1>1. n + 1 \in Nat /\ n + 1 \in 1..(n + 1) /\ n \in 0..n /\ 0 \in Nat /\ n + 1 - 1 = n
  OBVIOUS
<1>2. PowerFrom(n + 1, f) /\ Values(n + 1) = f[n + 1]
  <2> DEFINE m == n + 1
  <2> HIDE DEF m
  <2>1. m \in Nat
    BY DEF m
  <2>2. LET h == CHOOSE h : PowerFrom(m, h) IN PowerFrom(m, h) /\ Values(m) = h[m]
    BY <2>1, PowerExists
  <2> QED BY <2>2 DEF m
<1>3. PowerFrom(n, g) /\ Values(n) = g[n] /\ g[n] \in Nat \ {0}
  BY <1>1, PowerExists
<1>4. PowerFrom(0, z) /\ Values(0) = z[0]
  BY <1>1, PowerExists
<1> HIDE DEF f, g, z
<1>5. f[0] = 1 /\ \A k \in 1..(n + 1) : f[k] = ByteValues * f[k - 1]
  BY <1>1, <1>2, PowerSteps
<1>6. g[0] = 1 /\ \A k \in 1..n : g[k] = ByteValues * g[k - 1]
  BY <1>3, PowerSteps
<1>7. g[n] = f[n]
  <2> DEFINE m == n + 1
  <2>1. m \in Nat /\ n <= m
    OBVIOUS
  <2>2. PowerFrom(m, f)
    BY <1>2
  <2> HIDE DEF m
  <2>3. \A k \in 0..n : g[k] = f[k]
    BY <1>3, <2>1, <2>2, PowerOnce
  <2> QED BY <1>1, <2>3
<1>8. f[n + 1] = ByteValues * f[n]
  BY <1>1, <1>5
<1>9. z[0] = 1
  BY <1>1, <1>4, PowerSteps
<1> QED BY <1>2, <1>3, <1>4, <1>7, <1>8, <1>9
-----------------------------------------------------------------------------
(* Quotients and remainders.                                               *)
LEMMA DivideIs ==
  ASSUME NEW a \in Nat \ {0}, NEW n \in Int
  PROVE  /\ n % a \in 0..(a - 1) /\ n \div a \in Int
         /\ n = a * (n \div a) + (n % a)
OBVIOUS

LEMMA DivideOnce ==
  ASSUME NEW a \in Nat \ {0}, NEW q \in Int, NEW r \in 0..(a - 1), NEW n \in Int, n = a * q + r
  PROVE  n % a = r /\ n \div a = q
<1> DEFINE x == n \div a
           y == n % a
<1>1. x \in Int /\ y \in 0..(a - 1) /\ n = a * x + y
  BY DivideIs
<1> HIDE DEF x, y
<1>2. \A k \in Nat \ {0} : a * k >= a
  OBVIOUS
<1>3. ~(x < q)
  <2> SUFFICES ASSUME x < q PROVE FALSE
    OBVIOUS
  <2>1. q - x \in Nat \ {0}
    BY <1>1
  <2>2. a * (q - x) >= a
    BY <1>2, <2>1
  <2>3. a * (q - x) = a * q - a * x
    BY <1>1
  <2> QED BY <1>1, <2>2, <2>3
<1>4. ~(q < x)
  <2> SUFFICES ASSUME q < x PROVE FALSE
    OBVIOUS
  <2>1. x - q \in Nat \ {0}
    BY <1>1
  <2>2. a * (x - q) >= a
    BY <1>2, <2>1
  <2>3. a * (x - q) = a * x - a * q
    BY <1>1
  <2> QED BY <1>1, <2>2, <2>3
<1>5. x = q
  BY <1>1, <1>3, <1>4
<1> QED BY <1>1, <1>5 DEF x, y

LEMMA ByteBase == ByteValues \in Nat \ {0}
OBVIOUS

LEMMA DivideNat ==
  ASSUME NEW a \in Nat \ {0}, NEW n \in Nat
  PROVE  n \div a \in Nat /\ (n < a => n % a = n)
OBVIOUS

(* Dividing by a product is dividing twice.                                *)
LEMMA DivideTwice ==
  ASSUME NEW a \in Nat \ {0}, NEW c \in Nat \ {0}, NEW n \in Nat
  PROVE  /\ (n \div a) \div c = n \div (a * c)
         /\ n % (a * c) = (n % a) + a * ((n \div a) % c)
<1> DEFINE q == n \div a
           r == n % a
           x == q \div c
           y == q % c
<1>1. q \in Int /\ r \in 0..(a - 1) /\ n = a * q + r
  BY DivideIs
<1>2. x \in Int /\ y \in 0..(c - 1) /\ q = c * x + y
  BY <1>1, DivideIs
<1> HIDE DEF q, r, x, y
<1>3. a * c \in Nat \ {0}
  OBVIOUS
<1>4. n = (a * c) * x + (r + a * y)
  <2>1. a * q = a * (c * x) + a * y
    BY <1>1, <1>2
  <2>2. a * (c * x) = (a * c) * x
    BY <1>2
  <2> QED BY <1>1, <1>2, <2>1, <2>2
<1>5. r + a * y \in 0..(a * c - 1)
  <2>1. a * y <= a * (c - 1) /\ a * y \in Nat
    BY <1>2
  <2>2. a * (c - 1) = a * c - a
    OBVIOUS
  <2> QED BY <1>1, <1>2, <2>1, <2>2
<1>6. n % (a * c) = r + a * y /\ n \div (a * c) = x
  <2> DEFINE d == a * c
             e == r + a * y
  <2>1. d \in Nat \ {0} /\ e \in 0..(d - 1) /\ n = d * x + e
    BY <1>3, <1>4, <1>5
  <2> HIDE DEF d, e
  <2>2. n % d = e /\ n \div d = x
    BY <1>2, <2>1, DivideOnce
  <2> QED BY <2>2 DEF d, e
<1> QED BY <1>6 DEF q, r, x, y

LEMMA ValuesType == ASSUME NEW n \in Nat PROVE Values(n) \in Nat \ {0}
BY PowerGoes

LEMMA ValuesSum ==
  ASSUME NEW m \in Nat, NEW n \in Nat
  PROVE  Values(m + n) = Values(m) * Values(n)
<1> DEFINE T == {k \in 0..n : Values(m + k) = Values(m) * Values(k)}
<1>1. 0 \in T
  <2>1. m + 0 = m /\ 0 \in 0..n /\ Values(0) = 1 /\ Values(m) \in Nat
    BY PowerGoes
  <2>2. Values(m) * 1 = Values(m)
    BY <2>1
  <2> QED BY <2>1, <2>2
<1>2. ASSUME NEW k \in 0..(n - 1), k \in T PROVE k + 1 \in T
  <2>1. k \in Nat /\ m + k \in Nat /\ m + (k + 1) = (m + k) + 1 /\ k + 1 \in 0..n
    OBVIOUS
  <2>2. Values(k + 1) = ByteValues * Values(k) /\ Values(k) \in Nat /\ Values(m) \in Nat
    BY <2>1, PowerGoes
  <2>3. Values((m + k) + 1) = ByteValues * Values(m + k)
    <3> DEFINE j == m + k
    <3>1. j \in Nat
      OBVIOUS
    <3> HIDE DEF j
    <3>2. Values(j + 1) = ByteValues * Values(j)
      BY <3>1, PowerGoes
    <3> QED BY <3>2 DEF j
  <2>4. Values(m + k) = Values(m) * Values(k)
    BY <1>2
  <2> HIDE DEF T
  <2>5. ByteValues * (Values(m) * Values(k)) = Values(m) * (ByteValues * Values(k))
    BY <2>2
  <2>6. Values(m + (k + 1)) = Values(m) * Values(k + 1)
    BY <2>1, <2>2, <2>3, <2>4, <2>5
  <2> QED BY <2>1, <2>6 DEF T
<1>3. 0..n \subseteq T
  <2>1. 0 \in Nat
    OBVIOUS
  <2> HIDE DEF T
  <2> QED BY <1>1, <1>2, <2>1, UpTo
<1>4. n \in T
  <2> HIDE DEF T
  <2> QED BY <1>3
<1> QED BY <1>4

(* A narrower number is one of the wider ones.                             *)
LEMMA ValuesGrow ==
  ASSUME NEW m \in Nat, NEW n \in Nat, m <= n
  PROVE  Values(m) <= Values(n)
<1> DEFINE k == n - m
<1>1. k \in Nat /\ n = m + k
  OBVIOUS
<1> HIDE DEF k
<1>2. Values(n) = Values(m) * Values(k) /\ Values(m) \in Nat \ {0} /\ Values(k) \in Nat \ {0}
  BY <1>1, ValuesSum, ValuesType
<1> QED BY <1>2

LEMMA ValuesOne == Values(1) = ByteValues
<1>1. Values(0 + 1) = ByteValues * Values(0) /\ Values(0) = 1
  BY PowerGoes
<1> QED BY <1>1
-----------------------------------------------------------------------------
(* Words in a memory of bytes.                                             *)
HoldsBytes(m) == \A b \in DOMAIN m : m[b] \in Byte
WordFrom(m, a, w, f) ==
  f = [k \in 0..w |-> IF k = 0 THEN 0 ELSE ByteAt(m, a + w - k) + ByteValues * f[k - 1]]

WordGoes(m, a, w, f) ==
  f[0] = 0 /\ \A k \in 1..w : f[k] = ByteAt(m, a + w - k) + ByteValues * f[k - 1]

LEMMA WordSteps ==
  ASSUME NEW m, NEW a \in Int, NEW w \in Nat, NEW f, WordFrom(m, a, w, f)
  PROVE  WordGoes(m, a, w, f)
<1>1. 0 \in 0..w /\ \A k \in 1..w : k \in 0..w /\ k # 0
  OBVIOUS
<1> QED BY <1>1 DEF WordFrom, WordGoes

LEMMA WordOnce ==
  ASSUME NEW m, NEW n, NEW a \in Int, NEW w \in Nat,
         \A b \in a..(a + w - 1) : ByteAt(m, b) = ByteAt(n, b),
         NEW f, NEW g, WordFrom(m, a, w, f), WordFrom(n, a, w, g)
  PROVE  \A k \in 0..w : f[k] = g[k]
<1>1. WordGoes(m, a, w, f)
  BY WordSteps
<1>2. WordGoes(n, a, w, g)
  BY WordSteps
<1>3. \A k \in 1..w : ByteAt(m, a + w - k) = ByteAt(n, a + w - k)
  <2>1. \A k \in 1..w : a + w - k \in a..(a + w - 1)
    OBVIOUS
  <2> QED BY <2>1
<1>4. \A k \in 1..w : f[k - 1] = g[k - 1] => f[k] = g[k]
  BY <1>1, <1>2, <1>3, Zenon DEF WordGoes
<1> QED BY <1>1, <1>2, <1>4, SameSoFar DEF WordGoes

LEMMA ByteType == ASSUME NEW m, HoldsBytes(m), NEW a PROVE ByteAt(m, a) \in Byte
BY DEF HoldsBytes, ByteAt, Byte

LEMMA WordExists ==
  ASSUME NEW m, HoldsBytes(m), NEW a \in Int, NEW w \in Nat
  PROVE  LET f == CHOOSE f : WordFrom(m, a, w, f)
         IN  WordFrom(m, a, w, f) /\ WordAt(m, a, w) = f[w] /\ \A k \in 0..w : f[k] \in Nat
<1> DEFINE step == [k \in 1..w |-> [d \in Nat |-> ByteAt(m, a + w - k) + ByteValues * d]]
           F == CHOOSE f : WordFrom(m, a, w, f)
<1>1. \A k \in 1..w : \A d \in Nat :
        /\ step[k][d] = ByteAt(m, a + w - k) + ByteValues * d
        /\ step[k][d] \in Nat
  <2> SUFFICES ASSUME NEW k \in 1..w, NEW d \in Nat
               PROVE  ByteAt(m, a + w - k) + ByteValues * d \in Nat
    OBVIOUS
  <2>1. ByteAt(m, a + w - k) \in Byte
    BY ByteType
  <2>2. ByteValues * d \in Nat
    OBVIOUS
  <2> QED BY <2>1, <2>2 DEF Byte
<1>2. PICK f \in [0..w -> Nat] : f[0] = 0 /\ \A k \in 1..w : f[k] = step[k][f[k - 1]]
  <2>1. 0 \in Nat /\ Keeps(step, Nat, w)
    BY <1>1 DEF Keeps
  <2>2. \E f \in [0..w -> Nat] : Runs(f, step, 0, w)
    <3> HIDE DEF step
    <3> QED BY <2>1, Recursive
  <2> HIDE DEF step
  <2> QED BY <2>2 DEF Runs
<1> HIDE DEF step
<1>3. WordFrom(m, a, w, f)
  <2> DEFINE h == [k \in 0..w |-> IF k = 0 THEN 0 ELSE ByteAt(m, a + w - k) + ByteValues * f[k - 1]]
  <2>1. \A k \in 0..w : h[k] = f[k]
    <3> SUFFICES ASSUME NEW k \in 0..w PROVE h[k] = f[k]
      OBVIOUS
    <3>1. CASE k = 0
      BY <1>2, <3>1
    <3>2. CASE k # 0
      <4>1. k \in 1..w /\ k - 1 \in 0..w
        BY <3>2
      <4>2. f[k - 1] \in Nat /\ f[k] = step[k][f[k - 1]]
        BY <1>2, <4>1
      <4>3. f[k] = ByteAt(m, a + w - k) + ByteValues * f[k - 1]
        BY <1>1, <4>1, <4>2
      <4>4. h[k] = ByteAt(m, a + w - k) + ByteValues * f[k - 1]
        BY <3>2
      <4> QED BY <4>3, <4>4, Zenon
    <3> QED BY <3>1, <3>2
  <2>2. f = [k \in 0..w |-> f[k]] /\ h = [k \in 0..w |-> h[k]]
    BY <1>2
  <2>3. h = f
    <3> HIDE DEF h
    <3> QED BY <2>1, <2>2
  <2> QED BY <2>3 DEF WordFrom
<1>4. WordFrom(m, a, w, F)
  BY <1>3
<1>5. WordAt(m, a, w) = F[w]
  BY DEF WordAt, WordFrom
<1> HIDE DEF F
<1>6. \A k \in 0..w : F[k] = f[k]
  BY <1>3, <1>4, WordOnce
<1> QED BY <1>2, <1>4, <1>5, <1>6 DEF F

(* A word is a number of its width.                                        *)
LEMMA WordType ==
  ASSUME NEW m, HoldsBytes(m), NEW a \in Int, NEW w \in Nat
  PROVE  WordAt(m, a, w) \in 0..(Values(w) - 1)
<1> DEFINE f == CHOOSE f : WordFrom(m, a, w, f)
<1>1. WordFrom(m, a, w, f) /\ WordAt(m, a, w) = f[w] /\ \A k \in 0..w : f[k] \in Nat
  BY WordExists
<1> HIDE DEF f
<1>2. WordGoes(m, a, w, f)
  BY <1>1, WordSteps
<1> DEFINE T == {k \in 0..w : f[k] <= Values(k) - 1}
<1>3. 0 \in T
  BY <1>2, PowerGoes DEF WordGoes
<1>4. ASSUME NEW k \in 0..(w - 1), k \in T PROVE k + 1 \in T
  <2>1. k \in Nat /\ k \in 0..w /\ k + 1 \in 1..w /\ k + 1 - 1 = k /\ k + 1 \in 0..w
    OBVIOUS
  <2>2. f[k + 1] = ByteAt(m, a + w - (k + 1)) + ByteValues * f[k] /\ f[k] \in Nat
    BY <1>1, <1>2, <2>1 DEF WordGoes
  <2>3. ByteAt(m, a + w - (k + 1)) \in 0..(ByteValues - 1)
    BY ByteType DEF Byte
  <2>4. Values(k + 1) = ByteValues * Values(k) /\ Values(k) \in Nat \ {0} /\ f[k] <= Values(k) - 1
    BY <1>4, <2>1, PowerGoes
  <2>5. ByteValues * f[k] <= ByteValues * (Values(k) - 1)
    BY <2>2, <2>4
  <2>6. ByteValues * (Values(k) - 1) = ByteValues * Values(k) - ByteValues
    BY <2>4
  <2>7. ByteValues * f[k] \in Int /\ ByteValues * Values(k) \in Int
    BY <2>2, <2>4
  <2>8. f[k + 1] <= Values(k + 1) - 1
    BY <2>2, <2>3, <2>4, <2>5, <2>6, <2>7
  <2> QED BY <2>1, <2>8
<1>5. 0..w \subseteq T
  <2>1. 0 \in Nat
    OBVIOUS
  <2> HIDE DEF T
  <2> QED BY <1>3, <1>4, <2>1, UpTo
<1>6. w \in 0..w
  OBVIOUS
<1>7. f[w] <= Values(w) - 1 /\ f[w] \in Nat
  BY <1>1, <1>5, <1>6
<1>8. Values(w) \in Nat
  BY ValuesType
<1> QED BY <1>1, <1>7, <1>8

(* It depends on its bytes only.                                           *)
LEMMA WordSame ==
  ASSUME NEW m, NEW n, HoldsBytes(m), HoldsBytes(n), NEW a \in Int, NEW w \in Nat,
         \A b \in a..(a + w - 1) : ByteAt(m, b) = ByteAt(n, b)
  PROVE  WordAt(m, a, w) = WordAt(n, a, w)
<1> DEFINE f == CHOOSE f : WordFrom(m, a, w, f)
           g == CHOOSE g : WordFrom(n, a, w, g)
<1>1. WordFrom(m, a, w, f) /\ WordAt(m, a, w) = f[w]
  BY WordExists
<1>2. WordFrom(n, a, w, g) /\ WordAt(n, a, w) = g[w]
  BY WordExists
<1> HIDE DEF f, g
<1>3. \A k \in 0..w : f[k] = g[k]
  BY <1>1, <1>2, WordOnce
<1>4. w \in 0..w
  OBVIOUS
<1> QED BY <1>1, <1>2, <1>3, <1>4

LEMMA WrittenType ==
  ASSUME NEW m, HoldsBytes(m), NEW a \in Int, NEW w \in Nat, NEW n \in Nat
  PROVE  /\ HoldsBytes(Written(m, a, w, n))
         /\ DOMAIN Written(m, a, w, n) = DOMAIN m \cup a..(a + w - 1)
<1> DEFINE D == DOMAIN m \cup a..(a + w - 1)
           v(b) == IF b \in a..(a + w - 1) THEN (n \div Values(b - a)) % ByteValues ELSE m[b]
<1>1. ASSUME NEW b \in D PROVE v(b) \in Byte
  <2>1. CASE b \in a..(a + w - 1)
    <3>1. b - a \in Nat
      BY <2>1
    <3>2. Values(b - a) \in Nat \ {0}
      BY <3>1, ValuesType
    <3>3. n \div Values(b - a) \in Int
      BY <3>2, DivideIs
    <3>4. (n \div Values(b - a)) % ByteValues \in 0..(ByteValues - 1)
      BY <3>3, ByteBase, DivideIs
    <3> QED BY <2>1, <3>4 DEF Byte
  <2>2. CASE b \notin a..(a + w - 1)
    BY <2>2 DEF HoldsBytes
  <2> QED BY <2>1, <2>2
<1>2. Written(m, a, w, n) = [b \in D |-> v(b)]
  BY DEF Written
<1> HIDE DEF D, v
<1>3. DOMAIN Written(m, a, w, n) = D /\ \A b \in D : Written(m, a, w, n)[b] = v(b)
  BY <1>2
<1> QED BY <1>1, <1>3 DEF HoldsBytes, D

(* A write changes its own bytes only.                                     *)
LEMMA WrittenElsewhere ==
  ASSUME NEW m, NEW a \in Int, NEW w \in Nat, NEW n \in Nat, NEW b \in Int, b \notin a..(a + w - 1)
  PROVE  ByteAt(Written(m, a, w, n), b) = ByteAt(m, b)
BY DEF ByteAt, Written

LEMMA WrittenHere ==
  ASSUME NEW m, NEW a \in Int, NEW w \in Nat, NEW n \in Nat, NEW b \in a..(a + w - 1)
  PROVE  ByteAt(Written(m, a, w, n), b) = (n \div Values(b - a)) % ByteValues
BY DEF ByteAt, Written

(* What is written is read.                                                *)
LEMMA WordWritten ==
  ASSUME NEW m, HoldsBytes(m), NEW a \in Int, NEW w \in Nat, NEW n \in Nat
  PROVE  WordAt(Written(m, a, w, n), a, w) = n % Values(w)
<1> DEFINE M == Written(m, a, w, n)
           f == CHOOSE f : WordFrom(M, a, w, f)
<1>1. HoldsBytes(M) /\ \A b \in a..(a + w - 1) : ByteAt(M, b) = (n \div Values(b - a)) % ByteValues
  BY WrittenType, WrittenHere
<1> HIDE DEF M
<1>2. WordFrom(M, a, w, f) /\ WordAt(M, a, w) = f[w]
  BY <1>1, WordExists
<1> HIDE DEF f
<1>3. f[0] = 0 /\ \A k \in 1..w : f[k] = ByteAt(M, a + w - k) + ByteValues * f[k - 1]
  <2>1. WordGoes(M, a, w, f)
    BY <1>2, WordSteps
  <2> QED BY <2>1 DEF WordGoes
<1> DEFINE q(k) == n \div Values(w - k)
           T == {k \in 0..w : f[k] = q(k) % Values(k)}
<1>4. \A k \in 0..w : w - k \in Nat /\ Values(w - k) \in Nat \ {0} /\ q(k) \in Nat
  <2> SUFFICES ASSUME NEW k \in 0..w
               PROVE  w - k \in Nat /\ Values(w - k) \in Nat \ {0} /\ q(k) \in Nat
    OBVIOUS
  <2>1. w - k \in Nat
    OBVIOUS
  <2>2. Values(w - k) \in Nat \ {0}
    BY <2>1, ValuesType
  <2> QED BY <2>1, <2>2, DivideNat
<1>5. 0 \in T
  <2>1. 0 \in 0..w /\ q(0) \in Nat
    BY <1>4
  <2>2. Values(0) = 1
    BY PowerGoes
  <2>3. q(0) % 1 = 0
    BY <2>1
  <2> QED BY <1>3, <2>1, <2>2, <2>3
<1>6. ASSUME NEW k \in 0..(w - 1), k \in T PROVE k + 1 \in T
  <2>1. k \in Nat /\ k \in 0..w /\ k + 1 \in 1..w /\ k + 1 - 1 = k /\ k + 1 \in 0..w
    OBVIOUS
  <2> DEFINE b == a + w - (k + 1)
             j == w - (k + 1)
             c == q(k + 1)
  <2>2. b \in a..(a + w - 1) /\ b - a = j /\ j \in Nat /\ w - k = j + 1
    OBVIOUS
  <2>3. c = n \div Values(j) /\ c \in Nat /\ Values(j) \in Nat \ {0}
    BY <1>4, <2>1
  <2>4. q(k) = n \div Values(j + 1)
    BY <2>2
  <2>5. f[k] = q(k) % Values(k)
    BY <1>6
  <2>6. f[k + 1] = ByteAt(M, b) + ByteValues * f[k]
    BY <1>3, <2>1
  <2> HIDE DEF T, q, b, j, c
  <2>7. ByteAt(M, b) = c % ByteValues
    BY <1>1, <2>2, <2>3
  <2>8. Values(j + 1) = Values(j) * ByteValues /\ Values(k + 1) = ByteValues * Values(k)
        /\ Values(k) \in Nat \ {0}
    BY <2>1, <2>2, PowerGoes
  <2>9. (n \div Values(j)) \div ByteValues = n \div (Values(j) * ByteValues)
    BY <2>3, ByteBase, DivideTwice
  <2>10. q(k) = c \div ByteValues
    BY <2>3, <2>4, <2>8, <2>9
  <2>11. c % (ByteValues * Values(k)) = (c % ByteValues) + ByteValues * ((c \div ByteValues) % Values(k))
    BY <2>3, <2>8, ByteBase, DivideTwice
  <2>12. f[k + 1] = c % Values(k + 1)
    BY <2>5, <2>6, <2>7, <2>8, <2>10, <2>11
  <2> QED BY <2>1, <2>12 DEF T, c
<1>7. 0..w \subseteq T
  <2>1. 0 \in Nat
    OBVIOUS
  <2> HIDE DEF T
  <2> QED BY <1>5, <1>6, <2>1, UpTo
<1>8. f[w] = q(w) % Values(w)
  BY <1>7
<1>9. q(w) = n
  <2>1. Values(0) = 1
    BY PowerGoes
  <2>2. w - w = 0 /\ n \div 1 = n
    OBVIOUS
  <2> QED BY <2>1, <2>2
<1> QED BY <1>2, <1>8, <1>9 DEF M
-----------------------------------------------------------------------------
(* Registers and operators.                                                *)
LEMMA WrapType ==
  ASSUME NEW w \in Nat, NEW n \in Int
  PROVE  Wrap(w, n) \in 0..(Values(w) - 1)
<1>1. Values(w) \in Nat \ {0}
  BY ValuesType
<1> QED BY <1>1, DivideIs DEF Wrap

LEMMA SignedType == ASSUME NEW w \in Nat, NEW n \in Int PROVE Signed(w, n) \in Int
<1> DEFINE h == Values(w) \div 2
<1>1. h \in Int
  BY ValuesType
<1>2. n + h \in Int
  BY <1>1
<1> HIDE DEF h
<1>3. Wrap(w, n + h) \in Int
  BY <1>2, WrapType
<1> QED BY <1>1, <1>3 DEF Signed, h

(* A narrow write keeps the wide register in its range.                    *)
LEMMA NarrowType ==
  ASSUME NEW a \in Nat \ {0}, NEW b \in Nat \ {0}, NEW x \in 0..(a * b - 1), NEW y \in 0..(a - 1)
  PROVE  x - (x % a) + y \in 0..(a * b - 1)
<1> DEFINE q == x \div a
           r == x % a
<1>1. q \in Nat /\ r \in 0..(a - 1) /\ x = a * q + r
  <2>1. x \in Nat /\ x \in Int
    OBVIOUS
  <2>2. r \in 0..(a - 1) /\ x = a * q + r
    BY <2>1, DivideIs
  <2>3. q \in Nat
    BY <2>1, DivideNat
  <2> QED BY <2>2, <2>3
<1> HIDE DEF q, r
<1>2. a * q \in Nat /\ a * b \in Nat
  BY <1>1
<1>3. q <= b - 1
  <2> SUFFICES ASSUME ~(q <= b - 1) PROVE FALSE
    OBVIOUS
  <2>1. q >= b
    BY <1>1
  <2>2. a * q >= a * b
    BY <1>1, <2>1
  <2> QED BY <1>1, <1>2, <2>2
<1>4. a * q <= a * (b - 1) /\ a * (b - 1) = a * b - a
  BY <1>1, <1>3
<1>5. x - r + y = a * q + y
  BY <1>1, <1>2
<1> QED BY <1>1, <1>2, <1>4, <1>5 DEF r

Word8 == 0..(Values(8) - 1)

LEMMA SetRegType ==
  ASSUME regs \in [Registers -> Word8], NEW r \in Registers, NEW w \in Widths, NEW n \in Int
  PROVE  SetReg(r, w, n) \in [Registers -> Word8]
<1>1. w \in Nat /\ 8 - w \in Nat /\ 8 \in Nat /\ w <= 8 /\ w + (8 - w) = 8
  BY DEF Widths
<1>2. Values(w) \in Nat \ {0} /\ Values(8 - w) \in Nat \ {0} /\ Values(8) \in Nat \ {0}
  <2> DEFINE k == 8 - w
  <2>1. k \in Nat
    BY <1>1
  <2> HIDE DEF k
  <2>2. Values(k) \in Nat \ {0}
    BY <2>1, ValuesType
  <2> QED BY <1>1, <2>2, ValuesType DEF k
<1>3. Values(8) = Values(w) * Values(8 - w)
  <2> DEFINE k == 8 - w
  <2>1. k \in Nat /\ w + k = 8
    BY <1>1
  <2> HIDE DEF k
  <2>2. Values(w + k) = Values(w) * Values(k)
    BY <1>1, <2>1, ValuesSum
  <2> QED BY <2>1, <2>2 DEF k
<1>4. Wrap(w, n) \in 0..(Values(w) - 1)
  BY <1>1, WrapType
<1>5. Values(w) <= Values(8)
  BY <1>1, ValuesGrow
<1>6. Wrap(w, n) \in Word8
  BY <1>2, <1>4, <1>5 DEF Word8
<1>7. regs[r] - Wrap(w, regs[r]) + Wrap(w, n) \in Word8
  <2> DEFINE a == Values(w)
             b == Values(8 - w)
             x == regs[r]
             y == Wrap(w, n)
  <2>1. a \in Nat \ {0} /\ b \in Nat \ {0} /\ x \in 0..(a * b - 1) /\ y \in 0..(a - 1)
    BY <1>2, <1>3, <1>4 DEF Word8
  <2>2. Wrap(w, x) = x % a /\ Word8 = 0..(a * b - 1)
    BY <1>3 DEF Wrap, Word8
  <2> HIDE DEF a, b, x, y
  <2>3. x - (x % a) + y \in 0..(a * b - 1)
    BY <2>1, NarrowType
  <2>4. x - Wrap(w, x) + y \in Word8
    BY <2>2, <2>3
  <2> QED BY <2>4 DEF x, y
<1> QED BY <1>6, <1>7 DEF SetReg

LEMMA MeaningType ==
  ASSUME NEW op \in Operations, NEW n \in Int, NEW k \in Int, op = "divide" => k # 0
  PROVE  Meaning(op, n, k) \in Int
<1>1. /\ Truth(n = k) \in Int /\ Truth(n # k) \in Int
      /\ Truth(n < k) \in Int /\ Truth(n <= k) \in Int
      /\ Truth(n > k) \in Int /\ Truth(n >= k) \in Int
      /\ Truth(n # 0 /\ k # 0) \in Int /\ Truth(n # 0 \/ k # 0) \in Int
  BY DEF Truth
<1>2. n * k \in Int
  OBVIOUS
<1>3. op = "divide" => Quotient(n, k) \in Int
  <2> SUFFICES ASSUME op = "divide" PROVE Quotient(n, k) \in Int
    OBVIOUS
  <2> DEFINE x == IF n < 0 THEN -n ELSE n
             y == IF k < 0 THEN -k ELSE k
             q == x \div y
  <2>1. x \in Int /\ y \in Nat \ {0}
    OBVIOUS
  <2>2. q \in Int
    <3> HIDE DEF x, y
    <3> QED BY <2>1, DivideIs
  <2>3. Quotient(n, k) = q \/ Quotient(n, k) = -q
    BY DEF Quotient
  <2> HIDE DEF q
  <2> QED BY <2>2, <2>3
<1>4. n + k \in Int /\ n - k \in Int
  OBVIOUS
<1> QED BY <1>1, <1>2, <1>3, <1>4, Zenon DEF Meaning, Operations
-----------------------------------------------------------------------------
(* Type correctness.                                                       *)

(* Every program is compiled to a levelled text.  The run checks it of the *)
(* texts that are emitted (TextLevelled).                                  *)
AllLevelled == \A p \in Programs : Levelled(Compile(p))

TypeInv == TypeOK /\ Levelled(image)

LEMMA StackFacts ==
  /\ StackTop \in Nat /\ StackSize \in Nat /\ StackSize <= StackTop
  /\ Values(8) \in Nat \ {0} /\ StackTop + 16 < Values(8)
<1>1. 8 \in Nat
  OBVIOUS
<1> QED BY <1>1, ValuesType, StackAssumption

(* Control goes on behind every instruction but three.                     *)
LEMMA GoesOn ==
  ASSUME NEW code, WellFormed(code), NEW i \in DOMAIN code,
         code[i].op \notin {"ret", "syscall", "jump"}
  PROVE  i + 1 \in Successors(code, i) /\ i + 1 \in DOMAIN code
<1>1. i + 1 \in Successors(code, i)
  BY DEF Successors
<1> QED BY <1>1 DEF WellFormed

LEMMA GoesThere ==
  ASSUME NEW code, WellFormed(code), NEW i \in DOMAIN code
  PROVE  /\ code[i].op \in {"jump", "jz"} =>
              Target(code, i) \in Successors(code, i) /\ Target(code, i) \in DOMAIN code
         /\ code[i].op = "skip" =>
              i + 1 + code[i].value \in Successors(code, i) /\ i + 1 + code[i].value \in DOMAIN code
         /\ code[i].op = "call" => Target(code, i) \in DOMAIN code
<1>1. code[i].op \in {"jump", "jz"} => Target(code, i) \in Successors(code, i)
  BY DEF Successors
<1>2. code[i].op = "skip" => i + 1 + code[i].value \in Successors(code, i)
  BY DEF Successors
<1> QED BY <1>1, <1>2 DEF WellFormed

LEMMA TypeFacts ==
  ASSUME TypeInv
  PROVE  /\ WellFormed(image.code) /\ ip \in DOMAIN image.code /\ ip \in Nat /\ Proper(Cur)
         /\ regs \in [Registers -> Word8] /\ HoldsBytes(mem)
         /\ \A r \in Registers : regs[r] \in Nat
<1>1. WellFormed(image.code) /\ ip \in DOMAIN image.code
  BY DEF TypeInv, TypeOK, Levelled
<1>2. ip \in Nat /\ Proper(Cur)
  BY <1>1 DEF WellFormed, Cur
<1>3. regs \in [Registers -> Word8] /\ HoldsBytes(mem)
  BY DEF TypeInv, TypeOK, Word8, HoldsBytes
<1>4. \A r \in Registers : regs[r] \in Nat
  BY <1>3, StackFacts DEF Word8
<1> QED BY <1>1, <1>2, <1>3, <1>4

LEMMA TypeKept ==
  ASSUME TypeInv, image' = image, ip' \in DOMAIN image.code,
         regs' \in [Registers -> Word8],
         DOMAIN mem' \subseteq (StackTop - StackSize)..(StackTop + 7), HoldsBytes(mem'),
         outcome' = outcome
  PROVE  TypeInv'
BY DEF TypeInv, TypeOK, Word8, HoldsBytes

(* An instruction that only sets registers.                                *)
LEMMA GoesType ==
  ASSUME TypeInv, Cur.op \notin {"ret", "syscall", "jump"},
         NEW r \in [Registers -> Word8], Goes(r)
  PROVE  TypeInv'
<1>1. ip + 1 \in DOMAIN image.code
  <2>1. WellFormed(image.code) /\ ip \in DOMAIN image.code
    BY TypeFacts
  <2> QED BY <2>1, GoesOn DEF Cur
<1>2. DOMAIN mem \subseteq (StackTop - StackSize)..(StackTop + 7) /\ HoldsBytes(mem)
  BY TypeFacts DEF TypeInv, TypeOK
<1> QED BY <1>1, <1>2, TypeKept DEF Goes

(* A word that is mapped lies in the memory.                               *)
LEMMA MappedIn ==
  ASSUME TypeInv, NEW a \in Int, NEW w \in Nat, NEW n \in Nat, Mapped(a, w)
  PROVE  /\ DOMAIN Written(mem, a, w, n) \subseteq (StackTop - StackSize)..(StackTop + 7)
         /\ HoldsBytes(Written(mem, a, w, n))
<1>1. DOMAIN mem \subseteq (StackTop - StackSize)..(StackTop + 7) /\ HoldsBytes(mem)
  BY TypeFacts DEF TypeInv, TypeOK
<1>2. DOMAIN Written(mem, a, w, n) = DOMAIN mem \cup a..(a + w - 1) /\ HoldsBytes(Written(mem, a, w, n))
  BY <1>1, WrittenType
<1>3. a..(a + w - 1) \subseteq (StackTop - StackSize)..(StackTop + 7)
  BY StackFacts DEF Mapped
<1> QED BY <1>1, <1>2, <1>3

LEMMA ReadType ==
  ASSUME TypeInv, NEW a \in Int, NEW w \in Nat
  PROVE  Word(a, w) \in 0..(Values(w) - 1) /\ Word(a, w) \in Int
<1>1. Word(a, w) \in 0..(Values(w) - 1)
  BY TypeFacts, WordType DEF Word
<1>2. Values(w) \in Nat
  BY ValuesType
<1> QED BY <1>1, <1>2

LEMMA TypeInit ==
  ASSUME AllLevelled, Init
  PROVE  TypeInv
<1>1. Levelled(image)
  BY DEF AllLevelled, Init
<1>2. 1 \in DOMAIN image.code
  BY <1>1 DEF Levelled, WellFormed
<1>3. regs \in [Registers -> Word8]
  BY StackFacts DEF Init, Word8
<1>4. DOMAIN mem = {}
  BY DEF Init
<1>5. ip = 1 /\ outcome = <<"running">>
  BY DEF Init
<1> QED BY <1>1, <1>2, <1>3, <1>4, <1>5 DEF TypeInv, TypeOK, Word8

LEMMA TypeStep ==
  ASSUME TypeInv, [Next]_vars
  PROVE  TypeInv'
<1>1. /\ WellFormed(image.code) /\ ip \in DOMAIN image.code /\ ip \in Nat /\ Proper(Cur)
      /\ regs \in [Registers -> Word8] /\ \A r \in Registers : regs[r] \in Nat
  BY TypeFacts
<1>2. DOMAIN mem \subseteq (StackTop - StackSize)..(StackTop + 7) /\ HoldsBytes(mem)
  BY TypeFacts DEF TypeInv, TypeOK
<1>3. {"rax", "rbp", "rsp", "rdi"} \subseteq Registers /\ Widths \subseteq Nat /\ 8 \in Nat /\ 8 \in Widths
  BY DEF Registers, Widths
<1>4. CASE Move
  <2> DEFINE n == IF Cur.op = "imm" THEN Cur.value ELSE regs[Cur.from]
  <2>1. Cur.op \in {"imm", "copy"}
    BY <1>4 DEF Move, Is
  <2>2. Cur.reg \in Registers /\ Cur.width \in Widths /\ n \in Int
    BY <1>1, <2>1 DEF Proper
  <2>3. Goes(SetReg(Cur.reg, Cur.width, n))
    BY <1>4 DEF Move
  <2> HIDE DEF n
  <2> QED BY <1>1, <2>1, <2>2, <2>3, SetRegType, GoesType
<1>5. CASE LoadCell
  <2> DEFINE a == regs["rbp"] - Cur.off
             n == Word(a, Cur.width)
  <2>1. Cur.op = "load"
    BY <1>5 DEF LoadCell, Is
  <2>2. Cur.reg \in Registers /\ Cur.width \in Widths /\ Cur.width \in Nat /\ a \in Int
    <3>1. Cur.reg \in Registers /\ Cur.width \in Widths /\ Cur.off \in Int
      BY <1>1, <2>1 DEF Proper
    <3>2. regs["rbp"] \in Nat
      BY <1>1, <1>3
    <3>3. Cur.width \in Nat
      BY <1>3, <3>1
    <3>4. a \in Int
      BY <3>1, <3>2
    <3> QED BY <3>1, <3>3, <3>4
  <2>3. Goes(SetReg(Cur.reg, Cur.width, n))
    BY <1>5 DEF LoadCell
  <2>4. n \in Int
    <3> HIDE DEF a
    <3> QED BY <2>2, ReadType
  <2> HIDE DEF n, a
  <2> QED BY <1>1, <2>1, <2>2, <2>3, <2>4, SetRegType, GoesType
<1>6. CASE StoreCell
  <2> DEFINE a == regs["rbp"] - Cur.off
             n == regs[Cur.reg]
  <2>1. Cur.op = "store" /\ Mapped(a, Cur.width)
    BY <1>6 DEF StoreCell, Is
  <2>2. Cur.reg \in Registers /\ Cur.width \in Nat /\ a \in Int /\ n \in Nat
    <3>1. Cur.reg \in Registers /\ Cur.width \in Widths /\ Cur.off \in Int
      BY <1>1, <2>1 DEF Proper
    <3>2. regs["rbp"] \in Nat /\ n \in Nat
      BY <1>1, <1>3, <3>1
    <3>3. Cur.width \in Nat
      BY <1>3, <3>1
    <3>4. a \in Int
      BY <3>1, <3>2
    <3> QED BY <3>1, <3>2, <3>3, <3>4
  <2>3. mem' = Written(mem, a, Cur.width, n) /\ ip' = ip + 1 /\ UNCHANGED <<image, regs, outcome>>
    BY <1>6 DEF StoreCell
  <2> HIDE DEF n, a
  <2>4. HoldsBytes(mem') /\ DOMAIN mem' \subseteq (StackTop - StackSize)..(StackTop + 7)
    BY <2>1, <2>2, <2>3, MappedIn
  <2>5. ip + 1 \in DOMAIN image.code
    BY <1>1, <2>1, GoesOn DEF Cur
  <2> QED BY <1>1, <2>3, <2>4, <2>5, TypeKept
<1>7. CASE PushWord
  <2> DEFINE a == regs["rsp"] - 8
             n == regs[Cur.reg]
  <2>1. Cur.op = "push" /\ Mapped(a, 8)
    BY <1>7 DEF PushWord, Is
  <2>2. Cur.reg \in Registers /\ a \in Int /\ n \in Nat
    <3>1. Cur.reg \in Registers
      BY <1>1, <2>1 DEF Proper
    <3>2. regs["rsp"] \in Nat /\ n \in Nat
      BY <1>1, <1>3, <3>1
    <3> QED BY <3>1, <3>2
  <2>3. mem' = Written(mem, a, 8, n) /\ ip' = ip + 1 /\ UNCHANGED <<image, outcome>>
        /\ regs' = [regs EXCEPT !["rsp"] = a]
    BY <1>7 DEF PushWord
  <2>4. a \in Word8
    <3>1. regs["rsp"] \in Word8
      BY <1>1, <1>3
    <3> QED BY <2>1, <3>1, StackFacts DEF Word8, Mapped
  <2> HIDE DEF n, a
  <2>5. HoldsBytes(mem') /\ DOMAIN mem' \subseteq (StackTop - StackSize)..(StackTop + 7)
    BY <1>3, <2>1, <2>2, <2>3, MappedIn
  <2>6. ip + 1 \in DOMAIN image.code
    BY <1>1, <2>1, GoesOn DEF Cur
  <2>7. regs' \in [Registers -> Word8]
    BY <1>1, <2>3, <2>4
  <2> QED BY <2>3, <2>5, <2>6, <2>7, TypeKept
<1>8. CASE PopWord
  <2> DEFINE n == Word(regs["rsp"], 8)
             r == [regs EXCEPT ![Cur.reg] = n, !["rsp"] = @ + 8]
  <2>1. Cur.op = "pop" /\ Mapped(regs["rsp"], 8) /\ Goes(r)
    BY <1>8 DEF PopWord, Is
  <2>2. regs["rsp"] \in Nat /\ regs["rsp"] \in Int
    BY <1>1, <1>3
  <2>3. n \in Word8
    <3>1. n \in 0..(Values(8) - 1)
      BY <1>3, <2>2, ReadType
    <3> QED BY <3>1 DEF Word8
  <2>4. regs["rsp"] + 8 \in Word8
    BY <2>1, <2>2, StackFacts DEF Mapped, Word8
  <2>5. Cur.reg # "rsp"
    BY <1>1, <2>1 DEF Proper
  <2> HIDE DEF n
  <2>6. r \in [Registers -> Word8]
    BY <1>1, <2>3, <2>4, <2>5
  <2> HIDE DEF r
  <2> QED BY <2>1, <2>6, GoesType
<1>9. CASE MoveStack
  <2> DEFINE n == regs["rsp"] + Cur.value
             r == [regs EXCEPT !["rsp"] = Wrap(8, n)]
  <2>1. Cur.op = "addsp" /\ Goes(r)
    BY <1>9 DEF MoveStack, Is
  <2>2. n \in Int
    BY <1>1, <1>3, <2>1 DEF Proper
  <2> HIDE DEF n
  <2>3. Wrap(8, n) \in Word8
    BY <1>3, <2>2, WrapType DEF Word8
  <2>4. r \in [Registers -> Word8]
    BY <1>1, <2>3
  <2> HIDE DEF r
  <2> QED BY <2>1, <2>4, GoesType
<1>10. CASE Compute
  <2> DEFINE n == IF Cur.op = "test" THEN Truth(regs["rax"] # 0) ELSE Meaning(Cur.fn, Lhs, Rhs)
  <2>1. Cur.op \in {"alu", "test"} /\ (Cur.op = "alu" => Cur.fn # "divide") /\ Goes(SetReg("rax", 8, n))
    BY <1>10 DEF Compute, Is
  <2>2. {"rax", "rbx"} \subseteq Registers
    BY DEF Registers
  <2>3. Lhs \in Int /\ Rhs \in Int
    <3>1. regs["rax"] \in Int /\ regs["rbx"] \in Int
      BY <1>1, <2>2
    <3> QED BY <1>3, <3>1, SignedType DEF Lhs, Rhs
  <2>4. n \in Int
    <3>1. CASE Cur.op = "test"
      BY <3>1 DEF Truth
    <3>2. CASE Cur.op = "alu"
      <4>1. Cur.fn \in Operations /\ Cur.fn # "divide"
        BY <1>1, <2>1, <3>2 DEF Proper
      <4>2. Meaning(Cur.fn, Lhs, Rhs) \in Int
        BY <2>3, <4>1, MeaningType
      <4> QED BY <3>2, <4>2
    <3> QED BY <2>1, <3>1, <3>2
  <2> HIDE DEF n
  <2> QED BY <1>1, <1>3, <2>1, <2>4, SetRegType, GoesType
<1>11. CASE Jump
  <2>1. Cur.op \in {"label", "jump", "jz", "skip"} /\ UNCHANGED <<image, regs, mem, outcome>>
    BY <1>11 DEF Jump, Is
  <2>2. Cur.op # "jump" => ip + 1 \in DOMAIN image.code
    BY <1>1, <2>1, GoesOn DEF Cur
  <2>3. /\ Cur.op \in {"jump", "jz"} => Here \in DOMAIN image.code
        /\ Cur.op = "skip" => ip + 1 + Cur.value \in DOMAIN image.code
    BY <1>1, GoesThere DEF Cur, Here
  <2>4. ip' \in DOMAIN image.code
    BY <1>11, <2>1, <2>2, <2>3, Zenon DEF Jump
  <2> QED BY <1>1, <1>2, <2>1, <2>4, TypeKept
<1>12. CASE CallIn
  <2> DEFINE a == regs["rsp"] - 8
             n == ip + 1
  <2>1. Cur.op = "call" /\ Mapped(a, 8)
    BY <1>12 DEF CallIn, Is
  <2>2. a \in Int /\ n \in Nat
    BY <1>1, <1>3
  <2>3. mem' = Written(mem, a, 8, n) /\ ip' = Here /\ UNCHANGED <<image, outcome>>
        /\ regs' = [regs EXCEPT !["rsp"] = a]
    BY <1>12 DEF CallIn
  <2>4. a \in Word8
    <3>1. regs["rsp"] \in Word8
      BY <1>1, <1>3
    <3> QED BY <2>1, <3>1, StackFacts DEF Word8, Mapped
  <2> HIDE DEF n, a
  <2>5. HoldsBytes(mem') /\ DOMAIN mem' \subseteq (StackTop - StackSize)..(StackTop + 7)
    BY <1>3, <2>1, <2>2, <2>3, MappedIn
  <2>6. Here \in DOMAIN image.code
    BY <1>1, <2>1, GoesThere DEF Cur, Here
  <2>7. regs' \in [Registers -> Word8]
    BY <1>1, <2>3, <2>4
  <2> QED BY <2>3, <2>5, <2>6, <2>7, TypeKept
<1>13. CASE LeaveFrame
  <2> DEFINE n == Word(regs["rbp"], 8)
             r == [regs EXCEPT !["rbp"] = n, !["rsp"] = regs["rbp"] + 8]
  <2>1. Cur.op = "leave" /\ Mapped(regs["rbp"], 8) /\ Goes(r)
    BY <1>13 DEF LeaveFrame, Is
  <2>2. regs["rbp"] \in Nat /\ regs["rbp"] \in Int
    BY <1>1, <1>3
  <2>3. n \in Word8
    <3>1. n \in 0..(Values(8) - 1)
      BY <1>3, <2>2, ReadType
    <3> QED BY <3>1 DEF Word8
  <2>4. regs["rbp"] + 8 \in Word8
    BY <2>1, <2>2, StackFacts DEF Mapped, Word8
  <2> HIDE DEF n
  <2>5. r \in [Registers -> Word8]
    BY <1>1, <2>3, <2>4
  <2> HIDE DEF r
  <2> QED BY <2>1, <2>5, GoesType
<1>14. CASE Back
  <2>1. Cur.op = "ret" /\ Mapped(regs["rsp"], 8) /\ ip' \in DOMAIN image.code
        /\ regs' = [regs EXCEPT !["rsp"] = @ + 8] /\ UNCHANGED <<image, mem, outcome>>
    BY <1>14 DEF Back, Is
  <2>2. regs["rsp"] \in Nat
    BY <1>1, <1>3
  <2>3. regs["rsp"] + 8 \in Word8
    BY <2>1, <2>2, StackFacts DEF Mapped, Word8
  <2>4. regs' \in [Registers -> Word8]
    BY <1>1, <2>1, <2>3
  <2> QED BY <1>2, <2>1, <2>4, TypeKept
<1>19. CASE Divide
  <2> DEFINE n == Meaning(Cur.fn, Lhs, Rhs)
             k == Lhs - Rhs * n
             q == SetReg("rax", 8, n)
             r == [q EXCEPT !["rdx"] = Wrap(8, k)]
  <2>1. Cur.op = "alu" /\ Cur.fn = "divide" /\ Rhs # 0 /\ Goes(r)
    BY <1>19 DEF Divide, Is, DivideTraps
  <2>2. {"rax", "rbx", "rdx"} \subseteq Registers
    BY DEF Registers
  <2>3. Lhs \in Int /\ Rhs \in Int
    <3>1. regs["rax"] \in Int /\ regs["rbx"] \in Int
      BY <1>1, <2>2
    <3> QED BY <1>3, <3>1, SignedType DEF Lhs, Rhs
  <2>4. n \in Int
    <3>1. "divide" \in Operations
      BY DEF Operations
    <3> QED BY <2>1, <2>3, <3>1, MeaningType
  <2> HIDE DEF n
  <2>5. Rhs * n \in Int
    BY <2>3, <2>4
  <2>6. k \in Int
    BY <2>3, <2>5
  <2> HIDE DEF k
  <2>7. Wrap(8, k) \in Word8
    BY <1>3, <2>6, WrapType DEF Word8
  <2>8. q \in [Registers -> Word8]
    BY <1>1, <1>3, <2>2, <2>4, SetRegType
  <2> HIDE DEF q
  <2>9. r \in [Registers -> Word8]
    BY <2>7, <2>8
  <2> HIDE DEF r
  <2> QED BY <1>1, <2>1, <2>9, GoesType
<1>15. ASSUME UNCHANGED <<image, ip, regs, mem>>,
              outcome' \in {outcome, <<"trap">>, <<"fault">>} \cup {<<"exit", n>> : n \in Byte}
       PROVE  TypeInv'
  BY <1>15 DEF TypeInv, TypeOK
<1>16. CASE Trap \/ Fault
  BY <1>15, <1>16 DEF Trap, Fault
<1>17. CASE Quit
  <2>1. regs["rdi"] \in Int /\ 1 \in Nat
    BY <1>1, <1>3
  <2>2. Wrap(1, regs["rdi"]) \in Byte
    BY <2>1, WrapType, ValuesOne DEF Byte
  <2> QED BY <1>15, <1>17, <2>2 DEF Quit
<1>18. CASE UNCHANGED vars
  BY <1>15, <1>18 DEF vars
<1> QED
  <2>1. Next \/ UNCHANGED vars
    OBVIOUS
  <2> QED BY <1>4, <1>5, <1>6, <1>7, <1>8, <1>9, <1>10, <1>11, <1>19, <1>12, <1>13, <1>14, <1>16,
             <1>17, <1>18, <2>1 DEF Next, Ended

(* Whatever the program does to its stack, control stays in its text and   *)
(* registers and bytes keep their widths: an operand of any width, a       *)
(* division, a return through a word that was overwritten.                 *)
THEOREM TypeCorrect == AllLevelled => (Spec => []TypeOK)
<1> SUFFICES ASSUME AllLevelled PROVE Spec => []TypeOK
  OBVIOUS
<1>1. Init => TypeInv
  BY TypeInit
<1>2. TypeInv /\ [Next]_vars => TypeInv'
  BY TypeStep
<1>3. TypeInv => TypeOK
  BY DEF TypeInv
<1> QED BY <1>1, <1>2, <1>3, PTL DEF Spec
-----------------------------------------------------------------------------
(* The frames of the running calls: the inductive invariant.               *)

(* rbp of the body of call k, the main frame being 0, and the instruction  *)
(* that called.                                                            *)
Foot(cs, k) == IF k = 0 THEN FrameTop ELSE cs[k].rsp - 16
Site(cs, k) == cs[k].back - 1

(* The frame of each call lies below those of its callers, and the word    *)
(* above its foot is where the call returns to.                            *)
CallKept(im, m, cs, k) ==
  /\ Site(cs, k) \in DOMAIN im.code /\ im.code[Site(cs, k)].op = "call"
  /\ im.levels[Site(cs, k)].part = "body" /\ im.levels[Site(cs, k)].main = (k = 1)
  /\ cs[k].rbp = Foot(cs, k - 1)
  /\ cs[k].rsp = Foot(cs, k - 1) - im.levels[Site(cs, k)].high
  /\ \A j \in 0..(k - 1) : Foot(cs, k) + 16 <= Foot(cs, j)
  /\ WordAt(m, Foot(cs, k) + 8, 8) = cs[k].back
  /\ Site(cs, k) \in DOMAIN im.args => cs[k].arg = im.args[Site(cs, k)]

(* The word at its foot is rbp of the caller.                              *)
SavedKept(m, cs, k) == WordAt(m, Foot(cs, k), 8) = cs[k].rbp

CallType == [back : Int, rbp : Int, rsp : Int, arg : Int]

CallsKept(im, m, cs) ==
  /\ cs \in Seq(CallType)
  /\ \A k \in 1..Len(cs) : CallKept(im, m, cs, k)
  /\ \A k \in 1..(Len(cs) - 1) : SavedKept(m, cs, k)

(* rsp and rbp are what the level says, and rdi too.                       *)
StackAt(v, r, m, cs) ==
  LET n == Len(cs)
  IN  /\ v.main = (n = 0)
      /\ v.part # "body" => v.high = 0
      /\ v.part \in {"entry", "exit"} =>
           r["rsp"] = Foot(cs, n) + 8 /\ (n > 0 => r["rbp"] = cs[n].rbp)
      /\ v.part = "saved" => r["rsp"] = Foot(cs, n)
      /\ v.part = "body" => r["rbp"] = Foot(cs, n) /\ r["rsp"] = Wrap(8, Foot(cs, n) - v.high)
      /\ v.part \in {"saved", "body"} /\ n > 0 => SavedKept(m, cs, n)

RdiAt(d, r, cs) ==
  /\ d.as = "number" => r["rdi"] = d.value
  /\ d.as = "argument" => Len(cs) > 0 /\ r["rdi"] = cs[Len(cs)].arg

AtLevel(v, r, m, cs) == StackAt(v, r, m, cs) /\ RdiAt(v.rdi, r, cs)

(* Behind a store of rdi its cell holds the argument.                      *)
BehindStore(code, i) == i > 1 /\ code[i - 1].op = "store" /\ code[i - 1].reg = "rdi"
Stored(im, i, r, m, cs) ==
  BehindStore(im.code, i) =>
    LET s == im.code[i - 1]
    IN  Len(cs) > 0 /\ WordAt(m, r["rbp"] - s.off, s.width) = Wrap(s.width, cs[Len(cs)].arg)

Frames ==
  /\ CallsKept(image, mem, calls)
  /\ AtLevel(image.levels[ip], regs, mem, calls)
  /\ Stored(image, ip, regs, mem, calls)
Framed == BelowFrame /\ Running => Frames

(* Numbers that fit a register, and sums of them.                          *)
LEMMA WrapSame == ASSUME NEW n \in Word8 PROVE Wrap(8, n) = n
<1>1. Values(8) \in Nat \ {0}
  BY StackFacts
<1>2. n \in Nat /\ n < Values(8)
  BY <1>1 DEF Word8
<1> QED BY <1>1, <1>2, DivideNat DEF Wrap

LEMMA WrapSum ==
  ASSUME NEW x \in Int, NEW y \in Int
  PROVE  Wrap(8, Wrap(8, x) + y) = Wrap(8, x + y)
<1> DEFINE V == Values(8)
           q == x \div V
           r == x % V
           p == (r + y) \div V
           s == (r + y) % V
<1>1. V \in Nat \ {0}
  BY StackFacts
<1> HIDE DEF V
<1>2. q \in Int /\ r \in 0..(V - 1) /\ x = V * q + r
  BY <1>1, DivideIs
<1> HIDE DEF q, r
<1>3. r + y \in Int
  BY <1>1, <1>2
<1>4. p \in Int /\ s \in 0..(V - 1) /\ r + y = V * p + s
  BY <1>1, <1>3, DivideIs
<1> HIDE DEF p, s
<1>5. x + y = V * (q + p) + s
  <2>1. V * (q + p) = V * q + V * p
    BY <1>1, <1>2, <1>4
  <2>2. V * q \in Int /\ V * p \in Int /\ r \in Int /\ s \in Int
    BY <1>1, <1>2, <1>4
  <2> QED BY <1>2, <1>4, <2>1, <2>2
<1>6. (x + y) % V = s
  <2> DEFINE d == q + p
             e == x + y
  <2>1. d \in Int /\ e \in Int /\ e = V * d + s
    BY <1>2, <1>4, <1>5
  <2> HIDE DEF d, e
  <2>2. e % V = s
    BY <1>1, <1>4, <2>1, DivideOnce
  <2> QED BY <2>2 DEF e
<1> QED BY <1>6 DEF Wrap, V, r, s

(* A word of the mapped stack is where it is without wrapping.             *)
LEMMA WrapExact ==
  ASSUME NEW f \in Int, f <= FrameTop, f >= 0, NEW h \in Nat, StackTop + h + 16 < Values(8),
         Wrap(8, f - h) <= StackTop + 8
  PROVE  Wrap(8, f - h) = f - h
<1> DEFINE V == Values(8)
<1>1. V \in Nat \ {0} /\ StackTop \in Nat /\ StackTop + h + 16 < V /\ f <= StackTop
  BY StackFacts DEF FrameTop
<1>2. CASE f - h >= 0
  <2>1. f - h \in Word8
    BY <1>1, <1>2 DEF Word8
  <2> QED BY <2>1, WrapSame
<1>3. CASE ~(f - h >= 0)
  <2> DEFINE n == f - h
             r == n + V
  <2>1. r \in 0..(V - 1) /\ n \in Int /\ -1 \in Int /\ n = V * (-1) + r /\ r > StackTop + 8
    BY <1>1, <1>3
  <2> HIDE DEF n, r, V
  <2>2. n % V = r
    BY <1>1, <2>1, DivideOnce
  <2>3. Wrap(8, f - h) = r
    BY <2>2 DEF Wrap, n, V
  <2> QED BY <1>1, <2>1, <2>3
<1> QED BY <1>2, <1>3

(* A word that a write does not reach.                                     *)
LEMMA WordKept ==
  ASSUME NEW m, HoldsBytes(m), NEW a \in Int, NEW w \in Nat, NEW n \in Nat, NEW b \in Int, a + w <= b
  PROVE  WordAt(Written(m, a, w, n), b, 8) = WordAt(m, b, 8)
<1> DEFINE M == Written(m, a, w, n)
<1>1. HoldsBytes(M) /\ 8 \in Nat
  BY WrittenType
<1>2. \A c \in b..(b + 8 - 1) : ByteAt(m, c) = ByteAt(M, c)
  <2> SUFFICES ASSUME NEW c \in b..(b + 8 - 1) PROVE ByteAt(M, c) = ByteAt(m, c)
    OBVIOUS
  <2>1. c \in Int /\ c \notin a..(a + w - 1)
    OBVIOUS
  <2> QED BY <2>1, WrittenElsewhere
<1> HIDE DEF M
<1>3. WordAt(m, b, 8) = WordAt(M, b, 8)
  BY <1>1, <1>2, WordSame
<1> QED BY <1>3 DEF M

LEMMA FootFacts ==
  ASSUME NEW im, NEW m, NEW cs, CallsKept(im, m, cs)
  PROVE  /\ Len(cs) \in Nat
         /\ \A k \in 1..Len(cs) : cs[k] \in CallType
         /\ \A k \in 0..Len(cs) :
              /\ Foot(cs, k) \in Int
              /\ Foot(cs, Len(cs)) <= Foot(cs, k)
              /\ k < Len(cs) => Foot(cs, Len(cs)) + 16 <= Foot(cs, k)
         /\ Foot(cs, Len(cs)) <= FrameTop
<1>1. cs \in Seq(CallType) /\ Len(cs) \in Nat /\ \A k \in 1..Len(cs) : cs[k] \in CallType
  BY DEF CallsKept
<1>2. FrameTop \in Int
  BY StackFacts DEF FrameTop
<1>3. \A k \in 0..Len(cs) : Foot(cs, k) \in Int
  <2> SUFFICES ASSUME NEW k \in 0..Len(cs) PROVE Foot(cs, k) \in Int
    OBVIOUS
  <2>1. CASE k = 0
    BY <1>2, <2>1 DEF Foot
  <2>2. CASE k # 0
    <3>1. cs[k] \in CallType
      BY <1>1, <2>2
    <3>2. cs[k].rsp \in Int
      BY <3>1 DEF CallType
    <3> QED BY <2>2, <3>2 DEF Foot
  <2> QED BY <2>1, <2>2
<1>4. \A k \in 0..Len(cs) : k < Len(cs) => Foot(cs, Len(cs)) + 16 <= Foot(cs, k)
  <2> SUFFICES ASSUME NEW k \in 0..Len(cs), k < Len(cs)
               PROVE  Foot(cs, Len(cs)) + 16 <= Foot(cs, k)
    OBVIOUS
  <2>1. Len(cs) \in 1..Len(cs) /\ k \in 0..(Len(cs) - 1)
    BY <1>1
  <2>2. CallKept(im, m, cs, Len(cs))
    BY <2>1 DEF CallsKept
  <2> QED BY <2>1, <2>2 DEF CallKept
<1>5. Foot(cs, 0) = FrameTop /\ 0 \in 0..Len(cs)
  BY <1>1 DEF Foot
<1>6. Foot(cs, Len(cs)) <= FrameTop
  <2>1. CASE Len(cs) = 0
    BY <1>2, <1>5, <2>1
  <2>2. CASE Len(cs) # 0
    <3>1. Foot(cs, Len(cs)) + 16 <= FrameTop /\ Foot(cs, Len(cs)) \in Int
      BY <1>1, <1>3, <1>4, <1>5, <2>2
    <3> QED BY <1>2, <3>1
  <2> QED BY <2>1, <2>2
<1>7. \A k \in 0..Len(cs) : Foot(cs, Len(cs)) <= Foot(cs, k)
  <2> SUFFICES ASSUME NEW k \in 0..Len(cs) PROVE Foot(cs, Len(cs)) <= Foot(cs, k)
    OBVIOUS
  <2>1. Foot(cs, Len(cs)) \in Int /\ Foot(cs, k) \in Int
    BY <1>1, <1>3
  <2>2. k = Len(cs) \/ k < Len(cs)
    BY <1>1
  <2> QED BY <1>4, <2>1, <2>2
<1> QED BY <1>1, <1>3, <1>4, <1>6, <1>7

(* A write below the saved word of the innermost frame changes nothing of  *)
(* the calls, and one below its foot not that word either.                 *)
LEMMA KeptBelow ==
  ASSUME NEW im, NEW m, HoldsBytes(m), NEW cs, CallsKept(im, m, cs),
         NEW a \in Int, NEW w \in Nat, NEW x \in Nat, a + w <= Foot(cs, Len(cs)) + 8
  PROVE  /\ CallsKept(im, Written(m, a, w, x), cs)
         /\ Len(cs) > 0 /\ a + w <= Foot(cs, Len(cs)) /\ SavedKept(m, cs, Len(cs))
              => SavedKept(Written(m, a, w, x), cs, Len(cs))
<1> DEFINE M == Written(m, a, w, x)
           n == Len(cs)
<1>1. n \in Nat /\ Foot(cs, n) \in Int
  BY FootFacts
<1>2. ASSUME NEW b \in Int, a + w <= b PROVE WordAt(M, b, 8) = WordAt(m, b, 8)
  BY <1>2, WordKept
<1> HIDE DEF M
<1>3. ASSUME NEW k \in 1..n PROVE CallKept(im, M, cs, k)
  <2>1. CallKept(im, m, cs, k)
    BY <1>3 DEF CallsKept
  <2>2. Foot(cs, k) \in Int /\ Foot(cs, n) <= Foot(cs, k)
    <3>1. k \in 0..n
      BY <1>1
    <3> QED BY <3>1, FootFacts
  <2>3. Foot(cs, k) + 8 \in Int /\ a + w <= Foot(cs, k) + 8
    BY <1>1, <2>2
  <2>4. WordAt(M, Foot(cs, k) + 8, 8) = WordAt(m, Foot(cs, k) + 8, 8)
    BY <1>2, <2>3
  <2> QED BY <2>1, <2>4 DEF CallKept
<1>4. ASSUME NEW k \in 1..(n - 1) PROVE SavedKept(M, cs, k)
  <2>1. SavedKept(m, cs, k)
    BY <1>4 DEF CallsKept
  <2>2. Foot(cs, k) \in Int /\ Foot(cs, n) + 16 <= Foot(cs, k)
    <3>1. k \in 0..n /\ k < n
      BY <1>1
    <3> QED BY <3>1, FootFacts
  <2>3. a + w <= Foot(cs, k)
    BY <1>1, <2>2
  <2>4. WordAt(M, Foot(cs, k), 8) = WordAt(m, Foot(cs, k), 8)
    BY <1>2, <2>2, <2>3
  <2> QED BY <2>1, <2>4 DEF SavedKept
<1>5. CallsKept(im, M, cs)
  BY <1>3, <1>4 DEF CallsKept
<1>6. ASSUME n > 0, a + w <= Foot(cs, n), SavedKept(m, cs, n) PROVE SavedKept(M, cs, n)
  BY <1>1, <1>2, <1>6 DEF SavedKept
<1> QED BY <1>5, <1>6 DEF M

(* What is kept of a call depends on it and its callers only.              *)
LEMMA KeptAlike ==
  ASSUME NEW im, NEW m, NEW cs, NEW ds, NEW N \in Nat, \A k \in 1..N : cs[k] = ds[k]
  PROVE  /\ \A k \in 0..N : Foot(cs, k) = Foot(ds, k)
         /\ \A k \in 1..N : CallKept(im, m, cs, k) => CallKept(im, m, ds, k)
         /\ \A k \in 1..N : SavedKept(m, cs, k) => SavedKept(m, ds, k)
<1>1. \A k \in 0..N : Foot(cs, k) = Foot(ds, k)
  BY DEF Foot
<1>2. ASSUME NEW k \in 1..N, CallKept(im, m, cs, k) PROVE CallKept(im, m, ds, k)
  <2>1. cs[k] = ds[k] /\ Foot(cs, k) = Foot(ds, k) /\ Foot(cs, k - 1) = Foot(ds, k - 1)
    BY <1>1
  <2>2. Site(cs, k) = Site(ds, k)
    BY <2>1 DEF Site
  <2>3. \A j \in 0..(k - 1) : Foot(cs, j) = Foot(ds, j)
    BY <1>1
  <2> QED BY <1>2, <2>1, <2>2, <2>3 DEF CallKept
<1>3. \A k \in 1..N : SavedKept(m, cs, k) => SavedKept(m, ds, k)
  BY <1>1 DEF SavedKept
<1> QED BY <1>1, <1>2, <1>3
-----------------------------------------------------------------------------
(* The level behind an instruction.                                        *)
LEMMA AfterIs ==
  ASSUME NEW c, NEW v \in LevelType
  PROVE  LET u == After(c, v)
         IN  /\ u = Level(v.main, u.part, u.high, RdiAfter(c, v))
             /\ u.main = v.main /\ u.rdi = RdiAfter(c, v)
             /\ v.part = "entry" /\ c.op = "push" => u.part = "saved" /\ u.high = v.high
             /\ v.part = "saved" => u.part = "body" /\ u.high = v.high
             /\ v.part = "body" /\ c.op = "push"  => u.part = "body" /\ u.high = v.high + 8
             /\ v.part = "body" /\ c.op = "pop"   => u.part = "body" /\ u.high = v.high - 8
             /\ v.part = "body" /\ c.op = "addsp" => u.part = "body" /\ u.high = v.high - c.value
             /\ v.part = "body" /\ c.op = "leave" => u.part = "exit" /\ u.high = 0
             /\ v.part = "entry" /\ c.op # "push" => u.part = "entry" /\ u.high = v.high
             /\ v.part = "body" /\ c.op \notin {"push", "pop", "addsp", "leave"}
                  => u.part = "body" /\ u.high = v.high
<1> DEFINE w == [v EXCEPT !.rdi = RdiAfter(c, v)]
<1>1. /\ w = [main |-> v.main, part |-> v.part, high |-> v.high, rdi |-> RdiAfter(c, v)]
  BY DEF LevelType
<1> HIDE DEF w
<1>2. After(c, v) =
        CASE v.part = "entry" /\ c.op = "push" -> [w EXCEPT !.part = "saved"]
          [] v.part = "saved"                  -> [w EXCEPT !.part = "body"]
          [] v.part = "body" /\ c.op = "push"  -> [w EXCEPT !.high = @ + 8]
          [] v.part = "body" /\ c.op = "pop"   -> [w EXCEPT !.high = @ - 8]
          [] v.part = "body" /\ c.op = "addsp" -> [w EXCEPT !.high = @ - c.value]
          [] v.part = "body" /\ c.op = "leave" -> [w EXCEPT !.part = "exit", !.high = 0]
          [] OTHER -> w
  BY DEF After, w
<1>3. CASE v.part = "entry" /\ c.op = "push"
  <2>1. After(c, v) = [w EXCEPT !.part = "saved"]
    BY <1>2, <1>3
  <2> QED BY <1>1, <1>3, <2>1 DEF Level
<1>4. CASE v.part = "entry" /\ c.op # "push"
  <2>1. After(c, v) = w
    BY <1>2, <1>4
  <2> QED BY <1>1, <1>4, <2>1 DEF Level
<1>5. CASE v.part = "saved"
  <2>1. After(c, v) = [w EXCEPT !.part = "body"]
    BY <1>2, <1>5
  <2> QED BY <1>1, <1>5, <2>1 DEF Level
<1>6. CASE v.part = "exit"
  <2>1. After(c, v) = w
    BY <1>2, <1>6
  <2> QED BY <1>1, <1>6, <2>1 DEF Level
<1>7. CASE v.part = "body" /\ c.op = "push"
  <2>1. After(c, v) = [w EXCEPT !.high = @ + 8]
    BY <1>2, <1>7
  <2> QED BY <1>1, <1>7, <2>1 DEF Level
<1>8. CASE v.part = "body" /\ c.op = "pop"
  <2>1. After(c, v) = [w EXCEPT !.high = @ - 8]
    BY <1>2, <1>8
  <2> QED BY <1>1, <1>8, <2>1 DEF Level
<1>9. CASE v.part = "body" /\ c.op = "addsp"
  <2>1. After(c, v) = [w EXCEPT !.high = @ - c.value]
    BY <1>2, <1>9
  <2> QED BY <1>1, <1>9, <2>1 DEF Level
<1>10. CASE v.part = "body" /\ c.op = "leave"
  <2>1. After(c, v) = [w EXCEPT !.part = "exit", !.high = 0]
    BY <1>2, <1>10
  <2> QED BY <1>1, <1>10, <2>1 DEF Level
<1>11. CASE v.part = "body" /\ c.op \notin {"push", "pop", "addsp", "leave"}
  <2>1. After(c, v) = w
    BY <1>2, <1>11
  <2> QED BY <1>1, <1>11, <2>1 DEF Level
<1>12. v.part \in {"entry", "saved", "body", "exit"}
  BY DEF LevelType
<1> QED BY <1>3, <1>4, <1>5, <1>6, <1>7, <1>8, <1>9, <1>10, <1>11, <1>12

(* What is known at the instruction that runs.                             *)
Lev == image.levels[ip]

LEMMA LevelFacts ==
  ASSUME TypeInv
  PROVE  /\ Lev \in LevelType /\ StackTop + Lev.high + 16 < Values(8) /\ Lev.high \in Nat
         /\ Lev.part \in {"entry", "saved", "body", "exit"}
         /\ Allowed(Cur, Lev)
         /\ \A j \in Successors(image.code, ip) : Covers(image.levels[j], After(Cur, Lev))
         /\ Cur.op = "call" => image.levels[Here] = Callee
         /\ ip \in DOMAIN image.args => Lev.rdi = Number(image.args[ip])
         /\ Cur.op = "store" /\ Cur.reg = "rdi" => ~Lev.main /\ Lev.rdi = Argument
<1>1. ip \in DOMAIN image.code /\ Levelled(image)
  BY DEF TypeInv, TypeOK
<1>2. Lev \in LevelType /\ StackTop + Lev.high + 16 < Values(8)
  BY <1>1 DEF Levelled, Lev
<1>3. Lev.high \in Nat /\ Lev.part \in {"entry", "saved", "body", "exit"}
  BY <1>2 DEF LevelType
<1>4. /\ Allowed(Cur, Lev)
      /\ \A j \in Successors(image.code, ip) : Covers(image.levels[j], After(Cur, Lev))
      /\ Cur.op = "call" => image.levels[Here] = Callee
  BY <1>1 DEF Levelled, StackLevelled, Lev, Cur, Here
<1>5. /\ ip \in DOMAIN image.args => Lev.rdi = Number(image.args[ip])
      /\ Cur.op = "store" /\ Cur.reg = "rdi" => ~Lev.main /\ Lev.rdi = Argument
  BY <1>1 DEF Levelled, ArgumentsLevelled, Lev, Cur
<1> QED BY <1>2, <1>3, <1>4, <1>5

(* The part of the frame that an instruction may run in.                   *)
LEMMA PartIs ==
  ASSUME TypeInv
  PROVE  /\ Lev.part = "entry" => Cur.op = "label" \/ (Cur.op = "push" /\ Cur.reg = "rbp")
         /\ Lev.part = "saved" => /\ Cur.op = "copy" /\ Cur.reg = "rbp"
                                  /\ Cur.from = "rsp" /\ Cur.width = 8
         /\ Lev.part = "exit" => Cur.op = "ret" /\ ~Lev.main
         /\ Lev.part = "body" => /\ Cur.op # "ret" /\ ~Sets(Cur, "rsp") /\ ~Sets(Cur, "rbp")
                                 /\ Cur.op = "pop" => Lev.high >= 8
                                 /\ Cur.op = "addsp" => Lev.high >= Cur.value
                                 /\ Cur.op = "leave" => ~Lev.main
<1>1. Allowed(Cur, Lev)
  BY LevelFacts
<1> QED BY <1>1 DEF Allowed

(* A level that says no more holds where the other does.                   *)
LEMMA Arrives ==
  ASSUME NEW u, NEW v, Covers(u, v), NEW r, NEW m, NEW cs, AtLevel(v, r, m, cs)
  PROVE  AtLevel(u, r, m, cs)
<1>1. u.main = v.main /\ u.part = v.part /\ u.high = v.high /\ u.rdi \in {Unknown, v.rdi}
  BY DEF Covers
<1>2. StackAt(u, r, m, cs)
  BY <1>1 DEF AtLevel, StackAt
<1>3. RdiAt(u.rdi, r, cs)
  <2>1. CASE u.rdi = Unknown
    BY <2>1 DEF RdiAt, Unknown
  <2>2. CASE u.rdi = v.rdi
    BY <2>2 DEF AtLevel
  <2> QED BY <1>1, <2>1, <2>2
<1> QED BY <1>2, <1>3 DEF AtLevel

(* Control comes behind a store of rdi only from it.                       *)
LEMMA NotBehind ==
  ASSUME TypeInv, NEW j \in Successors(image.code, ip), ~(Cur.op = "store" /\ Cur.reg = "rdi")
  PROVE  ~BehindStore(image.code, j)
<1> SUFFICES ASSUME BehindStore(image.code, j) PROVE FALSE
  OBVIOUS
<1>1. Levelled(image) /\ WellFormed(image.code) /\ ip \in DOMAIN image.code
  BY DEF TypeInv, TypeOK, Levelled
<1>2. j \in DOMAIN image.code
  BY <1>1 DEF WellFormed
<1>3. j - 1 \in DOMAIN image.code /\ j - 1 + 1 = j
  BY <1>1, <1>2 DEF WellFormed, BehindStore
<1>4. image.code[j - 1].op = "store" /\ image.code[j - 1].reg = "rdi"
  BY DEF BehindStore
<1> DEFINE i == j - 1
<1> HIDE DEF i
<1>5. \A k \in DOMAIN image.code : i + 1 \in Successors(image.code, k) => k = i
  BY <1>1, <1>3, <1>4 DEF Levelled, ArgumentsLevelled, i
<1>6. ip = i
  BY <1>1, <1>3, <1>5 DEF i
<1> QED BY <1>4, <1>6 DEF Cur, i

(* A step that goes on or jumps: the registers fit the level behind it,    *)
(* the calls are the same and still kept.                                  *)
LEMMA FramesGo ==
  ASSUME TypeInv, image' = image, ip' \in Successors(image.code, ip),
         ~(Cur.op = "store" /\ Cur.reg = "rdi"),
         CallsKept(image, mem', calls'), AtLevel(After(Cur, Lev), regs', mem', calls')
  PROVE  Frames'
<1>1. Covers(image.levels[ip'], After(Cur, Lev))
  BY LevelFacts
<1>2. AtLevel(image.levels[ip'], regs', mem', calls')
  BY <1>1, Arrives
<1>3. Stored(image, ip', regs', mem', calls')
  <2>1. ~BehindStore(image.code, ip')
    BY NotBehind
  <2> QED BY <2>1 DEF Stored
<1> QED BY <1>2, <1>3 DEF Frames

(* What is known of rdi: an instruction that does not change it, and one   *)
(* that sets a register.                                                   *)
LEMMA RdiSame ==
  ASSUME NEW c, NEW v, NEW r, NEW q, NEW cs, RdiAt(v.rdi, r, cs),
         q["rdi"] = r["rdi"], ~Sets(c, "rdi")
  PROVE  RdiAt(RdiAfter(c, v), q, cs)
<1>1. RdiAfter(c, v) \in {Unknown, v.rdi}
  BY DEF RdiAfter, Sets
<1>2. CASE RdiAfter(c, v) = Unknown
  BY <1>2 DEF RdiAt, Unknown
<1>3. CASE RdiAfter(c, v) = v.rdi
  BY <1>3 DEF RdiAt
<1> QED BY <1>1, <1>2, <1>3

LEMMA RdiSet ==
  ASSUME NEW c, NEW v, NEW q, NEW cs, Sets(c, "rdi"),
         c.op = "imm" /\ c.width >= 4 => q["rdi"] = Wrap(c.width, c.value)
  PROVE  RdiAt(RdiAfter(c, v), q, cs)
<1>1. CASE c.op = "imm" /\ c.width >= 4
  BY <1>1 DEF RdiAt, RdiAfter, Number, Sets
<1>2. CASE ~(c.op = "imm" /\ c.width >= 4)
  <2>1. RdiAfter(c, v) = Unknown
    BY <1>2 DEF RdiAfter
  <2> QED BY <2>1 DEF RdiAt, Unknown
<1> QED BY <1>1, <1>2

(* In the body, an instruction that leaves rsp and rbp alone.              *)
LEMMA Quiet ==
  ASSUME NEW c, NEW v \in LevelType, v.part = "body", c.op \notin {"push", "pop", "addsp", "leave"},
         NEW r, NEW q, NEW m, NEW cs, StackAt(v, r, m, cs),
         q["rsp"] = r["rsp"], q["rbp"] = r["rbp"], RdiAt(RdiAfter(c, v), q, cs)
  PROVE  AtLevel(After(c, v), q, m, cs)
<1> DEFINE u == After(c, v)
<1>1. u.main = v.main /\ u.rdi = RdiAfter(c, v) /\ u.part = "body" /\ u.high = v.high
  BY AfterIs
<1> HIDE DEF u
<1>2. StackAt(u, q, m, cs)
  BY <1>1 DEF StackAt
<1> QED BY <1>1, <1>2 DEF AtLevel, u
-----------------------------------------------------------------------------
(* Each instruction keeps the frames.                                      *)
LEMMA FrameFacts ==
  ASSUME TypeInv, Frames
  PROVE  /\ WellFormed(image.code) /\ ip \in DOMAIN image.code /\ ip \in Nat /\ Proper(Cur)
         /\ regs \in [Registers -> Word8] /\ HoldsBytes(mem)
         /\ {"rax", "rsp", "rbp", "rdi"} \subseteq Registers
         /\ \A r \in Registers : regs[r] \in Nat /\ regs[r] \in Word8
         /\ CallsKept(image, mem, calls)
         /\ StackAt(Lev, regs, mem, calls) /\ RdiAt(Lev.rdi, regs, calls)
         /\ Len(calls) \in Nat /\ Foot(calls, Len(calls)) \in Int
         /\ Foot(calls, Len(calls)) <= FrameTop
<1>1. /\ WellFormed(image.code) /\ ip \in DOMAIN image.code /\ ip \in Nat /\ Proper(Cur)
      /\ regs \in [Registers -> Word8] /\ HoldsBytes(mem) /\ \A r \in Registers : regs[r] \in Nat
  BY TypeFacts
<1>2. {"rax", "rsp", "rbp", "rdi"} \subseteq Registers /\ \A r \in Registers : regs[r] \in Word8
  BY <1>1 DEF Registers
<1>3. /\ CallsKept(image, mem, calls)
      /\ StackAt(Lev, regs, mem, calls) /\ RdiAt(Lev.rdi, regs, calls)
  BY DEF Frames, AtLevel, Lev
<1>4. Len(calls) \in Nat /\ Foot(calls, Len(calls)) <= FrameTop
  BY <1>3, FootFacts
<1>5. Foot(calls, Len(calls)) \in Int
  <2>1. Len(calls) \in 0..Len(calls)
    BY <1>4
  <2> QED BY <1>3, <2>1, FootFacts
<1> QED BY <1>1, <1>2, <1>3, <1>4, <1>5

(* In the body a mapped rsp has not wrapped.                               *)
LEMMA Exact ==
  ASSUME TypeInv, Frames, Lev.part = "body",
         Mapped(regs["rsp"] - 8, 8) \/ Mapped(regs["rsp"], 8)
  PROVE  /\ regs["rsp"] = Foot(calls, Len(calls)) - Lev.high
         /\ regs["rbp"] = Foot(calls, Len(calls))
<1> DEFINE f == Foot(calls, Len(calls))
           h == Lev.high
<1>1. regs["rbp"] = f /\ regs["rsp"] = Wrap(8, f - h)
  BY FrameFacts DEF StackAt
<1>2. f \in Int /\ f <= FrameTop
  BY FrameFacts
<1>3. regs["rbp"] \in Nat /\ regs["rsp"] \in Nat
  BY FrameFacts
<1>4. h \in Nat /\ StackTop + h + 16 < Values(8)
  BY LevelFacts
<1>5. regs["rsp"] <= StackTop + 8
  BY <1>3, StackFacts DEF Mapped
<1> HIDE DEF f, h
<1>6. Wrap(8, f - h) = f - h
  BY <1>1, <1>2, <1>3, <1>4, <1>5, WrapExact
<1> QED BY <1>1, <1>6 DEF f, h

LEMMA SetRegIs ==
  ASSUME regs \in [Registers -> Word8], NEW r \in Registers, NEW w, NEW n
  PROVE  /\ \A s \in Registers \ {r} : SetReg(r, w, n)[s] = regs[s]
         /\ w >= 4 => SetReg(r, w, n)[r] = Wrap(w, n)
BY DEF SetReg

(* imm, copy and load.                                                     *)
LEMMA FramesSet ==
  ASSUME TypeInv, Frames, Cur.op \in {"imm", "copy", "load"}, NEW n \in Int,
         Cur.op = "imm" => n = Cur.value, Cur.op = "copy" => n = regs[Cur.from],
         Goes(SetReg(Cur.reg, Cur.width, n))
  PROVE  Frames'
<1> DEFINE q == SetReg(Cur.reg, Cur.width, n)
           f == Foot(calls, Len(calls))
<1>1. /\ WellFormed(image.code) /\ ip \in DOMAIN image.code /\ Proper(Cur)
      /\ regs \in [Registers -> Word8] /\ {"rsp", "rbp", "rdi"} \subseteq Registers
      /\ CallsKept(image, mem, calls)
      /\ StackAt(Lev, regs, mem, calls) /\ RdiAt(Lev.rdi, regs, calls)
  BY FrameFacts
<1>2. Cur.reg \in Registers /\ Cur.width \in Widths
  BY <1>1 DEF Proper
<1>3. /\ \A s \in Registers \ {Cur.reg} : q[s] = regs[s]
      /\ Cur.width >= 4 => q[Cur.reg] = Wrap(Cur.width, n)
  BY <1>1, <1>2, SetRegIs
<1>4. ip + 1 \in Successors(image.code, ip)
  BY <1>1, GoesOn DEF Cur
<1>5. UNCHANGED <<image, mem, calls>> /\ regs' = q /\ ip' = ip + 1
  BY DEF Goes
<1>6. Lev \in LevelType /\ Lev.part \in {"entry", "saved", "body", "exit"}
  BY LevelFacts
<1> HIDE DEF q
<1>7. RdiAt(RdiAfter(Cur, Lev), q, calls)
  <2>1. CASE Sets(Cur, "rdi")
    <3>1. Cur.op = "imm" /\ Cur.width >= 4 => q["rdi"] = Wrap(Cur.width, Cur.value)
      BY <1>3, <2>1 DEF Sets
    <3> QED BY <2>1, <3>1, RdiSet
  <2>2. CASE ~Sets(Cur, "rdi")
    <3>1. Cur.reg # "rdi"
      BY <2>2 DEF Sets
    <3>2. q["rdi"] = regs["rdi"]
      BY <1>1, <1>3, <3>1
    <3> QED BY <1>1, <2>2, <3>2, RdiSame
  <2> QED BY <2>1, <2>2
<1>8. AtLevel(After(Cur, Lev), q, mem, calls)
  <2>1. CASE Lev.part = "body"
    <3>1. Cur.reg # "rsp" /\ Cur.reg # "rbp"
      BY <2>1, PartIs DEF Sets
    <3>2. q["rsp"] = regs["rsp"] /\ q["rbp"] = regs["rbp"]
      BY <1>1, <1>3, <3>1
    <3>3. Cur.op \notin {"push", "pop", "addsp", "leave"}
      OBVIOUS
    <3> QED BY <1>1, <1>6, <1>7, <2>1, <3>2, <3>3, Quiet
  <2>2. CASE Lev.part = "saved"
    <3> DEFINE u == After(Cur, Lev)
    <3>1. Cur.op = "copy" /\ Cur.reg = "rbp" /\ Cur.from = "rsp" /\ Cur.width = 8
      BY <2>2, PartIs
    <3>2. u.main = Lev.main /\ u.rdi = RdiAfter(Cur, Lev) /\ u.part = "body" /\ u.high = Lev.high
      BY <1>6, <2>2, AfterIs
    <3>3. regs["rsp"] = f /\ Lev.high = 0
      BY <1>1, <2>2 DEF StackAt
    <3>4. f \in Word8 /\ f \in Int
      BY <3>3, FrameFacts
    <3>5. Wrap(8, f) = f
      <4> HIDE DEF f
      <4> QED BY <3>4, WrapSame
    <3>6. q["rbp"] = f /\ q["rsp"] = f
      BY <1>1, <1>3, <3>1, <3>3, <3>5
    <3> HIDE DEF u
    <3>7. f - u.high = f
      <4> HIDE DEF f
      <4> QED BY <3>2, <3>3, <3>4
    <3>8. StackAt(u, q, mem, calls)
      BY <1>1, <2>2, <3>2, <3>5, <3>6, <3>7 DEF StackAt
    <3> QED BY <1>7, <3>2, <3>8 DEF AtLevel, u
  <2>3. Lev.part # "entry" /\ Lev.part # "exit"
    BY PartIs
  <2> QED BY <1>6, <2>1, <2>2, <2>3
<1> QED BY <1>1, <1>4, <1>5, <1>8, FramesGo

LEMMA FramesCompute ==
  ASSUME TypeInv, Frames, Cur.op \in {"alu", "test"}, NEW q, Goes(q),
         \A r \in {"rsp", "rbp", "rdi"} : q[r] = regs[r]
  PROVE  Frames'
<1>1. /\ WellFormed(image.code) /\ ip \in DOMAIN image.code
      /\ regs \in [Registers -> Word8] /\ {"rax", "rsp", "rbp", "rdi"} \subseteq Registers
      /\ CallsKept(image, mem, calls)
      /\ StackAt(Lev, regs, mem, calls) /\ RdiAt(Lev.rdi, regs, calls)
  BY FrameFacts
<1>2. q["rsp"] = regs["rsp"] /\ q["rbp"] = regs["rbp"] /\ q["rdi"] = regs["rdi"]
  OBVIOUS
<1>3. ip + 1 \in Successors(image.code, ip)
  BY <1>1, GoesOn DEF Cur
<1>4. UNCHANGED <<image, mem, calls>> /\ regs' = q /\ ip' = ip + 1
  BY DEF Goes
<1>5. Lev \in LevelType /\ Lev.part = "body"
  BY LevelFacts, PartIs
<1>6. RdiAt(RdiAfter(Cur, Lev), q, calls)
  <2>1. ~Sets(Cur, "rdi")
    BY DEF Sets
  <2> QED BY <1>1, <1>2, <2>1, RdiSame
<1>7. AtLevel(After(Cur, Lev), q, mem, calls)
  <2>1. Cur.op \notin {"push", "pop", "addsp", "leave"}
    OBVIOUS
  <2> QED BY <1>1, <1>2, <1>5, <1>6, <2>1, Quiet
<1> QED BY <1>1, <1>3, <1>4, <1>7, FramesGo

LEMMA FramesPop ==
  ASSUME TypeInv, Frames, PopWord
  PROVE  Frames'
<1> DEFINE q == [regs EXCEPT ![Cur.reg] = Word(regs["rsp"], 8), !["rsp"] = @ + 8]
           f == Foot(calls, Len(calls))
           u == After(Cur, Lev)
<1>1. Cur.op = "pop" /\ Mapped(regs["rsp"], 8) /\ Goes(q)
  BY DEF PopWord, Is
<1>2. /\ WellFormed(image.code) /\ ip \in DOMAIN image.code /\ Proper(Cur)
      /\ regs \in [Registers -> Word8] /\ {"rsp", "rbp", "rdi"} \subseteq Registers
      /\ CallsKept(image, mem, calls)
      /\ StackAt(Lev, regs, mem, calls) /\ RdiAt(Lev.rdi, regs, calls)
      /\ f \in Int /\ regs["rsp"] \in Nat
  BY FrameFacts
<1>3. Lev \in LevelType /\ Lev.high \in Nat
  BY LevelFacts
<1>4. Lev.part = "body" /\ Cur.reg # "rsp" /\ Cur.reg # "rbp"
  BY <1>1, LevelFacts, PartIs DEF Sets
<1>5. Cur.reg \in Registers
  BY <1>1, <1>2 DEF Proper
<1>6. q["rsp"] = regs["rsp"] + 8 /\ q["rbp"] = regs["rbp"]
  BY <1>2, <1>4, <1>5
<1>7. ~Sets(Cur, "rdi") => q["rdi"] = regs["rdi"]
  <2>1. ~Sets(Cur, "rdi") => Cur.reg # "rdi"
    BY <1>1 DEF Sets
  <2> QED BY <1>2, <1>5, <2>1
<1>8. ip + 1 \in Successors(image.code, ip)
  BY <1>1, <1>2, GoesOn DEF Cur
<1>9. UNCHANGED <<image, mem, calls>> /\ regs' = q /\ ip' = ip + 1
  BY <1>1 DEF Goes
<1>10. regs["rsp"] = f - Lev.high /\ regs["rbp"] = f
  BY <1>1, <1>4, Exact
<1>11. u.main = Lev.main /\ u.rdi = RdiAfter(Cur, Lev) /\ u.part = "body" /\ u.high = Lev.high - 8
  BY <1>1, <1>3, <1>4, AfterIs
<1> HIDE DEF q, f, u
<1>12. RdiAt(u.rdi, q, calls)
  <2>1. CASE Sets(Cur, "rdi")
    BY <1>1, <1>11, <2>1, RdiSet
  <2>2. CASE ~Sets(Cur, "rdi")
    BY <1>2, <1>7, <1>11, <2>2, RdiSame
  <2> QED BY <2>1, <2>2
<1>13. q["rsp"] = f - u.high /\ Wrap(8, f - u.high) = f - u.high
  <2>1. q["rsp"] = f - u.high
    BY <1>2, <1>3, <1>6, <1>10, <1>11
  <2>2. regs["rsp"] + 8 \in Word8
    BY <1>1, <1>2, StackFacts DEF Mapped, Word8
  <2> QED BY <1>6, <2>1, <2>2, WrapSame
<1>14. StackAt(u, q, mem, calls)
  BY <1>2, <1>4, <1>6, <1>10, <1>11, <1>13 DEF StackAt, f
<1> QED BY <1>1, <1>2, <1>8, <1>9, <1>12, <1>14, FramesGo DEF AtLevel, u

LEMMA FramesMoveStack ==
  ASSUME TypeInv, Frames, MoveStack
  PROVE  Frames'
<1> DEFINE q == [regs EXCEPT !["rsp"] = Wrap(8, @ + Cur.value)]
           f == Foot(calls, Len(calls))
           u == After(Cur, Lev)
<1>1. Cur.op = "addsp" /\ Goes(q)
  BY DEF MoveStack, Is
<1>2. /\ WellFormed(image.code) /\ ip \in DOMAIN image.code /\ Proper(Cur)
      /\ regs \in [Registers -> Word8] /\ {"rsp", "rbp", "rdi"} \subseteq Registers
      /\ CallsKept(image, mem, calls)
      /\ StackAt(Lev, regs, mem, calls) /\ RdiAt(Lev.rdi, regs, calls)
      /\ f \in Int
  BY FrameFacts
<1>3. Lev \in LevelType /\ Lev.high \in Nat /\ Lev.part = "body"
  BY <1>1, LevelFacts, PartIs
<1>4. Cur.value \in Int
  BY <1>1, <1>2 DEF Proper
<1>5. q["rsp"] = Wrap(8, regs["rsp"] + Cur.value) /\ q["rbp"] = regs["rbp"] /\ q["rdi"] = regs["rdi"]
  BY <1>2
<1>6. ip + 1 \in Successors(image.code, ip)
  BY <1>1, <1>2, GoesOn DEF Cur
<1>7. UNCHANGED <<image, mem, calls>> /\ regs' = q /\ ip' = ip + 1
  BY <1>1 DEF Goes
<1>8. regs["rsp"] = Wrap(8, f - Lev.high) /\ regs["rbp"] = f
  BY <1>2, <1>3 DEF StackAt
<1>9. u.main = Lev.main /\ u.rdi = RdiAfter(Cur, Lev) /\ u.part = "body"
      /\ u.high = Lev.high - Cur.value
  BY <1>1, <1>3, AfterIs
<1> HIDE DEF q, f, u
<1>10. RdiAt(u.rdi, q, calls)
  <2>1. ~Sets(Cur, "rdi")
    BY <1>1 DEF Sets
  <2> QED BY <1>2, <1>5, <1>9, <2>1, RdiSame
<1>11. q["rsp"] = Wrap(8, f - u.high)
  <2> DEFINE x == f - Lev.high
             y == Cur.value
  <2>1. x \in Int /\ y \in Int /\ x + y = f - u.high
    BY <1>2, <1>3, <1>4, <1>9
  <2>2. q["rsp"] = Wrap(8, Wrap(8, x) + y)
    BY <1>5, <1>8
  <2> HIDE DEF x, y
  <2>3. Wrap(8, Wrap(8, x) + y) = Wrap(8, x + y)
    BY <2>1, WrapSum
  <2> QED BY <2>1, <2>2, <2>3
<1>12. StackAt(u, q, mem, calls)
  BY <1>2, <1>3, <1>5, <1>8, <1>9, <1>11 DEF StackAt, f
<1> QED BY <1>1, <1>2, <1>6, <1>7, <1>10, <1>12, FramesGo DEF AtLevel, u

LEMMA FramesPush ==
  ASSUME TypeInv, Frames, PushWord
  PROVE  Frames'
<1> DEFINE a == regs["rsp"] - 8
           x == regs[Cur.reg]
           q == [regs EXCEPT !["rsp"] = @ - 8]
           f == Foot(calls, Len(calls))
           u == After(Cur, Lev)
           M == Written(mem, a, 8, x)
<1>1. Cur.op = "push" /\ Mapped(a, 8)
  BY DEF PushWord, Is
<1>2. mem' = M /\ regs' = q /\ ip' = ip + 1 /\ UNCHANGED <<image, calls>>
  BY DEF PushWord
<1>3. /\ WellFormed(image.code) /\ ip \in DOMAIN image.code /\ Proper(Cur)
      /\ regs \in [Registers -> Word8] /\ HoldsBytes(mem) /\ {"rsp", "rbp", "rdi"} \subseteq Registers
      /\ CallsKept(image, mem, calls)
      /\ StackAt(Lev, regs, mem, calls) /\ RdiAt(Lev.rdi, regs, calls)
      /\ f \in Int /\ Len(calls) \in Nat
      /\ \A r \in Registers : regs[r] \in Nat /\ regs[r] \in Word8
  BY FrameFacts
<1>4. Lev \in LevelType /\ Lev.high \in Nat /\ Lev.part \in {"entry", "saved", "body", "exit"}
  BY LevelFacts
<1>5. Cur.reg \in Registers
  BY <1>1, <1>3 DEF Proper
<1>6. regs["rsp"] \in Nat /\ x \in Nat /\ x \in Word8
  BY <1>3, <1>5
<1>7. q["rsp"] = a /\ q["rbp"] = regs["rbp"] /\ q["rdi"] = regs["rdi"] /\ a \in Int
  BY <1>3, <1>6
<1>8. ip + 1 \in Successors(image.code, ip)
  BY <1>1, <1>3, GoesOn DEF Cur
<1>9. a \in Word8
  BY <1>1, <1>6, StackFacts DEF Mapped, Word8
<1>10. RdiAt(RdiAfter(Cur, Lev), q, calls)
  <2>1. ~Sets(Cur, "rdi")
    BY <1>1 DEF Sets
  <2> QED BY <1>3, <1>7, <2>1, RdiSame
<1>11. Lev.part = "entry" \/ Lev.part = "body"
  BY <1>1, <1>4, PartIs
<1> HIDE DEF a, x, q, u, M, f
<1>12. a + 8 <= f + 8 => CallsKept(image, M, calls)
  BY <1>3, <1>6, <1>7, KeptBelow DEF M, f
<1>13. CASE Lev.part = "entry"
  <2>1. Cur.reg = "rbp"
    BY <1>1, <1>13, PartIs
  <2>2. u.main = Lev.main /\ u.rdi = RdiAfter(Cur, Lev) /\ u.part = "saved" /\ u.high = Lev.high
    BY <1>1, <1>4, <1>13, AfterIs DEF u
  <2>3. Lev.high = 0 /\ regs["rsp"] = f + 8 /\ (Len(calls) > 0 => regs["rbp"] = calls[Len(calls)].rbp)
    BY <1>3, <1>13 DEF StackAt, f
  <2>4. a = f
    BY <1>3, <2>3 DEF a
  <2>5. CallsKept(image, M, calls)
    BY <1>3, <1>12, <2>4
  <2>6. Len(calls) > 0 => SavedKept(M, calls, Len(calls))
    <3>1. WordAt(M, a, 8) = x % Values(8)
      <4>1. 8 \in Nat
        OBVIOUS
      <4> QED BY <1>3, <1>6, <1>7, <4>1, WordWritten DEF M
    <3>2. x % Values(8) = x
      BY <1>6, WrapSame DEF Wrap
    <3>3. x = regs["rbp"]
      BY <2>1 DEF x
    <3> QED BY <2>3, <2>4, <3>1, <3>2, <3>3 DEF SavedKept, f
  <2>7. StackAt(u, q, M, calls)
    BY <1>3, <1>7, <1>13, <2>2, <2>3, <2>4, <2>6 DEF StackAt, f
  <2>8. AtLevel(u, q, M, calls)
    BY <1>10, <2>2, <2>7 DEF AtLevel
  <2> QED BY <1>1, <1>2, <1>8, <2>5, <2>8, FramesGo DEF u
<1>14. CASE Lev.part = "body"
  <2>1. u.main = Lev.main /\ u.rdi = RdiAfter(Cur, Lev) /\ u.part = "body" /\ u.high = Lev.high + 8
    BY <1>1, <1>4, <1>14, AfterIs DEF u
  <2>2. regs["rsp"] = f - Lev.high /\ regs["rbp"] = f
    BY <1>1, <1>14, Exact DEF a, f
  <2>3. a + 8 <= f /\ a = f - u.high
    BY <1>3, <1>4, <1>6, <2>1, <2>2 DEF a
  <2>4. CallsKept(image, M, calls)
    BY <1>3, <1>7, <1>12, <2>3
  <2>5. Len(calls) > 0 => SavedKept(mem, calls, Len(calls))
    BY <1>3, <1>14 DEF StackAt
  <2>6. Len(calls) > 0 => SavedKept(M, calls, Len(calls))
    <3>1. a + 8 <= f + 8
      BY <1>3, <1>7, <2>3
    <3>2. 8 \in Nat
      OBVIOUS
    <3> QED BY <1>3, <1>6, <1>7, <2>3, <2>5, <3>1, <3>2, KeptBelow DEF M, f
  <2>7. Wrap(8, f - u.high) = a
    BY <1>9, <2>3, WrapSame
  <2>8. StackAt(u, q, M, calls)
    BY <1>3, <1>7, <1>14, <2>1, <2>2, <2>6, <2>7 DEF StackAt, f
  <2>9. AtLevel(u, q, M, calls)
    BY <1>10, <2>1, <2>8 DEF AtLevel
  <2> QED BY <1>1, <1>2, <1>8, <2>4, <2>9, FramesGo DEF u
<1> QED BY <1>11, <1>13, <1>14

(* A store stays below its rbp, and what it saves of rdi is the argument.  *)
LEMMA FramesStore ==
  ASSUME TypeInv, Frames, BelowFrame, StoreCell
  PROVE  Frames'
<1> DEFINE a == regs["rbp"] - Cur.off
           x == regs[Cur.reg]
           w == Cur.width
           f == Foot(calls, Len(calls))
           u == After(Cur, Lev)
           M == Written(mem, a, w, x)
<1>1. Cur.op = "store"
  BY DEF StoreCell, Is
<1>2. mem' = M /\ regs' = regs /\ ip' = ip + 1 /\ UNCHANGED <<image, calls>>
  BY DEF StoreCell
<1>3. /\ WellFormed(image.code) /\ ip \in DOMAIN image.code /\ ip \in Nat /\ Proper(Cur)
      /\ regs \in [Registers -> Word8] /\ HoldsBytes(mem) /\ {"rsp", "rbp", "rdi"} \subseteq Registers
      /\ CallsKept(image, mem, calls)
      /\ StackAt(Lev, regs, mem, calls) /\ RdiAt(Lev.rdi, regs, calls)
      /\ f \in Int /\ Len(calls) \in Nat
      /\ \A r \in Registers : regs[r] \in Nat
  BY FrameFacts
<1>4. Lev \in LevelType /\ Lev.part = "body"
  BY <1>1, LevelFacts, PartIs
<1>5. Cur.reg \in Registers /\ w \in Widths /\ Cur.off \in Int
  BY <1>1, <1>3 DEF Proper
<1>6. w \in Nat /\ a \in Int /\ x \in Nat
  <2>1. regs["rbp"] \in Nat /\ x \in Nat
    BY <1>3, <1>5
  <2>2. w \in Nat
    BY <1>5 DEF Widths
  <2>3. a \in Int
    BY <1>5, <2>1
  <2> QED BY <2>1, <2>2, <2>3
<1>7. regs["rbp"] = f
  BY <1>3, <1>4 DEF StackAt
<1>8. a + w <= f
  <2>1. Cur.off >= w
    BY <1>1, <1>3 DEF BelowFrame, Cur
  <2> QED BY <1>3, <1>5, <1>6, <1>7, <2>1
<1>9. ip + 1 \in Successors(image.code, ip)
  BY <1>1, <1>3, GoesOn DEF Cur
<1> HIDE DEF f
<1>10. RdiAt(RdiAfter(Cur, Lev), regs, calls)
  <2>1. ~Sets(Cur, "rdi")
    BY <1>1 DEF Sets
  <2> QED BY <1>3, <2>1, RdiSame
<1>11. u.main = Lev.main /\ u.rdi = RdiAfter(Cur, Lev) /\ u.part = "body" /\ u.high = Lev.high
  <2>1. Cur.op \notin {"push", "pop", "addsp", "leave"}
    BY <1>1
  <2> QED BY <1>4, <2>1, AfterIs
<1>12. WordAt(M, a, w) = Wrap(w, x)
  <2> HIDE DEF a, w, x
  <2> QED BY <1>3, <1>6, WordWritten DEF Wrap
<1> HIDE DEF a, x, w, u, M
<1>13. a + w <= f + 8
  BY <1>3, <1>6, <1>8
<1>14. CallsKept(image, M, calls)
  BY <1>3, <1>6, <1>13, KeptBelow DEF M, f
<1>15. Len(calls) > 0 => SavedKept(M, calls, Len(calls))
  <2>1. Len(calls) > 0 => SavedKept(mem, calls, Len(calls))
    BY <1>3, <1>4 DEF StackAt
  <2> QED BY <1>3, <1>6, <1>8, <1>13, <2>1, KeptBelow DEF M, f
<1>16. StackAt(u, regs, M, calls)
  BY <1>3, <1>4, <1>11, <1>15 DEF StackAt
<1>17. AtLevel(u, regs, M, calls)
  BY <1>10, <1>11, <1>16 DEF AtLevel
<1>18. CASE ~(Cur.reg = "rdi")
  BY <1>2, <1>9, <1>14, <1>17, <1>18, FramesGo DEF u
<1>19. CASE Cur.reg = "rdi"
  <2>1. Covers(image.levels[ip'], u)
    BY <1>2, <1>9, LevelFacts DEF u
  <2>2. AtLevel(image.levels[ip'], regs', mem', calls')
    BY <1>2, <1>17, <2>1, Arrives
  <2>3. Len(calls) > 0 /\ x = calls[Len(calls)].arg
    <3>1. Lev.rdi = Argument
      BY <1>1, <1>19, LevelFacts
    <3> QED BY <1>3, <1>19, <3>1 DEF RdiAt, Argument, x
  <2>4. image.code[ip' - 1] = Cur
    BY <1>2, <1>3 DEF Cur
  <2>5. WordAt(mem', regs'["rbp"] - Cur.off, Cur.width) = Wrap(Cur.width, calls[Len(calls)].arg)
    BY <1>2, <1>12, <2>3 DEF a, w
  <2>6. Stored(image, ip', regs', mem', calls')
    BY <1>2, <2>3, <2>4, <2>5 DEF Stored
  <2> QED BY <1>2, <1>14, <2>2, <2>6 DEF Frames
<1> QED BY <1>18, <1>19

LEMMA FramesJump ==
  ASSUME TypeInv, Frames, Jump
  PROVE  Frames'
<1>1. Cur.op \in {"label", "jump", "jz", "skip"} /\ UNCHANGED <<image, regs, mem, calls>>
  BY DEF Jump, Is
<1>2. /\ WellFormed(image.code) /\ ip \in DOMAIN image.code
      /\ CallsKept(image, mem, calls)
      /\ StackAt(Lev, regs, mem, calls) /\ RdiAt(Lev.rdi, regs, calls)
  BY FrameFacts
<1>3. Lev \in LevelType /\ Lev.part \in {"entry", "saved", "body", "exit"}
  BY LevelFacts
<1>4. ip' \in Successors(image.code, ip)
  <2>1. Cur.op # "jump" => ip + 1 \in Successors(image.code, ip)
    BY <1>1, <1>2, GoesOn DEF Cur
  <2>2. /\ Cur.op \in {"jump", "jz"} => Here \in Successors(image.code, ip)
        /\ Cur.op = "skip" => ip + 1 + Cur.value \in Successors(image.code, ip)
    BY <1>2, GoesThere DEF Cur, Here
  <2> QED BY <1>1, <2>1, <2>2, Zenon DEF Jump
<1>5. RdiAt(RdiAfter(Cur, Lev), regs, calls)
  <2>1. ~Sets(Cur, "rdi")
    BY <1>1 DEF Sets
  <2> QED BY <1>2, <2>1, RdiSame
<1>6. AtLevel(After(Cur, Lev), regs, mem, calls)
  <2>1. CASE Lev.part = "body"
    <3>1. Cur.op \notin {"push", "pop", "addsp", "leave"}
      BY <1>1
    <3> QED BY <1>2, <1>3, <1>5, <2>1, <3>1, Quiet
  <2>2. CASE Lev.part = "entry"
    <3> DEFINE u == After(Cur, Lev)
    <3>1. u.main = Lev.main /\ u.rdi = RdiAfter(Cur, Lev) /\ u.part = "entry" /\ u.high = Lev.high
      <4>1. Cur.op # "push"
        BY <1>1
      <4> QED BY <1>3, <2>2, <4>1, AfterIs
    <3> HIDE DEF u
    <3>2. StackAt(u, regs, mem, calls)
      BY <1>2, <2>2, <3>1 DEF StackAt
    <3> QED BY <1>5, <3>1, <3>2 DEF AtLevel, u
  <2>3. Lev.part # "saved" /\ Lev.part # "exit"
    BY <1>1, PartIs
  <2> QED BY <1>3, <2>1, <2>2, <2>3
<1>7. ~(Cur.op = "store" /\ Cur.reg = "rdi")
  BY <1>1
<1> QED BY <1>1, <1>2, <1>4, <1>6, <1>7, FramesGo

LEMMA FramesLeave ==
  ASSUME TypeInv, Frames, LeaveFrame
  PROVE  Frames'
<1> DEFINE q == [regs EXCEPT !["rbp"] = Word(regs["rbp"], 8), !["rsp"] = regs["rbp"] + 8]
           f == Foot(calls, Len(calls))
           u == After(Cur, Lev)
<1>1. Cur.op = "leave" /\ Goes(q)
  BY DEF LeaveFrame, Is
<1>2. /\ WellFormed(image.code) /\ ip \in DOMAIN image.code
      /\ regs \in [Registers -> Word8] /\ {"rsp", "rbp", "rdi"} \subseteq Registers
      /\ CallsKept(image, mem, calls)
      /\ StackAt(Lev, regs, mem, calls) /\ RdiAt(Lev.rdi, regs, calls)
      /\ Len(calls) \in Nat
  BY FrameFacts
<1>3. Lev \in LevelType /\ Lev.part = "body" /\ ~Lev.main
  BY <1>1, LevelFacts, PartIs
<1>4. q["rbp"] = Word(regs["rbp"], 8) /\ q["rsp"] = regs["rbp"] + 8 /\ q["rdi"] = regs["rdi"]
  BY <1>2
<1>5. ip + 1 \in Successors(image.code, ip)
  BY <1>1, <1>2, GoesOn DEF Cur
<1>6. UNCHANGED <<image, mem, calls>> /\ regs' = q /\ ip' = ip + 1
  BY <1>1 DEF Goes
<1>7. regs["rbp"] = f
  BY <1>2, <1>3 DEF StackAt
<1>8. u.main = Lev.main /\ u.rdi = RdiAfter(Cur, Lev) /\ u.part = "exit" /\ u.high = 0
  BY <1>1, <1>3, AfterIs
<1> HIDE DEF q, f, u
<1>9. Len(calls) > 0 /\ SavedKept(mem, calls, Len(calls))
  <2>1. Lev.main = (Len(calls) = 0)
    BY <1>2, Zenon DEF StackAt
  <2>2. Len(calls) # 0
    BY <1>3, <2>1, Zenon
  <2>3. Len(calls) > 0
    BY <1>2, <2>2
  <2> QED BY <1>2, <1>3, <2>3 DEF StackAt
<1>10. q["rbp"] = calls[Len(calls)].rbp
  BY <1>4, <1>7, <1>9 DEF SavedKept, Word, f
<1>11. RdiAt(u.rdi, q, calls)
  <2>1. ~Sets(Cur, "rdi")
    BY <1>1 DEF Sets
  <2> QED BY <1>2, <1>4, <1>8, <2>1, RdiSame
<1>12. StackAt(u, q, mem, calls)
  BY <1>2, <1>3, <1>4, <1>7, <1>8, <1>9, <1>10 DEF StackAt, f
<1> QED BY <1>1, <1>2, <1>5, <1>6, <1>11, <1>12, FramesGo DEF AtLevel, u

(* A call: its frame begins below what is in use of the caller's.          *)
LEMMA FramesCall ==
  ASSUME TypeInv, Frames, CallIn
  PROVE  Frames'
<1> DEFINE a == regs["rsp"] - 8
           x == ip + 1
           q == [regs EXCEPT !["rsp"] = @ - 8]
           n == Len(calls)
           f == Foot(calls, n)
           M == Written(mem, a, 8, x)
           new == [back |-> x, rbp |-> regs["rbp"], rsp |-> regs["rsp"], arg |-> regs["rdi"]]
           ds == Append(calls, new)
<1>1. Cur.op = "call" /\ Mapped(a, 8)
  BY DEF CallIn, Is
<1>2. mem' = M /\ regs' = q /\ ip' = Here /\ image' = image /\ calls' = ds
  BY DEF CallIn
<1>3. /\ WellFormed(image.code) /\ ip \in DOMAIN image.code /\ ip \in Nat
      /\ regs \in [Registers -> Word8] /\ HoldsBytes(mem) /\ {"rsp", "rbp", "rdi"} \subseteq Registers
      /\ CallsKept(image, mem, calls)
      /\ StackAt(Lev, regs, mem, calls) /\ RdiAt(Lev.rdi, regs, calls)
      /\ f \in Int /\ n \in Nat
      /\ \A r \in Registers : regs[r] \in Nat
  BY FrameFacts
<1>4. Lev \in LevelType /\ Lev.high \in Nat /\ Lev.part = "body" /\ image.levels[Here] = Callee
  BY <1>1, LevelFacts, PartIs
<1>5. /\ regs["rsp"] \in Nat /\ regs["rbp"] \in Nat /\ regs["rdi"] \in Nat
      /\ a \in Int /\ x \in Nat /\ x - 1 = ip
  <2>1. regs["rsp"] \in Nat /\ regs["rbp"] \in Nat /\ regs["rdi"] \in Nat
    BY <1>3
  <2> QED BY <1>3, <2>1
<1>6. q["rsp"] = a /\ q["rbp"] = regs["rbp"] /\ q["rdi"] = regs["rdi"]
  BY <1>3
<1>7. regs["rsp"] = f - Lev.high /\ regs["rbp"] = f
  BY <1>1, <1>4, Exact
<1>8. x \in Word8
  <2>1. Len(image.code) + 1 < Values(8) /\ ip <= Len(image.code) /\ Len(image.code) \in Nat
    BY <1>3 DEF WellFormed
  <2> QED BY <1>3, <2>1, StackFacts DEF Word8
<1>9. new \in CallType
  BY <1>5 DEF CallType
<1>10. calls \in Seq(CallType)
  BY <1>3 DEF CallsKept
<1>11. /\ ds \in Seq(CallType) /\ Len(ds) = n + 1 /\ ds[n + 1] = new
       /\ \A k \in 1..n : ds[k] = calls[k]
  <2> HIDE DEF new
  <2> QED BY <1>9, <1>10
<1>12. new.back = x /\ new.rbp = regs["rbp"] /\ new.rsp = regs["rsp"] /\ new.arg = regs["rdi"]
  OBVIOUS
<1>13. Lev.main = (n = 0)
  BY <1>3, Zenon DEF StackAt
<1>14. n > 0 => SavedKept(mem, calls, n)
  BY <1>3, <1>4 DEF StackAt
<1>15. WordAt(M, a, 8) = x
  <2>1. 8 \in Nat
    OBVIOUS
  <2>2. Wrap(8, x) = x
    <3> HIDE DEF x
    <3> QED BY <1>8, WrapSame
  <2> HIDE DEF a, x
  <2>3. WordAt(M, a, 8) = x % Values(8)
    BY <1>3, <1>5, <2>1, WordWritten
  <2> QED BY <2>2, <2>3 DEF Wrap
<1>16. a + 8 <= f /\ a + 8 <= f + 8 /\ a + 8 = regs["rsp"]
  BY <1>3, <1>4, <1>5, <1>7
<1> HIDE DEF a, x, q, n, f, M, new, ds
<1>17. CallsKept(image, M, calls) /\ (n > 0 => SavedKept(M, calls, n))
  <2>1. 8 \in Nat
    OBVIOUS
  <2> QED BY <1>3, <1>5, <1>14, <1>16, <2>1, KeptBelow DEF M, f, n
<1>18. /\ \A k \in 0..n : Foot(calls, k) = Foot(ds, k)
       /\ \A k \in 1..n : CallKept(image, M, calls, k) => CallKept(image, M, ds, k)
       /\ \A k \in 1..n : SavedKept(M, calls, k) => SavedKept(M, ds, k)
  <2>1. \A k \in 1..n : calls[k] = ds[k]
    BY <1>11
  <2> QED BY <1>3, <2>1, KeptAlike
<1>19. ASSUME NEW k \in 1..n PROVE CallKept(image, M, ds, k) /\ SavedKept(M, ds, k)
  <2>1. CallKept(image, M, calls, k)
    BY <1>17 DEF CallsKept, n
  <2>2. SavedKept(M, calls, k)
    <3>1. CASE k = n
      BY <1>3, <1>17, <3>1
    <3>2. CASE k # n
      <4>1. k \in 1..(n - 1)
        BY <1>3, <3>2
      <4> QED BY <1>17, <4>1 DEF CallsKept, n
    <3> QED BY <3>1, <3>2
  <2> QED BY <1>18, <2>1, <2>2
<1> DEFINE m == n + 1
<1>20. m \in Nat /\ m # 0 /\ m > 0 /\ m - 1 = n /\ n \in 0..n
  BY <1>3
<1>21. Foot(ds, m) = regs["rsp"] - 16 /\ Foot(ds, m) + 8 = a /\ Foot(ds, m) \in Int
  <2>1. Foot(ds, m) = new.rsp - 16
    BY <1>11, <1>20 DEF Foot
  <2>2. new.rsp = regs["rsp"] /\ regs["rsp"] \in Int
    BY <1>5, <1>12
  <2> QED BY <2>1, <2>2 DEF a
<1>22. Foot(ds, n) = f /\ \A j \in 0..n : Foot(ds, j) \in Int /\ f <= Foot(ds, j)
  <2>1. \A j \in 0..n : Foot(calls, j) \in Int /\ f <= Foot(calls, j)
    BY <1>3, FootFacts DEF f, n
  <2> QED BY <1>18, <1>20, <2>1 DEF f
<1>23. CallKept(image, M, ds, m)
  <2>1. Site(ds, m) = ip /\ ds[m] = new
    BY <1>5, <1>11, <1>12 DEF Site
  <2>2. image.code[ip] = Cur /\ image.levels[ip] = Lev
    BY DEF Cur, Lev
  <2>3. Lev.main = (m = 1)
    <3>1. (n = 0) = (m = 1)
      BY <1>3
    <3> QED BY <1>13, <3>1, Zenon
  <2>4. new.rbp = Foot(ds, m - 1) /\ new.rsp = Foot(ds, m - 1) - Lev.high
    BY <1>7, <1>12, <1>20, <1>22
  <2>5. \A j \in 0..(m - 1) : Foot(ds, m) + 16 <= Foot(ds, j)
    <3> SUFFICES ASSUME NEW j \in 0..n PROVE Foot(ds, m) + 16 <= Foot(ds, j)
      BY <1>20
    <3>1. Foot(ds, j) \in Int /\ f <= Foot(ds, j)
      BY <1>22
    <3> QED BY <1>3, <1>5, <1>16, <1>21, <3>1
  <2>6. WordAt(M, Foot(ds, m) + 8, 8) = new.back
    BY <1>12, <1>15, <1>21
  <2>7. ip \in DOMAIN image.args => new.arg = image.args[ip]
    <3> SUFFICES ASSUME ip \in DOMAIN image.args PROVE new.arg = image.args[ip]
      OBVIOUS
    <3>1. Lev.rdi = Number(image.args[ip])
      BY LevelFacts
    <3> QED BY <1>3, <1>12, <3>1 DEF RdiAt, Number
  <2> HIDE DEF m
  <2> QED BY <1>1, <1>3, <1>4, <2>1, <2>2, <2>3, <2>4, <2>5, <2>6, <2>7 DEF CallKept
<1>24. CallsKept(image, M, ds)
  <2>1. \A k \in 1..Len(ds) : CallKept(image, M, ds, k)
    <3> SUFFICES ASSUME NEW k \in 1..m PROVE CallKept(image, M, ds, k)
      BY <1>11
    <3>1. k = m \/ k \in 1..n
      BY <1>3
    <3> HIDE DEF m
    <3> QED BY <1>19, <1>23, <3>1
  <2>2. \A k \in 1..(Len(ds) - 1) : SavedKept(M, ds, k)
    <3>1. Len(ds) - 1 = n
      BY <1>3, <1>11
    <3> QED BY <1>19, <3>1
  <2> QED BY <1>11, <2>1, <2>2 DEF CallsKept
<1>25. AtLevel(Callee, q, M, ds)
  <2>1. /\ Callee.main = FALSE /\ Callee.part = "entry" /\ Callee.high = 0
        /\ Callee.rdi.as = "argument"
    BY DEF Callee, Level, Argument
  <2>2. Len(ds) = m /\ ds[Len(ds)] = new
    BY <1>11
  <2>3. (m = 0) = FALSE
    BY <1>20
  <2> HIDE DEF m
  <2>4. StackAt(Callee, q, M, ds)
    BY <1>6, <1>12, <1>21, <2>1, <2>2, <2>3 DEF StackAt
  <2>5. RdiAt(Callee.rdi, q, ds)
    BY <1>6, <1>12, <1>20, <2>1, <2>2 DEF RdiAt
  <2> QED BY <2>4, <2>5 DEF AtLevel
<1>26. ~BehindStore(image.code, Here)
  <2> DEFINE h == Here - 1
  <2> SUFFICES ASSUME BehindStore(image.code, Here) PROVE FALSE
    OBVIOUS
  <2>1. Here \in DOMAIN image.code
    BY <1>1, <1>3, GoesThere DEF Cur, Here
  <2>2. h \in DOMAIN image.code /\ h + 1 = Here
    BY <1>3, <2>1 DEF WellFormed, BehindStore
  <2>3. image.code[h].op = "store"
    BY DEF BehindStore
  <2> HIDE DEF h
  <2>4. h + 1 \in Successors(image.code, h)
    BY <1>3, <2>2, <2>3, GoesOn
  <2>5. /\ Allowed(image.code[h], image.levels[h]) /\ image.levels[h] \in LevelType
        /\ Covers(image.levels[Here], After(image.code[h], image.levels[h]))
    BY <2>2, <2>4 DEF TypeInv, Levelled, StackLevelled
  <2>6. image.levels[h].part = "body"
    BY <2>3, <2>5 DEF Allowed, LevelType
  <2>7. After(image.code[h], image.levels[h]).part = "body"
    <3>1. image.code[h].op \notin {"push", "pop", "addsp", "leave"}
      BY <2>3
    <3> QED BY <2>5, <2>6, <3>1, AfterIs
  <2> QED BY <1>4, <2>5, <2>7 DEF Covers, Callee, Level
<1>27. Stored(image, Here, q, M, ds)
  BY <1>26 DEF Stored
<1> QED BY <1>2, <1>4, <1>24, <1>25, <1>27 DEF Frames

(* A return: behind the call, in the frame that called.                    *)
LEMMA Returns ==
  ASSUME TypeInv, Frames, Cur.op = "ret"
  PROVE  LET n == Len(calls)
         IN  /\ n \in 1..n /\ Lev.part = "exit"
             /\ ReturnAddress = calls[n].back
             /\ regs["rsp"] = Foot(calls, n) + 8 /\ regs["rbp"] = calls[n].rbp
             /\ regs["rsp"] + 8 = calls[n].rsp
<1> DEFINE n == Len(calls)
<1>1. /\ CallsKept(image, mem, calls) /\ StackAt(Lev, regs, mem, calls) /\ n \in Nat
      /\ Foot(calls, n) \in Int
  BY FrameFacts
<1>2. Lev.part = "exit" /\ ~Lev.main
  BY LevelFacts, PartIs
<1>3. Lev.main = (n = 0)
  BY <1>1, Zenon DEF StackAt
<1>4. n # 0
  BY <1>2, <1>3, Zenon
<1>5. n \in 1..n /\ n > 0
  BY <1>1, <1>4
<1>6. regs["rsp"] = Foot(calls, n) + 8 /\ regs["rbp"] = calls[n].rbp
  BY <1>1, <1>2, <1>5 DEF StackAt
<1>7. WordAt(mem, Foot(calls, n) + 8, 8) = calls[n].back
  BY <1>1, <1>5 DEF CallsKept, CallKept
<1>8. Foot(calls, n) = calls[n].rsp - 16 /\ calls[n].rsp \in Int
  <2>1. calls[n] \in CallType
    BY <1>1, <1>5, FootFacts
  <2> QED BY <1>4, <2>1 DEF Foot, CallType
<1> QED BY <1>1, <1>2, <1>5, <1>6, <1>7, <1>8 DEF ReturnAddress, Word

LEMMA FramesBack ==
  ASSUME TypeInv, Frames, Back
  PROVE  Frames'
<1> DEFINE n == Len(calls)
           m == n - 1
           q == [regs EXCEPT !["rsp"] = @ + 8]
           ds == SubSeq(calls, 1, m)
           s == Site(calls, n)
           v == image.levels[s]
           u == After(image.code[s], v)
           back == calls[n].back
<1>1. Cur.op = "ret" /\ Mapped(regs["rsp"], 8)
  BY DEF Back, Is
<1>2. ip' = ReturnAddress /\ regs' = q /\ calls' = ds /\ UNCHANGED <<image, mem>>
  BY DEF Back
<1>3. /\ WellFormed(image.code)
      /\ regs \in [Registers -> Word8] /\ {"rsp", "rbp", "rdi"} \subseteq Registers
      /\ CallsKept(image, mem, calls) /\ n \in Nat
      /\ \A r \in Registers : regs[r] \in Nat
  BY FrameFacts
<1>4. /\ n \in 1..n /\ ip' = back
      /\ regs["rbp"] = calls[n].rbp /\ regs["rsp"] + 8 = calls[n].rsp
  BY <1>1, <1>2, Returns
<1>5. m \in Nat /\ m + 1 = n /\ m = n - 1 /\ m <= n
  BY <1>4
<1>6. calls \in Seq(CallType) /\ CallKept(image, mem, calls, n)
  BY <1>3, <1>4 DEF CallsKept
<1>7. /\ s \in DOMAIN image.code /\ image.code[s].op = "call"
      /\ v.part = "body" /\ v.main = (n = 1)
      /\ calls[n].rbp = Foot(calls, m) /\ calls[n].rsp = Foot(calls, m) - v.high
  BY <1>6 DEF CallKept
<1>8. back \in Int /\ s + 1 = back
  <2>1. calls[n] \in CallType
    BY <1>4, <1>6
  <2> QED BY <2>1 DEF CallType, Site
<1>9. /\ ds \in Seq(CallType) /\ Len(ds) = m /\ \A k \in 1..m : ds[k] = calls[k]
  BY <1>5, <1>6
<1>10. q["rsp"] = regs["rsp"] + 8 /\ q["rbp"] = regs["rbp"]
  BY <1>3
<1>11. q["rsp"] \in Word8
  <2>1. regs["rsp"] \in Nat
    BY <1>3
  <2> QED BY <1>1, <1>10, <2>1, StackFacts DEF Mapped, Word8
<1>12. \A k \in 1..m : k \in 1..n /\ k \in 1..(n - 1)
  BY <1>5
<1> HIDE DEF m, q, ds, s, v, u, back
<1>13. /\ \A k \in 0..m : Foot(calls, k) = Foot(ds, k)
       /\ \A k \in 1..m : CallKept(image, mem, calls, k) => CallKept(image, mem, ds, k)
       /\ \A k \in 1..m : SavedKept(mem, calls, k) => SavedKept(mem, ds, k)
  <2>1. \A k \in 1..m : calls[k] = ds[k]
    BY <1>9
  <2> QED BY <1>5, <2>1, KeptAlike
<1>14. \A k \in 1..m : CallKept(image, mem, ds, k) /\ SavedKept(mem, ds, k)
  <2>1. \A k \in 1..m : CallKept(image, mem, calls, k) /\ SavedKept(mem, calls, k)
    BY <1>3, <1>12 DEF CallsKept
  <2> QED BY <1>13, <2>1
<1>15. CallsKept(image, mem, ds)
  <2>1. \A k \in 1..(m - 1) : k \in 1..m
    BY <1>5
  <2> QED BY <1>9, <1>14, <2>1 DEF CallsKept
<1>16. /\ v \in LevelType /\ back \in Successors(image.code, s)
       /\ Covers(image.levels[back], u)
  <2>1. s + 1 \in Successors(image.code, s)
    BY <1>3, <1>7, GoesOn
  <2>2. back \in Successors(image.code, s)
    BY <1>8, <2>1
  <2> QED BY <1>7, <2>2 DEF TypeInv, Levelled, StackLevelled, u, v
<1>17. u.main = v.main /\ u.part = "body" /\ u.high = v.high /\ u.rdi = Unknown
  <2>1. image.code[s].op \notin {"push", "pop", "addsp", "leave"}
    BY <1>7
  <2>2. RdiAfter(image.code[s], v) = Unknown
    BY <1>7 DEF RdiAfter
  <2> QED BY <1>7, <1>16, <2>1, <2>2, AfterIs DEF u
<1>18. AtLevel(u, q, mem, ds)
  <2>1. m \in 0..m /\ Foot(ds, m) = Foot(calls, m)
    BY <1>5, <1>13
  <2>2. q["rbp"] = Foot(ds, m) /\ q["rsp"] = Foot(ds, m) - u.high
    BY <1>4, <1>7, <1>10, <1>17, <2>1
  <2>3. Wrap(8, q["rsp"]) = q["rsp"]
    BY <1>11, WrapSame
  <2>4. u.main = (m = 0)
    <3>1. (n = 1) = (m = 0)
      BY <1>5
    <3> QED BY <1>7, <1>17, <3>1, Zenon
  <2>5. m > 0 => SavedKept(mem, ds, m)
    <3>1. m > 0 => m \in 1..m
      BY <1>5
    <3> QED BY <1>14, <3>1
  <2>6. StackAt(u, q, mem, ds)
    BY <1>9, <1>17, <2>2, <2>3, <2>4, <2>5 DEF StackAt
  <2>7. RdiAt(u.rdi, q, ds)
    BY <1>17 DEF RdiAt, Unknown
  <2> QED BY <2>6, <2>7 DEF AtLevel
<1>19. AtLevel(image.levels[back], q, mem, ds)
  BY <1>16, <1>18, Arrives
<1>20. Stored(image, back, q, mem, ds)
  <2>1. back - 1 = s
    BY DEF back, s, Site
  <2> QED BY <1>7, <2>1 DEF Stored, BehindStore
<1> QED BY <1>2, <1>4, <1>15, <1>19, <1>20 DEF Frames
-----------------------------------------------------------------------------
(* The theorems.                                                           *)
FramedInv == TypeInv /\ Framed

LEMMA FramedInit ==
  ASSUME AllLevelled, Init
  PROVE  FramedInv
<1>1. TypeInv
  BY TypeInit
<1>2. /\ ip = 1 /\ calls = <<>> /\ regs = [r \in Registers |-> IF r = "rsp" THEN StackTop ELSE 0]
      /\ "rsp" \in Registers
  BY DEF Init, Registers
<1>3. image.levels[1] = Start
  BY <1>1 DEF TypeInv, Levelled, StackLevelled
<1>4. CallsKept(image, mem, calls)
  BY <1>2 DEF CallsKept
<1>5. AtLevel(Start, regs, mem, calls)
  <2>1. /\ Start.main = TRUE /\ Start.part = "entry" /\ Start.high = 0 /\ Start.rdi.as = "any"
    BY DEF Start, Level, Unknown
  <2>2. Len(calls) = 0 /\ regs["rsp"] = Foot(calls, 0) + 8
    BY <1>2, StackFacts DEF Foot, FrameTop
  <2>3. (Len(calls) = 0) = TRUE
    BY <2>2
  <2>4. StackAt(Start, regs, mem, calls)
    <3> DEFINE s == Start
    <3>1. s.main = (Len(calls) = 0)
      BY <2>1, <2>3, Zenon
    <3>2. s.part = "entry" /\ s.high = 0 /\ Len(calls) = 0 /\ ~(0 > 0)
      BY <2>1, <2>2
    <3> HIDE DEF s
    <3>3. StackAt(s, regs, mem, calls)
      BY <2>2, <3>1, <3>2 DEF StackAt
    <3> QED BY <3>3 DEF s
  <2>5. RdiAt(Start.rdi, regs, calls)
    BY <2>1 DEF RdiAt
  <2> QED BY <2>4, <2>5 DEF AtLevel
<1>6. Stored(image, ip, regs, mem, calls)
  BY <1>2 DEF Stored, BehindStore
<1> QED BY <1>1, <1>2, <1>3, <1>4, <1>5, <1>6 DEF FramedInv, Framed, Frames

LEMMA FramedStep ==
  ASSUME FramedInv, [Next]_vars
  PROVE  FramedInv'
<1>1. TypeInv /\ TypeInv'
  BY TypeStep DEF FramedInv
<1>2. image' = image
  BY DEF Next, Move, LoadCell, StoreCell, PushWord, PopWord, MoveStack, Compute, Divide, Trap, Jump,
         CallIn, LeaveFrame, Back, Quit, Fault, Ended, Goes, vars
<1> SUFFICES ASSUME BelowFrame, Running' PROVE Frames'
  BY <1>1, <1>2 DEF FramedInv, Framed, BelowFrame
<1>3. Running
  BY DEF Running, Next, Move, LoadCell, StoreCell, PushWord, PopWord, MoveStack, Compute, Divide, Trap,
         Jump, CallIn, LeaveFrame, Back, Quit, Fault, Ended, Goes, Is, vars
<1>4. Frames
  BY <1>3 DEF FramedInv, Framed
<1>5. CASE Move
  <2> DEFINE n == IF Cur.op = "imm" THEN Cur.value ELSE regs[Cur.from]
  <2>1. Cur.op \in {"imm", "copy"} /\ Goes(SetReg(Cur.reg, Cur.width, n))
    BY <1>5 DEF Move, Is
  <2>2. n \in Int
    <3>1. Proper(Cur) /\ \A r \in Registers : regs[r] \in Nat
      BY <1>1, TypeFacts
    <3> QED BY <2>1, <3>1 DEF Proper
  <2>3. (Cur.op = "imm" => n = Cur.value) /\ (Cur.op = "copy" => n = regs[Cur.from])
    OBVIOUS
  <2> HIDE DEF n
  <2> QED BY <1>1, <1>4, <2>1, <2>2, <2>3, FramesSet
<1>6. CASE LoadCell
  <2> DEFINE a == regs["rbp"] - Cur.off
             n == Word(a, Cur.width)
  <2>1. Cur.op = "load" /\ Goes(SetReg(Cur.reg, Cur.width, n))
    BY <1>6 DEF LoadCell, Is
  <2>2. a \in Int /\ Cur.width \in Nat
    <3>1. Proper(Cur) /\ \A r \in Registers : regs[r] \in Nat
      BY <1>1, TypeFacts
    <3>2. "rbp" \in Registers
      BY DEF Registers
    <3>3. Cur.off \in Int /\ Cur.width \in Widths /\ regs["rbp"] \in Nat
      BY <2>1, <3>1, <3>2 DEF Proper
    <3>4. Cur.width \in Nat
      BY <3>3 DEF Widths
    <3>5. a \in Int
      BY <3>3
    <3> QED BY <3>4, <3>5
  <2>3. n \in Int
    <3> HIDE DEF a
    <3> QED BY <1>1, <2>2, ReadType
  <2> HIDE DEF n, a
  <2> QED BY <1>1, <1>4, <2>1, <2>3, FramesSet
<1>7. CASE StoreCell
  BY <1>1, <1>4, <1>7, FramesStore
<1>8. CASE PushWord
  BY <1>1, <1>4, <1>8, FramesPush
<1>9. CASE PopWord
  BY <1>1, <1>4, <1>9, FramesPop
<1>10. CASE MoveStack
  BY <1>1, <1>4, <1>10, FramesMoveStack
<1>18. {"rax", "rdx", "rsp", "rbp", "rdi"} \subseteq Registers /\ regs \in [Registers -> Word8]
  BY <1>1, TypeFacts DEF Registers
<1>11. CASE Compute
  <2> DEFINE n == IF Cur.op = "test" THEN Truth(regs["rax"] # 0) ELSE Meaning(Cur.fn, Lhs, Rhs)
             q == SetReg("rax", 8, n)
  <2>1. Cur.op \in {"alu", "test"} /\ Goes(q)
    BY <1>11 DEF Compute, Is
  <2> HIDE DEF n
  <2>2. \A r \in {"rsp", "rbp", "rdi"} : q[r] = regs[r]
    BY <1>18, SetRegIs
  <2> HIDE DEF q
  <2> QED BY <1>1, <1>4, <2>1, <2>2, FramesCompute
<1>19. CASE Divide
  <2> DEFINE n == Meaning(Cur.fn, Lhs, Rhs)
             k == Wrap(8, Lhs - Rhs * n)
             h == SetReg("rax", 8, n)
             q == [h EXCEPT !["rdx"] = k]
  <2>1. Cur.op = "alu" /\ Goes(q)
    BY <1>19 DEF Divide, Is
  <2> HIDE DEF n, k
  <2>2. \A r \in {"rsp", "rbp", "rdi"} : h[r] = regs[r]
    BY <1>18, SetRegIs
  <2> HIDE DEF h
  <2>3. \A r \in {"rsp", "rbp", "rdi"} : q[r] = h[r]
    OBVIOUS
  <2> HIDE DEF q
  <2> QED BY <1>1, <1>4, <2>1, <2>2, <2>3, FramesCompute
<1>12. CASE Jump
  BY <1>1, <1>4, <1>12, FramesJump
<1>13. CASE CallIn
  BY <1>1, <1>4, <1>13, FramesCall
<1>14. CASE LeaveFrame
  BY <1>1, <1>4, <1>14, FramesLeave
<1>15. CASE Back
  BY <1>1, <1>4, <1>15, FramesBack
<1>16. CASE Trap \/ Quit \/ Fault
  BY <1>16 DEF Trap, Quit, Fault, Running
<1>17. CASE UNCHANGED vars
  BY <1>4, <1>17 DEF vars, Frames
<1> QED
  <2>1. Next \/ UNCHANGED vars
    OBVIOUS
  <2> QED BY <1>5, <1>6, <1>7, <1>8, <1>9, <1>10, <1>11, <1>19, <1>12, <1>13, <1>14, <1>15, <1>16, <1>17,
             <2>1 DEF Next, Ended

LEMMA FramedAlways == ASSUME AllLevelled PROVE Spec => []FramedInv
<1>1. Init => FramedInv
  BY FramedInit
<1>2. FramedInv /\ [Next]_vars => FramedInv'
  BY FramedStep
<1> QED BY <1>1, <1>2, PTL DEF Spec

(* Between two statements of the main frame rsp and rbp are where the      *)
(* first statement found them, whatever loops, operands and calls ran      *)
(* before.                                                                 *)
THEOREM StackIsLevel == AllLevelled => (Spec => []StackLevel)
<1> SUFFICES ASSUME AllLevelled PROVE Spec => []StackLevel
  OBVIOUS
<1>1. Spec => []FramedInv
  BY FramedAlways
<1>2. FramedInv => StackLevel
  <2> SUFFICES ASSUME FramedInv, Running, BelowFrame, calls = <<>>, Between(image.code, ip)
               PROVE  regs["rsp"] = FrameTop /\ regs["rbp"] = FrameTop
    BY DEF StackLevel
  <2>1. TypeInv /\ Frames
    BY DEF FramedInv, Framed
  <2>2. StackAt(Lev, regs, mem, calls) /\ Foot(calls, 0) = FrameTop /\ Len(calls) = 0
    BY <2>1, FrameFacts DEF Foot
  <2>3. Lev.main
    <3>1. Lev.main = (Len(calls) = 0)
      BY <2>2, Zenon DEF StackAt
    <3> QED BY <2>2, <3>1, Zenon
  <2>4. Lev.part = "body" /\ Lev.high = 0
    <3>1. ip \in DOMAIN image.code /\ Levelled(image)
      BY <2>1 DEF TypeInv, TypeOK
    <3> QED BY <2>3, <3>1 DEF Levelled, StackLevelled, Lev
  <2>5. regs["rbp"] = FrameTop /\ regs["rsp"] = Wrap(8, FrameTop - 0)
    BY <2>2, <2>4 DEF StackAt
  <2>6. FrameTop - 0 = FrameTop /\ FrameTop \in Word8
    <3>1. regs["rbp"] \in Nat
      BY <2>1, FrameFacts
    <3> QED BY <2>5, <3>1, StackFacts DEF FrameTop, Word8
  <2> QED BY <2>5, <2>6, WrapSame
<1> QED BY <1>1, <1>2, PTL

(* A function returns behind the call that started it, with rsp and rbp of *)
(* its caller, however deep calls and operands are nested.                 *)
THEOREM EveryCallReturns == AllLevelled => (Spec => []CallsReturn)
<1> SUFFICES ASSUME AllLevelled PROVE Spec => []CallsReturn
  OBVIOUS
<1>1. Spec => []FramedInv
  BY FramedAlways
<1>2. FramedInv => CallsReturn
  <2> SUFFICES ASSUME FramedInv, BelowFrame, Is({"ret"})
               PROVE  /\ calls # <<>>
                      /\ LET call == calls[Len(calls)]
                         IN  /\ ReturnAddress = call.back
                             /\ regs["rbp"] = call.rbp /\ regs["rsp"] + 8 = call.rsp
    BY DEF CallsReturn
  <2>1. TypeInv /\ Frames /\ Cur.op = "ret"
    BY DEF FramedInv, Framed, Is, Running
  <2>2. /\ Len(calls) \in 1..Len(calls)
        /\ ReturnAddress = calls[Len(calls)].back
        /\ regs["rbp"] = calls[Len(calls)].rbp
        /\ regs["rsp"] + 8 = calls[Len(calls)].rsp
    BY <2>1, Returns
  <2>3. calls # <<>>
    BY <2>2
  <2> QED BY <2>2, <2>3
<1> QED BY <1>1, <1>2, PTL

(* The integer written in a call is what the function finds in the cell of *)
(* its first parameter, at the width of that cell.                         *)
THEOREM EveryArgumentArrives == AllLevelled => (Spec => []ArgumentArrives)
<1> SUFFICES ASSUME AllLevelled PROVE Spec => []ArgumentArrives
  OBVIOUS
<1>1. Spec => []FramedInv
  BY FramedAlways
<1>2. FramedInv => ArgumentArrives
  <2> DEFINE n == Len(calls)
             s == image.code[ip - 1]
             site == calls[n].back - 1
  <2> SUFFICES ASSUME FramedInv, Running, BelowFrame, ip > 1, calls # <<>>,
                      site \in DOMAIN image.args, s.op = "store", s.reg = "rdi"
               PROVE  Word(regs["rbp"] - s.off, s.width) = Wrap(s.width, image.args[site])
    BY DEF ArgumentArrives
  <2>1. Frames /\ TypeInv
    BY DEF FramedInv, Framed
  <2>2. n > 0 /\ WordAt(mem, regs["rbp"] - s.off, s.width) = Wrap(s.width, calls[n].arg)
    BY <2>1 DEF Frames, Stored, BehindStore
  <2>3. CallKept(image, mem, calls, n)
    <3>1. n \in 1..n
      BY <2>1, <2>2, FrameFacts
    <3> QED BY <2>1, <3>1 DEF Frames, CallsKept
  <2>4. calls[n].arg = image.args[site]
    BY <2>3 DEF CallKept, Site
  <2> QED BY <2>2, <2>4 DEF Word
<1> QED BY <1>1, <1>2, PTL
=============================================================================
