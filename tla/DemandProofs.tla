---------------------------- MODULE DemandProofs ----------------------------
(* Proofs about Demand: the types, and what the estimate promises of its      *)
(* history, level and variance.  The first part is arithmetic: induction,      *)
(* sums, and the fractions that stand for the float64 of demand.go.           *)
EXTENDS Demand, FiniteSetTheorems, WellFoundedInduction, TLAPS

(* A set of numbers that is not empty has a least member: < is well founded.   *)
LEMMA LeastOf ==
  ASSUME NEW T, T \subseteq Nat, T # {}
  PROVE \E x \in T : \A y \in T : x <= y
<1> DEFINE R == OpToRel(<, Nat)
<1>1. IsWellFoundedOn(R, Nat)
  BY NatLessThanWellFounded
<1>2. \A x, y \in Nat : x < y => <<x, y>> \in R
  BY DEF OpToRel
<1> HIDE DEF R
<1>3. PICK x \in T : \A y \in T : ~ (<<y, x>> \in R)
  BY <1>1, WFMin
<1>4. \A y \in T : ~ (y < x)
  BY <1>2, <1>3
<1>5. \A y \in T : x <= y
  BY <1>4
<1> QED
  BY <1>5

(* Induction, for a set and not for a predicate: a least number outside of it
   would have a predecessor in it.                                            *)
LEMMA Induction ==
  ASSUME NEW T, 0 \in T, \A n \in Nat : n \in T => n+1 \in T
  PROVE Nat \subseteq T
<1> SUFFICES ASSUME Nat \ T # {} PROVE FALSE
  OBVIOUS
<1>1. PICK x \in Nat \ T : \A y \in Nat \ T : x <= y
  BY LeastOf
<1>2. x # 0 /\ x - 1 \in Nat
  BY <1>1
<1>3. x - 1 \in T
  BY <1>1, <1>2
<1> QED BY <1>1, <1>2, <1>3

\* The member that SumFunctionOnSet takes first, and its recursion over the sets D.
Pick(s) == CHOOSE x \in s : TRUE

Recursion(g, f, D) ==
  g = [s \in D |-> IF s = {} THEN 0 ELSE f[Pick(s)] + g[s \ {Pick(s)}]]

\* g holds the sum of f over every part of U.
SumsOver(g, f, U) == Recursion(g, f, SUBSET U)

LEMMA Picked == \A s : s # {} => Pick(s) \in s
BY DEF Pick

(* The recursion has a solution over any finite set, built up by cardinality.  *)
LEMMA SumExists ==
  ASSUME NEW f, NEW U, IsFiniteSet(U)
  PROVE  \E g : SumsOver(g, f, U)
<1> DEFINE Upto(n) == {s \in SUBSET U : Cardinality(s) <= n}
           T == {n \in Nat : \E g : Recursion(g, f, Upto(n))}
<1>0. \A s \in SUBSET U : IsFiniteSet(s) /\ Cardinality(s) \in Nat
  BY FS_Subset, FS_CardinalityType
<1>1. 0 \in T
  <2> DEFINE g == [s \in Upto(0) |-> 0]
  <2>1. \A s \in Upto(0) : s = {}
    BY <1>0, FS_EmptySet
  <2>2. Recursion(g, f, Upto(0))
    BY <2>1 DEF Recursion, SumsOver
  <2> QED
    BY <2>2
<1>2. ASSUME NEW n \in Nat, n \in T PROVE n + 1 \in T
  <2>1. PICK g : Recursion(g, f, Upto(n))
    BY <1>2
  <2> DEFINE h == [s \in Upto(n + 1) |-> IF s = {} THEN 0 ELSE f[Pick(s)] + g[s \ {Pick(s)}]]
  <2>2. ASSUME NEW s \in Upto(n + 1), s # {} PROVE s \ {Pick(s)} \in Upto(n)
    BY <2>2, <1>0, Picked, FS_RemoveElement
  <2>3. ASSUME NEW t \in Upto(n) PROVE t \in Upto(n + 1) /\ h[t] = g[t]
    <3>1. t \in Upto(n + 1)
      BY <1>0
    <3>2. g[t] = IF t = {} THEN 0 ELSE f[Pick(t)] + g[t \ {Pick(t)}]
      BY <2>1 DEF Recursion, SumsOver
    <3> QED
      BY <3>1, <3>2
  <2>4. \A s \in Upto(n + 1) : s # {} => h[s \ {Pick(s)}] = g[s \ {Pick(s)}]
    BY <2>2, <2>3
  <2>5. h = [s \in Upto(n + 1) |-> IF s = {} THEN 0 ELSE f[Pick(s)] + h[s \ {Pick(s)}]]
    <3> HIDE DEF Upto
    <3> QED
    BY <2>4
  <2>6. Recursion(h, f, Upto(n + 1))
    BY <2>5 DEF Recursion, SumsOver
  <2>7. \E k : Recursion(k, f, Upto(n + 1))
    BY <2>6
  <2> HIDE DEF Upto, h
  <2> QED
    BY <2>7
<1>3. Cardinality(U) \in T
  <2> HIDE DEF T
  <2> QED
    BY <1>0, <1>1, <1>2, Induction
<1>4. Upto(Cardinality(U)) = SUBSET U
  BY <1>0, FS_Subset
<1> QED
  BY <1>3, <1>4 DEF SumsOver

(* SumFunctionOnSet is that solution.                                         *)
LEMMA SumIsRecursion ==
  ASSUME NEW f, NEW U, IsFiniteSet(U)
  PROVE \E g : SumsOver(g, f, U) /\ SumFunctionOnSet(f, U) = g[U]
<1> DEFINE h == CHOOSE g : g = [s \in SUBSET U |-> IF s = {} THEN 0 ELSE f[CHOOSE x \in s : TRUE] + g[s \ {CHOOSE x \in s : TRUE}]]
<1>1. SumFunctionOnSet(f, U) = h[U]
  BY DEF SumFunctionOnSet, FoldFunctionOnSet, MapThenFoldSet
<1>2. h = [s \in SUBSET U |-> IF s = {} THEN 0 ELSE f[CHOOSE x \in s : TRUE] + h[s \ {CHOOSE x \in s : TRUE}]]
  <2>1. \E g : g = [s \in SUBSET U |-> IF s = {} THEN 0 ELSE f[CHOOSE x \in s : TRUE] + g[s \ {CHOOSE x \in s : TRUE}]]
    <3>1. PICK g : SumsOver(g, f, U)
      BY SumExists
    <3>2. g = [s \in SUBSET U |-> IF s = {} THEN 0 ELSE f[CHOOSE x \in s : TRUE] + g[s \ {CHOOSE x \in s : TRUE}]]
      BY <3>1, Zenon DEF Recursion, SumsOver, Pick
    <3> QED
      BY <3>2
  <2> QED
    BY <2>1, Zenon
<1> HIDE DEF h
<1>3. SumsOver(h, f, U)
  BY <1>2 DEF Recursion, SumsOver, Pick
<1> QED
  BY <1>1, <1>3

-------------------------------------------------------------------------------
(* A product of integers is one, in either order.                             *)
LEMMA Product ==
  ASSUME NEW a \in Int, NEW b \in Int
  PROVE  a * b \in Int /\ a * b = b * a
OBVIOUS

(* Products distribute over sums and differences.                             *)
LEMMA Distribute ==
  ASSUME NEW a \in Int, NEW b \in Int, NEW c \in Int
  PROVE  (a + b) * c = a * c + b * c /\ (a - b) * c = a * c - b * c
OBVIOUS

LEMMA PositiveProduct ==
  ASSUME NEW a \in Nat \ {0}, NEW b \in Nat \ {0}
  PROVE  a * b \in Nat \ {0}
OBVIOUS

(* A comparison may be multiplied by a positive number, and divided.          *)
LEMMA Scale ==
  ASSUME NEW a \in Int, NEW b \in Int, NEW c \in Nat \ {0}
  PROVE  a <= b <=> a * c <= b * c
OBVIOUS

(* ... and multiplied by any number.                                          *)
LEMMA ScaleNat ==
  ASSUME NEW a \in Int, NEW b \in Int, a <= b, NEW c \in Nat
  PROVE  a * c <= b * c
OBVIOUS

(* Division leaves a remainder below the divisor.                             *)
LEMMA Remainder ==
  ASSUME NEW a \in Nat, NEW b \in Nat \ {0}
  PROVE  a % b \in Nat /\ a % b < b /\ a = b * (a \div b) + (a % b) /\ a \div b \in Nat
OBVIOUS

(* A multiple is divided without a remainder.                                 *)
LEMMA Quotient ==
  ASSUME NEW q \in Int, NEW k \in Nat \ {0}
  PROVE  (q * k) \div k = q /\ (q * k) % k = 0
OBVIOUS

\* k divides n, the common divisors, and the recursion of gcd.
Divides(k, n) == \E q \in Int : n = q * k

(* A divisor of b divides a when it divides a % b: why Euclid's step is right.*)
LEMMA DividesRemainder ==
  ASSUME NEW k \in Nat \ {0}, NEW a \in Nat, NEW b \in Nat \ {0}, Divides(k, b)
  PROVE  Divides(k, a) <=> Divides(k, a % b)
<1> DEFINE z == a \div b
           m == a % b
<1>1. z \in Int /\ m \in Int /\ a = b * z + m
  BY Remainder
<1>2. PICK q \in Int : b = q * k
  BY DEF Divides
<1> HIDE DEF z, m
<1>3. b * z = (q * z) * k
  <2>1. (q * k) * z = (q * z) * k
    BY <1>1, <1>2
  <2> QED
    BY <1>2, <2>1
<1>4. q * z \in Int
  BY <1>1, <1>2
<1>5. ASSUME Divides(k, a) PROVE Divides(k, m)
  <2>1. PICK r \in Int : a = r * k
    BY <1>5 DEF Divides
  <2>2. m = (r - q * z) * k
    BY <1>1, <1>3, <1>4, <2>1, Distribute
  <2> QED
    BY <1>4, <2>2 DEF Divides
<1>6. ASSUME Divides(k, m) PROVE Divides(k, a)
  <2>1. PICK r \in Int : m = r * k
    BY <1>6 DEF Divides
  <2>2. a = (q * z + r) * k
    BY <1>1, <1>3, <1>4, <2>1, Distribute
  <2>3. q * z + r \in Int
    BY <1>4
  <2> QED
    BY <2>2, <2>3 DEF Divides
<1> QED
  BY <1>5, <1>6 DEF m

Gcd(g) == g = [p \in Nat \X Nat |-> IF p[2] = 0 THEN p[1] ELSE g[<<p[2], p[1] % p[2]>>]]

Common(a, b) == {k \in Nat \ {0} : Divides(k, a) /\ Divides(k, b)}

(* The recursion of gcd has a solution: the greatest common divisor.          *)
LEMMA GcdExists == \E g : Gcd(g)
<1> DEFINE g == [p \in Nat \X Nat |-> IF p[2] = 0 THEN p[1] ELSE Max(Common(p[1], p[2]))]
<1>1. ASSUME NEW a \in Nat, NEW b \in Nat \ {0}
      PROVE  g[<<a, b>>] = g[<<b, a % b>>]
  <2>0. a % b \in Nat
    BY Remainder
  <2>1. g[<<a, b>>] = Max(Common(a, b))
    BY DEF Max
  <2>2. Common(a, b) = {k \in Nat \ {0} : Divides(k, b) /\ Divides(k, a % b)}
    BY DividesRemainder DEF Common
  <2>3. CASE a % b # 0
    <3>1. Common(a, b) = Common(b, a % b)
      BY <2>2 DEF Common
    <3>2. g[<<b, a % b>>] = Max(Common(b, a % b))
      BY <2>0, <2>3 DEF Max
    <3> QED
      BY <2>1, <3>1, <3>2, Zenon
  <2>4. CASE a % b = 0
    <3>1. Divides(b, b) /\ \A k \in Nat \ {0} : Divides(k, 0)
      <4>1. b = 1 * b /\ \A k \in Nat : 0 = 0 * k
        OBVIOUS
      <4> QED
        BY <4>1 DEF Divides
    <3>2. b \in Common(a, b)
      BY <2>2, <2>4, <3>1
    <3>3. \A k \in Common(a, b) : k <= b
      <4> SUFFICES ASSUME NEW k \in Nat \ {0}, NEW q \in Int, b = q * k PROVE k <= b
        BY <2>2 DEF Divides
      <4>1. q >= 1
        OBVIOUS
      <4> QED
        BY <4>1
    <3>4. Common(a, b) \subseteq Nat
      BY DEF Common
    <3> DEFINE m == Max(Common(a, b))
    <3>5. m \in Common(a, b) /\ \A k \in Common(a, b) : m >= k
      <4>1. b \in Common(a, b) /\ \A k \in Common(a, b) : b >= k
        BY <3>2, <3>3, <3>4
      <4> QED
        BY <4>1 DEF Max
    <3> HIDE DEF m
    <3>6. m = b
      BY <3>2, <3>3, <3>4, <3>5
    <3>7. g[<<b, a % b>>] = b
      BY <2>4
    <3> QED
      BY <2>1, <3>6, <3>7 DEF m
  <2> QED
    BY <2>3, <2>4
<1>2. \A p \in Nat \X Nat : p[2] = 0 => g[p] = p[1]
  OBVIOUS
<1>3. \A p \in Nat \X Nat : p[2] # 0 => g[p] = g[<<p[2], p[1] % p[2]>>]
  <2> SUFFICES ASSUME NEW a \in Nat, NEW b \in Nat, b # 0 PROVE g[<<a, b>>] = g[<<b, a % b>>]
    OBVIOUS
  <2> QED
    BY <1>1
<1>4. g = [p \in Nat \X Nat |-> g[p]]
  OBVIOUS
<1> HIDE DEF g
<1>5. Gcd(g)
  BY <1>2, <1>3, <1>4 DEF Gcd
<1> QED
  BY <1>5

(* So gcd takes Euclid's step.                                                *)
LEMMA GcdStep ==
  ASSUME NEW a \in Nat, NEW b \in Nat
  PROVE  gcd[<<a, b>>] = IF b = 0 THEN a ELSE gcd[<<b, a % b>>]
<1>1. gcd = CHOOSE g : g = [p \in Nat \X Nat |-> IF p[2] = 0 THEN p[1] ELSE g[<<p[2], p[1] % p[2]>>]]
  BY DEF gcd
<1>2. PICK h : Gcd(h)
  BY GcdExists
<1>3. h = [p \in Nat \X Nat |-> IF p[2] = 0 THEN p[1] ELSE h[<<p[2], p[1] % p[2]>>]]
  BY <1>2 DEF Gcd
<1>4. Gcd(gcd)
  BY <1>1, <1>3, Zenon DEF Gcd
<1> QED
  BY <1>4 DEF Gcd

(* What gcd returns is positive and divides both numbers.                     *)
LEMMA GcdDivides ==
  ASSUME NEW a \in Nat, NEW b \in Nat, a > 0 \/ b > 0
  PROVE  LET g == gcd[<<a, b>>] IN g \in Nat \ {0} /\ Divides(g, a) /\ Divides(g, b)
<1> DEFINE Good(x, y) == LET g == gcd[<<x, y>>] IN g \in Nat \ {0} /\ Divides(g, x) /\ Divides(g, y)
           T == {n \in Nat : \A y \in Nat : y <= n => \A x \in Nat : x > 0 \/ y > 0 => Good(x, y)}
<1>1. 0 \in T
  <2>1. ASSUME NEW x \in Nat, x > 0 PROVE Good(x, 0)
    <3>1. gcd[<<x, 0>>] = x
      BY GcdStep
    <3>2. Divides(x, x) /\ Divides(x, 0)
      <4>1. x = 1 * x /\ 0 = 0 * x
        OBVIOUS
      <4> QED
        BY <4>1 DEF Divides
    <3> QED
      BY <2>1, <3>1, <3>2
  <2> HIDE DEF Good
  <2> QED
    BY <2>1
<1>2. ASSUME NEW n \in Nat, n \in T PROVE n + 1 \in T
  <2>1. \A y \in Nat : y <= n => \A x \in Nat : x > 0 \/ y > 0 => Good(x, y)
    BY <1>2
  <2>2. ASSUME NEW y \in Nat, y <= n + 1, NEW x \in Nat, x > 0 \/ y > 0 PROVE Good(x, y)
    <3>1. CASE y = 0
      <4> HIDE DEF Good
      <4> QED
        BY <2>1, <2>2, <3>1
    <3>2. CASE y # 0
      <4>1. x % y \in Nat /\ x % y < y /\ y \in Nat \ {0}
        BY <3>2, Remainder
      <4>2. x % y <= n /\ y > 0
        BY <2>2, <4>1
      <4>3. Good(y, x % y)
        <5> HIDE DEF Good
        <5> QED
          BY <2>1, <4>1, <4>2
      <4>4. gcd[<<x, y>>] = gcd[<<y, x % y>>]
        BY <3>2, GcdStep
      <4> DEFINE g == gcd[<<x, y>>]
      <4>5. g \in Nat \ {0} /\ Divides(g, y) /\ Divides(g, x % y)
        BY <4>3, <4>4
      <4> HIDE DEF g
      <4>6. Divides(g, x)
        BY <4>1, <4>5, DividesRemainder
      <4> QED
        BY <4>5, <4>6 DEF g
    <3> QED
      BY <3>1, <3>2
  <2> HIDE DEF Good
  <2> QED
    BY <2>2
<1>3. Nat \subseteq T
  <2> HIDE DEF T
  <2> QED
    BY <1>1, <1>2, Induction
<1>4. b \in T
  BY <1>3
<1> QED
  BY <1>4

(* In lowest terms a fraction keeps its value.                                *)
LEMMA FracValue ==
  ASSUME NEW n \in Int, NEW d \in Nat \ {0}
  PROVE  Frac(n, d) \in Fraction /\ Frac(n, d).n * d = n * Frac(n, d).d
<1> DEFINE g == gcd[<<Abs(n), d>>]
<1>1. Abs(n) \in Nat /\ (Abs(n) = n \/ Abs(n) = -n)
  BY DEF Abs
<1>2. g \in Nat \ {0} /\ Divides(g, Abs(n)) /\ Divides(g, d)
  BY <1>1, GcdDivides
<1> HIDE DEF g
<1>3. PICK p \in Int : Abs(n) = p * g
  BY <1>2 DEF Divides
<1>4. PICK e \in Int : d = e * g
  BY <1>2 DEF Divides
<1>5. PICK q \in Int : n = q * g
  <2>1. CASE Abs(n) = n
    BY <2>1, <1>3
  <2>2. CASE Abs(n) = -n
    <3>1. n = (-p) * g
      BY <1>2, <1>3, <2>2
    <3> QED
      BY <3>1
  <2> QED
    BY <1>1, <2>1, <2>2
<1>6. n \div g = q /\ d \div g = e
  BY <1>2, <1>4, <1>5, Quotient
<1>7. e > 0
  BY <1>2, <1>4
<1>8. Frac(n, d) = [n |-> q, d |-> e]
  BY <1>6 DEF Frac, g
<1>9. q * (e * g) = (q * g) * e
  BY <1>2
<1> QED
  BY <1>4, <1>5, <1>7, <1>8, <1>9 DEF Fraction

(* A whole number stays one.                                                  *)
LEMMA FracWhole ==
  ASSUME NEW u \in Nat, NEW k \in Nat \ {0}
  PROVE  Frac(u * k, k) = Whole(u)
<1> DEFINE n == u * k
<1>1. n \in Nat /\ Abs(n) = n
  BY DEF Abs
<1>2. n % k = 0 /\ n \div k = u /\ k \div k = 1
  <2>1. k = 1 * k
    OBVIOUS
  <2> QED
    BY <2>1, Quotient
<1> HIDE DEF n
<1>3. gcd[<<n, k>>] = gcd[<<k, 0>>]
  BY <1>1, <1>2, GcdStep
<1>4. gcd[<<k, 0>>] = k
  BY GcdStep
<1> QED
  BY <1>1, <1>2, <1>3, <1>4 DEF Frac, Whole, n

(* Below, above: fractions are compared by cross multiplication.              *)
LEMMA FracBelow ==
  ASSUME NEW n \in Int, NEW d \in Nat \ {0}, NEW c \in Fraction
  PROVE  AtMost(Frac(n, d), c) <=> n * c.d <= c.n * d
<1> DEFINE rn == Frac(n, d).n
           rd == Frac(n, d).d
           cn == c.n
           cd == c.d
<1>1. rn \in Int /\ rd \in Nat \ {0} /\ cn \in Int /\ cd \in Nat \ {0} /\ rn * d = n * rd
  BY FracValue DEF Fraction
<1>2. AtMost(Frac(n, d), c) <=> rn * cd <= cn * rd
  BY DEF AtMost
<1> HIDE DEF rn, rd
<1>3. rn * cd <= cn * rd <=> (rn * cd) * d <= (cn * rd) * d
  BY <1>1
<1>4. (rn * cd) * d = (n * cd) * rd
  <2>1. (rn * cd) * d = (rn * d) * cd /\ (n * cd) * rd = (n * rd) * cd
    BY <1>1
  <2> QED
    BY <1>1, <2>1
<1>5. (cn * rd) * d = (cn * d) * rd
  BY <1>1
<1>6. n * cd <= cn * d <=> (n * cd) * rd <= (cn * d) * rd
  BY <1>1
<1> QED
  BY <1>2, <1>3, <1>4, <1>5, <1>6

LEMMA FracAbove ==
  ASSUME NEW n \in Int, NEW d \in Nat \ {0}, NEW c \in Fraction
  PROVE  AtMost(c, Frac(n, d)) <=> c.n * d <= n * c.d
<1> DEFINE rn == Frac(n, d).n
           rd == Frac(n, d).d
           cn == c.n
           cd == c.d
<1>1. rn \in Int /\ rd \in Nat \ {0} /\ cn \in Int /\ cd \in Nat \ {0} /\ rn * d = n * rd
  BY FracValue DEF Fraction
<1>2. AtMost(c, Frac(n, d)) <=> cn * rd <= rn * cd
  BY DEF AtMost
<1> HIDE DEF rn, rd
<1>3. cn * rd <= rn * cd <=> (cn * rd) * d <= (rn * cd) * d
  BY <1>1
<1>4. (rn * cd) * d = (n * cd) * rd
  <2>1. (rn * cd) * d = (rn * d) * cd /\ (n * cd) * rd = (n * rd) * cd
    BY <1>1
  <2> QED
    BY <1>1, <2>1
<1>5. (cn * rd) * d = (cn * d) * rd
  BY <1>1
<1>6. cn * d <= n * cd <=> (cn * d) * rd <= (n * cd) * rd
  BY <1>1
<1> QED
  BY <1>2, <1>3, <1>4, <1>5, <1>6

-------------------------------------------------------------------------------
(* AtMost orders the fractions.                                               *)
LEMMA AtMostTotal ==
  ASSUME NEW a \in Fraction, NEW b \in Fraction
  PROVE  AtMost(a, a) /\ (AtMost(a, b) \/ AtMost(b, a))
<1>1. a.n * a.d \in Int /\ a.n * b.d \in Int /\ b.n * a.d \in Int
  BY DEF Fraction
<1> QED
  BY <1>1 DEF AtMost

LEMMA AtMostTrans ==
  ASSUME NEW a \in Fraction, NEW b \in Fraction, NEW c \in Fraction, AtMost(a, b), AtMost(b, c)
  PROVE  AtMost(a, c)
<1> DEFINE p == a.n
           q == a.d
           r == b.n
           s == b.d
           t == c.n
           u == c.d
<1>1. p \in Int /\ r \in Int /\ t \in Int /\ q \in Nat \ {0} /\ s \in Nat \ {0} /\ u \in Nat \ {0}
  BY DEF Fraction
<1>2. p * s <= r * q /\ r * u <= t * s
  BY DEF AtMost
<1> HIDE DEF p, q, r, s, t, u
<1>3. (p * s) * u <= (r * q) * u /\ (r * u) * q <= (t * s) * q
  <2>1. p * s \in Int /\ r * q \in Int /\ r * u \in Int /\ t * s \in Int
    BY <1>1
  <2> QED
    BY <1>1, <1>2, <2>1, ScaleNat
<1>4. (r * q) * u = (r * u) * q
  BY <1>1
<1>5. (p * u) * s <= (t * q) * s
  <2>1. (p * s) * u = (p * u) * s /\ (t * s) * q = (t * q) * s
    BY <1>1
  <2>2. (p * s) * u \in Int /\ (r * q) * u \in Int /\ (t * s) * q \in Int
    BY <1>1
  <2> QED
    BY <1>3, <1>4, <2>1, <2>2
<1>6. p * u <= t * q
  <2>1. p * u \in Int /\ t * q \in Int
    BY <1>1
  <2> QED
    BY <1>1, <1>5, <2>1, Scale
<1> QED
  BY <1>6 DEF AtMost, p, q, t, u

(* The operations return fractions.                                           *)
LEMMA Types ==
  ASSUME NEW a \in Fraction, NEW b \in Fraction
  PROVE  /\ Plus(a, b) \in Fraction /\ Minus(a, b) \in Fraction /\ Times(a, b) \in Fraction
         /\ b.n > 0 => Over(a, b) \in Fraction
         /\ a.n * b.d + b.n * a.d \in Int /\ a.n * b.d - b.n * a.d \in Int /\ a.n * b.n \in Int
         /\ a.d * b.d \in Nat \ {0}
<1>1. a.n \in Int /\ b.n \in Int /\ a.d \in Nat \ {0} /\ b.d \in Nat \ {0}
  BY DEF Fraction
<1>2. a.d * b.d \in Nat \ {0} /\ (b.n > 0 => a.d * b.n \in Nat \ {0})
  BY <1>1, PositiveProduct
<1>3. /\ a.n * b.d + b.n * a.d \in Int /\ a.n * b.d - b.n * a.d \in Int
      /\ a.n * b.n \in Int /\ a.n * b.d \in Int
  BY <1>1
<1> QED
  BY <1>2, <1>3, FracValue DEF Plus, Minus, Times, Over

(* A sum is below a bound when what is added is below the distance to it, ... *)
LEMMA PlusBelow ==
  ASSUME NEW l \in Fraction, NEW s \in Fraction, NEW x \in Fraction
  PROVE  AtMost(Plus(l, s), x) <=> AtMost(s, Minus(x, l))
<1> DEFINE ln == l.n
           ld == l.d
           sn == s.n
           sd == s.d
           xn == x.n
           xd == x.d
<1>1. ln \in Int /\ sn \in Int /\ xn \in Int /\ ld \in Nat \ {0} /\ sd \in Nat \ {0} /\ xd \in Nat \ {0}
  BY DEF Fraction
<1>2. AtMost(Plus(l, s), x) <=> (ln * sd + sn * ld) * xd <= xn * (ld * sd)
  BY Types, FracBelow DEF Plus
<1>3. AtMost(s, Minus(x, l)) <=> sn * (xd * ld) <= (xn * ld - ln * xd) * sd
  BY Types, FracAbove DEF Minus
<1> HIDE DEF ln, ld, sn, sd, xn, xd
<1>4. (ln * sd + sn * ld) * xd = ln * sd * xd + sn * ld * xd
  BY <1>1
<1>5. xn * (ld * sd) = xn * ld * sd
  BY <1>1
<1>6. sn * (xd * ld) = sn * ld * xd
  BY <1>1
<1>7. (xn * ld - ln * xd) * sd = xn * ld * sd - ln * sd * xd
  BY <1>1
<1>8. ln * sd * xd \in Int /\ sn * ld * xd \in Int /\ xn * ld * sd \in Int
  BY <1>1
<1> QED
  BY <1>2, <1>3, <1>4, <1>5, <1>6, <1>7, <1>8

(* ... and above one when it is above.                                        *)
LEMMA PlusAbove ==
  ASSUME NEW l \in Fraction, NEW s \in Fraction, NEW x \in Fraction
  PROVE  AtMost(x, Plus(l, s)) <=> AtMost(Minus(x, l), s)
<1> DEFINE ln == l.n
           ld == l.d
           sn == s.n
           sd == s.d
           xn == x.n
           xd == x.d
<1>1. ln \in Int /\ sn \in Int /\ xn \in Int /\ ld \in Nat \ {0} /\ sd \in Nat \ {0} /\ xd \in Nat \ {0}
  BY DEF Fraction
<1>2. AtMost(x, Plus(l, s)) <=> xn * (ld * sd) <= (ln * sd + sn * ld) * xd
  BY Types, FracAbove DEF Plus
<1>3. AtMost(Minus(x, l), s) <=> (xn * ld - ln * xd) * sd <= sn * (xd * ld)
  BY Types, FracBelow DEF Minus
<1> HIDE DEF ln, ld, sn, sd, xn, xd
<1>4. (ln * sd + sn * ld) * xd = ln * sd * xd + sn * ld * xd
  BY <1>1
<1>5. xn * (ld * sd) = xn * ld * sd
  BY <1>1
<1>6. sn * (xd * ld) = sn * ld * xd
  BY <1>1
<1>7. (xn * ld - ln * xd) * sd = xn * ld * sd - ln * sd * xd
  BY <1>1
<1>8. ln * sd * xd \in Int /\ sn * ld * xd \in Int /\ xn * ld * sd \in Int
  BY <1>1
<1> QED
  BY <1>2, <1>3, <1>4, <1>5, <1>6, <1>7, <1>8

LEMMA ZeroOne == Zero \in Fraction /\ One \in Fraction
BY DEF Zero, One, Whole, Fraction

(* ... and a difference has the sign of the comparison.                       *)
LEMMA MinusSign ==
  ASSUME NEW a \in Fraction, NEW b \in Fraction
  PROVE  /\ AtMost(Zero, Minus(b, a)) <=> AtMost(a, b)
         /\ AtMost(Minus(a, b), Zero) <=> AtMost(a, b)
<1>1. Zero \in Fraction /\ Zero.n = 0 /\ Zero.d = 1
  BY DEF Zero, Whole, Fraction
<1> DEFINE n == b.n * a.d - a.n * b.d
           d == b.d * a.d
           m == a.n * b.d - b.n * a.d
           e == a.d * b.d
<1>2. n \in Int /\ d \in Nat \ {0} /\ m \in Int /\ e \in Nat \ {0}
  BY Types
<1>3. AtMost(Zero, Minus(b, a)) <=> Zero.n * d <= n * Zero.d
  BY <1>1, <1>2, FracAbove DEF Minus
<1>4. AtMost(Minus(a, b), Zero) <=> m * Zero.d <= Zero.n * e
  BY <1>1, <1>2, FracBelow DEF Minus
<1>5. a.n * b.d \in Int /\ b.n * a.d \in Int
  BY DEF Fraction
<1> QED
  BY <1>1, <1>2, <1>3, <1>4, <1>5 DEF AtMost

(* The sign is that of the numerator.                                         *)
LEMMA SignZero ==
  ASSUME NEW a \in Fraction
  PROVE  (AtMost(Zero, a) <=> a.n >= 0) /\ (AtMost(a, Zero) <=> a.n <= 0)
BY DEF AtMost, Zero, Whole, Fraction

(* A part of a difference lies between nothing and the difference.            *)
LEMMA TimesPart ==
  ASSUME NEW p \in Fraction, p.n >= 0, p.n <= p.d, NEW r \in Fraction
  PROVE  /\ AtMost(Zero, r) => AtMost(Zero, Times(p, r)) /\ AtMost(Times(p, r), r)
         /\ AtMost(r, Zero) => AtMost(Times(p, r), Zero) /\ AtMost(r, Times(p, r))
<1> DEFINE pn == p.n
           pd == p.d
           rn == r.n
           rd == r.d
<1>1. pn \in Nat /\ pd \in Nat \ {0} /\ rn \in Int /\ rd \in Nat \ {0} /\ pn <= pd
  BY DEF Fraction
<1>2. pn * rn \in Int /\ pd * rd \in Nat \ {0}
  BY <1>1, PositiveProduct
<1>3. /\ AtMost(Zero, Times(p, r)) <=> 0 <= pn * rn
      /\ AtMost(Times(p, r), Zero) <=> pn * rn <= 0
  <2>1. Zero \in Fraction /\ Zero.n = 0 /\ Zero.d = 1
    BY DEF Zero, Whole, Fraction
  <2>2. /\ AtMost(Zero, Times(p, r)) <=> Zero.n * (pd * rd) <= (pn * rn) * Zero.d
        /\ AtMost(Times(p, r), Zero) <=> (pn * rn) * Zero.d <= Zero.n * (pd * rd)
    BY <1>2, <2>1, FracAbove, FracBelow DEF Times
  <2> HIDE DEF pn, pd, rn, rd
  <2> QED
    BY <1>2, <2>1, <2>2
<1>4. /\ AtMost(Times(p, r), r) <=> (pn * rn) * rd <= rn * (pd * rd)
      /\ AtMost(r, Times(p, r)) <=> rn * (pd * rd) <= (pn * rn) * rd
  BY <1>2, FracAbove, FracBelow DEF Times
<1>5. (AtMost(Zero, r) <=> rn >= 0) /\ (AtMost(r, Zero) <=> rn <= 0)
  BY SignZero
<1> HIDE DEF pn, pd, rn, rd
<1> DEFINE w == rn * rd
<1>6. w \in Int /\ (pn * rn) * rd = pn * w /\ rn * (pd * rd) = pd * w
  BY <1>1
<1>7. ASSUME rn >= 0 PROVE pn * rn >= 0 /\ pn * w <= pd * w
  <2>1. rn \in Nat /\ w \in Nat
    BY <1>1, <1>7
  <2> HIDE DEF w
  <2>2. pn * w <= pd * w
    BY <1>1, <2>1, ScaleNat
  <2> QED
    BY <1>1, <2>1, <2>2
<1>8. ASSUME rn <= 0 PROVE pn * rn <= 0 /\ pd * w <= pn * w
  <2>1. -rn \in Nat /\ (-rn) * rd \in Nat /\ (-rn) * rd = -w
    BY <1>1, <1>8
  <2>2. pn * (-rn) \in Nat /\ pn * (-rn) = -(pn * rn)
    BY <1>1, <2>1
  <2> HIDE DEF w
  <2>3. pn * (-w) <= pd * (-w)
    BY <1>1, <2>1, ScaleNat
  <2>4. pn * (-w) = -(pn * w) /\ pd * (-w) = -(pd * w) /\ pn * w \in Int /\ pd * w \in Int
    BY <1>1, <1>6
  <2>5. pd * w <= pn * w
    BY <2>3, <2>4
  <2>6. pn * rn \in Int
    BY <1>1
  <2> QED
    BY <2>2, <2>5, <2>6
<1> QED
  BY <1>3, <1>4, <1>5, <1>6, <1>7, <1>8

(* One step of the smoother leaves the level between where it was and what it  *)
(* takes in.                                                                  *)
LEMMA SmoothedBetween ==
  ASSUME NEW p \in Fraction, p.n >= 0, p.n <= p.d, NEW l \in Fraction, NEW x \in Fraction
  PROVE  LET m == Plus(l, Times(p, Minus(x, l))) IN
           /\ m \in Fraction
           /\ AtMost(l, x) => AtMost(l, m) /\ AtMost(m, x)
           /\ AtMost(x, l) => AtMost(x, m) /\ AtMost(m, l)
<1> DEFINE r == Minus(x, l)
           s == Times(p, r)
           o == Minus(l, l)
<1>1. r \in Fraction /\ o \in Fraction /\ Zero \in Fraction
  BY Types, ZeroOne
<1>2. s \in Fraction
  BY <1>1, Types
<1>3. Plus(l, s) \in Fraction
  BY <1>2, Types
<1>4. AtMost(Zero, o) /\ AtMost(o, Zero)
  BY AtMostTotal, MinusSign
<1>5. (AtMost(Zero, r) <=> AtMost(l, x)) /\ (AtMost(r, Zero) <=> AtMost(x, l))
  BY MinusSign
<1>6. /\ AtMost(l, Plus(l, s)) <=> AtMost(o, s)
      /\ AtMost(Plus(l, s), l) <=> AtMost(s, o)
      /\ AtMost(x, Plus(l, s)) <=> AtMost(r, s)
      /\ AtMost(Plus(l, s), x) <=> AtMost(s, r)
  BY <1>2, PlusBelow, PlusAbove
<1>7. /\ AtMost(Zero, r) => AtMost(Zero, s) /\ AtMost(s, r)
      /\ AtMost(r, Zero) => AtMost(s, Zero) /\ AtMost(r, s)
  BY <1>1, TimesPart
<1> HIDE DEF r, s, o
<1>8. (AtMost(Zero, s) => AtMost(o, s)) /\ (AtMost(s, Zero) => AtMost(s, o))
  BY <1>1, <1>2, <1>4, AtMostTrans
<1> QED
  BY <1>3, <1>5, <1>6, <1>7, <1>8 DEF r, s

(* A square is not negative; squares are compared by cross multiplication.    *)
LEMMA SquareOf ==
  ASSUME NEW a \in Fraction, NEW b \in Fraction
  PROVE  /\ AtMost(Zero, Times(a, a))
         /\ AtMost(Times(a, a), Times(b, b)) <=> (a.n * a.n) * (b.d * b.d) <= (b.n * b.n) * (a.d * a.d)
<1> DEFINE an == a.n
           ad == a.d
           bn == b.n
           bd == b.d
           q == Times(b, b)
<1>1. an \in Int /\ bn \in Int /\ ad \in Nat \ {0} /\ bd \in Nat \ {0}
  BY DEF Fraction
<1>2. an * an \in Nat /\ bn * bn \in Nat /\ ad * ad \in Nat \ {0} /\ bd * bd \in Nat \ {0}
  <2>1. \A z \in Int : z * z \in Nat
    <3> SUFFICES ASSUME NEW z \in Int PROVE z * z \in Nat
      OBVIOUS
    <3>1. CASE z >= 0
      BY <3>1
    <3>2. CASE z < 0
      <4>1. -z \in Nat /\ (-z) * (-z) = z * z
        BY <3>2
      <4> QED
        BY <4>1
    <3> QED
      BY <3>1, <3>2
  <2> QED
    BY <1>1, <2>1, PositiveProduct
<1>3. q \in Fraction
  BY Types
<1>4. AtMost(Times(a, a), q) <=> (an * an) * q.d <= q.n * (ad * ad)
  BY <1>2, <1>3, FracBelow DEF Times
<1>5. q.n * (bd * bd) = (bn * bn) * q.d /\ q.d \in Nat \ {0} /\ q.n \in Int
  <2>1. bn * bn \in Int /\ bd * bd \in Nat \ {0} /\ q = Frac(bn * bn, bd * bd)
    BY <1>2 DEF Times
  <2> HIDE DEF q
  <2>2. q.n * (bd * bd) = (bn * bn) * q.d
    BY <2>1, FracValue
  <2> QED
    BY <1>3, <2>2 DEF Fraction
<1>6. AtMost(Zero, Times(a, a))
  <2>1. Zero \in Fraction /\ Zero.n = 0 /\ Zero.d = 1
    BY DEF Zero, Whole, Fraction
  <2>2. AtMost(Zero, Times(a, a)) <=> Zero.n * (ad * ad) <= (an * an) * Zero.d
    BY <1>2, <2>1, FracAbove DEF Times
  <2> HIDE DEF an, ad
  <2> QED
    BY <1>2, <2>1, <2>2
<1> DEFINE A == an * an
           AD == ad * ad
           B == bn * bn
           BD == bd * bd
           qn == q.n
           qd == q.d
<1>7. A \in Nat /\ AD \in Nat \ {0} /\ B \in Nat /\ BD \in Nat \ {0} /\ qn \in Int /\ qd \in Nat \ {0} /\ qn * BD = B * qd
  BY <1>2, <1>5
<1>8. AtMost(Times(a, a), q) <=> A * qd <= qn * AD
  BY <1>4
<1> HIDE DEF A, AD, B, BD, qn, qd, q
<1>9. A * qd <= qn * AD <=> (A * qd) * BD <= (qn * AD) * BD
  BY <1>7, Scale
<1>10. (A * qd) * BD = (A * BD) * qd /\ (qn * AD) * BD = (B * AD) * qd
  <2>1. (qn * AD) * BD = (qn * BD) * AD /\ (B * AD) * qd = (B * qd) * AD
    BY <1>7
  <2> QED
    BY <1>7, <2>1
<1>11. A * BD <= B * AD <=> (A * BD) * qd <= (B * AD) * qd
  BY <1>7, Scale
<1>12. AtMost(Times(a, a), q) <=> A * BD <= B * AD
  BY <1>8, <1>9, <1>10, <1>11
<1> QED
  BY <1>6, <1>12 DEF A, AD, B, BD, q

(* A number between two others is not further from zero than one of them.     *)
LEMMA SquareBetween ==
  ASSUME NEW a \in Fraction, NEW r \in Fraction, NEW b \in Fraction, AtMost(a, r), AtMost(r, b)
  PROVE  AtMost(Times(r, r), Times(a, a)) \/ AtMost(Times(r, r), Times(b, b))
<1>1. ASSUME NEW u \in Int, NEW v \in Int, 0 <= u, u <= v PROVE u * u <= v * v
  <2>1. u * u <= v * u /\ u * v <= v * v
    BY <1>1, ScaleNat
  <2> QED
    BY <1>1, <2>1
<1>2. a.n \in Int /\ r.n \in Int /\ b.n \in Int /\ a.d \in Nat \ {0} /\ r.d \in Nat \ {0} /\ b.d \in Nat \ {0}
  BY DEF Fraction
<1>3. ASSUME NEW x \in Int, NEW y \in Int PROVE (x * y) * (x * y) = (x * x) * (y * y)
  BY <1>3
<1>4. CASE r.n >= 0
  <2>1. r.n * b.d <= b.n * r.d
    BY DEF AtMost
  <2>2. r.n * b.d >= 0 /\ r.n * b.d \in Int /\ b.n * r.d \in Int
    BY <1>2, <1>4
  <2>3. (r.n * b.d) * (r.n * b.d) <= (b.n * r.d) * (b.n * r.d)
    BY <1>1, <2>1, <2>2
  <2>4. (r.n * r.n) * (b.d * b.d) <= (b.n * b.n) * (r.d * r.d)
    BY <1>2, <1>3, <2>3
  <2> QED
    BY <2>4, SquareOf
<1>5. CASE r.n < 0
  <2>1. a.n * r.d <= r.n * a.d
    BY DEF AtMost
  <2>2. r.n * a.d <= 0 /\ r.n * a.d \in Int /\ a.n * r.d \in Int
    <3>1. -r.n \in Nat /\ (-r.n) * a.d \in Nat /\ (-r.n) * a.d = -(r.n * a.d)
      BY <1>2, <1>5
    <3> QED
      BY <1>2, <3>1
  <2> DEFINE u == r.n * a.d
             v == a.n * r.d
  <2>3. u \in Int /\ v \in Int /\ v <= u /\ u <= 0
    BY <2>1, <2>2
  <2>4. u * u <= v * v
    <3> HIDE DEF u, v
    <3>1. (-u) * (-u) <= (-v) * (-v)
      BY <1>1, <2>3
    <3>2. (-u) * (-u) = u * u /\ (-v) * (-v) = v * v
      BY <2>3
    <3> QED
      BY <3>1, <3>2
  <2>5. (r.n * r.n) * (a.d * a.d) <= (a.n * a.n) * (r.d * r.d)
    BY <1>2, <1>3, <2>4
  <2> QED
    BY <2>5, SquareOf
<1> QED
  BY <1>2, <1>4, <1>5

(* Two fractions not yet in lowest terms.                                     *)
LEMMA FracFrac ==
  ASSUME NEW n \in Int, NEW d \in Nat \ {0}, NEW m \in Int, NEW e \in Nat \ {0}
  PROVE  AtMost(Frac(n, d), Frac(m, e)) <=> n * e <= m * d
<1> DEFINE f == Frac(m, e)
           fn == f.n
           fd == f.d
<1>1. f \in Fraction /\ fn * e = m * fd
  BY FracValue
<1>2. fn \in Int /\ fd \in Nat \ {0}
  BY <1>1 DEF Fraction
<1>3. AtMost(Frac(n, d), f) <=> n * fd <= fn * d
  BY <1>1, FracBelow
<1> HIDE DEF f, fn, fd
<1>4. n * fd <= fn * d <=> (n * fd) * e <= (fn * d) * e
  BY <1>2, Scale
<1>5. (n * fd) * e = (n * e) * fd /\ (fn * d) * e = (m * d) * fd
  <2>1. (fn * d) * e = (fn * e) * d /\ (m * d) * fd = (m * fd) * d
    BY <1>2
  <2> QED
    BY <1>1, <1>2, <2>1
<1>6. n * e <= m * d <=> (n * e) * fd <= (m * d) * fd
  BY <1>2, Scale
<1> QED
  BY <1>3, <1>4, <1>5, <1>6 DEF f

(* Products and sums grow with what they are made of.                         *)
LEMMA TimesGrows ==
  ASSUME NEW c \in Fraction, c.n >= 0, NEW a \in Fraction, NEW b \in Fraction, AtMost(a, b)
  PROVE  AtMost(Times(c, a), Times(c, b))
<1> DEFINE cn == c.n
           cd == c.d
           an == a.n
           ad == a.d
           bn == b.n
           bd == b.d
<1>1. cn \in Nat /\ an \in Int /\ bn \in Int /\ cd \in Nat \ {0} /\ ad \in Nat \ {0} /\ bd \in Nat \ {0}
  BY DEF Fraction
<1>2. an * bd <= bn * ad
  BY DEF AtMost
<1>3. AtMost(Times(c, a), Times(c, b)) <=> (cn * an) * (cd * bd) <= (cn * bn) * (cd * ad)
  BY Types, FracFrac DEF Times
<1> HIDE DEF cn, cd, an, ad, bn, bd
<1>4. (cn * an) * (cd * bd) = (an * bd) * (cn * cd) /\ (cn * bn) * (cd * ad) = (bn * ad) * (cn * cd)
  BY <1>1
<1>5. (an * bd) * (cn * cd) <= (bn * ad) * (cn * cd)
  <2>1. an * bd \in Int /\ bn * ad \in Int /\ cn * cd \in Nat
    BY <1>1
  <2> QED
    BY <1>2, <2>1, ScaleNat
<1> QED
  BY <1>3, <1>4, <1>5

LEMMA PlusGrows ==
  ASSUME NEW a \in Fraction, NEW b \in Fraction, AtMost(a, b),
         NEW s \in Fraction, NEW t \in Fraction, AtMost(s, t)
  PROVE  AtMost(Plus(a, s), Plus(b, t))
<1> DEFINE an == a.n
           ad == a.d
           bn == b.n
           bd == b.d
           sn == s.n
           sd == s.d
           tn == t.n
           td == t.d
<1>1. /\ an \in Int /\ bn \in Int /\ sn \in Int /\ tn \in Int
      /\ ad \in Nat \ {0} /\ bd \in Nat \ {0} /\ sd \in Nat \ {0} /\ td \in Nat \ {0}
  BY DEF Fraction
<1>2. an * bd <= bn * ad /\ sn * td <= tn * sd
  BY DEF AtMost
<1>3. AtMost(Plus(a, s), Plus(b, t)) <=>
        (an * sd + sn * ad) * (bd * td) <= (bn * td + tn * bd) * (ad * sd)
  BY Types, FracFrac DEF Plus
<1> HIDE DEF an, ad, bn, bd, sn, sd, tn, td
<1>4. /\ (an * sd + sn * ad) * (bd * td) = (an * bd) * (sd * td) + (sn * td) * (ad * bd)
      /\ (bn * td + tn * bd) * (ad * sd) = (bn * ad) * (sd * td) + (tn * sd) * (ad * bd)
  BY <1>1
<1>5. /\ (an * bd) * (sd * td) <= (bn * ad) * (sd * td)
      /\ (sn * td) * (ad * bd) <= (tn * sd) * (ad * bd)
  <2>1. /\ an * bd \in Int /\ bn * ad \in Int /\ sd * td \in Nat
        /\ sn * td \in Int /\ tn * sd \in Int /\ ad * bd \in Nat
    BY <1>1
  <2> QED
    BY <1>2, <2>1, ScaleNat
<1>6. /\ (an * bd) * (sd * td) \in Int /\ (bn * ad) * (sd * td) \in Int
      /\ (sn * td) * (ad * bd) \in Int /\ (tn * sd) * (ad * bd) \in Int
  BY <1>1
<1> QED
  BY <1>3, <1>4, <1>5, <1>6

(* 1 - p of 1 + p times a bound is below the bound.                           *)
LEMMA DampedBelow ==
  ASSUME NEW p \in Fraction, p.n >= 0, p.n <= p.d, NEW b \in Fraction, AtMost(Zero, b)
  PROVE  AtMost(Times(Minus(One, p), Plus(b, Times(p, b))), b)
<1> DEFINE c == Minus(One, p)
           t == Times(p, b)
           y == Plus(b, t)
           pn == p.n
           pd == p.d
           bn == b.n
           bd == b.d
           cn == c.n
           cd == c.d
           tn == t.n
           td == t.d
           yn == y.n
           yd == y.d
<1>1. c \in Fraction /\ t \in Fraction
  BY ZeroOne, Types
<1>2. y \in Fraction
  BY <1>1, Types
<1>3. pn \in Nat /\ pd \in Nat \ {0} /\ pn <= pd /\ bn \in Nat /\ bd \in Nat \ {0}
  BY SignZero DEF Fraction
<1>4. /\ cn \in Int /\ cd \in Nat \ {0} /\ tn \in Int /\ td \in Nat \ {0}
      /\ yn \in Int /\ yd \in Nat \ {0}
  BY <1>1, <1>2 DEF Fraction
<1>5. cn * pd = (pd - pn) * cd
  <2>1. One.n = 1 /\ One.d = 1
    BY DEF One, Whole
  <2>2. 1 * pd - pn * 1 = pd - pn /\ 1 * pd = pd
    BY <1>3
  <2>3. c = Frac(pd - pn, pd)
    BY <2>1, <2>2 DEF Minus
  <2>4. pd - pn \in Int
    BY <1>3
  <2> HIDE DEF c, pn, pd
  <2> QED
    BY <1>3, <2>3, <2>4, FracValue DEF cn, cd
<1>6. tn * (pd * bd) = (pn * bn) * td
  BY Types, FracValue DEF Times
<1>7. yn * (bd * td) = (bn * td + tn * bd) * yd
  <2>1. bn * td + tn * bd \in Int /\ bd * td \in Nat \ {0} /\ y = Frac(bn * td + tn * bd, bd * td)
    BY <1>1, Types DEF Plus
  <2> HIDE DEF y, t, bn, bd
  <2> QED
    BY <2>1, FracValue
<1>8. AtMost(Times(c, y), b) <=> (cn * yn) * bd <= bn * (cd * yd)
  BY <1>1, <1>2, Types, FracBelow DEF Times
<1> HIDE DEF c, t, y, pn, pd, bn, bd, cn, cd, tn, td, yn, yd
<1>9. yn * (bd * pd) = (bn * (pd + pn)) * yd
  <2>1. (yn * (bd * td)) * pd = ((bn * td + tn * bd) * yd) * pd
    BY <1>7
  <2>2. (yn * (bd * td)) * pd = (yn * (bd * pd)) * td
    BY <1>3, <1>4
  <2>3. ((bn * td + tn * bd) * yd) * pd = (bn * td) * pd * yd + (tn * (pd * bd)) * yd
    BY <1>3, <1>4
  <2>4. (bn * td) * pd * yd + ((pn * bn) * td) * yd = ((bn * (pd + pn)) * yd) * td
    BY <1>3, <1>4
  <2>5. (yn * (bd * pd)) * td = ((bn * (pd + pn)) * yd) * td
    BY <1>6, <2>1, <2>2, <2>3, <2>4
  <2> DEFINE u == yn * (bd * pd)
             v == (bn * (pd + pn)) * yd
  <2>6. u \in Int /\ v \in Int
    BY <1>3, <1>4
  <2>7. u * td = v * td
    BY <2>5
  <2> HIDE DEF u, v
  <2>8. u <= v /\ v <= u
    BY <1>4, <2>6, <2>7, Scale
  <2> QED
    BY <2>6, <2>8 DEF u, v
<1> DEFINE k == bn * cd * yd
<1>10. k \in Nat
  BY <1>3, <1>4
<1>11. (((cn * yn) * bd) * pd) * pd = k * ((pd - pn) * (pd + pn))
  <2>1. (((cn * yn) * bd) * pd) * pd = (cn * pd) * (yn * (bd * pd))
    BY <1>3, <1>4
  <2>2. ((pd - pn) * cd) * ((bn * (pd + pn)) * yd) = k * ((pd - pn) * (pd + pn))
    BY <1>3, <1>4
  <2> QED
    BY <1>5, <1>9, <2>1, <2>2
<1>12. ((bn * (cd * yd)) * pd) * pd = k * (pd * pd)
  BY <1>3, <1>4
<1>13. (pd - pn) * (pd + pn) \in Int /\ pd * pd \in Int /\ (pd - pn) * (pd + pn) <= pd * pd
  <2>1. (pd - pn) * (pd + pn) = pd * pd - pn * pn /\ pn * pn \in Nat /\ pd * pd \in Nat
    BY <1>3
  <2> QED
    BY <2>1
<1> HIDE DEF k
<1>14. k * ((pd - pn) * (pd + pn)) <= k * (pd * pd)
  BY <1>10, <1>13, ScaleNat, Product
<1> DEFINE u == (cn * yn) * bd
           v == bn * (cd * yd)
<1>15. u \in Int /\ v \in Int
  BY <1>3, <1>4
<1>16. (u * pd) * pd <= (v * pd) * pd
  BY <1>11, <1>12, <1>14
<1> HIDE DEF u, v
<1>17. u * pd <= v * pd
  <2>1. u * pd \in Int /\ v * pd \in Int
    BY <1>3, <1>15
  <2> QED
    BY <1>3, <1>16, <2>1, Scale
<1>18. u <= v
  BY <1>3, <1>15, <1>17, Scale
<1> QED
  BY <1>8, <1>18 DEF u, v, c, y, t

(* The smoothed variance stays below what bounds it and the square.           *)
(* Zero and what is whole, in sums and products.                              *)
LEMMA TimesZero ==
  ASSUME NEW c \in Fraction
  PROVE  Times(c, Zero) = Zero
<1>1. c.n \in Int /\ c.d \in Nat \ {0} /\ Zero.n = 0 /\ Zero.d = 1
  BY DEF Fraction, Zero, Whole
<1>2. c.n * 0 = 0 * c.d /\ c.d * 1 = c.d
  BY <1>1
<1>3. Frac(0 * c.d, c.d) = Whole(0)
  BY <1>1, FracWhole
<1> QED
  BY <1>1, <1>2, <1>3 DEF Times, Zero

LEMMA PlusZero ==
  ASSUME NEW u \in Nat
  PROVE  Plus(Whole(u), Zero) = Whole(u)
<1>1. u * 1 + 0 * 1 = u * 1 /\ 1 * 1 = 1
  OBVIOUS
<1>2. Frac(u * 1, 1) = Whole(u)
  BY FracWhole
<1> QED
  BY <1>1, <1>2 DEF Plus, Zero, Whole

LEMMA MinusItself ==
  ASSUME NEW u \in Nat
  PROVE  Minus(Whole(u), Whole(u)) = Zero
<1>1. u * 1 - u * 1 = 0 * 1 /\ 1 * 1 = 1
  OBVIOUS
<1>2. Frac(0 * 1, 1) = Whole(0)
  BY FracWhole
<1> QED
  BY <1>1, <1>2 DEF Minus, Zero, Whole

LEMMA OverOne ==
  ASSUME NEW u \in Nat
  PROVE  Over(Whole(u), One) = Whole(u)
<1>1. 1 * 1 = 1
  OBVIOUS
<1>2. Frac(u * 1, 1) = Whole(u)
  BY FracWhole
<1> QED
  BY <1>1, <1>2 DEF Over, One, Whole

LEMMA DampedStep ==
  ASSUME NEW p \in Fraction, p.n >= 0, p.n <= p.d,
         NEW v \in Fraction, NEW q \in Fraction, NEW b \in Fraction,
         AtMost(Zero, v), AtMost(Zero, q), AtMost(v, b), AtMost(q, b)
  PROVE  LET w == Times(Minus(One, p), Plus(v, Times(p, q))) IN
           w \in Fraction /\ AtMost(Zero, w) /\ AtMost(w, b)
<1> DEFINE c == Minus(One, p)
           s == Plus(v, Times(p, q))
           y == Plus(b, Times(p, b))
<1>0. Zero \in Fraction /\ One \in Fraction
  BY ZeroOne
<1>1. c \in Fraction /\ Times(p, q) \in Fraction /\ Times(p, b) \in Fraction
  BY <1>0, Types
<1>2. s \in Fraction /\ y \in Fraction
  BY <1>1, Types
<1>3. Times(c, s) \in Fraction /\ Times(c, y) \in Fraction
  BY <1>1, <1>2, Types
<1>4. c.n >= 0
  <2>1. AtMost(p, One)
    BY DEF AtMost, One, Whole, Fraction
  <2>2. AtMost(Zero, c)
    BY <1>0, <2>1, MinusSign
  <2> QED
    BY <1>1, <2>2, SignZero
<1>5. AtMost(Times(p, q), Times(p, b))
  BY TimesGrows
<1>6. AtMost(s, y)
  BY <1>1, <1>5, PlusGrows
<1>7. AtMost(Zero, b)
  BY <1>0, AtMostTrans
<1>8. AtMost(Times(c, y), b)
  BY <1>7, DampedBelow
<1>9. AtMost(Times(c, s), Times(c, y))
  <2> HIDE DEF c, s, y
  <2> QED
    BY <1>1, <1>2, <1>4, <1>6, TimesGrows
<1>10. AtMost(Zero, s)
  <2> DEFINE z == Plus(Zero, Zero)
  <2>1. AtMost(Zero, Times(p, q))
    BY TimesPart
  <2>2. AtMost(z, s)
    BY <1>0, <1>1, <2>1, PlusGrows
  <2>3. z = Zero
    BY PlusZero DEF Zero
  <2> QED
    BY <2>2, <2>3
<1>11. AtMost(Zero, Times(c, s))
  <2> DEFINE z == Times(c, Zero)
  <2>1. AtMost(z, Times(c, s))
    <3> HIDE DEF c, s
    <3> QED
      BY <1>0, <1>1, <1>2, <1>4, <1>10, TimesGrows
  <2>2. z = Zero
    BY <1>1, TimesZero
  <2> QED
    BY <2>1, <2>2
<1>12. AtMost(Times(c, s), b)
  BY <1>3, <1>8, <1>9, AtMostTrans
<1> QED
  BY <1>3, <1>11, <1>12

-------------------------------------------------------------------------------
(* Extremes, sums and means of what was sold.                                 *)

(* A finite set of integers has a greatest and a least member.                *)
LEMMA Extremes ==
  ASSUME NEW S, S \subseteq Int, IsFiniteSet(S), S # {}
  PROVE  /\ Max(S) \in S /\ \A x \in S : x <= Max(S)
         /\ Min(S) \in S /\ \A x \in S : Min(S) <= x
<1> DEFINE Bounded(s) == (\E m \in s : \A x \in s : x <= m) /\ (\E m \in s : \A x \in s : m <= x)
           T == {n \in Nat : \A s \in SUBSET S : s # {} /\ Cardinality(s) <= n => Bounded(s)}
<1>0. \A s \in SUBSET S : IsFiniteSet(s) /\ Cardinality(s) \in Nat
  BY FS_Subset, FS_CardinalityType
<1>1. 0 \in T
  <2>1. \A s \in SUBSET S : Cardinality(s) <= 0 => s = {}
    BY <1>0, FS_EmptySet
  <2> HIDE DEF Bounded
  <2> QED
    BY <2>1
<1>2. ASSUME NEW n \in Nat, n \in T PROVE n + 1 \in T
  <2> HIDE DEF Bounded
  <2>0. \A s \in SUBSET S : s # {} /\ Cardinality(s) <= n => Bounded(s)
    BY <1>2
  <2>1. ASSUME NEW s \in SUBSET S, s # {}, Cardinality(s) <= n + 1 PROVE Bounded(s)
    <3>1. PICK x \in s : TRUE
      BY <2>1
    <3> DEFINE r == s \ {x}
    <3>2. r \in SUBSET S /\ Cardinality(r) <= n
      BY <1>0, <2>1, <3>1, FS_RemoveElement
    <3>3. x \in Int /\ s \subseteq Int /\ s = r \cup {x}
      BY <3>1
    <3> HIDE DEF r
    <3>4. CASE r = {}
      BY <3>3, <3>4 DEF Bounded
    <3>5. CASE r # {}
      <4>1. Bounded(r)
        BY <2>0, <3>2, <3>5
      <4>2. PICK m \in r : \A y \in r : y <= m
        BY <4>1 DEF Bounded
      <4>3. PICK k \in r : \A y \in r : k <= y
        BY <4>1 DEF Bounded
      <4>4. \E t \in s : \A y \in s : y <= t
        <5>1. CASE x <= m
          BY <3>3, <4>2, <5>1
        <5>2. CASE ~(x <= m)
          <6>1. \A y \in s : y <= x
            BY <3>3, <4>2, <5>2
          <6> QED
            BY <3>1, <6>1
        <5> QED
          BY <5>1, <5>2
      <4>5. \E t \in s : \A y \in s : t <= y
        <5>1. CASE k <= x
          BY <3>3, <4>3, <5>1
        <5>2. CASE ~(k <= x)
          <6>1. \A y \in s : x <= y
            BY <3>3, <4>3, <5>2
          <6> QED
            BY <3>1, <6>1
        <5> QED
          BY <5>1, <5>2
      <4> QED
        BY <4>4, <4>5 DEF Bounded
    <3> QED
      BY <3>4, <3>5
  <2> QED
    BY <2>1
<1>3. Cardinality(S) \in T
  <2> HIDE DEF T
  <2> QED
    BY <1>0, <1>1, <1>2, Induction
<1>4. Bounded(S)
  BY <1>0, <1>3
<1>5. PICK m \in S : \A x \in S : x <= m
  BY <1>4
<1>6. PICK k \in S : \A x \in S : k <= x
  BY <1>4
<1>7. Max(S) \in S /\ \A x \in S : x <= Max(S)
  <2>1. \A x \in S : m >= x
    BY <1>5
  <2>2. Max(S) \in S /\ \A x \in S : Max(S) >= x
    BY <1>5, <2>1 DEF Max
  <2> QED
    BY <2>2
<1>8. Min(S) \in S /\ \A x \in S : Min(S) <= x
  BY <1>6 DEF Min
<1> QED
  BY <1>7, <1>8

(* A sum of natural numbers is one, and of equal ones a product.              *)
LEMMA SumOf ==
  ASSUME NEW f, NEW S, IsFiniteSet(S), \A s \in S : f[s] \in Nat
  PROVE  /\ SumFunctionOnSet(f, S) \in Nat
         /\ \A u \in Nat : (\A s \in S : f[s] = u) => SumFunctionOnSet(f, S) = u * Cardinality(S)
<1>1. PICK g : SumsOver(g, f, S) /\ SumFunctionOnSet(f, S) = g[S]
  BY SumIsRecursion
<1> DEFINE Right(s) == /\ g[s] \in Nat
                       /\ \A u \in Nat : (\A x \in S : f[x] = u) => g[s] = u * Cardinality(s)
           T == {n \in Nat : \A s \in SUBSET S : Cardinality(s) <= n => Right(s)}
<1>0. \A s \in SUBSET S : IsFiniteSet(s) /\ Cardinality(s) \in Nat
  BY FS_Subset, FS_CardinalityType
<1>2. ASSUME NEW s \in SUBSET S, s # {}
      PROVE  g[s] = f[Pick(s)] + g[s \ {Pick(s)}] /\ Pick(s) \in s
  BY <1>1, <1>2, Picked DEF SumsOver, Recursion
<1>3. Right({})
  <2>1. g[{}] = 0 /\ Cardinality({}) = 0 /\ \A u \in Nat : u * 0 = 0
    BY <1>1, FS_EmptySet DEF SumsOver, Recursion
  <2> QED
    BY <2>1
<1>4. 0 \in T
  <2>1. \A s \in SUBSET S : Cardinality(s) <= 0 => s = {}
    BY <1>0, FS_EmptySet
  <2> HIDE DEF Right
  <2> QED
    BY <1>3, <2>1
<1>5. ASSUME NEW n \in Nat, n \in T PROVE n + 1 \in T
  <2> HIDE DEF Right
  <2>0. \A s \in SUBSET S : Cardinality(s) <= n => Right(s)
    BY <1>5
  <2>1. ASSUME NEW s \in SUBSET S, s # {}, Cardinality(s) <= n + 1 PROVE Right(s)
    <3> DEFINE x == Pick(s)
               r == s \ {x}
    <3>1. g[s] = f[x] + g[r] /\ x \in s /\ f[x] \in Nat
      BY <1>2, <2>1
    <3>2. r \in SUBSET S /\ Cardinality(r) = Cardinality(s) - 1 /\ Cardinality(r) \in Nat
      BY <1>0, <3>1, FS_RemoveElement
    <3> HIDE DEF x, r
    <3>3. Right(r)
      BY <1>0, <2>0, <2>1, <3>2
    <3>4. g[r] \in Nat /\ \A u \in Nat : (\A y \in S : f[y] = u) => g[r] = u * Cardinality(r)
      BY <3>3 DEF Right
    <3>5. ASSUME NEW u \in Nat, \A y \in S : f[y] = u PROVE g[s] = u * Cardinality(s)
      <4>1. f[x] = u /\ g[r] = u * Cardinality(r)
        BY <3>1, <3>4, <3>5
      <4>2. \A c \in Int : u + u * (c - 1) = u * c
        OBVIOUS
      <4> QED
        BY <1>0, <3>1, <3>2, <4>1, <4>2
    <3> QED
      BY <3>1, <3>4, <3>5 DEF Right
  <2> QED
    BY <1>3, <2>1
<1>6. Cardinality(S) \in T
  <2> HIDE DEF T
  <2> QED
    BY <1>0, <1>4, <1>5, Induction
<1>7. Right(S)
  BY <1>0, <1>6
<1> QED
  BY <1>1, <1>7

\* The rows have their columns.
Table == sales \in [Rows -> [units : Units, stockout : BOOLEAN]]

\* Observations to estimate from.
Observed == Table /\ days \subseteq Rows /\ IsFiniteSet(days) /\ days # {}

LEMMA TotalOf ==
  ASSUME Observed, NEW S, S \subseteq days
  PROVE  /\ IsFiniteSet(S) /\ Cardinality(S) \in Nat /\ Total(S) \in Nat
         /\ \A u \in Nat : (\A d \in days : sales[d].units = u) => Total(S) = u * Cardinality(S)
<1> DEFINE f == [d \in S |-> sales[d].units]
<1>1. IsFiniteSet(S) /\ Cardinality(S) \in Nat
  BY FS_Subset, FS_CardinalityType DEF Observed
<1>2. \A d \in S : f[d] = sales[d].units /\ f[d] \in Nat
  BY DemandAssumption DEF Observed, Table
<1>3. Total(S) = SumFunctionOnSet(f, S)
  BY DEF Total, SumFunction
<1> HIDE DEF f
<1>4. /\ SumFunctionOnSet(f, S) \in Nat
      /\ \A u \in Nat : (\A s \in S : f[s] = u) => SumFunctionOnSet(f, S) = u * Cardinality(S)
  BY <1>1, <1>2, SumOf
<1> QED
  BY <1>1, <1>2, <1>3, <1>4

Half == Frac(1, 2)

LEMMA HalfIs == Half \in Fraction /\ \A x \in Fraction : AtMost(Half, x) <=> x.d <= x.n * 2
<1>1. 1 \in Int /\ 2 \in Nat \ {0}
  OBVIOUS
<1>2. Half \in Fraction
  BY <1>1, FracValue DEF Half
<1>3. ASSUME NEW x \in Fraction PROVE AtMost(Half, x) <=> x.d <= x.n * 2
  <2>1. AtMost(Half, x) <=> 1 * x.d <= x.n * 2
    BY <1>1, FracBelow DEF Half
  <2> QED
    BY <2>1 DEF Fraction
<1> QED
  BY <1>2, <1>3

(* computeDayOfWeekFactors: the clamp keeps a factor between a half and two,  *)
(* and when the same was sold every day there is nothing to correct.          *)
LEMMA FactorBounds ==
  ASSUME Observed, NEW w
  PROVE  /\ Factor(w) \in Fraction /\ Factor(w).n > 0
         /\ AtMost(Half, Factor(w)) /\ AtMost(Factor(w), Whole(2))
         /\ \A u \in Nat : (\A d \in days : sales[d].units = u) => Factor(w) = One
<1> DEFINE seen == {d \in days : Weekday(d) = w}
           ratio == Over(Mean(seen), Mean(days))
           lifted == Greatest(Half, ratio)
           clamped == Least(Whole(2), lifted)
<1>1. Factor(w) = IF Cardinality(seen) < 2 \/ Total(days) = 0 THEN One ELSE clamped
  BY DEF Factor, Half
<1>2. /\ Cardinality(seen) \in Nat /\ Total(seen) \in Nat
      /\ Cardinality(days) \in Nat \ {0} /\ Total(days) \in Nat
      /\ \A u \in Nat : (\A d \in days : sales[d].units = u) =>
           Total(seen) = u * Cardinality(seen) /\ Total(days) = u * Cardinality(days)
  BY TotalOf, FS_EmptySet DEF Observed
<1>3. /\ One \in Fraction /\ One.n > 0 /\ AtMost(Half, One)
      /\ Whole(2) \in Fraction /\ Whole(2).n > 0 /\ AtMost(Half, Whole(2))
      /\ AtMost(One, Whole(2)) /\ AtMost(Whole(2), Whole(2))
  <2>1. /\ One \in Fraction /\ One.n = 1 /\ One.d = 1
        /\ Whole(2) \in Fraction /\ Whole(2).n = 2 /\ Whole(2).d = 1
    BY DEF One, Whole, Fraction
  <2>2. AtMost(One, Whole(2)) /\ AtMost(Whole(2), Whole(2))
    BY <2>1 DEF AtMost
  <2> QED
    BY <2>1, <2>2, HalfIs
<1>4. CASE Cardinality(seen) < 2 \/ Total(days) = 0
  BY <1>1, <1>3, <1>4
<1>5. CASE ~ (Cardinality(seen) < 2 \/ Total(days) = 0)
  <2> DEFINE m == Mean(days)
             s == Mean(seen)
  <2>1. Cardinality(seen) \in Nat \ {0} /\ Total(days) \in Nat \ {0}
    BY <1>2, <1>5
  <2>2. s \in Fraction /\ m \in Fraction /\ m.n * Cardinality(days) = Total(days) * m.d
    BY <1>2, <2>1, FracValue DEF Mean
  <2> HIDE DEF seen, s, m
  <2>3. m.n > 0
    <3> DEFINE n == m.n
               d == m.d
               c == Cardinality(days)
               t == Total(days)
    <3>1. n \in Int /\ d \in Nat \ {0} /\ c \in Nat \ {0} /\ t \in Nat \ {0} /\ n * c = t * d
      BY <1>2, <2>1, <2>2 DEF Fraction
    <3> HIDE DEF n, d, c, t
    <3>2. t * d \in Nat \ {0}
      BY <3>1, PositiveProduct
    <3>3. n <= 0 => n * c <= 0 * c
      BY <3>1, ScaleNat
    <3>4. n > 0
      BY <3>1, <3>2, <3>3
    <3> QED
      BY <3>4 DEF n
  <2>4. ratio \in Fraction
    BY <2>2, <2>3, Types DEF s, m
  <2> HIDE DEF ratio
  <2>5. lifted \in Fraction /\ AtMost(Half, lifted)
    <3>1. Half \in Fraction
      BY HalfIs
    <3>2. AtMost(Half, ratio) \/ AtMost(ratio, Half)
      BY <2>4, <3>1, AtMostTotal
    <3>3. AtMost(Half, Half)
      BY <3>1, AtMostTotal
    <3> QED
      BY <2>4, <3>1, <3>2, <3>3 DEF Greatest
  <2> HIDE DEF lifted
  <2>6. clamped \in Fraction /\ AtMost(Half, clamped) /\ AtMost(clamped, Whole(2))
    BY <1>3, <2>5, AtMostTotal DEF Least
  <2>7. clamped.n > 0
    <3>1. clamped.d <= clamped.n * 2 /\ clamped.n \in Int /\ clamped.d \in Nat \ {0}
      BY <2>6, HalfIs DEF Fraction
    <3> QED
      BY <3>1
  <2>8. ASSUME NEW u \in Nat, \A d \in days : sales[d].units = u PROVE clamped = One
    <3>1. u # 0 /\ u \in Nat \ {0}
      <4>1. Total(days) = u * Cardinality(days)
        BY <1>2, <2>8
      <4>2. 0 * Cardinality(days) = 0
        BY <1>2
      <4> QED
        BY <2>1, <4>1, <4>2
    <3>2. s = Whole(u) /\ m = Whole(u)
      BY <1>2, <2>1, <2>8, FracWhole DEF Mean, s, m, seen
    <3>3. ratio = One
      <4>1. ratio = Over(Whole(u), Whole(u))
        BY <3>2 DEF ratio, s, m
      <4>2. u * 1 = u /\ 1 * u = u
        BY <3>1
      <4>3. Frac(1 * u, u) = Whole(1)
        BY <3>1, FracWhole
      <4> QED
        BY <4>1, <4>2, <4>3 DEF Over, Whole, One
    <3>4. lifted = One
      BY <1>3, <3>3 DEF lifted, Greatest
    <3>5. ~AtMost(Whole(2), One)
      BY DEF AtMost, Whole, One
    <3> QED
      BY <3>4, <3>5 DEF Least
  <2> QED
    BY <1>1, <1>5, <2>6, <2>7, <2>8
<1> QED
  BY <1>4, <1>5

\* The factors are those of the observations.
FactorsFound == factors = [w \in 0..(Week - 1) |-> Factor(w)]

(* The weekday of any date has a factor.                                      *)
LEMMA WeekdayIs == \A d \in Int : Weekday(d) \in 0..(Week - 1)
BY DemandAssumption DEF Weekday

(* A deseasonalized observation is between half and twice the units.          *)
LEMMA Deseasonalized ==
  ASSUME Observed, FactorsFound, NEW d \in days, d \in Int
  PROVE  /\ Deseasonalize(d) \in Fraction
         /\ AtMost(Zero, Deseasonalize(d))
         /\ AtMost(Frac(sales[d].units, 2), Deseasonalize(d))
         /\ AtMost(Deseasonalize(d), Whole(2 * sales[d].units))
         /\ \A u \in Nat : (\A e \in days : sales[e].units = u) => Deseasonalize(d) = Whole(u)
<1> DEFINE f == Factor(Weekday(d))
           k == sales[d].units
<1>1. factors[Weekday(d)] = f
  BY WeekdayIs DEF FactorsFound
<1>2. /\ f \in Fraction /\ AtMost(Half, f) /\ AtMost(f, Whole(2)) /\ f.n > 0
      /\ \A u \in Nat : (\A e \in days : sales[e].units = u) => f = One
  BY FactorBounds
<1>3. k \in Nat
  BY DemandAssumption DEF Observed, Table
<1>4. Deseasonalize(d) = Over(Whole(k), f)
  BY <1>1 DEF Deseasonalize
<1>5. ASSUME NEW u \in Nat, \A e \in days : sales[e].units = u PROVE Deseasonalize(d) = Whole(u)
  <2>1. k = u /\ f = One
    BY <1>2, <1>5
  <2> HIDE DEF f, k
  <2> QED
    BY <1>4, <1>5, <2>1, OverOne
<1> DEFINE fn == f.n
           fd == f.d
<1>6. fn \in Nat \ {0} /\ fd \in Nat \ {0} /\ fd <= fn * 2 /\ fn <= 2 * fd
  BY <1>2, HalfIs DEF Fraction, AtMost, Whole
<1>7. Deseasonalize(d) = Frac(k * fd, fn)
  <2>1. 1 * fn = fn
    BY <1>6
  <2> QED
    BY <1>4, <2>1 DEF Over, Whole
<1> HIDE DEF f, k, fn, fd
<1>8. k * fd \in Int /\ k * fd >= 0 /\ 2 * k \in Int /\ Zero \in Fraction /\ Whole(2 * k) \in Fraction
  BY <1>3, <1>6, ZeroOne DEF Whole, Fraction
<1>9. Deseasonalize(d) \in Fraction
  BY <1>6, <1>7, <1>8, FracValue
<1>10. AtMost(Zero, Deseasonalize(d))
  <2>1. AtMost(Zero, Frac(k * fd, fn)) <=> Zero.n * fn <= (k * fd) * Zero.d
    BY <1>6, <1>8, FracAbove
  <2>2. Zero.n = 0 /\ Zero.d = 1
    BY DEF Zero, Whole
  <2> QED
    BY <1>6, <1>7, <1>8, <2>1, <2>2
<1>11. AtMost(Deseasonalize(d), Whole(2 * k))
  <2>1. AtMost(Frac(k * fd, fn), Whole(2 * k)) <=> (k * fd) * Whole(2 * k).d <= Whole(2 * k).n * fn
    BY <1>6, <1>8, FracBelow
  <2>2. Whole(2 * k).n = 2 * k /\ Whole(2 * k).d = 1
    BY DEF Whole
  <2>3. fd * k <= (fn * 2) * k
    BY <1>3, <1>6, ScaleNat
  <2>4. (fn * 2) * k = (2 * k) * fn /\ fd * k = (k * fd) * 1
    BY <1>3, <1>6
  <2> QED
    BY <1>7, <2>1, <2>2, <2>3, <2>4
<1>12. AtMost(Frac(k, 2), Deseasonalize(d))
  <2>1. AtMost(Frac(k, 2), Frac(k * fd, fn)) <=> k * fn <= (k * fd) * 2
    BY <1>3, <1>6, <1>8, FracFrac
  <2>2. fn * k <= (2 * fd) * k
    BY <1>3, <1>6, ScaleNat
  <2>3. (2 * fd) * k = (k * fd) * 2 /\ fn * k = k * fn
    BY <1>3, <1>6
  <2> QED
    BY <1>7, <2>1, <2>2, <2>3
<1> QED
  BY <1>5, <1>9, <1>10, <1>11, <1>12 DEF k

-------------------------------------------------------------------------------
(* The inductive invariant.                                                   *)

Finishing == {"start", "smooth", "estimated"}
Smoothing == {"smooth", "estimated"}

\* What is still considered at every stage, and that nothing is ahead before Start.
Chosen ==
  /\ stage \in {"fetch", "noHistory"} => days = {}
  /\ stage = "trim" => days # {} /\ days = {d \in Rows : d >= today - (Window + Slack)}
  /\ stage = "censor" => days = {d \in Rows : InWindow(d)}
  /\ stage \in Finishing \cup {"insufficient", "factors"} =>
       days = {d \in Rows : InWindow(d) /\ ~sales[d].stockout}
  /\ stage \in Finishing \cup {"factors"} => Cardinality(days) >= 2
  /\ stage \notin Smoothing => ahead = {}

Seasonal == stage \in Finishing => FactorsFound

\* The level lies between two observations.
Bracketed ==
  stage \in Smoothing =>
    /\ \E d \in days : AtMost(Deseasonalize(d), level)
    /\ \E d \in days : AtMost(level, Deseasonalize(d))

\* The square of the distance between two observations, which bounds the variance.
Spread(d, e) ==
  Times(Minus(Deseasonalize(d), Deseasonalize(e)), Minus(Deseasonalize(d), Deseasonalize(e)))

Spreading ==
  /\ stage \in Finishing => AtMost(Zero, variance)
  /\ stage \notin Smoothing => variance = Zero
  /\ stage \in Smoothing => \E d, e \in days : AtMost(variance, Spread(d, e))

\* What was sold on every day is what was smoothed so far.
Steady ==
  stage \in Smoothing =>
    \A u \in Units : (\A d \in days : sales[d].units = u) => level = Whole(u) /\ variance = Zero

Inductive ==
  TypeOK /\ Table /\ Chosen /\ Seasonal /\ Bracketed /\ Spreading /\ Steady

(* There are finitely many rows, at days of the calendar.                     *)
LEMMA RowsAre ==
  ASSUME TypeOK
  PROVE  /\ Rows \subseteq Int /\ IsFiniteSet(Rows) /\ days \subseteq Int /\ IsFiniteSet(days)
         /\ Rows # {} => Latest \in Rows /\ \A d \in Rows : d <= Latest
         /\ today \in Int
<1>1. Rows \subseteq Int /\ IsFiniteSet(Rows)
  BY DemandAssumption, FS_Subset DEF TypeOK
<1>2. days \subseteq Int /\ IsFiniteSet(days)
  BY <1>1, FS_Subset DEF TypeOK
<1>3. Rows # {} => Latest \in Rows /\ \A d \in Rows : d <= Latest
  BY <1>1, Extremes DEF Latest
<1> QED
  BY <1>1, <1>2, <1>3, DemandAssumption DEF TypeOK

(* From Start on there are observations, and what Deseasonalized says of them.*)
LEMMA Observations ==
  ASSUME Inductive, stage \in Finishing
  PROVE  /\ Observed /\ FactorsFound
         /\ \A d \in days :
              /\ d \in Int
              /\ Deseasonalize(d) \in Fraction /\ AtMost(Zero, Deseasonalize(d))
              /\ AtMost(Frac(sales[d].units, 2), Deseasonalize(d))
              /\ AtMost(Deseasonalize(d), Whole(2 * sales[d].units))
              /\ \A u \in Nat : (\A e \in days : sales[e].units = u) => Deseasonalize(d) = Whole(u)
<1>1. Observed /\ FactorsFound
  <2>1. days # {}
    BY FS_EmptySet DEF Inductive, Chosen
  <2>2. IsFiniteSet(days) /\ days \subseteq Rows
    BY RowsAre DEF Inductive, TypeOK
  <2> QED
    BY <2>1, <2>2 DEF Inductive, Seasonal, Observed
<1>2. days \subseteq Int
  BY RowsAre DEF Inductive
<1> QED
  BY <1>1, <1>2, Deseasonalized

LEMMA InductiveInit == Init => Inductive
<1> SUFFICES ASSUME Init PROVE Inductive
  OBVIOUS
<1>1. PICK D \in SUBSET Dates : sales \in [D -> [units : Units, stockout : BOOLEAN]]
  BY DEF Init
<1>2. Rows = D
  BY <1>1 DEF Rows
<1>3. Rows \subseteq Dates /\ Table
  BY <1>1, <1>2 DEF Table
<1>4. factors \in [0..(Week - 1) -> Fraction]
  BY ZeroOne DEF Init, Neutral
<1>5. Cardinality(Dates) \in Nat
  BY DemandAssumption, FS_CardinalityType
<1>6. TypeOK
  BY <1>3, <1>4, <1>5, ZeroOne DEF Init, TypeOK, Answers
<1> QED
  BY <1>3, <1>6 DEF Init, Inductive, Chosen, Seasonal, Bracketed, Spreading, Steady, Finishing, Smoothing

(* Before Seasonality, only the type and what is considered matter.           *)
Early == {"fetch", "trim", "censor", "factors", "noHistory", "insufficient"}

LEMMA EarlySteps ==
  ASSUME Inductive, TypeOK', Table', Chosen', stage' \in Early, stage \in Early, variance' = variance
  PROVE  Inductive'
BY DEF Inductive, Seasonal, Bracketed, Spreading, Steady, Early, Finishing, Smoothing

LEMMA FetchKeeps == ASSUME Inductive, Fetch PROVE Inductive'
<1>1. Rows' = Rows /\ Table'
  BY DEF Fetch, Rows, Inductive, Table
<1>2. TypeOK'
  BY <1>1 DEF Inductive, TypeOK, Fetch, Answers, Chosen, Finishing, Smoothing
<1>3. Chosen'
  BY <1>1 DEF Inductive, Chosen, Fetch, Finishing, Smoothing
<1> QED
  BY <1>1, <1>2, <1>3, EarlySteps DEF Fetch, Early

(* The latest of the fetched days is the latest of the table.                 *)
LEMMA TrimKeeps == ASSUME Inductive, Trim PROVE Inductive'
<1>1. Rows' = Rows /\ Table'
  BY DEF Trim, Rows, Inductive, Table
<1>2. Latest' = Latest /\ \A d : InWindow(d)' <=> InWindow(d)
  BY <1>1 DEF Trim, Latest, InWindow
<1>3. /\ days # {} /\ days = {d \in Rows : d >= today - (Window + Slack)}
      /\ TypeOK
  BY DEF Inductive, Chosen, Trim
<1>4. Max(days) \in days /\ \A d \in days : d <= Max(days)
  BY <1>3, RowsAre, Extremes
<1>5. Latest \in Rows /\ \A d \in Rows : d <= Latest
  BY <1>3, RowsAre
<1>6. Window + Slack \in Int /\ today - (Window + Slack) \in Int
  BY <1>3, RowsAre, DemandAssumption
<1>7. Max(days) = Latest
  <2>1. Max(days) \in Int /\ Latest \in Int
    BY <1>3, <1>4, <1>5, RowsAre
  <2>2. Max(days) <= Latest /\ Max(days) >= today - (Window + Slack)
    BY <1>3, <1>4, <1>5
  <2>3. Latest \in days
    BY <1>3, <1>5, <1>6, <2>1, <2>2
  <2> QED
    BY <1>4, <2>1, <2>2, <2>3
<1>8. days' = {d \in Rows : InWindow(d)}
  BY <1>3, <1>7 DEF Trim, InWindow
<1>9. TypeOK'
  BY <1>1, <1>3, <1>8 DEF TypeOK, Trim, Inductive, Chosen, Smoothing
<1>10. Chosen'
  <2>1. days' = {d \in Rows' : InWindow(d)'}
    BY <1>1, <1>2, <1>8
  <2>2. stage' = "censor" /\ ahead' = {}
    BY DEF Trim, Inductive, Chosen, Smoothing
  <2> QED
    BY <2>1, <2>2 DEF Chosen, Finishing, Smoothing
<1> QED
  BY <1>1, <1>9, <1>10, EarlySteps DEF Trim, Early

LEMMA CensorKeeps == ASSUME Inductive, Censor PROVE Inductive'
<1>1. Rows' = Rows /\ Table'
  BY DEF Censor, Rows, Inductive, Table
<1>2. Latest' = Latest /\ \A d : InWindow(d)' <=> InWindow(d)
  BY <1>1 DEF Censor, Latest, InWindow
<1>3. days = {d \in Rows : InWindow(d)} /\ TypeOK
  BY DEF Inductive, Chosen, Censor
<1>4. days' = {d \in Rows : InWindow(d) /\ ~sales[d].stockout}
  BY <1>3 DEF Censor
<1>5. censored' \in 0..Cardinality(Dates)
  <2>1. IsFiniteSet(days) /\ days \subseteq Dates /\ days' \subseteq days /\ IsFiniteSet(Dates)
    BY <1>3, <1>4, RowsAre, DemandAssumption DEF TypeOK
  <2>2. /\ Cardinality(days) \in Nat /\ Cardinality(days') \in Nat /\ Cardinality(Dates) \in Nat
        /\ Cardinality(days') <= Cardinality(days) /\ Cardinality(days) <= Cardinality(Dates)
    <3>1. IsFiniteSet(days')
      BY <2>1, FS_Subset
    <3> QED
      BY <2>1, <3>1, FS_Subset, FS_CardinalityType
  <2>3. censored' = Cardinality(days) - Cardinality(days')
    BY DEF Censor
  <2> QED
    BY <2>2, <2>3
<1>6. TypeOK'
  BY <1>1, <1>3, <1>4, <1>5 DEF TypeOK, Censor, Inductive, Chosen, Answers, Smoothing
<1>7. Chosen'
  <2>1. days' = {d \in Rows' : InWindow(d)' /\ ~sales'[d].stockout}
    BY <1>1, <1>2, <1>4 DEF Censor
  <2>2. /\ stage' \in {"insufficient", "factors"} /\ ahead' = {}
        /\ stage' = "factors" => Cardinality(days') >= 2
    <3>1. Cardinality(days') \in Nat
      <4>1. IsFiniteSet(days')
        BY <1>3, <1>4, RowsAre, FS_Subset
      <4> QED
        BY <4>1, FS_CardinalityType
    <3> QED
      BY <3>1 DEF Censor, Inductive, Chosen, Smoothing
  <2> QED
    BY <2>1, <2>2 DEF Chosen, Finishing, Smoothing
<1> QED
  BY <1>1, <1>6, <1>7, EarlySteps DEF Censor, Early

(* Nothing of what the estimate is made from changes after Censor.            *)
LEMMA Kept ==
  ASSUME sales' = sales, today' = today
  PROVE  /\ Rows' = Rows /\ (Table <=> Table') /\ Latest' = Latest
         /\ \A d : InWindow(d)' <=> InWindow(d)
         /\ days' = days => \A w : Factor(w)' = Factor(w)
         /\ factors' = factors => \A d : Deseasonalize(d)' = Deseasonalize(d)
         /\ factors' = factors => \A d, e : Spread(d, e)' = Spread(d, e)
<1>1. Rows' = Rows
  BY DEF Rows
<1>2. Table <=> Table'
  BY <1>1 DEF Table
<1>3. Latest' = Latest
  BY <1>1 DEF Latest
<1>4. \A d : InWindow(d)' <=> InWindow(d)
  BY <1>3 DEF InWindow
<1>5. days' = days => \A w : Factor(w)' = Factor(w)
  BY DEF Factor, Total, Mean
<1>6. factors' = factors => \A d : Deseasonalize(d)' = Deseasonalize(d)
  BY DEF Deseasonalize
<1>7. factors' = factors => \A d, e : Spread(d, e)' = Spread(d, e)
  BY <1>6 DEF Spread
<1> QED
  BY <1>1, <1>2, <1>3, <1>4, <1>5, <1>6, <1>7

(* What a step after Censor need not be asked about.                          *)
LEMMA LateSteps ==
  ASSUME Inductive, UNCHANGED <<sales, today, days>>,
         stage \in Finishing \cup {"factors"}, stage' \in Finishing,
         stage' = "start" => ahead' = {}
  PROVE  /\ Table' /\ Chosen'
         /\ factors' = factors /\ stage \in Finishing => Seasonal'
<1>1. /\ Rows' = Rows /\ Table' /\ \A d : InWindow(d)' <=> InWindow(d)
      /\ \A w : Factor(w)' = Factor(w)
  BY Kept DEF Inductive
<1>2. days = {d \in Rows : InWindow(d) /\ ~sales[d].stockout} /\ Cardinality(days) >= 2
  BY DEF Inductive, Chosen
<1>3. Chosen'
  <2>1. days' = {d \in Rows' : InWindow(d)' /\ ~sales'[d].stockout}
    BY <1>1, <1>2
  <2>2. Cardinality(days') >= 2
    BY <1>2
  <2> QED
    BY <2>1, <2>2 DEF Chosen, Finishing, Smoothing
<1>4. factors' = factors /\ stage \in Finishing => Seasonal'
  BY <1>1 DEF Inductive, Seasonal, FactorsFound
<1> QED
  BY <1>1, <1>3, <1>4

LEMMA SeasonalityKeeps == ASSUME Inductive, Seasonality PROVE Inductive'
<1>1. Table' /\ Chosen'
  BY LateSteps DEF Seasonality, Finishing, Inductive, Chosen, Smoothing
<1>2. Observed
  <2>1. Cardinality(days) >= 2 /\ ~(0 >= 2)
    BY DEF Inductive, Chosen, Seasonality
  <2>2. IsFiniteSet(days)
    BY RowsAre DEF Inductive
  <2>3. days # {}
    BY <2>1, FS_EmptySet
  <2> QED
    BY <2>2, <2>3 DEF Observed, Inductive, TypeOK
<1>3. \A w \in 0..(Week - 1) : Factor(w) \in Fraction /\ Factor(w)' = Factor(w)
  BY <1>2, FactorBounds, Kept DEF Seasonality
<1>4. Seasonal'
  BY <1>3 DEF Seasonal, FactorsFound, Seasonality
<1>5. TypeOK'
  <2>1. Rows' = Rows
    BY DEF Rows, Seasonality
  <2>2. factors' \in [0..(Week - 1) -> Fraction]
    BY <1>3 DEF Seasonality
  <2> QED
    BY <2>1, <2>2 DEF Seasonality, Inductive, TypeOK
<1>6. Bracketed' /\ Steady'
  BY DEF Bracketed, Steady, Smoothing, Seasonality
<1>7. Spreading'
  <2>1. variance' = Zero
    BY DEF Inductive, Spreading, Seasonality, Smoothing
  <2>2. AtMost(Zero, variance')
    BY <2>1, ZeroOne, AtMostTotal
  <2> QED
    BY <2>1, <2>2 DEF Spreading, Seasonality, Smoothing, Zero
<1> QED
  BY <1>1, <1>4, <1>5, <1>6, <1>7 DEF Inductive

LEMMA StartKeeps == ASSUME Inductive, Start PROVE Inductive'
<1>1. stage = "start" /\ stage' = "smooth" /\ UNCHANGED <<sales, today, days, factors, variance, censored>>
  BY DEF Start
<1>2. Table' /\ Chosen' /\ Seasonal'
  BY <1>1, LateSteps DEF Finishing
<1>3. PICK m \in days : m = Min(days)
  <2>1. days # {} /\ days \subseteq Int /\ IsFiniteSet(days)
    BY <1>1, Observations, RowsAre DEF Observed, Finishing, Inductive
  <2> QED
    BY <2>1, Extremes
<1>4. /\ Deseasonalize(m) \in Fraction
      /\ \A u \in Nat : (\A e \in days : sales[e].units = u) => Deseasonalize(m) = Whole(u)
  BY <1>1, Observations DEF Finishing
<1>5. level' = Deseasonalize(m) /\ ahead' = days \ {m} /\ Deseasonalize(m)' = Deseasonalize(m)
  BY <1>1, <1>3, Kept DEF Start
<1>6. variance = Zero
  BY <1>1 DEF Inductive, Spreading, Smoothing
<1>7. TypeOK'
  <2>1. Rows' = Rows
    BY <1>1 DEF Rows
  <2> QED
    BY <1>1, <1>4, <1>5, <2>1 DEF Inductive, TypeOK
<1>8. Bracketed'
  <2>1. AtMost(Deseasonalize(m), Deseasonalize(m))
    BY <1>4, AtMostTotal
  <2> QED
    BY <1>1, <1>5, <2>1 DEF Bracketed
<1>9. Spreading'
  <2>1. AtMost(Zero, Spread(m, m)) /\ Spread(m, m)' = Spread(m, m)
    <3>1. Minus(Deseasonalize(m), Deseasonalize(m)) \in Fraction
      BY <1>4, Types
    <3> QED
      BY <1>1, <3>1, SquareOf, Kept DEF Spread
  <2>2. AtMost(Zero, Zero) /\ Zero' = Zero
    BY ZeroOne, AtMostTotal DEF Zero
  <2>3. AtMost(variance', Spread(m, m)')
    BY <1>1, <1>6, <2>1
  <2> QED
    BY <1>1, <1>6, <2>2, <2>3 DEF Spreading, Smoothing
<1>10. Steady'
  <2>1. Units \subseteq Nat
    BY DemandAssumption
  <2> QED
    BY <1>1, <1>4, <1>5, <1>6, <2>1 DEF Steady, Zero
<1> QED
  BY <1>2, <1>7, <1>8, <1>9, <1>10 DEF Inductive

LEMMA FinishKeeps == ASSUME Inductive, Finish PROVE Inductive'
<1>1. /\ stage = "smooth" /\ stage' = "estimated" /\ level' = Greatest(Zero, level)
      /\ UNCHANGED <<sales, today, days, factors, ahead, variance, censored>>
  BY DEF Finish
<1>2. Table' /\ Chosen' /\ Seasonal'
  BY <1>1, LateSteps DEF Finishing
<1>3. PICK d \in days : AtMost(Deseasonalize(d), level)
  BY <1>1 DEF Inductive, Bracketed, Smoothing
<1>4. Deseasonalize(d) \in Fraction /\ AtMost(Zero, Deseasonalize(d))
  BY <1>1, Observations DEF Finishing
<1>5. level \in Fraction
  BY DEF Inductive, TypeOK
<1>6. level' = level
  <2>1. AtMost(Zero, level)
    BY <1>3, <1>4, <1>5, ZeroOne, AtMostTrans
  <2> QED
    BY <1>1, <2>1 DEF Greatest
<1>7. TypeOK'
  <2>1. Rows' = Rows
    BY <1>1 DEF Rows
  <2> QED
    BY <1>1, <1>6, <2>1 DEF Inductive, TypeOK, Answers
<1>8. /\ \A e : Deseasonalize(e)' = Deseasonalize(e)
      /\ \A e, f : Spread(e, f)' = Spread(e, f)
  BY <1>1, Kept
<1>9. Bracketed'
  <2>1. (\E e \in days : AtMost(Deseasonalize(e), level)) /\ \E e \in days : AtMost(level, Deseasonalize(e))
    BY <1>1 DEF Inductive, Bracketed, Smoothing
  <2> QED
    BY <1>1, <1>6, <1>8, <2>1 DEF Bracketed
<1>10. Spreading'
  <2>1. AtMost(Zero, variance) /\ \E e, f \in days : AtMost(variance, Spread(e, f))
    BY <1>1 DEF Inductive, Spreading, Smoothing, Finishing
  <2> QED
    BY <1>1, <1>8, <2>1 DEF Spreading, Zero, Smoothing
<1>11. Steady'
  BY <1>1, <1>6 DEF Inductive, Steady, Smoothing, Zero
<1> QED
  BY <1>2, <1>7, <1>9, <1>10, <1>11 DEF Inductive

(* The more is taken off, the less is left.                                   *)
LEMMA MinusFalls ==
  ASSUME NEW x \in Fraction, NEW a \in Fraction, NEW b \in Fraction, AtMost(a, b)
  PROVE  AtMost(Minus(x, b), Minus(x, a))
<1> DEFINE s == Minus(x, a)
<1>1. s \in Fraction
  BY Types
<1>2. AtMost(s, s)
  BY <1>1, AtMostTotal
<1>3. AtMost(x, Plus(a, s))
  BY <1>1, <1>2, PlusAbove
<1>4. AtMost(Plus(a, s), Plus(b, s)) /\ Plus(a, s) \in Fraction /\ Plus(b, s) \in Fraction
  BY <1>1, <1>2, PlusGrows, Types
<1>5. AtMost(x, Plus(b, s))
  BY <1>3, <1>4, AtMostTrans
<1> QED
  BY <1>1, <1>5, PlusAbove

(* One observation moves the level towards it, and the variance towards the   *)
(* square of its distance, which is no more than that between two of them.    *)
LEMMA SmoothKeeps == ASSUME Inductive, Smooth PROVE Inductive'
<1> DEFINE x == Deseasonalize(Min(ahead))
           r == Minus(x, level)
<1>1. /\ stage = "smooth" /\ stage' = "smooth" /\ ahead # {}
      /\ level' = Plus(level, Times(Alpha, r))
      /\ variance' = Times(Minus(One, Alpha), Plus(variance, Times(Alpha, Times(r, r))))
      /\ ahead' = ahead \ {Min(ahead)}
      /\ UNCHANGED <<sales, today, days, factors, censored>>
  BY DEF Smooth
<1>2. Table' /\ Chosen' /\ Seasonal'
  BY <1>1, LateSteps DEF Finishing
<1>3. Min(ahead) \in days
  <2>1. ahead \subseteq days /\ days \subseteq Int /\ IsFiniteSet(days)
    BY RowsAre DEF Inductive, TypeOK
  <2>2. IsFiniteSet(ahead) /\ ahead \subseteq Int
    BY <2>1, FS_Subset
  <2> QED
    BY <1>1, <2>1, <2>2, Extremes
<1>4. \A d \in days :
        /\ Deseasonalize(d) \in Fraction
        /\ \A u \in Nat : (\A e \in days : sales[e].units = u) => Deseasonalize(d) = Whole(u)
  BY <1>1, Observations DEF Finishing
<1>5. /\ x \in Fraction /\ level \in Fraction /\ variance \in Fraction
      /\ Alpha \in Fraction /\ Alpha.n >= 0 /\ Alpha.n <= Alpha.d
  <2>1. Alpha \in Fraction /\ Alpha.n > 0 /\ Alpha.n <= Alpha.d
    BY DemandAssumption
  <2> QED
    BY <1>3, <1>4, <2>1 DEF Inductive, TypeOK, Fraction
<1>6. PICK lo \in days : AtMost(Deseasonalize(lo), level)
  BY <1>1 DEF Inductive, Bracketed, Smoothing
<1>7. PICK hi \in days : AtMost(level, Deseasonalize(hi))
  BY <1>1 DEF Inductive, Bracketed, Smoothing
<1>8. r \in Fraction
  BY <1>5, Types
<1>9. Times(r, r) \in Fraction /\ AtMost(Zero, Times(r, r))
  BY <1>8, Types, SquareOf
<1>10. /\ level' \in Fraction
       /\ AtMost(level, x) => AtMost(level, level') /\ AtMost(level', x)
       /\ AtMost(x, level) => AtMost(x, level') /\ AtMost(level', level)
  BY <1>1, <1>5, SmoothedBetween
<1>11. Bracketed'
  <2>1. (\E d \in days : AtMost(Deseasonalize(d), level')) /\ \E d \in days : AtMost(level', Deseasonalize(d))
    <3>1. CASE AtMost(level, x)
      <4>1. AtMost(Deseasonalize(lo), level')
        BY <1>4, <1>5, <1>6, <1>10, <3>1, AtMostTrans
      <4> QED
        BY <1>3, <1>6, <1>10, <3>1, <4>1
    <3>2. CASE AtMost(x, level)
      <4>1. AtMost(level', Deseasonalize(hi))
        BY <1>4, <1>5, <1>7, <1>10, <3>2, AtMostTrans
      <4> QED
        BY <1>3, <1>7, <1>10, <3>2, <4>1
    <3> QED
      BY <1>5, <3>1, <3>2, AtMostTotal
  <2>2. \A d : Deseasonalize(d)' = Deseasonalize(d)
    BY <1>1, Kept
  <2> QED
    BY <1>1, <2>1, <2>2 DEF Bracketed
<1>12. PICK e \in days : AtMost(Times(r, r), Spread(Min(ahead), e))
  <2> DEFINE a == Minus(x, Deseasonalize(hi))
             b == Minus(x, Deseasonalize(lo))
  <2>1. a \in Fraction /\ b \in Fraction
    BY <1>4, <1>5, <1>6, <1>7, Types
  <2>2. AtMost(a, r) /\ AtMost(r, b)
    BY <1>4, <1>5, <1>6, <1>7, MinusFalls
  <2>3. AtMost(Times(r, r), Times(a, a)) \/ AtMost(Times(r, r), Times(b, b))
    <3> HIDE DEF a, b, r
    <3> QED
      BY <1>8, <2>1, <2>2, SquareBetween
  <2>4. Times(a, a) = Spread(Min(ahead), hi) /\ Times(b, b) = Spread(Min(ahead), lo)
    BY DEF Spread
  <2> HIDE DEF a, b, r
  <2> QED
    BY <1>6, <1>7, <2>3, <2>4
<1>13. PICK d, f \in days : AtMost(variance, Spread(d, f))
  BY <1>1 DEF Inductive, Spreading, Smoothing
<1>14. AtMost(Zero, variance)
  BY <1>1 DEF Inductive, Spreading, Finishing
<1>15. \A c, k \in days : Spread(c, k) \in Fraction
  <2> SUFFICES ASSUME NEW c \in days, NEW k \in days PROVE Spread(c, k) \in Fraction
    OBVIOUS
  <2>1. Minus(Deseasonalize(c), Deseasonalize(k)) \in Fraction
    BY <1>4, Types
  <2> QED
    BY <2>1, Types DEF Spread
<1>16. PICK c, k \in days : AtMost(variance, Spread(c, k)) /\ AtMost(Times(r, r), Spread(c, k))
  <2> DEFINE p == Spread(Min(ahead), e)
             q == Spread(d, f)
  <2>1. p \in Fraction /\ q \in Fraction
    BY <1>3, <1>12, <1>13, <1>15
  <2>2. AtMost(variance, q) /\ AtMost(Times(r, r), p)
    BY <1>12, <1>13
  <2> DEFINE square == Times(r, r)
  <2>3. square \in Fraction /\ AtMost(square, p)
    BY <1>9, <2>2
  <2> HIDE DEF p, q, square
  <2>4. CASE AtMost(p, q)
    <3>1. AtMost(square, q)
      BY <2>1, <2>3, <2>4, AtMostTrans
    <3> QED
      BY <1>13, <2>2, <3>1 DEF q, square
  <2>5. CASE AtMost(q, p)
    <3>1. AtMost(variance, p)
      BY <1>5, <2>1, <2>2, <2>5, AtMostTrans
    <3> QED
      BY <1>3, <1>12, <2>2, <3>1 DEF p
  <2> QED
    BY <2>1, <2>4, <2>5, AtMostTotal
<1>17. variance' \in Fraction /\ AtMost(Zero, variance') /\ AtMost(variance', Spread(c, k))
  <2> DEFINE square == Times(r, r)
             bound == Spread(c, k)
  <2>1. square \in Fraction /\ AtMost(Zero, square) /\ bound \in Fraction
    BY <1>9, <1>15, <1>16
  <2>2. AtMost(variance, bound) /\ AtMost(square, bound)
    BY <1>16
  <2>3. variance' = Times(Minus(One, Alpha), Plus(variance, Times(Alpha, square)))
    BY <1>1
  <2> HIDE DEF square, bound
  <2>4. variance' \in Fraction /\ AtMost(Zero, variance') /\ AtMost(variance', bound)
    BY <1>5, <1>14, <2>1, <2>2, <2>3, DampedStep
  <2> QED
    BY <2>4 DEF bound
<1>18. Spreading'
  <2>1. Spread(c, k)' = Spread(c, k) /\ Zero' = Zero
    BY <1>1, Kept DEF Zero
  <2> QED
    BY <1>1, <1>16, <1>17, <2>1 DEF Spreading, Smoothing
<1>19. Steady'
  <2> SUFFICES ASSUME NEW u \in Units, \A d_1 \in days : sales[d_1].units = u
               PROVE  level' = Whole(u) /\ variance' = Zero
    BY <1>1 DEF Steady, Zero
  <2>1. u \in Nat /\ level = Whole(u) /\ variance = Zero /\ x = Whole(u)
    BY <1>1, <1>3, <1>4, DemandAssumption DEF Inductive, Steady, Smoothing
  <2>2. r = Zero
    BY <2>1, MinusItself
  <2>3. Times(r, r) = Zero /\ Times(Alpha, Zero) = Zero
    BY <1>5, <2>2, ZeroOne, TimesZero
  <2>4. Plus(Zero, Zero) = Zero
    BY PlusZero DEF Zero
  <2>5. Times(Minus(One, Alpha), Zero) = Zero
    BY <1>5, ZeroOne, Types, TimesZero
  <2>6. level' = Plus(Whole(u), Zero)
    BY <1>1, <2>1, <2>2, <2>3
  <2>7. variance' = Zero
    BY <1>1, <2>1, <2>3, <2>4, <2>5
  <2> QED
    BY <2>1, <2>6, <2>7, PlusZero
<1>20. TypeOK'
  <2>1. Rows' = Rows
    BY <1>1 DEF Rows
  <2> QED
    BY <1>1, <1>10, <1>17, <2>1 DEF Inductive, TypeOK
<1> QED
  BY <1>2, <1>11, <1>18, <1>19, <1>20 DEF Inductive

LEMMA StutterKeeps == ASSUME Inductive, UNCHANGED vars PROVE Inductive'
<1>1. UNCHANGED <<sales, today, stage, days, factors, ahead, level, variance, censored>>
  BY DEF vars
<1>2. /\ Rows' = Rows /\ (Table <=> Table') /\ \A d : InWindow(d)' <=> InWindow(d)
      /\ \A w : Factor(w)' = Factor(w)
      /\ \A d : Deseasonalize(d)' = Deseasonalize(d)
      /\ \A d, e : Spread(d, e)' = Spread(d, e)
  BY <1>1, Kept
<1>3. TypeOK'
  BY <1>1, <1>2 DEF Inductive, TypeOK
<1>4. Chosen'
  BY <1>1, <1>2 DEF Inductive, Chosen
<1>5. Seasonal'
  BY <1>1, <1>2 DEF Inductive, Seasonal, FactorsFound
<1>6. Bracketed'
  BY <1>1, <1>2 DEF Inductive, Bracketed
<1>7. Spreading'
  BY <1>1, <1>2 DEF Inductive, Spreading, Zero
<1>8. Steady'
  BY <1>1 DEF Inductive, Steady, Zero
<1> QED
  BY <1>2, <1>3, <1>4, <1>5, <1>6, <1>7, <1>8 DEF Inductive

LEMMA InductiveNext == Inductive /\ [Next]_vars => Inductive'
BY FetchKeeps, TrimKeeps, CensorKeeps, SeasonalityKeeps, StartKeeps, SmoothKeeps, FinishKeeps,
   StutterKeeps DEF Next, Stop

(* The inductive invariant: at every stage, what is considered and what the   *)
(* smoother has made of it so far.                                            *)
THEOREM Invariance == Spec => []Inductive
  BY InductiveInit, InductiveNext, PTL DEF Spec

(* Every variable keeps its type, for any history: what is divided by is never *)
(* zero, so that the smoothed figures are fractions.                          *)
THEOREM TypeCorrectness == Spec => []TypeOK
<1>1. Inductive => TypeOK
  BY DEF Inductive
<1> QED
  BY <1>1, Invariance, PTL

\* From Start on, every weekday's factor is between a half and two.
FactorsClamped ==
  stage \in Finishing =>
    \A w \in 0..(Week - 1) : AtMost(Half, factors[w]) /\ AtMost(factors[w], Whole(2))

(* computeDayOfWeekFactors: no weekday is taken for less than half or more    *)
(* than twice the average, whatever was sold on it, for any history.          *)
THEOREM FactorsAreClamped == Spec => []FactorsClamped
<1>1. Inductive => FactorsClamped
  <2> SUFFICES ASSUME Inductive, stage \in Finishing, NEW w \in 0..(Week - 1)
               PROVE  AtMost(Half, factors[w]) /\ AtMost(factors[w], Whole(2))
    BY DEF FactorsClamped
  <2>1. Observed /\ FactorsFound
    BY Observations
  <2> QED
    BY <2>1, FactorBounds DEF FactorsFound
<1> QED
  BY <1>1, Invariance, PTL

(* service.go:212, historyFetchSlackDays: for any window and slack, as long as *)
(* reports are no later than the slack and a day, the cutoff of the query     *)
(* takes nothing from the estimate.                                           *)
THEOREM FetchIsWideEnough == Spec => []SlackCoversLateReports
<1>1. Inductive => SlackCoversLateReports
  <2> SUFFICES ASSUME Inductive, stage \in {"insufficient", "estimated"}, today - Latest <= Slack + 1
               PROVE  days = Usable
    BY DEF SlackCoversLateReports, Answers
  <2>1. days = {d \in Rows : InWindow(d) /\ ~sales[d].stockout}
    BY DEF Inductive, Chosen, Finishing
  <2>2. ASSUME NEW d \in Rows, d > Latest - Window PROVE d >= today - (Window + Slack)
    <3>1. d \in Int /\ Latest \in Int /\ today \in Int /\ Window \in Int /\ Slack \in Int
      BY RowsAre, DemandAssumption DEF Inductive
    <3> QED
      BY <2>2, <3>1
  <2> QED
    BY <2>1, <2>2 DEF Usable, InWindow
<1> QED
  BY <1>1, Invariance, PTL

(* demand.go, the level: for any weights and any history it lies between two  *)
(* deseasonalized observations, so within a factor two of what was sold.      *)
THEOREM LevelIsObserved == Spec => []LevelWithinObserved
<1>1. Inductive => LevelWithinObserved
  <2> SUFFICES ASSUME Inductive, stage = "estimated"
               PROVE  /\ \E d \in days : AtMost(Deseasonalize(d), level)
                      /\ \E d \in days : AtMost(level, Deseasonalize(d))
                      /\ \E d \in days : AtMost(Frac(sales[d].units, 2), level)
                      /\ \E d \in days : AtMost(level, Whole(2 * sales[d].units))
    BY DEF LevelWithinObserved
  <2>1. PICK hi \in days : AtMost(level, Deseasonalize(hi))
    BY DEF Inductive, Bracketed, Smoothing
  <2>2. PICK lo \in days : AtMost(Deseasonalize(lo), level)
    BY DEF Inductive, Bracketed, Smoothing
  <2>3. /\ Observed
        /\ Deseasonalize(hi) \in Fraction /\ AtMost(Deseasonalize(hi), Whole(2 * sales[hi].units))
        /\ Deseasonalize(lo) \in Fraction /\ AtMost(Frac(sales[lo].units, 2), Deseasonalize(lo))
    BY Observations DEF Finishing
  <2>4. level \in Fraction /\ Whole(2 * sales[hi].units) \in Fraction /\ Frac(sales[lo].units, 2) \in Fraction
    <3>1. sales[hi].units \in Nat /\ sales[lo].units \in Nat
      BY <2>3, DemandAssumption DEF Observed, Table
    <3>2. sales[lo].units \in Int /\ 2 \in Nat \ {0}
      BY <3>1
    <3>3. Frac(sales[lo].units, 2) \in Fraction
      BY <3>2, FracValue
    <3>4. 2 * sales[hi].units \in Int
      BY <3>1
    <3> QED
      BY <3>3, <3>4 DEF Inductive, TypeOK, Whole, Fraction
  <2>5. AtMost(level, Whole(2 * sales[hi].units))
    BY <2>1, <2>3, <2>4, AtMostTrans
  <2>6. AtMost(Frac(sales[lo].units, 2), level)
    BY <2>2, <2>3, <2>4, AtMostTrans
  <2> QED
    BY <2>1, <2>2, <2>5, <2>6
<1> QED
  BY <1>1, Invariance, PTL

(* demand.go, the variance: however long the history, it is not negative and  *)
(* never above the square of the distance between two observations.           *)
THEOREM VarianceIsObserved == Spec => []VarianceBounded
<1>1. Inductive => VarianceBounded
  BY DEF Inductive, Spreading, Spread, Smoothing, Finishing, VarianceBounded
<1> QED
  BY <1>1, Invariance, PTL

(* demand.go: constant sales are found as they are, without a deviation, for  *)
(* any alpha and any number of stockout days in between.                      *)
THEOREM SteadyDemand == Spec => []SteadyDemandIsFound
<1>1. Inductive => SteadyDemandIsFound
  BY DEF Inductive, Steady, Smoothing, Chosen, Finishing, SteadyDemandIsFound
<1> QED
  BY <1>1, Invariance, PTL
==============================================================================
