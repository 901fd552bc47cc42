----------------------------- MODULE GeneratorProofs -----------------------------
(* The simulated store of cmd/seed, for every catalogue and every demand: its *)
(* deliveries land, its books balance, its stockouts are marked and the buyer *)
(* never holds too much.  What is on its way is a sum over the days it lands  *)
(* on, so the first part is about sums over finite sets.                      *)
EXTENDS Generator, FiniteSetTheorems, WellFoundedInduction, TLAPS

-------------------------------------------------------------------------------
(* Induction and sums.                                                        *)

(* A set of numbers that is not empty has a least member: < is well founded.   *)
LEMMA LeastOf ==
  ASSUME NEW T, T \subseteq Nat, T # {}
  PROVE \E x \in T : \A y \in T : x <= y
<1> DEFINE R == OpToRel(<, Nat)
<1>1. IsWellFoundedOn(R, Nat)
  BY NatLessThanWellFounded
<1>2. \A x, y \in Nat : x < y => <<x, y>> \in R
  BY DEF OpToRel
<1> HIDE DEF R
<1>3. PICK x \in T : \A y \in T : ~ (<<y, x>> \in R)
  BY <1>1, WFMin
<1>4. \A y \in T : ~ (y < x)
  BY <1>2, <1>3
<1>5. \A y \in T : x <= y
  BY <1>4
<1> QED
  BY <1>5

(* Induction, for a set and not for a predicate: a least number outside of it
   would have a predecessor in it.                                            *)
LEMMA Induction ==
  ASSUME NEW T, 0 \in T, \A n \in Nat : n \in T => n+1 \in T
  PROVE Nat \subseteq T
<1> SUFFICES ASSUME Nat \ T # {} PROVE FALSE
  OBVIOUS
<1>1. PICK x \in Nat \ T : \A y \in Nat \ T : x <= y
  BY LeastOf
<1>2. x # 0 /\ x - 1 \in Nat
  BY <1>1
<1>3. x - 1 \in T
  BY <1>1, <1>2
<1> QED BY <1>1, <1>2, <1>3

\* The member that SumFunctionOnSet takes first, and its recursion over the sets D.
Pick(s) == CHOOSE x \in s : TRUE

Recursion(g, f, D) ==
  g = [s \in D |-> IF s = {} THEN 0 ELSE f[Pick(s)] + g[s \ {Pick(s)}]]

\* g holds the sum of f over every part of U.
SumsOver(g, f, U) == Recursion(g, f, SUBSET U)

LEMMA Picked == \A s : s # {} => Pick(s) \in s
BY DEF Pick

(* The recursion has a solution over any finite set, built up by cardinality.  *)
LEMMA SumExists ==
  ASSUME NEW f, NEW U, IsFiniteSet(U)
  PROVE  \E g : SumsOver(g, f, U)
<1> DEFINE Upto(n) == {s \in SUBSET U : Cardinality(s) <= n}
           T == {n \in Nat : \E g : Recursion(g, f, Upto(n))}
<1>0. \A s \in SUBSET U : IsFiniteSet(s) /\ Cardinality(s) \in Nat
  BY FS_Subset, FS_CardinalityType
<1>1. 0 \in T
  <2> DEFINE g == [s \in Upto(0) |-> 0]
  <2>1. \A s \in Upto(0) : s = {}
    BY <1>0, FS_EmptySet
  <2>2. Recursion(g, f, Upto(0))
    BY <2>1 DEF Recursion, SumsOver
  <2> QED
    BY <2>2
<1>2. ASSUME NEW n \in Nat, n \in T PROVE n + 1 \in T
  <2>1. PICK g : Recursion(g, f, Upto(n))
    BY <1>2
  <2> DEFINE h == [s \in Upto(n + 1) |-> IF s = {} THEN 0 ELSE f[Pick(s)] + g[s \ {Pick(s)}]]
  <2>2. ASSUME NEW s \in Upto(n + 1), s # {} PROVE s \ {Pick(s)} \in Upto(n)
    BY <2>2, <1>0, Picked, FS_RemoveElement
  <2>3. ASSUME NEW t \in Upto(n) PROVE t \in Upto(n + 1) /\ h[t] = g[t]
    <3>1. t \in Upto(n + 1)
      BY <1>0
    <3>2. g[t] = IF t = {} THEN 0 ELSE f[Pick(t)] + g[t \ {Pick(t)}]
      BY <2>1 DEF Recursion, SumsOver
    <3> QED
      BY <3>1, <3>2
  <2>4. \A s \in Upto(n + 1) : s # {} => h[s \ {Pick(s)}] = g[s \ {Pick(s)}]
    BY <2>2, <2>3
  <2>5. h = [s \in Upto(n + 1) |-> IF s = {} THEN 0 ELSE f[Pick(s)] + h[s \ {Pick(s)}]]
    <3> HIDE DEF Upto
    <3> QED
    BY <2>4
  <2>6. Recursion(h, f, Upto(n + 1))
    BY <2>5 DEF Recursion, SumsOver
  <2>7. \E k : Recursion(k, f, Upto(n + 1))
    BY <2>6
  <2> HIDE DEF Upto, h
  <2> QED
    BY <2>7
<1>3. Cardinality(U) \in T
  <2> HIDE DEF T
  <2> QED
    BY <1>0, <1>1, <1>2, Induction
<1>4. Upto(Cardinality(U)) = SUBSET U
  BY <1>0, FS_Subset
<1> QED
  BY <1>3, <1>4 DEF SumsOver

(* SumFunctionOnSet is that solution.                                         *)
LEMMA SumIsRecursion ==
  ASSUME NEW f, NEW U, IsFiniteSet(U)
  PROVE \E g : SumsOver(g, f, U) /\ SumFunctionOnSet(f, U) = g[U]
<1> DEFINE h == CHOOSE g : g = [s \in SUBSET U |-> IF s = {} THEN 0 ELSE f[CHOOSE x \in s : TRUE] + g[s \ {CHOOSE x \in s : TRUE}]]
<1>1. SumFunctionOnSet(f, U) = h[U]
  BY DEF SumFunctionOnSet, FoldFunctionOnSet, MapThenFoldSet
<1>2. h = [s \in SUBSET U |-> IF s = {} THEN 0 ELSE f[CHOOSE x \in s : TRUE] + h[s \ {CHOOSE x \in s : TRUE}]]
  <2>1. \E g : g = [s \in SUBSET U |-> IF s = {} THEN 0 ELSE f[CHOOSE x \in s : TRUE] + g[s \ {CHOOSE x \in s : TRUE}]]
    <3>1. PICK g : SumsOver(g, f, U)
      BY SumExists
    <3>2. g = [s \in SUBSET U |-> IF s = {} THEN 0 ELSE f[CHOOSE x \in s : TRUE] + g[s \ {CHOOSE x \in s : TRUE}]]
      BY <3>1, Zenon DEF Recursion, SumsOver, Pick
    <3> QED
      BY <3>2
  <2> QED
    BY <2>1, Zenon
<1> HIDE DEF h
<1>3. SumsOver(h, f, U)
  BY <1>2 DEF Recursion, SumsOver, Pick
<1> QED
  BY <1>1, <1>3

(* The order of summation does not matter: any member may come first.         *)
LEMMA AnyFirst ==
  ASSUME NEW f, NEW U, IsFiniteSet(U), \A u \in U : f[u] \in Int, NEW g, SumsOver(g, f, U)
  PROVE  \A s \in SUBSET U : g[s] \in Int /\ \A x \in s : g[s] = f[x] + g[s \ {x}]
<1> DEFINE Holds(s) == g[s] \in Int /\ \A x \in s : g[s] = f[x] + g[s \ {x}]
           T == {n \in Nat : \A s \in SUBSET U : Cardinality(s) <= n => Holds(s)}
<1>0. \A s \in SUBSET U : IsFiniteSet(s) /\ Cardinality(s) \in Nat
  BY FS_Subset, FS_CardinalityType
<1>a. \A s \in SUBSET U : s # {} => g[s] = f[Pick(s)] + g[s \ {Pick(s)}]
  BY DEF Recursion, SumsOver
<1>1. 0 \in T
  <2>1. g[{}] = 0
    BY DEF Recursion, SumsOver
  <2>2. \A s \in SUBSET U : Cardinality(s) <= 0 => s = {}
    BY <1>0, FS_EmptySet
  <2>3. \A s \in SUBSET U : Cardinality(s) <= 0 => Holds(s)
    <3> SUFFICES ASSUME NEW s \in SUBSET U, Cardinality(s) <= 0 PROVE Holds(s)
      OBVIOUS
    <3>1. s = {}
      BY <2>2
    <3> QED
      BY <2>1, <3>1
  <2> HIDE DEF Holds
  <2> QED
    BY <2>3
<1>2. ASSUME NEW n \in Nat, n \in T PROVE n + 1 \in T
  <2> HIDE DEF Holds
  <2>0. \A s \in SUBSET U : Cardinality(s) <= n => Holds(s)
    BY <1>2
  <2> SUFFICES ASSUME NEW s \in SUBSET U, Cardinality(s) = n + 1 PROVE Holds(s)
    BY <1>0, <2>0
  <2> USE DEF Holds
  <2> DEFINE y == Pick(s)
  <2>1. s # {}
    BY FS_EmptySet
  <2>2. y \in s
    BY <2>1, Picked
  <2> HIDE DEF y
  <2>3. ASSUME NEW x \in s PROVE s \ {x} \in SUBSET U /\ Cardinality(s \ {x}) <= n
    <3>1. IsFiniteSet(s)
      BY <1>0
    <3>2. Cardinality(s \ {x}) = Cardinality(s) - 1
      BY <3>1, FS_RemoveElement
    <3> QED
      BY <3>2
  <2>4. ASSUME NEW x \in s PROVE Holds(s \ {x})
    <3> HIDE DEF Holds
    <3> QED
      BY <2>0, <2>3
  <2>5. g[s] = f[y] + g[s \ {y}]
    BY <1>a, <2>1 DEF y
  <2>6. g[s] \in Int
    <3>1. f[y] \in Int
      BY <2>2
    <3>2. g[s \ {y}] \in Int
      BY <2>2, <2>4
    <3> QED
      BY <2>5, <3>1, <3>2
  <2>7. ASSUME NEW x \in s, x # y PROVE g[s] = f[x] + g[s \ {x}]
    <3> DEFINE r == (s \ {x}) \ {y}
    <3>0. r = (s \ {y}) \ {x}
      OBVIOUS
    <3>1. g[s \ {y}] = f[x] + g[r] /\ g[s \ {y}] \in Int
      BY <2>2, <2>4, <2>7, <3>0
    <3>2. g[s \ {x}] = f[y] + g[r] /\ g[s \ {x}] \in Int
      BY <2>2, <2>4, <2>7
    <3>3. g[r] \in Int
      <4>1. IsFiniteSet(s \ {x})
        BY <1>0, <2>3
      <4>2. Cardinality(r) = Cardinality(s \ {x}) - 1 /\ Cardinality(s \ {x}) \in Nat
        BY <4>1, <2>2, <2>7, FS_RemoveElement, FS_CardinalityType
      <4>3. r \in SUBSET U /\ Cardinality(r) <= n
        BY <4>2, <2>3
      <4>4. Holds(r)
        <5> HIDE DEF Holds, r
        <5> QED
          BY <4>3, <2>0
      <4> QED
        BY <4>4
    <3> QED
      BY <2>2, <2>5, <3>1, <3>2, <3>3
  <2> QED
    BY <2>5, <2>6, <2>7
<1>3. Nat \subseteq T
  <2> HIDE DEF T
  <2> QED
    BY <1>1, <1>2, Induction
<1> QED
  BY <1>0, <1>3

(* Two recursions agree on the sets both of them know.                        *)
LEMMA SameSums ==
  ASSUME NEW f, NEW k, NEW U, NEW V, V \subseteq U, IsFiniteSet(V), \A v \in V : f[v] = k[v],
         NEW g, SumsOver(g, f, U), NEW h, SumsOver(h, k, V)
  PROVE  \A s \in SUBSET V : g[s] = h[s]
<1> DEFINE T == {n \in Nat : \A s \in SUBSET V : Cardinality(s) <= n => g[s] = h[s]}
<1>0. \A s \in SUBSET V : IsFiniteSet(s) /\ Cardinality(s) \in Nat
  BY FS_Subset, FS_CardinalityType
<1>1. ASSUME NEW s \in SUBSET V, s # {}
      PROVE  /\ Pick(s) \in s /\ s \ {Pick(s)} \in SUBSET V
             /\ g[s] = f[Pick(s)] + g[s \ {Pick(s)}]
             /\ h[s] = k[Pick(s)] + h[s \ {Pick(s)}]
  BY <1>1, Picked DEF Recursion, SumsOver
<1>2. g[{}] = h[{}]
  BY DEF Recursion, SumsOver
<1>3. 0 \in T
  <2>1. \A s \in SUBSET V : Cardinality(s) <= 0 => s = {}
    BY <1>0, FS_EmptySet
  <2>2. \A s \in SUBSET V : Cardinality(s) <= 0 => g[s] = h[s]
    BY <2>1, <1>2
  <2> QED
    BY <2>2
<1>4. ASSUME NEW n \in Nat, n \in T PROVE n + 1 \in T
  <2>0. \A s \in SUBSET V : Cardinality(s) <= n => g[s] = h[s]
    BY <1>4
  <2>1. ASSUME NEW s \in SUBSET V, Cardinality(s) <= n + 1 PROVE g[s] = h[s]
    <3>1. CASE s = {}
      BY <3>1, <1>2
    <3>2. CASE s # {}
      <4> DEFINE y == Pick(s)
      <4>1. y \in s /\ s \ {y} \in SUBSET V /\ IsFiniteSet(s)
        BY <1>0, <1>1, <3>2
      <4> HIDE DEF y
      <4>2. Cardinality(s \ {y}) <= n
        BY <1>0, <4>1, <2>1, FS_RemoveElement
      <4>3. g[s \ {y}] = h[s \ {y}] /\ f[y] = k[y]
        BY <2>0, <4>1, <4>2
      <4> QED
        BY <1>1, <3>2, <4>3 DEF y
    <3> QED
      BY <3>1, <3>2
  <2> QED
    BY <2>1
<1>5. Nat \subseteq T
  <2> HIDE DEF T
  <2> QED
    BY <1>3, <1>4, Induction
<1> QED
  BY <1>0, <1>5

(* Nothing sums up to nothing.                                                *)
LEMMA SumOfNone == ASSUME NEW f PROVE SumFunctionOnSet(f, {}) = 0
<1>1. PICK g : SumsOver(g, f, {}) /\ SumFunctionOnSet(f, {}) = g[{}]
  BY SumIsRecursion, FS_EmptySet
<1> QED
  BY <1>1 DEF Recursion, SumsOver

(* Any member may be taken out of a sum.                                       *)
LEMMA SumTakenOut ==
  ASSUME NEW f, NEW S, IsFiniteSet(S), \A s \in S : f[s] \in Int, NEW x \in S
  PROVE  SumFunctionOnSet(f, S) = f[x] + SumFunctionOnSet(f, S \ {x})
<1>1. PICK g : SumsOver(g, f, S) /\ SumFunctionOnSet(f, S) = g[S]
  BY SumIsRecursion
<1>2. IsFiniteSet(S \ {x})
  BY FS_RemoveElement
<1>3. PICK h : SumsOver(h, f, (S \ {x})) /\ SumFunctionOnSet(f, S \ {x}) = h[S \ {x}]
  BY <1>2, SumIsRecursion
<1>4. g[S] = f[x] + g[S \ {x}]
  <2>1. \A s \in SUBSET S : g[s] \in Int /\ \A y \in s : g[s] = f[y] + g[s \ {y}]
    BY <1>1, AnyFirst
  <2> QED
    BY <2>1
<1>5. \A s \in SUBSET (S \ {x}) : g[s] = h[s]
  <2> DEFINE R == S \ {x}
  <2>1. R \subseteq S /\ IsFiniteSet(R) /\ SumsOver(h, f, R) /\ \A v \in R : f[v] = f[v]
    BY <1>2, <1>3
  <2> HIDE DEF R
  <2>2. \A s \in SUBSET R : g[s] = h[s]
    BY <1>1, <2>1, SameSums
  <2> QED
    BY <2>2 DEF R
<1> QED
  BY <1>1, <1>3, <1>4, <1>5

(* A sum of natural numbers is one.                                           *)
LEMMA SumIsNat ==
  ASSUME NEW f, NEW S, IsFiniteSet(S), \A s \in S : f[s] \in Nat
  PROVE  SumFunctionOnSet(f, S) \in Nat
<1> DEFINE T == {n \in Nat : \A s \in SUBSET S : Cardinality(s) <= n => SumFunctionOnSet(f, s) \in Nat}
<1>0. \A s \in SUBSET S : IsFiniteSet(s) /\ Cardinality(s) \in Nat
  BY FS_Subset, FS_CardinalityType
<1>1. 0 \in T
  <2>1. \A s \in SUBSET S : Cardinality(s) <= 0 => s = {}
    BY <1>0, FS_EmptySet
  <2> QED
    BY <2>1, SumOfNone
<1>2. ASSUME NEW n \in Nat, n \in T PROVE n + 1 \in T
  <2>0. \A s \in SUBSET S : Cardinality(s) <= n => SumFunctionOnSet(f, s) \in Nat
    BY <1>2
  <2>1. ASSUME NEW s \in SUBSET S, Cardinality(s) <= n + 1 PROVE SumFunctionOnSet(f, s) \in Nat
    <3>1. CASE s = {}
      BY <3>1, SumOfNone
    <3>2. CASE s # {}
      <4>1. PICK x \in s : TRUE
        BY <3>2
      <4>2. IsFiniteSet(s) /\ s \ {x} \in SUBSET S /\ f[x] \in Nat /\ \A y \in s : f[y] \in Int
        BY <1>0
      <4>3. Cardinality(s \ {x}) <= n
        BY <1>0, <4>1, <4>2, <2>1, FS_RemoveElement
      <4>4. SumFunctionOnSet(f, s) = f[x] + SumFunctionOnSet(f, s \ {x})
        BY <4>1, <4>2, SumTakenOut
      <4>5. SumFunctionOnSet(f, s \ {x}) \in Nat
        BY <2>0, <4>2, <4>3
      <4> QED
        BY <4>2, <4>4, <4>5
    <3> QED
      BY <3>1, <3>2
  <2> QED
    BY <2>1
<1>3. Nat \subseteq T
  <2> HIDE DEF T
  <2> QED
    BY <1>1, <1>2, Induction
<1> QED
  BY <1>0, <1>3

(* A sum only depends on what is summed.                                       *)
LEMMA SumOfEqual ==
  ASSUME NEW f, NEW k, NEW S, IsFiniteSet(S), \A s \in S : f[s] = k[s]
  PROVE  SumFunctionOnSet(f, S) = SumFunctionOnSet(k, S)
<1>1. PICK g : SumsOver(g, f, S) /\ SumFunctionOnSet(f, S) = g[S]
  BY SumIsRecursion
<1>2. PICK h : SumsOver(h, k, S) /\ SumFunctionOnSet(k, S) = h[S]
  BY SumIsRecursion
<1>3. \A s \in SUBSET S : g[s] = h[s]
  <2>1. S \subseteq S
    OBVIOUS
  <2> QED
    BY <1>1, <1>2, <2>1, SameSums
<1> QED
  BY <1>1, <1>2, <1>3

-------------------------------------------------------------------------------
(* Deliveries land on a day to come.                                          *)

\* The days on which something is due are days; the clock is a number.
Calendar ==
  /\ sku \in Catalog /\ day \in Nat
  /\ stage \in {"deliver", "sell", "reorder", "close", "closed"}
  /\ DOMAIN incoming \subseteq Nat

DueInv == Calendar /\ PendingIsDue

-------------------------------------------------------------------------------
(* What the assumption says of an entry of the catalogue.                     *)
LEMMA Entry ==
  ASSUME NEW s \in Catalog
  PROVE  s.lead \in Nat /\ s.lead >= 1 /\ s.gapStart \in Nat /\ s.gapDays \in Nat
BY GeneratorAssumption DEF SeedSku

(* A booking adds one day to those on which something is due.                 *)
LEMMA BookedDays ==
  ASSUME NEW deliveries, NEW due, NEW units
  PROVE  DOMAIN Book(deliveries, due, units) = DOMAIN deliveries \cup {due}
BY DEF Book

(* A gap that a day lies in ends on a later day.                              *)
LEMMA GapEnds ==
  ASSUME NEW s \in Catalog, NEW d \in Nat, InSupplyGap(s, d)
  PROVE  s.gapStart + s.gapDays \in Nat /\ s.gapStart + s.gapDays > d
<1>1. s.gapStart \in Nat /\ s.gapDays \in Nat
  BY Entry
<1> QED
  BY <1>1 DEF InSupplyGap

LEMMA DueInit == Init => DueInv
<1> SUFFICES ASSUME Init PROVE DueInv
  OBVIOUS
<1>1. DOMAIN incoming = {}
  BY DEF Init
<1> QED
  BY <1>1 DEF Init, DueInv, Calendar, PendingIsDue

(* The morning: what is due that day leaves the list, or moves behind the gap. *)
LEMMA DeliverStep == DueInv /\ Deliver => DueInv'
<1> SUFFICES ASSUME DueInv, Deliver PROVE DueInv'
  OBVIOUS
<1> USE DEF DueInv, Calendar
<1>1. stage = "deliver" /\ stage' = "sell" /\ sku' = sku /\ day' = day
  BY DEF Deliver
<1>2. \A d \in DOMAIN incoming : d >= day
  BY <1>1 DEF PendingIsDue
<1>3. \A d \in DOMAIN incoming \ {day} : d \in Nat /\ d > day
  BY <1>2
<1>4. DOMAIN incoming' \subseteq Nat /\ \A d \in DOMAIN incoming' : d > day
  <2>1. CASE day \notin DOMAIN incoming
    BY <2>1, <1>3 DEF Deliver
  <2>2. CASE day \in DOMAIN incoming
    <3> DEFINE rest == [d \in DOMAIN incoming \ {day} |-> incoming[d]]
               due  == sku.gapStart + sku.gapDays
    <3>1. DOMAIN rest = DOMAIN incoming \ {day}
      OBVIOUS
    <3>2. CASE InSupplyGap(sku, day)
      <4>1. incoming' = Book(rest, due, incoming[day])
        BY <2>2, <3>2 DEF Deliver
      <4>2. DOMAIN incoming' = DOMAIN rest \cup {due}
        BY <4>1, BookedDays
      <4>3. due \in Nat /\ due > day
        BY <3>2, GapEnds
      <4> HIDE DEF rest, due
      <4> QED
        BY <4>2, <4>3, <3>1, <1>3
    <3>3. CASE ~InSupplyGap(sku, day)
      <4>1. incoming' = rest
        BY <2>2, <3>3 DEF Deliver
      <4> QED
        BY <4>1, <3>1, <1>3
    <3> QED
      BY <3>2, <3>3
  <2> QED
    BY <2>1, <2>2
<1> QED
  BY <1>1, <1>4 DEF PendingIsDue

(* The evening: an order lands after its lead time, which is a day or more.   *)
LEMMA ReorderStep == DueInv /\ Reorder => DueInv'
<1> SUFFICES ASSUME DueInv, Reorder PROVE DueInv'
  OBVIOUS
<1> USE DEF DueInv, Calendar
<1>1. stage = "reorder" /\ stage' \in {"deliver", "close"} /\ sku' = sku /\ day' = day + 1
  BY DEF Reorder
<1>2. \A d \in DOMAIN incoming : d \in Nat /\ d >= day + 1
  BY <1>1 DEF PendingIsDue
<1>3. sku.lead \in Nat /\ sku.lead >= 1
  BY Entry
<1>4. DOMAIN incoming' \subseteq DOMAIN incoming \cup {day + sku.lead}
  <2> DEFINE booked == Book(incoming, day + sku.lead, WholeCases(sku, Need))
  <2>1. incoming' = incoming \/ incoming' = booked
    BY Zenon DEF Reorder
  <2>2. DOMAIN booked = DOMAIN incoming \cup {day + sku.lead}
    BY BookedDays
  <2> HIDE DEF booked
  <2> QED
    BY <2>1, <2>2
<1>5. \A d \in DOMAIN incoming' : d \in Nat /\ d >= day + 1
  BY <1>2, <1>3, <1>4
<1> QED
  BY <1>1, <1>5 DEF PendingIsDue

LEMMA DueStep == DueInv /\ [Next]_vars => DueInv'
<1> SUFFICES ASSUME DueInv, [Next]_vars PROVE DueInv'
  OBVIOUS
<1>1. CASE Deliver
  BY <1>1, DeliverStep
<1>2. CASE Reorder
  BY <1>2, ReorderStep
<1>3. CASE Sell
  <2>1. stage = "sell" /\ stage' = "reorder" /\ UNCHANGED <<sku, day, incoming>>
    BY <1>3 DEF Sell
  <2> QED
    BY <2>1 DEF DueInv, Calendar, PendingIsDue
<1>4. CASE Close
  <2>1. stage = "close" /\ stage' = "closed" /\ UNCHANGED <<sku, day, incoming>>
    BY <1>4 DEF Close
  <2> QED
    BY <2>1 DEF DueInv, Calendar, PendingIsDue
<1>5. CASE UNCHANGED vars
  BY <1>5 DEF vars, DueInv, Calendar, PendingIsDue
<1> QED
  BY <1>1, <1>2, <1>3, <1>4, <1>5 DEF Next, Closed

-------------------------------------------------------------------------------
(* generate.go:71: no delivery is booked for a morning that has passed, for   *)
(* any catalogue whose lead times are a day or more and any supply gaps.      *)
THEOREM NoDeliveryIsMissed == Spec => []PendingIsDue
<1>1. DueInv => PendingIsDue
  BY DEF DueInv
<1> QED
  BY <1>1, DueInit, DueStep, PTL DEF Spec

-------------------------------------------------------------------------------
(* Integer division, and the quantities of an entry.                          *)

(* The greatest multiple of n that is no more than x.                         *)
LEMMA Division ==
  ASSUME NEW x \in Nat, NEW n \in Nat \ {0}
  PROVE  x \div n \in Nat /\ n * (x \div n) <= x /\ x < n * (x \div n) + n
OBVIOUS

(* CeilDiv is the least number of times that b must be taken to reach a.      *)
LEMMA CeilDivReaches ==
  ASSUME NEW a \in Nat, NEW b \in Nat \ {0}
  PROVE  /\ CeilDiv(a, b) \in Nat
         /\ CeilDiv(a, b) * b >= a /\ CeilDiv(a, b) * b <= a + b - 1
<1> DEFINE x == a + b - 1
           q == x \div b
<1>1. x \in Nat
  OBVIOUS
<1>2. q \in Nat /\ b * q <= x /\ x < b * q + b
  BY <1>1, Division
<1>3. b * q = q * b /\ q * b \in Nat
  BY <1>2
<1> HIDE DEF q
<1>4. q * b >= a /\ q * b <= a + b - 1
  BY <1>2, <1>3
<1> QED
  BY <1>2, <1>4 DEF CeilDiv, q

(* What is ordered covers the need, and is less than a case more.             *)
LEMMA CasesCover ==
  ASSUME NEW s \in Catalog, NEW n \in Nat
  PROVE  /\ WholeCases(s, n) \in Nat
         /\ WholeCases(s, n) >= n /\ WholeCases(s, n) <= n + Larger(s.case, 1) - 1
<1>1. s.case \in Nat
  BY GeneratorAssumption DEF SeedSku
<1>2. CASE s.case > 1
  <2>1. s.case \in Nat \ {0}
    BY <1>1, <1>2
  <2> DEFINE q == CeilDiv(n, s.case)
  <2>2. q \in Nat /\ q * s.case >= n /\ q * s.case <= n + s.case - 1
    BY <2>1, CeilDivReaches
  <2>3. q * s.case \in Nat
    BY <1>1, <2>2
  <2> HIDE DEF q
  <2>4. WholeCases(s, n) = q * s.case
    BY <1>2 DEF WholeCases, q
  <2>5. Larger(s.case, 1) = s.case
    BY <1>1, <1>2 DEF Larger
  <2> QED
    BY <2>2, <2>3, <2>4, <2>5
<1>3. CASE ~(s.case > 1)
  <2>1. WholeCases(s, n) = n
    BY <1>3 DEF WholeCases
  <2>2. Larger(s.case, 1) >= 1
    BY <1>1 DEF Larger
  <2>3. Larger(s.case, 1) \in Nat
    BY <1>1 DEF Larger
  <2> QED
    BY <2>1, <2>2, <2>3
<1> QED
  BY <1>2, <1>3

(* The opening stock and the target are numbers of units.                     *)
LEMMA Quantities ==
  ASSUME NEW s \in Catalog
  PROVE  Opening(s) \in Nat /\ Target(s) \in Nat
<1>1. s.lead \in Nat /\ s.base \in Nat /\ s.case \in Nat /\ ReplenishEvery \in Nat
  BY GeneratorAssumption DEF SeedSku
<1>2. s.base * (s.lead + 2) \in Nat /\ s.base * (s.lead + ReplenishEvery) \in Nat
  BY <1>1
<1>3. s.base * (s.lead + 2) * 14 \in Nat /\ s.base * (s.lead + ReplenishEvery) * 115 \in Nat
  BY <1>2
<1>4. \A a \in Nat, b \in Nat \ {0} : CeilDiv(a, b) \in Nat
  BY CeilDivReaches
<1>5. /\ CeilDiv(s.base * (s.lead + 2) * 14, 1000) \in Nat
      /\ CeilDiv(s.base * (s.lead + ReplenishEvery) * 115, 10000) \in Nat
  BY <1>3, <1>4
<1> QED
  BY <1>1, <1>5 DEF Opening, Target, Larger

(* A history is a part of the days.                                           *)
LEMMA HistoryIsShort ==
  ASSUME NEW s \in Catalog
  PROVE  HistoryDays(s) \in 1..Days
BY GeneratorAssumption DEF HistoryDays, SeedSku

-------------------------------------------------------------------------------
(* What is on its way.                                                        *)

\* Deliveries on finitely many days, of so many units each.
Schedule(deliveries) ==
  /\ DOMAIN deliveries \subseteq Nat /\ IsFiniteSet(DOMAIN deliveries)
  /\ deliveries \in [DOMAIN deliveries -> Nat]

LEMMA ScheduleTotal ==
  ASSUME NEW deliveries, Schedule(deliveries)
  PROVE  SumFunction(deliveries) \in Nat
BY SumIsNat DEF Schedule, SumFunction

(* Taking a day's delivery off the list takes its units off the total.        *)
LEMMA TakenTotal ==
  ASSUME NEW deliveries, Schedule(deliveries), NEW due \in DOMAIN deliveries
  PROVE  LET rest == [d \in DOMAIN deliveries \ {due} |-> deliveries[d]] IN
           /\ Schedule(rest)
           /\ deliveries[due] \in Nat
           /\ SumFunction(deliveries) = deliveries[due] + SumFunction(rest)
<1> DEFINE D == DOMAIN deliveries
           R == D \ {due}
           rest == [d \in R |-> deliveries[d]]
<1>1. IsFiniteSet(D) /\ IsFiniteSet(R) /\ D \subseteq Nat
  BY FS_RemoveElement DEF Schedule
<1>2. \A d \in D : deliveries[d] \in Nat
  BY DEF Schedule
<1>3. Schedule(rest)
  BY <1>1, <1>2 DEF Schedule
<1>4. SumFunctionOnSet(deliveries, D) = deliveries[due] + SumFunctionOnSet(deliveries, R)
  <2>1. IsFiniteSet(D) /\ due \in D /\ \A d \in D : deliveries[d] \in Int
    BY <1>1, <1>2
  <2> QED
    BY <2>1, SumTakenOut
<1>5. SumFunctionOnSet(deliveries, R) = SumFunctionOnSet(rest, R)
  <2>1. \A d \in R : deliveries[d] = rest[d]
    OBVIOUS
  <2> HIDE DEF R, rest
  <2> QED
    BY <1>1, <2>1, SumOfEqual
<1> QED
  BY <1>2, <1>3, <1>4, <1>5 DEF SumFunction

(* A booking adds its units to the total, on a day that has a delivery or not. *)
LEMMA BookedTotal ==
  ASSUME NEW deliveries, Schedule(deliveries), NEW due \in Nat, NEW units \in Nat
  PROVE  /\ Schedule(Book(deliveries, due, units))
         /\ SumFunction(Book(deliveries, due, units)) = SumFunction(deliveries) + units
<1> DEFINE D == DOMAIN deliveries
           R == D \ {due}
           B == D \cup {due}
           booked == Book(deliveries, due, units)
<1>1. IsFiniteSet(D) /\ IsFiniteSet(R) /\ IsFiniteSet(B) /\ B \subseteq Nat
  BY FS_RemoveElement, FS_AddElement DEF Schedule
<1>2. \A d \in D : deliveries[d] \in Nat
  BY DEF Schedule
<1>3. DOMAIN booked = B /\ booked = [d \in B |-> booked[d]]
  BY DEF Book
<1>4. booked[due] = units + IF due \in D THEN deliveries[due] ELSE 0
  BY DEF Book
<1>5. \A d \in R : booked[d] = deliveries[d]
  BY DEF Book
<1>6. \A d \in B : booked[d] \in Nat
  BY <1>2, <1>4, <1>5
<1>7. Schedule(booked)
  BY <1>1, <1>3, <1>6 DEF Schedule
<1>8. B \ {due} = R
  OBVIOUS
<1>9. due \in B /\ \A d \in B : booked[d] \in Int
  BY <1>6
<1> HIDE DEF booked, B
<1>10. SumFunctionOnSet(booked, B) = booked[due] + SumFunctionOnSet(booked, R)
  <2>1. PICK x : x = due
    OBVIOUS
  <2>2. IsFiniteSet(B) /\ x \in B /\ (\A d \in B : booked[d] \in Int) /\ B \ {x} = R
    BY <1>1, <1>8, <1>9, <2>1
  <2> HIDE DEF D, R
  <2>3. SumFunctionOnSet(booked, B) = booked[x] + SumFunctionOnSet(booked, B \ {x})
    BY <2>2, SumTakenOut
  <2>4. SumFunctionOnSet(booked, B \ {x}) = SumFunctionOnSet(booked, R)
    BY <2>2, Zenon
  <2> QED
    BY <2>1, <2>3, <2>4
<1>11. SumFunctionOnSet(booked, R) = SumFunctionOnSet(deliveries, R)
  <2> HIDE DEF R
  <2> QED
    BY <1>1, <1>5, SumOfEqual
<1>12. SumFunctionOnSet(deliveries, R) \in Nat
  <2>1. \A d \in R : deliveries[d] \in Nat
    BY <1>2
  <2> HIDE DEF R
  <2> QED
    BY <1>1, <2>1, SumIsNat
<1>13. CASE due \in D
  <2>1. \A d \in D : deliveries[d] \in Int
    BY <1>2
  <2>2. SumFunctionOnSet(deliveries, D) = deliveries[due] + SumFunctionOnSet(deliveries, R)
    <3>1. IsFiniteSet(D) /\ due \in D
      BY <1>1, <1>13
    <3> QED
      BY <2>1, <3>1, SumTakenOut
  <2>3. deliveries[due] \in Nat
    BY <1>2, <1>13
  <2> HIDE DEF R, D
  <2>4. booked[due] = units + deliveries[due]
    BY <1>4, <1>13
  <2>5. SumFunctionOnSet(booked, B) = SumFunctionOnSet(deliveries, D) + units
    BY <1>10, <1>11, <1>12, <2>2, <2>3, <2>4
  <2> QED
    BY <1>3, <1>7, <2>5 DEF SumFunction, booked, D
<1>14. CASE due \notin D
  <2>1. R = D
    BY <1>14
  <2> HIDE DEF R, D
  <2>2. booked[due] = units
    BY <1>4, <1>14
  <2>3. SumFunctionOnSet(deliveries, D) = SumFunctionOnSet(deliveries, R)
    BY <2>1, Zenon
  <2>4. SumFunctionOnSet(booked, B) = SumFunctionOnSet(deliveries, D) + units
    BY <1>10, <1>11, <1>12, <2>2, <2>3
  <2> QED
    BY <1>3, <1>7, <2>4 DEF SumFunction, booked, D
<1> QED
  BY <1>13, <1>14

-------------------------------------------------------------------------------
(* The store.                                                                 *)

\* The clock stops at the end of the history, and what is on its way is finite.
Running ==
  /\ Schedule(incoming)
  /\ stage \in {"deliver", "sell", "reorder"} => day < HistoryDays(sku)

Inductive ==
  /\ TypeOK /\ Running /\ PendingIsDue
  /\ BooksBalance /\ NeverOverstocked

LEMMA InductiveInit == Init => Inductive
<1> SUFFICES ASSUME Init PROVE Inductive
  OBVIOUS
<1>1. sku \in Catalog /\ day = 0 /\ stage = "deliver" /\ onHand = Opening(sku)
  BY DEF Init
<1>2. DOMAIN incoming = {} /\ incoming \in [DOMAIN incoming -> Nat]
  BY DEF Init
<1>3. Schedule(incoming)
  BY <1>2, FS_EmptySet DEF Schedule
<1>4. PendingTotal = 0
  BY <1>2, SumOfNone DEF PendingTotal, SumFunction
<1>5. Opening(sku) \in Nat /\ Target(sku) \in Nat /\ HistoryDays(sku) \in 1..Days
  BY <1>1, Quantities, HistoryIsShort
<1>6. Days \in Nat
  BY GeneratorAssumption
<1>7. TypeOK
  BY <1>1, <1>2, <1>5, <1>6 DEF Init, TypeOK
<1>8. Running
  BY <1>1, <1>3, <1>5 DEF Running
<1>9. PendingIsDue
  BY <1>2 DEF PendingIsDue
<1>10. BooksBalance
  BY <1>1, <1>4, <1>5 DEF Init, BooksBalance
<1>12. NeverOverstocked
  <2>1. sku.case \in Nat
    BY <1>1, GeneratorAssumption DEF SeedSku
  <2> QED
    BY <1>1, <1>4, <1>5, <2>1 DEF NeverOverstocked, Larger
<1> QED
  BY <1>7, <1>8, <1>9, <1>10, <1>12 DEF Inductive

(* The morning moves units from the list to the shelf, or down the list.       *)
LEMMA DeliverKeepsUnits ==
  ASSUME Inductive, Deliver
  PROVE  /\ Schedule(incoming') /\ onHand' \in Nat /\ onHand' >= onHand
         /\ onHand' + PendingTotal' = onHand + PendingTotal
<1>1. onHand \in Nat /\ Schedule(incoming) /\ day \in Nat /\ sku \in Catalog
  BY GeneratorAssumption DEF Inductive, TypeOK, Running
<1>2. PendingTotal \in Nat
  BY <1>1, ScheduleTotal DEF PendingTotal
<1>3. CASE day \notin DOMAIN incoming
  <2>1. incoming' = incoming /\ onHand' = onHand
    BY <1>3 DEF Deliver
  <2> QED
    BY <2>1, <1>1, <1>2 DEF PendingTotal
<1>4. CASE day \in DOMAIN incoming
  <2> DEFINE rest == [d \in DOMAIN incoming \ {day} |-> incoming[d]]
             due  == sku.gapStart + sku.gapDays
  <2>1. /\ Schedule(rest) /\ incoming[day] \in Nat
        /\ SumFunction(incoming) = incoming[day] + SumFunction(rest)
    BY <1>1, <1>4, TakenTotal
  <2>2. SumFunction(rest) \in Nat
    BY <2>1, ScheduleTotal
  <2>3. CASE InSupplyGap(sku, day)
    <3>1. incoming' = Book(rest, due, incoming[day]) /\ onHand' = onHand
      BY <1>4, <2>3 DEF Deliver
    <3>2. due \in Nat
      BY <1>1, <2>3, GapEnds
    <3> HIDE DEF rest, due
    <3>3. Schedule(incoming') /\ SumFunction(incoming') = SumFunction(rest) + incoming[day]
      BY <2>1, <3>1, <3>2, BookedTotal
    <3> QED
      BY <1>1, <2>1, <2>2, <3>1, <3>3 DEF PendingTotal
  <2>4. CASE ~InSupplyGap(sku, day)
    <3>1. incoming' = rest /\ onHand' = onHand + incoming[day]
      BY <1>4, <2>4 DEF Deliver
    <3> HIDE DEF rest
    <3> QED
      BY <1>1, <2>1, <2>2, <3>1 DEF PendingTotal
  <2> QED
    BY <2>3, <2>4
<1> QED
  BY <1>3, <1>4

LEMMA DeliverKeeps == ASSUME Inductive, Deliver PROVE Inductive'
<1>1. /\ stage = "deliver" /\ stage' = "sell"
      /\ UNCHANGED <<sku, day, row, totals, product, ordered>>
  BY DEF Deliver
<1>2. /\ Schedule(incoming') /\ onHand' \in Nat
      /\ onHand' + PendingTotal' = onHand + PendingTotal
  BY DeliverKeepsUnits
<1>3. TypeOK'
  BY <1>1, <1>2 DEF Inductive, TypeOK, totals, Schedule
<1>4. Running'
  BY <1>1, <1>2 DEF Inductive, Running
<1>5. PendingIsDue'
  <2>1. DueInv
    BY GeneratorAssumption DEF Inductive, DueInv, Calendar, TypeOK
  <2> QED
    BY <2>1, DeliverStep DEF DueInv
<1>6. PendingTotal \in Nat /\ PendingTotal' \in Nat
  BY <1>2, ScheduleTotal DEF PendingTotal, Inductive, Running
<1>7. BooksBalance'
  <2>1. Opening(sku) \in Nat /\ onHand \in Nat /\ soldTotal \in Nat /\ ordered \in Nat
    BY Quantities DEF Inductive, TypeOK
  <2>2. Opening(sku) + ordered = soldTotal + onHand + PendingTotal
    BY DEF Inductive, BooksBalance
  <2>3. Opening(sku) + ordered = soldTotal + onHand' + PendingTotal'
    <3> DEFINE h == onHand'
               t == PendingTotal'
               o == Opening(sku)
    <3>1. h \in Nat /\ t \in Nat /\ PendingTotal \in Nat /\ h + t = onHand + PendingTotal
      BY <1>2, <1>6
    <3>2. o \in Nat /\ o + ordered = soldTotal + onHand + PendingTotal
      BY <2>1, <2>2
    <3> HIDE DEF h, t, o
    <3>3. o + ordered = soldTotal + h + t
      BY <2>1, <3>1, <3>2
    <3> QED
      BY <3>3 DEF h, t, o
  <2> QED
    BY <1>1, <2>3 DEF BooksBalance, totals
<1>9. NeverOverstocked'
  BY <1>1, <1>2 DEF Inductive, NeverOverstocked
<1> QED
  BY <1>3, <1>4, <1>5, <1>7, <1>9 DEF Inductive

(* A sale leaves the shelf, and is marked when it is less than was wanted.    *)
LEMMA SellKeeps == ASSUME Inductive, Sell PROVE Inductive'
<1>1. /\ stage = "sell" /\ stage' = "reorder"
      /\ UNCHANGED <<sku, day, incoming, product, ordered>>
  BY DEF Sell
<1>2. PICK wanted \in Demands :
        LET sold == IF wanted > onHand THEN onHand ELSE wanted
            censored == wanted > onHand IN
        /\ row' = [sold |-> sold, censored |-> censored]
        /\ onHand' = onHand - sold
        /\ demandTotal' = demandTotal + wanted
        /\ soldTotal' = soldTotal + sold
        /\ censoredDays' = censoredDays + IF censored THEN 1 ELSE 0
  BY DEF Sell
<1> DEFINE sold == IF wanted > onHand THEN onHand ELSE wanted
<1>3. wanted \in Nat /\ onHand \in Nat /\ demandTotal \in Nat /\ soldTotal \in Nat /\ censoredDays \in Nat
  BY GeneratorAssumption DEF Inductive, TypeOK
<1>4. sold \in Nat /\ sold <= onHand /\ sold <= wanted
  BY <1>3
<1>5. /\ onHand' = onHand - sold /\ soldTotal' = soldTotal + sold
      /\ demandTotal' = demandTotal + wanted
      /\ row' \in [sold : Nat, censored : BOOLEAN]
  BY <1>2, <1>4
<1>6. censoredDays' \in {censoredDays, censoredDays + 1}
  BY <1>2, <1>3
<1> HIDE DEF sold
<1>7. onHand' \in Nat /\ onHand' <= onHand /\ soldTotal' \in Nat /\ demandTotal' \in Nat /\ censoredDays' \in Nat
  BY <1>3, <1>4, <1>5, <1>6
<1>8. PendingTotal' = PendingTotal /\ PendingTotal \in Nat
  BY <1>1, ScheduleTotal DEF PendingTotal, Inductive, Running
<1>9. TypeOK'
  BY <1>1, <1>5, <1>7 DEF Inductive, TypeOK
<1>10. Running'
  BY <1>1 DEF Inductive, Running
<1>11. PendingIsDue'
  BY <1>1 DEF Inductive, PendingIsDue
<1>12. BooksBalance'
  <2>1. Opening(sku) \in Nat /\ ordered \in Nat
    BY Quantities DEF Inductive, TypeOK
  <2>2. Opening(sku) + ordered = soldTotal + onHand + PendingTotal
    BY DEF Inductive, BooksBalance
  <2>3. Opening(sku) + ordered = soldTotal' + onHand' + PendingTotal
    BY <1>3, <1>4, <1>5, <1>8, <2>1, <2>2
  <2> QED
    BY <1>1, <1>8, <2>3 DEF BooksBalance
<1>14. NeverOverstocked'
  <2>1. Larger(Opening(sku), Target(sku) + Larger(sku.case, 1) - 1) \in Int
    <3>1. Opening(sku) \in Nat /\ Target(sku) \in Nat /\ sku.case \in Nat
      BY Quantities, GeneratorAssumption DEF Inductive, TypeOK, SeedSku
    <3> QED
      BY <3>1 DEF Larger
  <2> QED
    BY <1>1, <1>3, <1>7, <1>8, <2>1 DEF Inductive, NeverOverstocked
<1> QED
  BY <1>9, <1>10, <1>11, <1>12, <1>14 DEF Inductive

(* The row of the day tells whether something was wanted that was not there.  *)
LEMMA SellMarks == ASSUME Inductive, Sell PROVE MarkedAsItWas
<1>1. PICK wanted \in Demands :
        LET sold == IF wanted > onHand THEN onHand ELSE wanted
            censored == wanted > onHand IN
        /\ row' = [sold |-> sold, censored |-> censored]
        /\ onHand' = onHand - sold
        /\ demandTotal' = demandTotal + wanted
        /\ soldTotal' = soldTotal + sold
        /\ censoredDays' = censoredDays + IF censored THEN 1 ELSE 0
  BY DEF Sell
<1>2. wanted \in Nat /\ onHand \in Nat /\ demandTotal \in Nat /\ soldTotal \in Nat /\ censoredDays \in Nat
  BY GeneratorAssumption DEF Inductive, TypeOK
<1>3. CASE wanted > onHand
  <2>1. /\ row'.sold = onHand /\ row'.censored = TRUE /\ onHand' = onHand - onHand
        /\ demandTotal' = demandTotal + wanted /\ soldTotal' = soldTotal + onHand
        /\ censoredDays' = censoredDays + 1
    BY <1>1, <1>3
  <2> QED
    BY <1>2, <1>3, <2>1 DEF MarkedAsItWas
<1>4. CASE ~(wanted > onHand)
  <2>1. /\ row'.sold = wanted /\ ~row'.censored
        /\ demandTotal' = demandTotal + wanted /\ soldTotal' = soldTotal + wanted
        /\ censoredDays' = censoredDays
    <3>1. (wanted > onHand) = FALSE
      BY <1>4
    <3>2. row' = [sold |-> wanted, censored |-> FALSE]
      BY <1>1, <3>1
    <3>3. /\ demandTotal' = demandTotal + wanted /\ soldTotal' = soldTotal + wanted
          /\ censoredDays' = censoredDays
      BY <1>1, <1>2, <1>4
    <3> QED
      BY <3>2, <3>3
  <2> QED
    BY <1>2, <1>4, <2>1 DEF MarkedAsItWas
<1> QED
  BY <1>3, <1>4

(* The evening: an order fills up to the target, and lands on a day to come.  *)
LEMMA ReorderKeeps == ASSUME Inductive, Reorder PROVE Inductive'
<1>1. /\ stage = "reorder" /\ day' = day + 1
      /\ stage' = IF day + 1 < HistoryDays(sku) THEN "deliver" ELSE "close"
      /\ UNCHANGED <<sku, onHand, row, totals, product>>
  BY DEF Reorder
<1>2. /\ sku \in Catalog /\ sku.lead \in Nat /\ day \in Nat /\ onHand \in Nat
      /\ ordered \in Nat /\ soldTotal \in Nat
      /\ Opening(sku) \in Nat /\ Target(sku) \in Nat /\ sku.case \in Nat
  BY Quantities, GeneratorAssumption DEF Inductive, TypeOK, SeedSku
<1>3. Schedule(incoming) /\ PendingTotal \in Nat
  BY ScheduleTotal DEF PendingTotal, Inductive, Running
<1> DEFINE ceiling == Larger(Opening(sku), Target(sku) + Larger(sku.case, 1) - 1)
<1>4. ceiling \in Int /\ ceiling >= Target(sku) + Larger(sku.case, 1) - 1
  BY <1>2 DEF Larger
<1>5. /\ Schedule(incoming') /\ ordered' \in Nat
      /\ PendingTotal' - PendingTotal = ordered' - ordered
      /\ onHand + PendingTotal' <= ceiling
  <2>1. CASE ~InSupplyGap(sku, day) /\ day % ReplenishEvery = 0 /\ Need > 0
    <3> DEFINE units == WholeCases(sku, Need)
               due   == day + sku.lead
    <3>1. incoming' = Book(incoming, due, units) /\ ordered' = ordered + units
      BY <2>1, Zenon DEF Reorder
    <3>2. Need = Target(sku) - (onHand + PendingTotal) /\ Need \in Nat
      BY <1>2, <1>3, <2>1 DEF Need
    <3>3. units \in Nat /\ units <= Need + Larger(sku.case, 1) - 1
      BY <1>2, <3>2, CasesCover
    <3>4. due \in Nat
      BY <1>2
    <3> HIDE DEF units, due
    <3>5. Schedule(incoming') /\ PendingTotal' = PendingTotal + units
      BY <1>3, <3>1, <3>3, <3>4, BookedTotal DEF PendingTotal
    <3>6. Larger(sku.case, 1) \in Nat
      BY <1>2 DEF Larger
    <3> HIDE DEF ceiling
    <3> QED
      BY <1>2, <1>3, <1>4, <3>1, <3>2, <3>3, <3>5, <3>6
  <2>2. CASE ~(~InSupplyGap(sku, day) /\ day % ReplenishEvery = 0 /\ Need > 0)
    <3>1. incoming' = incoming /\ ordered' = ordered
      BY <2>2, Zenon DEF Reorder
    <3>2. PendingTotal' = PendingTotal
      BY <3>1 DEF PendingTotal
    <3> QED
      BY <1>2, <1>3, <3>1, <3>2 DEF Inductive, NeverOverstocked
  <2> QED
    BY <2>1, <2>2
<1>6. PendingTotal' \in Nat
  BY <1>5, ScheduleTotal DEF PendingTotal
<1>7. day + 1 <= HistoryDays(sku) /\ HistoryDays(sku) <= Days /\ Days \in Nat
  BY <1>1, <1>2, HistoryIsShort, GeneratorAssumption DEF Inductive, Running
<1>8. TypeOK'
  <2>1. day' \in 0..Days
    <3>1. day + 1 <= Days
      BY <1>2, <1>7, HistoryIsShort
    <3> QED
      BY <1>1, <1>2, <1>7, <3>1
  <2>2. stage' \in {"deliver", "close"}
    BY <1>1
  <2> QED
    BY <1>1, <1>5, <2>1, <2>2 DEF Inductive, TypeOK, totals, Schedule
<1>9. Running'
  BY <1>1, <1>5 DEF Running
<1>10. PendingIsDue'
  <2>1. DueInv
    BY GeneratorAssumption DEF Inductive, DueInv, Calendar, TypeOK
  <2> QED
    BY <2>1, ReorderStep DEF DueInv
<1>11. BooksBalance'
  <2>1. Opening(sku) + ordered = soldTotal + onHand + PendingTotal
    BY DEF Inductive, BooksBalance
  <2>2. Opening(sku) + ordered' = soldTotal + onHand + PendingTotal'
    BY <1>2, <1>3, <1>5, <1>6, <2>1
  <2>3. stage' # "closed"
    BY <1>1
  <2> QED
    BY <1>1, <2>2, <2>3 DEF BooksBalance, totals
<1>13. NeverOverstocked'
  BY <1>1, <1>5 DEF NeverOverstocked
<1> QED
  BY <1>8, <1>9, <1>10, <1>11, <1>13 DEF Inductive

(* The closing position is the shelf and the list, unless it is pinned.       *)
LEMMA CloseKeeps == ASSUME Inductive, Close PROVE Inductive'
<1>1. /\ stage = "close" /\ stage' = "closed"
      /\ UNCHANGED <<sku, day, onHand, incoming, row, totals, ordered>>
      /\ product' = [onHand  |-> IF sku.finalOnHand >= 0 THEN sku.finalOnHand ELSE onHand,
                     onOrder |-> IF sku.finalOnOrder = 0 /\ sku.finalOnHand < 0
                                   THEN PendingTotal ELSE sku.finalOnOrder]
  BY DEF Close
<1>2. PendingTotal' = PendingTotal /\ PendingTotal \in Nat
  BY <1>1, ScheduleTotal DEF PendingTotal, Inductive, Running
<1>3. sku.finalOnHand \in Int /\ sku.finalOnOrder \in Nat /\ onHand \in Nat
  BY GeneratorAssumption DEF Inductive, TypeOK, SeedSku
<1>4. product' \in [onHand : Nat, onOrder : Nat]
  BY <1>1, <1>2, <1>3
<1>5. TypeOK'
  BY <1>1, <1>4 DEF Inductive, TypeOK, totals
<1>6. Running' /\ NeverOverstocked'
  BY <1>1, <1>2 DEF Inductive, Running, NeverOverstocked
<1>7. PendingIsDue'
  BY <1>1 DEF Inductive, PendingIsDue
<1>8. BooksBalance'
  <2>1. sku.finalOnHand < 0 /\ sku.finalOnOrder = 0 =>
          product'.onHand = onHand /\ product'.onOrder = PendingTotal
    BY <1>1, <1>3
  <2> QED
    BY <1>1, <1>2, <2>1 DEF Inductive, BooksBalance, totals
<1> QED
  BY <1>5, <1>6, <1>7, <1>8 DEF Inductive

LEMMA InductiveNext == Inductive /\ [Next]_vars => Inductive'
<1> SUFFICES ASSUME Inductive, [Next]_vars PROVE Inductive'
  OBVIOUS
<1>1. CASE UNCHANGED vars
  <2>1. PendingTotal' = PendingTotal
    BY <1>1 DEF vars, PendingTotal
  <2> QED
    BY <1>1, <2>1 DEF vars, totals, Inductive, TypeOK, Running, PendingIsDue, BooksBalance,
                      NeverOverstocked
<1> QED
  BY <1>1, DeliverKeeps, SellKeeps, ReorderKeeps, CloseKeeps DEF Next, Closed

(* The inductive invariant of the simulated store: the properties below, the  *)
(* clock within the history and finitely many deliveries.                     *)
THEOREM Invariance == Spec => []Inductive
  BY InductiveInit, InductiveNext, PTL DEF Spec

(* Every variable keeps its type, for every catalogue: above all the stock    *)
(* and the closing position are never below zero.                             *)
THEOREM TypeCorrectness == Spec => []TypeOK
<1>1. Inductive => TypeOK
  BY DEF Inductive
<1> QED
  BY <1>1, Invariance, PTL

(* generate.go:24: what was there and what was ordered is what was sold, what *)
(* is on the shelf and what is on its way, whatever gaps put deliveries       *)
(* together, and that is the closing position.                                *)
THEOREM StockIsSimulated == Spec => []BooksBalance
<1>1. Inductive => BooksBalance
  BY DEF Inductive
<1> QED
  BY <1>1, Invariance, PTL

(* generate.go:96: a day's row is marked exactly when demand was lost on it,  *)
(* and the totals count it once, for any demand and any length of history.    *)
THEOREM LostDemandIsMarked == Spec => StockoutsAreMarked
<1>1. Inductive /\ [Next]_vars
        => [IF stage = "sell" THEN MarkedAsItWas ELSE UNCHANGED <<row, totals>>]_vars
  <2> SUFFICES ASSUME Inductive, Next
               PROVE  IF stage = "sell" THEN MarkedAsItWas ELSE UNCHANGED <<row, totals>>
    OBVIOUS
  <2>1. CASE Sell
    BY <2>1, SellMarks DEF Sell
  <2>2. CASE Deliver \/ Reorder \/ Close \/ Closed
    BY <2>2 DEF Deliver, Reorder, Close, Closed, vars
  <2> QED
    BY <2>1, <2>2 DEF Next
<1> QED
  BY <1>1, Invariance, PTL DEF Spec, StockoutsAreMarked

(* generate.go:130: the buyer never holds and awaits more than the opening    *)
(* stock or, short of a unit, a case above the target.                        *)
THEOREM BuyerKeepsToTarget == Spec => []NeverOverstocked
<1>1. Inductive => NeverOverstocked
  BY DEF Inductive
<1> QED
  BY <1>1, Invariance, PTL
================================================================================
