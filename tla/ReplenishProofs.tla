--------------------------- MODULE ReplenishProofs ---------------------------
(* The safety properties of Replenish for any products, any signals and any   *)
(* number of fractions that a unit is divided into.                           *)
EXTENDS Replenish, TLAPS

-------------------------------------------------------------------------------
(* Rounding.                                                                  *)

(* The quotient, from below and from above.                                   *)
LEMMA Quotient ==
  ASSUME NEW x \in Nat, NEW n \in Nat \ {0}
  PROVE  x \div n \in Nat /\ n * (x \div n) <= x /\ x < n * (x \div n) + n
  BY SMT

(* The quotient is the only number between them.                              *)
LEMMA QuotientUnique ==
  ASSUME NEW x \in Nat, NEW n \in Nat \ {0}, NEW k \in Nat, n * k <= x, x < n * k + n
  PROVE  x \div n = k
  BY SMT

(* Round is off by half a unit at most.                                       *)
LEMMA RoundBounds ==
  ASSUME NEW x \in Nat
  PROVE  /\ Round(x) \in Nat
         /\ 2 * Round(x) * Scale <= 2 * x + Scale
         /\ 2 * x < 2 * Round(x) * Scale + Scale
<1> DEFINE y == 2 * x + Scale
           n == 2 * Scale
<1>1. Scale \in Nat \ {0} /\ y \in Nat /\ n \in Nat \ {0}
  BY ReplenishAssumption
<1>2. y \div n \in Nat /\ n * (y \div n) <= y /\ y < n * (y \div n) + n
  <2> HIDE DEF y, n
  <2> QED
    BY <1>1, Quotient
<1>3. Round(x) = y \div n
  BY DEF Round
<1>4. Round(x) \in Nat /\ n * Round(x) <= y /\ y < n * Round(x) + n
  <2> HIDE DEF y, n
  <2> QED
    BY <1>2, <1>3
<1>5. \A r \in Nat : n * r = 2 * r * Scale /\ n * r \in Nat
  BY <1>1
<1>6. n * Round(x) = 2 * Round(x) * Scale /\ n * Round(x) \in Nat
  BY <1>4, <1>5
<1> HIDE DEF n
<1>7. 2 * Round(x) * Scale <= y /\ y < 2 * Round(x) * Scale + n /\ 2 * Round(x) * Scale \in Nat
  BY <1>4, <1>6
<1> DEFINE t == 2 * Round(x) * Scale
<1> HIDE DEF t
<1>8. t \in Nat /\ t <= 2 * x + Scale /\ 2 * x + Scale < t + 2 * Scale
  BY <1>7 DEF t, n
<1>9. t <= 2 * x + Scale /\ 2 * x < t + Scale
  BY <1>1, <1>8
<1> QED
  BY <1>4, <1>9 DEF t

(* Round leaves whole units as they are.                                      *)
LEMMA RoundExact ==
  ASSUME NEW k \in Nat
  PROVE  Round(k * Scale) = k
<1> DEFINE y == 2 * (k * Scale) + Scale
           n == 2 * Scale
<1>1. Scale \in Nat \ {0} /\ k * Scale \in Nat
  BY ReplenishAssumption
<1>2. y \in Nat /\ n \in Nat \ {0} /\ n * k <= y /\ y < n * k + n
  BY <1>1
<1>3. y \div n = k
  <2> HIDE DEF y, n
  <2> QED
    BY <1>2, QuotientUnique
<1> QED
  BY <1>3 DEF Round

(* What reaches a number of whole units still reaches it when rounded.        *)
LEMMA RoundReaches ==
  ASSUME NEW x \in Nat, NEW k \in Nat, k * Scale <= x
  PROVE  k <= Round(x)
<1> DEFINE y == 2 * x + Scale
           n == 2 * Scale
<1>1. Scale \in Nat \ {0}
  BY ReplenishAssumption
<1>2. Round(x) \in Nat /\ 2 * x < 2 * Round(x) * Scale + Scale
  BY RoundBounds
<1>3. SUFFICES ASSUME Round(x) + 1 <= k PROVE FALSE
  BY <1>2
<1>4. (Round(x) + 1) * Scale <= k * Scale
  BY <1>1, <1>2, <1>3
<1>5. (Round(x) + 1) * Scale = Round(x) * Scale + Scale /\ Round(x) * Scale \in Nat /\ k * Scale \in Nat
  BY <1>1, <1>2
<1>6. 2 * Round(x) * Scale = 2 * (Round(x) * Scale)
  BY <1>1, <1>2
<1> QED
  BY <1>1, <1>2, <1>4, <1>5, <1>6

(* The multiple below.                                                        *)
LEMMA DownToBounds ==
  ASSUME NEW x \in Nat, NEW n \in Nat \ {0}
  PROVE  /\ DownTo(x, n) \in Nat
         /\ DownTo(x, n) <= x
         /\ DownTo(DownTo(x, n), n) = DownTo(x, n)
         /\ x < n => DownTo(x, n) = 0
<1> DEFINE q == x \div n
<1>1. q \in Nat /\ n * q <= x /\ x < n * q + n
  BY Quotient
<1>2. x < n => q = 0
  BY QuotientUnique
<1> HIDE DEF q
<1>3. q * n \in Nat /\ q * n = n * q
  BY <1>1
<1>4. (q * n) \div n = q
  BY <1>1, <1>3, QuotientUnique
<1>5. DownTo(x, n) = q * n
  BY DEF DownTo, q
<1>6. DownTo(q * n, n) = q * n
  BY <1>4 DEF DownTo
<1> QED
  BY <1>1, <1>2, <1>3, <1>5, <1>6

(* The multiple above.                                                        *)
LEMMA UpToBounds ==
  ASSUME NEW x \in Nat, NEW n \in Nat \ {0}
  PROVE  /\ UpTo(x, n) \in Nat
         /\ x <= UpTo(x, n)
         /\ UpTo(x, n) < x + n
         /\ DownTo(UpTo(x, n), n) = UpTo(x, n)
<1> DEFINE y == x + n - 1
           q == y \div n
<1>1. y \in Nat
  OBVIOUS
<1>2. q \in Nat /\ n * q <= y /\ y < n * q + n
  <2> HIDE DEF y
  <2> QED
    BY <1>1, Quotient
<1>3. UpTo(x, n) = q * n
  BY DEF UpTo
<1> HIDE DEF q
<1>4. q * n \in Nat /\ q * n = n * q
  BY <1>2
<1>5. (q * n) \div n = q
  BY <1>2, <1>4, QuotientUnique
<1>6. DownTo(q * n, n) = q * n
  BY <1>5 DEF DownTo
<1> QED
  BY <1>2, <1>3, <1>4, <1>6

-------------------------------------------------------------------------------
(* The amounts of a valid product.                                            *)

(* All are whole numbers of fractions; the target is not under the reorder    *)
(* point.                                                                     *)
LEMMA Amounts ==
  ASSUME TypeOK, Valid
  PROVE  /\ product.minimum \in Nat /\ product.case \in Nat
         /\ ReorderPoint \in Nat /\ TargetLevel \in Nat /\ ReorderPoint <= TargetLevel
         /\ Position \in Nat /\ Need \in Nat /\ Sellable \in Nat /\ Minimum \in Nat
         /\ Case \in Nat
         /\ product.case > 1 => Case \in Nat \ {0}
<1>1. /\ product.lead \in Nat /\ product.review \in Nat /\ product.minimum \in Nat
      /\ product.case \in Nat /\ product.shelf \in Nat /\ product.position \in Nat
  BY ReplenishAssumption DEF TypeOK, Valid, ProductType
<1>2. signal.daily \in Nat /\ signal.safety \in Nat /\ Scale \in Nat \ {0}
  BY ReplenishAssumption DEF TypeOK
<1>3. /\ signal.daily * product.lead \in Nat /\ signal.daily * product.review \in Nat
      /\ signal.daily * Cover = signal.daily * product.lead + signal.daily * product.review
  BY <1>1, <1>2 DEF Cover
<1>4. ReorderPoint \in Nat /\ TargetLevel \in Nat /\ ReorderPoint <= TargetLevel
  BY <1>2, <1>3 DEF ReorderPoint, TargetLevel
<1>5. Position \in Nat
  BY <1>1, <1>2 DEF Position
<1>6. Need \in Nat
  BY <1>4, <1>5 DEF Need, Larger
<1>7. Sellable \in Nat /\ Minimum \in Nat /\ Case \in Nat
  BY <1>1, <1>2 DEF Sellable, Minimum, Case
<1>8. product.case > 1 => Case # 0
  BY <1>1, <1>2 DEF Case
<1> QED
  BY <1>1, <1>4, <1>5, <1>6, <1>7, <1>8

LimitStages == {"shelfLife", "caseSize", "recheck", "minimum", "round"}
LimitEntry == [name : Names, from : Nat, to : Nat]

(* A stage keeps the list connected and adds its name if it changed anything. *)
LEMMA PassStep ==
  ASSUME Inductive, stage \in LimitStages, NEW next \in LimitStages, NEW q \in Nat,
         NEW name \in Names, Pass(next, q, name)
  PROVE  /\ TypeOK' /\ ListShape'
         /\ qty' = q /\ stage' = next /\ UNCHANGED <<product, signal, quantity, inhibited>>
         /\ Applied \subseteq Applied'
         /\ q # qty => name \in Applied'
<1>0. /\ stage' = next /\ qty' = q /\ UNCHANGED <<product, signal, quantity, inhibited>>
      /\ Computing /\ Need' = Need /\ Valid
  BY DEF Pass, Computing, LimitStages, Need, TargetLevel, Position, Cover, Inductive, Larger
<1>1. TypeOK /\ ListShape /\ Need \in Nat
  BY <1>0, Amounts DEF Inductive
<1>2. constraints \in Seq(LimitEntry)
  BY <1>1 DEF TypeOK, LimitEntry
<1>3. Round(qty) \in Nat /\ Round(q) \in Nat /\ Round(Need) \in Nat
  BY <1>1, RoundBounds DEF TypeOK
<1>4. CASE q = qty
  <2>1. constraints' = constraints
    BY <1>4 DEF Pass
  <2>2. TypeOK'
    BY <1>0, <1>1, <2>1, <1>4 DEF TypeOK, Stages, LimitStages
  <2>3. Round(q)' = Round(q) /\ Round(Need)' = Round(Need)
    BY <1>0 DEF Round
  <2>4. ListShape'
    BY <1>0, <1>1, <1>4, <2>1, <2>3 DEF ListShape
  <2> QED
    BY <1>0, <1>4, <2>1, <2>2, <2>4 DEF Applied
<1>5. CASE q # qty
  <2> DEFINE e == [name |-> name, from |-> Round(qty), to |-> Round(q)]
             n == Len(constraints)
  <2>1. constraints' = Append(constraints, e)
    BY <1>5 DEF Pass
  <2>2. e \in LimitEntry
    BY <1>3 DEF LimitEntry
  <2>3. constraints' \in Seq(LimitEntry)
    BY <1>2, <2>1, <2>2
  <2>4. TypeOK'
    BY <1>0, <1>1, <2>3 DEF TypeOK, Stages, LimitStages, LimitEntry
  <2>5. /\ n \in Nat /\ Len(constraints') = n + 1 /\ constraints'[n + 1] = e
        /\ \A i \in 1..n : constraints'[i] = constraints[i]
        /\ constraints' # <<>>
    BY <1>2, <2>1, <2>2
  <2>6. Round(q)' = Round(q) /\ Round(Need)' = Round(Need)
    BY <1>0 DEF Round
  <2>7. constraints'[1].from = Round(Need)
    <3>1. CASE constraints = <<>>
      BY <1>0, <1>1, <2>5, <3>1 DEF ListShape
    <3>2. CASE constraints # <<>>
      <4>1. n > 0
        BY <1>2, <3>2
      <4> QED
        BY <1>0, <1>1, <2>5, <3>2, <4>1 DEF ListShape
    <3> QED
      BY <3>1, <3>2
  <2>8. ASSUME NEW i \in 1..n
        PROVE  constraints'[i].to = constraints'[i + 1].from
    <3>1. CASE i = n
      <4>1. constraints # <<>>
        BY <1>2, <2>5, <3>1
      <4> QED
        BY <1>0, <1>1, <2>5, <3>1, <4>1 DEF ListShape
    <3>2. CASE i # n
      <4>1. i \in 1..(n - 1) /\ i + 1 \in 1..n
        BY <2>5, <3>2
      <4> QED
        BY <1>0, <1>1, <2>5, <4>1 DEF ListShape
    <3> QED
      BY <3>1, <3>2
  <2>9. ListShape'
    BY <1>0, <2>5, <2>6, <2>7, <2>8 DEF ListShape
  <2>10. Applied \subseteq Applied' /\ name \in Applied'
    <3>1. DOMAIN constraints = 1..n /\ DOMAIN constraints' = 1..(n + 1)
      BY <1>2, <2>3, <2>5
    <3> QED
      BY <2>5, <3>1 DEF Applied
  <2> QED
    BY <1>0, <2>4, <2>9, <2>10
<1> QED
  BY <1>4, <1>5

-------------------------------------------------------------------------------
(* The inductive invariant.                                                   *)

(* The definitions that a step which keeps the arguments leaves as they are.  *)
LEMMA SameAmounts ==
  ASSUME UNCHANGED <<product, signal>>
  PROVE  /\ Valid' = Valid /\ Perishable' = Perishable
         /\ Need' = Need /\ Sellable' = Sellable /\ Minimum' = Minimum /\ Case' = Case
         /\ Position' = Position /\ TargetLevel' = TargetLevel
  BY DEF Valid, Perishable, Need, Sellable, Minimum, Case, Position, TargetLevel, Cover, Larger

LEMMA InductiveInit ==
  ASSUME Init
  PROVE  Inductive
<1>0. <<>> \in Seq(LimitEntry)
  OBVIOUS
<1>1. TypeOK
  BY <1>0 DEF Init, TypeOK, Stages, LimitEntry
<1>2. ~Computing
  BY DEF Init, Computing, Answered
<1> QED
  BY <1>1, <1>2 DEF Init, Inductive, NeverOverTarget, ListShape, BeforeLimits, AfterShelfLife,
     AfterCases, AfterRecheck, AfterMinimum, Computing

(* Only a position that is not above the target gets as far as a need.        *)
LEMMA TriggerStep ==
  ASSUME Inductive, Trigger
  PROVE  Inductive'
<1>1. TypeOK /\ Valid /\ constraints = <<>>
  BY DEF Inductive, Trigger
<1>2. Position \in Nat /\ ReorderPoint \in Nat /\ TargetLevel \in Nat /\ Need \in Nat
      /\ ReorderPoint <= TargetLevel
  BY <1>1, Amounts
<1>3. /\ stage' = "shelfLife" /\ qty' = Need /\ Position <= ReorderPoint
      /\ UNCHANGED <<product, signal, constraints, quantity, inhibited>>
  BY DEF Trigger
<1>4. TypeOK'
  BY <1>1, <1>2, <1>3 DEF TypeOK, Stages
<1>5. NeverOverTarget'
  BY <1>2, <1>3, SameAmounts DEF NeverOverTarget
<1>6. ListShape'
  BY <1>1, <1>3, SameAmounts DEF ListShape
<1>7. qty' >= Need'
  BY <1>2, <1>3, SameAmounts
<1> QED
  BY <1>1, <1>3, <1>4, <1>5, <1>6, <1>7, SameAmounts
     DEF Inductive, BeforeLimits, AfterShelfLife, AfterCases, AfterRecheck, AfterMinimum, Answered

(* What every limit keeps: the parts of the invariant that are not about the  *)
(* amount, and that an order which shelf life did not touch covers the need.  *)
LEMMA LimitStep ==
  ASSUME Inductive, stage \in LimitStages, NEW next \in LimitStages \ {"shelfLife"},
         NEW q \in Nat, NEW name \in Names, Pass(next, q, name),
         name = "shelf_life" \/ q >= qty,
         BeforeLimits', AfterShelfLife', AfterCases', AfterRecheck', AfterMinimum'
  PROVE  Inductive'
<1>1. /\ TypeOK' /\ ListShape'
      /\ qty' = q /\ stage' = next /\ UNCHANGED <<product, signal, quantity, inhibited>>
      /\ Applied \subseteq Applied'
      /\ q # qty => name \in Applied'
  BY PassStep
<1>2. Computing /\ Valid /\ TypeOK
  BY DEF Computing, LimitStages, Inductive
<1>3. Need \in Nat /\ qty \in Nat
  BY <1>2, Amounts DEF TypeOK
<1>4. "shelf_life" \notin Applied' => qty' >= Need'
  <2> SUFFICES ASSUME "shelf_life" \notin Applied' PROVE q >= Need
    BY <1>1, SameAmounts
  <2>1. "shelf_life" \notin Applied /\ (q # qty => name # "shelf_life")
    BY <1>1
  <2>2. qty >= Need
    BY <1>2, <2>1 DEF Inductive
  <2> QED
    BY <1>3, <2>1, <2>2
<1>5. ~Answered' /\ NeverOverTarget' /\ Valid'
  BY <1>1, <1>2, SameAmounts DEF Answered, NeverOverTarget, LimitStages
<1> QED
  BY <1>1, <1>4, <1>5 DEF Inductive, LimitStages

LEMMA ShelfLifeStep ==
  ASSUME Inductive, ApplyShelfLife
  PROVE  Inductive'
<1> DEFINE q == IF Perishable /\ qty > Sellable THEN Sellable ELSE qty
<1>1. stage = "shelfLife" /\ Pass("caseSize", q, "shelf_life") /\ TypeOK /\ Valid /\ qty = Need
  BY DEF ApplyShelfLife, Inductive, BeforeLimits
<1>2. Sellable \in Nat /\ Need \in Nat /\ q \in Nat
  BY <1>1, Amounts
<1>3. q <= Need /\ (Perishable => q <= Sellable)
  BY <1>1, <1>2
<1>4. qty' = q /\ stage' = "caseSize" /\ UNCHANGED <<product, signal>>
  BY <1>1 DEF Pass
<1> HIDE DEF q
<1>5. AfterShelfLife'
  BY <1>3, <1>4, SameAmounts DEF AfterShelfLife
<1>6. BeforeLimits' /\ AfterCases' /\ AfterRecheck' /\ AfterMinimum'
  BY <1>4 DEF BeforeLimits, AfterCases, AfterRecheck, AfterMinimum, Answered
<1> QED
  BY <1>1, <1>2, <1>5, <1>6, LimitStep DEF LimitStages, Names

LEMMA CaseSizeStep ==
  ASSUME Inductive, ApplyCaseSize
  PROVE  Inductive'
<1> DEFINE q == IF product.case > 1 /\ qty > 0 THEN UpTo(qty, Case) ELSE qty
<1>1. stage = "caseSize" /\ Pass("recheck", q, "case_size") /\ TypeOK /\ Valid
      /\ qty <= Need /\ (Perishable => qty <= Sellable)
  BY DEF ApplyCaseSize, Inductive, AfterShelfLife
<1>2. /\ Sellable \in Nat /\ Need \in Nat /\ qty \in Nat /\ product.case \in Nat /\ Case \in Nat
      /\ product.case > 1 => Case \in Nat \ {0}
  BY <1>1, Amounts DEF TypeOK
<1>3. /\ q \in Nat /\ q >= qty
      /\ product.case > 1 => DownTo(q, Case) = q /\ q < Need + Case
      /\ product.case <= 1 => q = qty
  <2>1. CASE product.case > 1 /\ qty > 0
    <3>1. /\ UpTo(qty, Case) \in Nat /\ qty <= UpTo(qty, Case) /\ UpTo(qty, Case) < qty + Case
          /\ DownTo(UpTo(qty, Case), Case) = UpTo(qty, Case)
      BY <1>2, <2>1, UpToBounds
    <3>2. q = UpTo(qty, Case)
      BY <2>1
    <3> HIDE DEF q
    <3> QED
      BY <1>1, <1>2, <2>1, <3>1, <3>2
  <2>2. CASE product.case > 1 /\ qty = 0
    <3>1. DownTo(0, Case) = 0
      BY <1>2, <2>2, DownToBounds
    <3> QED
      BY <1>1, <1>2, <2>2, <3>1
  <2>3. CASE product.case <= 1
    BY <1>2, <2>3
  <2> QED
    BY <1>2, <2>1, <2>2, <2>3
<1>4. qty' = q /\ stage' = "recheck" /\ UNCHANGED <<product, signal>>
  BY <1>1 DEF Pass
<1> HIDE DEF q
<1>5. (WholeCases /\ OverByCase)'
  BY <1>1, <1>2, <1>3, <1>4, SameAmounts DEF WholeCases, OverByCase, DownTo
<1>6. AfterCases'
  BY <1>1, <1>3, <1>4, <1>5, SameAmounts DEF AfterCases
<1>7. BeforeLimits' /\ AfterShelfLife' /\ AfterRecheck' /\ AfterMinimum'
  BY <1>4 DEF BeforeLimits, AfterShelfLife, AfterRecheck, AfterMinimum, Answered
<1> QED
  BY <1>1, <1>3, <1>6, <1>7, LimitStep DEF LimitStages, Names

LEMMA RecheckStep ==
  ASSUME Inductive, EnforceShelfLifeAfterRounding
  PROVE  Inductive'
<1> DEFINE cut == Perishable /\ product.case > 1 /\ qty > 0 /\ qty > Sellable
           q == IF cut THEN DownTo(Sellable, Case) ELSE qty
<1>1. stage = "recheck" /\ Pass("minimum", q, "shelf_life") /\ TypeOK /\ Valid
      /\ WholeCases /\ OverByCase /\ (Perishable /\ product.case <= 1 => qty <= Sellable)
  BY DEF EnforceShelfLifeAfterRounding, Inductive, AfterCases
<1>2. /\ Sellable \in Nat /\ Need \in Nat /\ qty \in Nat /\ product.case \in Nat /\ Case \in Nat
      /\ product.case > 1 => Case \in Nat \ {0}
  BY <1>1, Amounts DEF TypeOK
<1>3. /\ q \in Nat /\ q <= qty
      /\ product.case > 1 => DownTo(q, Case) = q
      /\ Perishable => q <= Sellable
  <2>1. CASE cut
    <3>1. /\ DownTo(Sellable, Case) \in Nat /\ DownTo(Sellable, Case) <= Sellable
          /\ DownTo(DownTo(Sellable, Case), Case) = DownTo(Sellable, Case)
      BY <1>2, <2>1, DownToBounds
    <3>2. q = DownTo(Sellable, Case)
      BY <2>1
    <3> HIDE DEF q
    <3> QED
      BY <1>2, <2>1, <3>1, <3>2
  <2>2. CASE ~cut
    BY <1>1, <1>2, <2>2 DEF WholeCases
  <2> QED
    BY <2>1, <2>2
<1>4. qty' = q /\ stage' = "minimum" /\ UNCHANGED <<product, signal>>
  BY <1>1 DEF Pass
<1> HIDE DEF q
<1>5. WholeCases'
  BY <1>3, <1>4, SameAmounts DEF WholeCases, DownTo
<1>6. OverByCase'
  BY <1>1, <1>2, <1>3, <1>4, SameAmounts DEF OverByCase
<1>7. AfterRecheck'
  BY <1>3, <1>4, <1>5, <1>6, SameAmounts DEF AfterRecheck
<1>8. BeforeLimits' /\ AfterShelfLife' /\ AfterCases' /\ AfterMinimum'
  BY <1>4 DEF BeforeLimits, AfterShelfLife, AfterCases, AfterMinimum, Answered
<1> QED
  BY <1>1, <1>3, <1>7, <1>8, LimitStep DEF LimitStages, Names

(* Whole cases are whole units.                                               *)
LEMMA CasesAreUnits ==
  ASSUME NEW x \in Nat, TypeOK, Valid, product.case > 1, DownTo(x, Case) = x
  PROVE  \E k \in Nat : x = (k * product.case) * Scale
<1>1. /\ Case \in Nat \ {0} /\ product.case \in Nat /\ Scale \in Nat
  BY Amounts, ReplenishAssumption
<1>2. x \div Case \in Nat
  BY <1>1, Quotient
<1> DEFINE k == x \div Case
<1>3. x = k * Case
  BY DEF DownTo
<1>4. k \in Nat
  BY <1>2
<1> HIDE DEF k
<1>5. k * Case = (k * product.case) * Scale
  BY <1>1, <1>4 DEF Case
<1> QED
  BY <1>3, <1>4, <1>5

(* A whole number of units is its own rounding.                               *)
LEMMA UnitsAreExact ==
  ASSUME NEW k \in Nat, NEW x \in Nat, x = k * Scale
  PROVE  Round(x) = k /\ x = Round(x) * Scale
  BY RoundExact

LEMMA MinimumStep ==
  ASSUME Inductive, ApplyMinimumOrder
  PROVE  Inductive'
<1> DEFINE lift == qty > 0 /\ qty < Minimum
           q == IF lift THEN (IF product.case > 1 THEN UpTo(Minimum, Case) ELSE Minimum) ELSE qty
<1>1. stage = "minimum" /\ Pass("round", q, "minimum_order_qty") /\ TypeOK /\ Valid
      /\ WholeCases /\ OverByCase /\ (Perishable => qty <= Sellable)
  BY DEF ApplyMinimumOrder, Inductive, AfterRecheck
<1>2. /\ Sellable \in Nat /\ Need \in Nat /\ Minimum \in Nat /\ qty \in Nat
      /\ product.case \in Nat /\ product.minimum \in Nat /\ Case \in Nat /\ Scale \in Nat \ {0}
      /\ product.case > 1 => Case \in Nat \ {0}
  BY <1>1, Amounts, ReplenishAssumption DEF TypeOK
<1>3. CASE ~lift
  <2>1. q = qty
    BY <1>3
  <2>2. qty' = qty /\ stage' = "round" /\ UNCHANGED <<product, signal>>
    BY <1>1, <2>1 DEF Pass
  <2>3. WholeCases' /\ OverByCase'
    BY <1>1, <2>2, SameAmounts DEF WholeCases, OverByCase, DownTo
  <2>4. qty > 0 => qty >= Minimum
    BY <1>2, <1>3
  <2>5. Perishable /\ product.case > 1 /\ Sellable < Case => qty = 0
    <3> SUFFICES ASSUME Perishable, product.case > 1, Sellable < Case PROVE qty = 0
      OBVIOUS
    <3>1. qty < Case
      BY <1>1, <1>2
    <3>2. DownTo(qty, Case) = 0
      BY <1>2, <3>1, DownToBounds
    <3> QED
      BY <1>1, <3>2 DEF WholeCases
  <2>6. AfterMinimum'
    BY <1>1, <2>2, <2>3, <2>4, <2>5, SameAmounts DEF AfterMinimum
  <2>7. BeforeLimits' /\ AfterShelfLife' /\ AfterCases' /\ AfterRecheck'
    BY <2>2 DEF BeforeLimits, AfterShelfLife, AfterCases, AfterRecheck
  <2> HIDE DEF q
  <2> QED
    BY <1>1, <1>2, <2>1, <2>6, <2>7, LimitStep DEF LimitStages, Names
<1>4. CASE lift
  <2>1. /\ q \in Nat /\ q >= Minimum /\ q > qty
        /\ q < Minimum + Larger(1, product.case) * Scale
        /\ product.case > 1 => DownTo(q, Case) = q
        /\ q = Round(q) * Scale
    <3>1. CASE product.case > 1
      <4>1. /\ UpTo(Minimum, Case) \in Nat /\ Minimum <= UpTo(Minimum, Case)
            /\ UpTo(Minimum, Case) < Minimum + Case
            /\ DownTo(UpTo(Minimum, Case), Case) = UpTo(Minimum, Case)
        BY <1>2, <3>1, UpToBounds
      <4>2. q = UpTo(Minimum, Case)
        BY <1>4, <3>1
      <4>3. Case = Larger(1, product.case) * Scale
        BY <1>2, <3>1 DEF Case, Larger
      <4> HIDE DEF q
      <4>4. q \in Nat /\ DownTo(q, Case) = q
        BY <4>1, <4>2
      <4>5. PICK k \in Nat : q = (k * product.case) * Scale
        BY <1>1, <3>1, <4>4, CasesAreUnits
      <4>6. q = Round(q) * Scale
        <5>1. k * product.case \in Nat
          BY <1>2
        <5> QED
          BY <4>4, <4>5, <5>1, UnitsAreExact
      <4> QED
        BY <1>2, <1>4, <4>1, <4>2, <4>3, <4>4, <4>6
    <3>2. CASE product.case <= 1
      <4>1. q = Minimum
        BY <1>2, <1>4, <3>2
      <4>2. Minimum = product.minimum * Scale
        BY DEF Minimum
      <4>3. Larger(1, product.case) * Scale = Scale
        BY <1>2, <3>2 DEF Larger
      <4> HIDE DEF q
      <4>4. q = Round(q) * Scale
        BY <1>2, <4>1, <4>2, UnitsAreExact
      <4> QED
        BY <1>2, <1>4, <3>2, <4>1, <4>3, <4>4
    <3> QED
      BY <1>2, <3>1, <3>2
  <2> HIDE DEF q
  <2>2. qty' = q /\ stage' = "round" /\ UNCHANGED <<product, signal>>
        /\ "minimum_order_qty" \in Applied'
    BY <1>1, <1>2, <2>1, PassStep DEF LimitStages, Names
  <2>3. WholeCases'
    BY <2>1, <2>2, SameAmounts DEF WholeCases, DownTo
  <2>4. Perishable /\ product.case > 1 => ~(Sellable < Case)
    <3> SUFFICES ASSUME Perishable, product.case > 1, Sellable < Case PROVE FALSE
      OBVIOUS
    <3>1. qty < Case
      BY <1>1, <1>2
    <3>2. DownTo(qty, Case) = 0
      BY <1>2, <3>1, DownToBounds
    <3> QED
      BY <1>1, <1>2, <1>4, <3>2 DEF WholeCases
  <2>5. AfterMinimum'
    <3>1. Round(qty)' = Round(q) /\ Larger(1, product.case)' = Larger(1, product.case)
      BY <2>2 DEF Round, Larger
    <3> QED
      BY <2>1, <2>2, <2>3, <2>4, <3>1, SameAmounts DEF AfterMinimum
  <2>6. BeforeLimits' /\ AfterShelfLife' /\ AfterCases' /\ AfterRecheck'
    BY <2>2 DEF BeforeLimits, AfterShelfLife, AfterCases, AfterRecheck
  <2> QED
    BY <1>1, <1>2, <2>1, <2>5, <2>6, LimitStep DEF LimitStages, Names
<1> QED
  BY <1>3, <1>4

(* The last rounding.                                                         *)
LEMMA FinishStep ==
  ASSUME Inductive, Finish
  PROVE  Inductive'
<1>1. /\ stage = "round" /\ stage' = "done" /\ quantity' = Round(qty)
      /\ UNCHANGED <<product, signal, qty, constraints, inhibited>>
      /\ TypeOK /\ Valid /\ ListShape /\ AfterMinimum
  BY DEF Finish, Inductive
<1>2. Round(qty)' = Round(qty) /\ Round(qty) \in Nat
  BY <1>1, RoundBounds DEF Round, TypeOK
<1>3. TypeOK'
  BY <1>1, <1>2 DEF TypeOK, Stages
<1>4. Computing /\ Round(Need)' = Round(Need)
  BY <1>1, SameAmounts DEF Computing, Round
<1>5. ListShape'
  BY <1>1, <1>2, <1>4, SameAmounts DEF ListShape
<1>6. /\ WholeCases' = WholeCases /\ OverByCase' = OverByCase /\ Applied' = Applied
      /\ Larger(1, product.case)' = Larger(1, product.case)
  BY <1>1, SameAmounts DEF WholeCases, OverByCase, Applied, DownTo, Larger
<1>7. AfterMinimum'
  BY <1>1, <1>2, <1>6, SameAmounts DEF AfterMinimum
<1>8. "shelf_life" \notin Applied' => qty' >= Need'
  BY <1>1, <1>4, <1>6, SameAmounts DEF Inductive
<1> QED
  BY <1>1, <1>2, <1>3, <1>5, <1>7, <1>8, SameAmounts
     DEF Inductive, NeverOverTarget, BeforeLimits, AfterShelfLife, AfterCases, AfterRecheck

LEMMA InductiveStep ==
  ASSUME Inductive, [Next]_vars
  PROVE  Inductive'
<1> USE DEF Inductive
<1>1. CASE Reject \/ Hold
  <2>1. /\ stage' \in {"rejected", "done"} /\ (stage' = "done" => Valid /\ inhibited')
        /\ UNCHANGED <<product, signal, qty, constraints, quantity>>
        /\ inhibited' \in BOOLEAN
    BY <1>1 DEF Reject, Hold, TypeOK
  <2>2. TypeOK' /\ ~Computing' /\ ~Answered'
    BY <2>1 DEF TypeOK, Stages, Computing, Answered
  <2> QED
    BY <2>1, <2>2, SameAmounts
       DEF NeverOverTarget, ListShape, BeforeLimits, AfterShelfLife, AfterCases, AfterRecheck,
           AfterMinimum
<1>2. CASE Trigger
  BY <1>2, TriggerStep
<1>3. CASE ApplyShelfLife
  BY <1>3, ShelfLifeStep
<1>4. CASE ApplyCaseSize
  BY <1>4, CaseSizeStep
<1>5. CASE EnforceShelfLifeAfterRounding
  BY <1>5, RecheckStep
<1>6. CASE ApplyMinimumOrder
  BY <1>6, MinimumStep
<1>7. CASE Finish
  BY <1>7, FinishStep
<1>8. CASE Stop \/ UNCHANGED vars
  <2>1. UNCHANGED vars
    BY <1>8 DEF Stop
  <2> QED
    BY <2>1, SameAmounts
       DEF vars, TypeOK, NeverOverTarget, ListShape, BeforeLimits, AfterShelfLife, AfterCases,
           AfterRecheck, AfterMinimum, Computing, Answered, Applied, WholeCases, OverByCase,
           DownTo, Larger, Round
<1> QED
  BY <1>1, <1>2, <1>3, <1>4, <1>5, <1>6, <1>7, <1>8 DEF Next

(* The list of limits and the quantity so far fit together at every stage.    *)
THEOREM Invariance == Spec => []Inductive
<1>1. Init => Inductive
  BY InductiveInit
<1>2. Inductive /\ [Next]_vars => Inductive'
  BY InductiveStep
<1> QED
  BY <1>1, <1>2, PTL DEF Spec

(* Every variable keeps its type; no quantity is ever negative.               *)
THEOREM TypeCorrectness == Spec => []TypeOK
<1>1. Inductive => TypeOK
  BY DEF Inductive
<1> QED
  BY <1>1, Invariance, PTL

(* An order is computed only for a position that is not above the target, so  *)
(* a negative need is impossible, as Recommend says.                          *)
THEOREM NeedIsNeverNegative == Spec => []NeverOverTarget
<1>1. Inductive => NeverOverTarget
  BY DEF Inductive
<1> QED
  BY <1>1, Invariance, PTL

(* The list of limits explains the number, whichever of them applied.         *)
THEOREM ListExplains == Spec => []AuditTrail
<1>1. Inductive => AuditTrail
  <2> SUFFICES ASSUME Inductive, Answered PROVE AuditTrail
    BY DEF AuditTrail
  <2>1. Computing /\ ListShape /\ quantity = Round(qty)
    BY DEF Inductive, Computing
  <2>2. Len(constraints) \in Nat /\ (constraints = <<>> <=> Len(constraints) = 0)
    <3>1. constraints \in Seq(LimitEntry)
      BY DEF Inductive, TypeOK, LimitEntry
    <3> QED
      BY <3>1
  <2> QED
    BY <2>1, <2>2 DEF ListShape, AuditTrail
<1> QED
  BY <1>1, Invariance, PTL

-------------------------------------------------------------------------------
(* The quantity that is answered.                                             *)

(* What is known of it: the invariant, with the rounding bounds.              *)
LEMMA AnswerFacts ==
  ASSUME Inductive, Answered
  PROVE  /\ TypeOK /\ Valid /\ AfterMinimum
         /\ qty \in Nat /\ quantity \in Nat /\ quantity = Round(qty)
         /\ Scale \in Nat \ {0}
         /\ 2 * quantity * Scale <= 2 * qty + Scale
         /\ 2 * qty < 2 * quantity * Scale + Scale
         /\ quantity * Scale \in Nat
         /\ 2 * quantity * Scale = 2 * (quantity * Scale)
<1>1. TypeOK /\ Valid /\ AfterMinimum /\ quantity = Round(qty) /\ qty \in Nat
  BY DEF Inductive, Answered, TypeOK
<1>2. Scale \in Nat \ {0}
  BY ReplenishAssumption
<1>3. /\ quantity \in Nat
      /\ 2 * quantity * Scale <= 2 * qty + Scale
      /\ 2 * qty < 2 * quantity * Scale + Scale
  BY <1>1, RoundBounds
<1>4. quantity * Scale \in Nat /\ 2 * quantity * Scale = 2 * (quantity * Scale)
  BY <1>2, <1>3
<1> QED
  BY <1>1, <1>2, <1>3, <1>4

(* With cases the rounding changes nothing: the answer is whole cases.        *)
LEMMA AnswerInCases ==
  ASSUME Inductive, Answered, product.case > 1
  PROVE  /\ quantity * Scale = qty
         /\ \E k \in Nat : quantity = k * product.case
<1>1. TypeOK /\ Valid /\ AfterMinimum /\ qty \in Nat /\ quantity = Round(qty)
  BY AnswerFacts
<1>2. DownTo(qty, Case) = qty
  BY <1>1 DEF AfterMinimum, WholeCases
<1>3. PICK k \in Nat : qty = (k * product.case) * Scale
  BY <1>1, <1>2, CasesAreUnits
<1>4. k * product.case \in Nat
  BY <1>1, Amounts
<1>5. quantity = k * product.case /\ qty = quantity * Scale
  BY <1>1, <1>3, <1>4, UnitsAreExact
<1> QED
  BY <1>5

(* Whatever the limits did to it, the vendor ships the order.                 *)
THEOREM VendorShips == Spec => []VendorAccepts
<1>1. Inductive => VendorAccepts
  <2> SUFFICES ASSUME Inductive, Answered, quantity > 0
               PROVE  /\ quantity >= product.minimum
                      /\ product.case > 1 => \E n \in 1..quantity : quantity = n * product.case
    BY DEF VendorAccepts
  <2>1. /\ qty \in Nat /\ quantity \in Nat /\ quantity = Round(qty) /\ AfterMinimum
        /\ product.minimum \in Nat /\ product.case \in Nat /\ Scale \in Nat
    BY AnswerFacts, Amounts
  <2>2. qty > 0
    <3>1. Round(0 * Scale) = 0 /\ 0 * Scale = 0
      BY <2>1, RoundExact
    <3> QED
      BY <2>1, <3>1
  <2>3. product.minimum * Scale <= qty
    BY <2>1, <2>2, AnswerFacts, Amounts DEF AfterMinimum, Minimum
  <2>4. product.minimum <= quantity
    BY <2>1, <2>3, RoundReaches
  <2>5. ASSUME product.case > 1
        PROVE  \E n \in 1..quantity : quantity = n * product.case
    <3>1. PICK k \in Nat : quantity = k * product.case
      BY <2>5, AnswerInCases
    <3>2. k # 0 /\ k <= k * product.case
      BY <2>1, <2>5, <3>1
    <3> QED
      BY <2>1, <3>1, <3>2
  <2> QED
    BY <2>1, <2>4, <2>5
<1> QED
  BY <1>1, Invariance, PTL

(* Unless shelf life says otherwise, the order fills up to the target.        *)
THEOREM NeedIsCovered == Spec => []CoversNeed
<1>1. Inductive => CoversNeed
  <2> SUFFICES ASSUME Inductive, Answered, "shelf_life" \notin Applied
               PROVE  2 * quantity * Scale + Scale >= 2 * Need
    BY DEF CoversNeed
  <2>1. /\ qty \in Nat /\ Need \in Nat /\ quantity * Scale \in Nat /\ Scale \in Nat
        /\ 2 * quantity * Scale = 2 * (quantity * Scale)
        /\ 2 * qty < 2 * quantity * Scale + Scale
    BY AnswerFacts, Amounts
  <2>2. qty >= Need
    BY DEF Inductive, Computing
  <2> QED
    BY <2>1, <2>2
<1> QED
  BY <1>1, Invariance, PTL

(* The order is over the need by less than a case, or half a unit, unless the *)
(* vendor's minimum lifted it.                                                *)
THEOREM ExcessIsBounded == Spec => []NoExcess
<1>1. Inductive => NoExcess
  <2> SUFFICES ASSUME Inductive, Answered
               PROVE  \/ 2 * quantity * Scale <= 2 * Need + Scale
                      \/ product.case > 1 /\ quantity * Scale < Need + Case
                      \/ "minimum_order_qty" \in Applied
                           /\ quantity < product.minimum + Larger(1, product.case)
    BY DEF NoExcess
  <2>1. /\ qty \in Nat /\ Need \in Nat /\ quantity \in Nat /\ quantity * Scale \in Nat
        /\ Scale \in Nat \ {0} /\ quantity = Round(qty) /\ AfterMinimum
        /\ 2 * quantity * Scale = 2 * (quantity * Scale)
        /\ 2 * quantity * Scale <= 2 * qty + Scale
        /\ product.minimum \in Nat /\ product.case \in Nat
    BY AnswerFacts, Amounts
  <2>2. CASE qty <= Need
    BY <2>1, <2>2
  <2>3. CASE product.case > 1 /\ qty < Need + Case
    BY <2>3, AnswerInCases
  <2>4. CASE /\ "minimum_order_qty" \in Applied
             /\ qty = Round(qty) * Scale
             /\ qty < Minimum + Larger(1, product.case) * Scale
    <3> DEFINE m == product.minimum
               c == Larger(1, product.case)
    <3>1. c \in Nat /\ m \in Nat
      BY <2>1 DEF Larger
    <3>2. quantity * Scale < m * Scale + c * Scale
      BY <2>1, <2>4 DEF Minimum
    <3> HIDE DEF m, c
    <3>3. m * Scale + c * Scale = (m + c) * Scale
      BY <2>1, <3>1
    <3>4. ~(quantity >= m + c)
      <4> SUFFICES ASSUME quantity >= m + c PROVE FALSE
        OBVIOUS
      <4>1. quantity * Scale >= (m + c) * Scale
        BY <2>1, <3>1
      <4>2. (m + c) * Scale \in Nat
        BY <2>1, <3>1
      <4> QED
        BY <2>1, <3>2, <3>3, <4>1, <4>2
    <3>5. quantity < m + c
      BY <2>1, <3>1, <3>4
    <3> QED
      BY <2>4, <3>5 DEF m, c
  <2> QED
    BY <2>1, <2>2, <2>3, <2>4 DEF AfterMinimum, OverByCase
<1> QED
  BY <1>1, Invariance, PTL

(* What does not sell within its shelf life is not ordered, unless the        *)
(* vendor's minimum lifted the order.                                         *)
THEOREM CeilingHolds == Spec => []CeilingUnlessMinimum
<1>1. Inductive => CeilingUnlessMinimum
  <2> SUFFICES ASSUME Inductive, Answered, Perishable, "minimum_order_qty" \notin Applied
               PROVE  IF product.case > 1 THEN quantity * Scale <= Sellable
                      ELSE 2 * quantity * Scale <= 2 * Sellable + Scale
    BY DEF CeilingUnlessMinimum
  <2>1. /\ qty \in Nat /\ Sellable \in Nat /\ quantity * Scale \in Nat /\ Scale \in Nat
        /\ AfterMinimum
        /\ 2 * quantity * Scale = 2 * (quantity * Scale)
        /\ 2 * quantity * Scale <= 2 * qty + Scale
    BY AnswerFacts, Amounts
  <2>2. qty <= Sellable
    BY <2>1 DEF AfterMinimum
  <2>3. product.case > 1 => quantity * Scale <= Sellable
    BY <2>2, AnswerInCases
  <2>4. 2 * quantity * Scale <= 2 * Sellable + Scale
    BY <2>1, <2>2
  <2> QED
    BY <2>3, <2>4
<1> QED
  BY <1>1, Invariance, PTL

(* When not even one case sells in time, nothing is ordered, and the minimum  *)
(* does not bring the order back.                                             *)
THEOREM NothingIsLifted == Spec => []NothingStaysNothing
<1>1. Inductive => NothingStaysNothing
  <2> SUFFICES ASSUME Inductive, Answered, Perishable, product.case > 1, Sellable < Case
               PROVE  quantity = 0
    BY DEF NothingStaysNothing
  <2>1. qty = 0 /\ quantity = Round(qty) /\ Scale \in Nat
    BY AnswerFacts DEF AfterMinimum
  <2>2. Round(0 * Scale) = 0 /\ 0 * Scale = 0
    BY <2>1, RoundExact
  <2> QED
    BY <2>1, <2>2
<1> QED
  BY <1>1, Invariance, PTL
-------------------------------------------------------------------------------
(* The decision as a function of the product p and the signal s.              *)

NeedOf(p, s) == Larger(0, (s.daily * (p.lead + p.review) + s.safety) - p.position * Scale)
SellableOf(p, s) == s.daily * p.shelf

\* The four limits, each from the quantity q and the ceiling c.
Capped(p, c, q) == IF p.shelf > 0 /\ q > c THEN c ELSE q
Cased(p, q) == IF p.case > 1 /\ q > 0 THEN UpTo(q, p.case * Scale) ELSE q
Rechecked(p, c, q) ==
  IF p.shelf > 0 /\ p.case > 1 /\ q > 0 /\ q > c THEN DownTo(c, p.case * Scale) ELSE q
Lifted(p, q) ==
  IF q > 0 /\ q < p.minimum * Scale
    THEN IF p.case > 1 THEN UpTo(p.minimum * Scale, p.case * Scale) ELSE p.minimum * Scale
    ELSE q

CappedOf(p, s) == Capped(p, SellableOf(p, s), NeedOf(p, s))
CasedOf(p, s) == Cased(p, CappedOf(p, s))
RecheckedOf(p, s) == Rechecked(p, SellableOf(p, s), CasedOf(p, s))
LiftedOf(p, s) == Lifted(p, RecheckedOf(p, s))

HeldOf(p, s) == p.position * Scale > s.daily * p.lead + s.safety
OrderOf(p, s) == IF HeldOf(p, s) THEN 0 ELSE Round(LiftedOf(p, s))

\* The same vendor terms and the same limits, whatever is in stock.
SameTerms(p, r) ==
  /\ p.lead = r.lead /\ p.review = r.review /\ p.shelf = r.shelf
  /\ p.minimum = r.minimum /\ p.case = r.case


-------------------------------------------------------------------------------
(* Each of the limits grows with what it is given.                            *)

(* The quotient grows.                                                        *)
LEMMA QuotientGrows ==
  ASSUME NEW x \in Nat, NEW y \in Nat, NEW n \in Nat \ {0}, x <= y
  PROVE  x \div n <= y \div n
<1> DEFINE a == x \div n
           b == y \div n
<1>1. a \in Nat /\ n * a <= x /\ b \in Nat /\ y < n * b + n
  BY Quotient
<1> HIDE DEF a, b
<1> SUFFICES ASSUME b + 1 <= a PROVE FALSE
  BY <1>1 DEF a, b
<1>2. n * (b + 1) <= n * a
  BY <1>1
<1>3. n * (b + 1) = n * b + n /\ n * b \in Nat /\ n * a \in Nat
  BY <1>1
<1> QED
  BY <1>1, <1>2, <1>3

(* The rounding grows.                                                        *)
LEMMA RoundGrows ==
  ASSUME NEW x \in Nat, NEW y \in Nat, x <= y
  PROVE  Round(x) <= Round(y)
<1>1. Scale \in Nat \ {0}
  BY ReplenishAssumption
<1>2. 2 * x + Scale \in Nat /\ 2 * y + Scale \in Nat /\ 2 * Scale \in Nat \ {0}
      /\ 2 * x + Scale <= 2 * y + Scale
  BY <1>1
<1> QED
  BY <1>2, QuotientGrows DEF Round

(* The multiple below grows.                                                  *)
LEMMA DownToGrows ==
  ASSUME NEW x \in Nat, NEW y \in Nat, NEW n \in Nat \ {0}, x <= y
  PROVE  DownTo(x, n) <= DownTo(y, n)
<1> DEFINE a == x \div n
           b == y \div n
<1>1. a \in Nat /\ b \in Nat /\ a <= b
  BY Quotient, QuotientGrows
<1> HIDE DEF a, b
<1>2. a * n <= b * n
  BY <1>1
<1> QED
  BY <1>2 DEF DownTo, a, b

(* The multiple above grows, and is the least one there is.                   *)
LEMMA UpToGrows ==
  ASSUME NEW x \in Nat, NEW y \in Nat, NEW n \in Nat \ {0}, x <= y
  PROVE  /\ UpTo(x, n) <= UpTo(y, n)
         /\ DownTo(y, n) = y => UpTo(x, n) <= y
<1> DEFINE a == (x + n - 1) \div n
           b == (y + n - 1) \div n
<1>1. x + n - 1 \in Nat /\ y + n - 1 \in Nat /\ x + n - 1 <= y + n - 1
  OBVIOUS
<1>2. a \in Nat /\ b \in Nat /\ a <= b
  BY <1>1, Quotient, QuotientGrows
<1>3. UpTo(x, n) = a * n /\ UpTo(y, n) = b * n
  BY DEF UpTo
<1> HIDE DEF a, b
<1>4. UpTo(x, n) <= UpTo(y, n)
  BY <1>2, <1>3
<1>5. ASSUME DownTo(y, n) = y
      PROVE  UpTo(y, n) = y
  <2> DEFINE k == y \div n
  <2>1. k \in Nat
    BY Quotient
  <2>2. y = k * n
    BY <1>5 DEF DownTo
  <2> HIDE DEF k
  <2>3. k * n = n * k /\ n * k \in Nat
    BY <2>1
  <2>4. n * k <= y + n - 1 /\ y + n - 1 < n * k + n
    BY <2>2, <2>3
  <2>5. b = k
    BY <1>1, <2>1, <2>4, QuotientUnique DEF b
  <2> QED
    BY <1>3, <2>2, <2>5
<1> QED
  BY <1>4, <1>5

\* The terms of a product that Validate accepts.
Accepted(p) ==
  /\ p.lead \in Nat /\ p.review \in Nat /\ p.minimum \in Nat /\ p.case \in Nat /\ p.shelf \in Nat

\* A quantity the vendor of p can pack.
Whole(p, q) == p.case > 1 => DownTo(q, p.case * Scale) = q

(* A case has parts.                                                          *)
LEMMA CaseIsPositive ==
  ASSUME NEW p, Accepted(p), p.case > 1
  PROVE  p.case * Scale \in Nat \ {0}
  BY ReplenishAssumption DEF Accepted

(* The ceiling.                                                               *)
LEMMA CappedGrows ==
  ASSUME NEW p, Accepted(p), NEW c \in Nat, NEW d \in Nat, NEW q \in Nat, NEW r \in Nat,
         c <= d, q <= r
  PROVE  Capped(p, c, q) \in Nat /\ Capped(p, d, r) \in Nat /\ Capped(p, c, q) <= Capped(p, d, r)
  BY DEF Capped, Accepted

(* The next whole case.                                                       *)
LEMMA CasedGrows ==
  ASSUME NEW p, Accepted(p), NEW q \in Nat, NEW r \in Nat, q <= r
  PROVE  /\ Cased(p, q) \in Nat /\ Cased(p, r) \in Nat /\ Cased(p, q) <= Cased(p, r)
         /\ Whole(p, Cased(p, q)) /\ Whole(p, Cased(p, r))
<1> DEFINE n == p.case * Scale
<1>1. CASE p.case > 1
  <2>1. n \in Nat \ {0}
    BY <1>1, CaseIsPositive
  <2> HIDE DEF n
  <2>2. DownTo(0, n) = 0
    BY <2>1, DownToBounds
  <2>3. \A x \in Nat : Cased(p, x) = IF x > 0 THEN UpTo(x, n) ELSE x
    BY <1>1 DEF Cased, n
  <2>4. ASSUME NEW x \in Nat
        PROVE  Cased(p, x) \in Nat /\ DownTo(Cased(p, x), n) = Cased(p, x)
    <3>1. UpTo(x, n) \in Nat /\ DownTo(UpTo(x, n), n) = UpTo(x, n)
      BY <2>1, UpToBounds
    <3>2. CASE x > 0
      BY <2>3, <3>1, <3>2
    <3>3. CASE ~(x > 0)
      <4>1. x = 0 /\ Cased(p, x) = 0
        BY <2>3, <3>3
      <4> QED
        BY <2>2, <4>1
    <3> QED
      BY <3>2, <3>3
  <2>5. Cased(p, q) <= Cased(p, r)
    <3>1. CASE q = 0
      BY <2>3, <2>4, <3>1
    <3>2. CASE q # 0
      BY <2>1, <2>3, <3>2, UpToGrows
    <3> QED
      BY <3>1, <3>2
  <2> QED
    BY <2>4, <2>5 DEF Whole, n
<1>2. CASE ~(p.case > 1)
  BY <1>2 DEF Cased, Whole
<1> QED
  BY <1>1, <1>2

(* Whole cases over the ceiling c fall to the whole cases next to it, and     *)
(* whole cases under it are not above those.                                  *)
LEMMA RecheckedGrows ==
  ASSUME NEW p, Accepted(p), NEW c \in Nat, NEW d \in Nat, NEW q \in Nat, NEW r \in Nat,
         c <= d, q <= r, Whole(p, q), Whole(p, r)
  PROVE  /\ Rechecked(p, c, q) \in Nat /\ Rechecked(p, d, r) \in Nat
         /\ Rechecked(p, c, q) <= Rechecked(p, d, r)
         /\ Whole(p, Rechecked(p, c, q)) /\ Whole(p, Rechecked(p, d, r))
<1> DEFINE n == p.case * Scale
<1>1. CASE p.shelf > 0 /\ p.case > 1
  <2>1. n \in Nat \ {0}
    BY <1>1, CaseIsPositive
  <2>2. DownTo(q, n) = q /\ DownTo(r, n) = r
    BY <1>1 DEF Whole
  <2>3. \A x \in Nat, y \in Nat :
          Rechecked(p, x, y) = IF y > 0 /\ y > x THEN DownTo(x, n) ELSE y
    BY <1>1 DEF Rechecked
  <2>4. \A x \in Nat : Whole(p, x) <=> DownTo(x, n) = x
    BY <1>1 DEF Whole
  <2> HIDE DEF n
  <2>5. /\ DownTo(c, n) \in Nat /\ DownTo(d, n) \in Nat /\ DownTo(c, n) <= DownTo(d, n)
        /\ DownTo(c, n) <= c
        /\ DownTo(DownTo(c, n), n) = DownTo(c, n) /\ DownTo(DownTo(d, n), n) = DownTo(d, n)
    BY <2>1, DownToBounds, DownToGrows
  <2>6. q <= d => q <= DownTo(d, n)
    BY <2>1, <2>2, DownToGrows
  <2>7. Rechecked(p, c, q) \in Nat /\ Rechecked(p, d, r) \in Nat
        /\ Rechecked(p, c, q) <= Rechecked(p, d, r)
    BY <2>3, <2>5, <2>6
  <2>8. DownTo(Rechecked(p, c, q), n) = Rechecked(p, c, q)
        /\ DownTo(Rechecked(p, d, r), n) = Rechecked(p, d, r)
    BY <2>2, <2>3, <2>5
  <2> QED
    BY <2>4, <2>7, <2>8
<1>2. CASE ~(p.shelf > 0 /\ p.case > 1)
  BY <1>2 DEF Rechecked
<1> QED
  BY <1>1, <1>2

(* The minimum is lifted to no more than what whole cases reach it anyway.    *)
LEMMA LiftedGrows ==
  ASSUME NEW p, Accepted(p), NEW q \in Nat, NEW r \in Nat, q <= r, Whole(p, r)
  PROVE  Lifted(p, q) \in Nat /\ Lifted(p, r) \in Nat /\ Lifted(p, q) <= Lifted(p, r)
<1> DEFINE n == p.case * Scale
           m == p.minimum * Scale
           u == IF p.case > 1 THEN UpTo(m, n) ELSE m
<1>1. m \in Nat
  BY ReplenishAssumption DEF Accepted
<1>2. u \in Nat /\ m <= u /\ (r >= m => u <= r)
  <2>1. CASE p.case > 1
    <3>1. n \in Nat \ {0} /\ DownTo(r, n) = r
      BY <2>1, CaseIsPositive DEF Whole
    <3> HIDE DEF n, m
    <3>2. UpTo(m, n) \in Nat /\ m <= UpTo(m, n)
      BY <1>1, <3>1, UpToBounds
    <3>3. r >= m => UpTo(m, n) <= r
      BY <1>1, <3>1, UpToGrows
    <3> QED
      BY <2>1, <3>2, <3>3
  <2>2. CASE ~(p.case > 1)
    <3> HIDE DEF n, m
    <3> QED
      BY <1>1, <2>2
  <2> QED
    BY <2>1, <2>2
<1>3. \A x \in Nat : Lifted(p, x) = IF x > 0 /\ x < m THEN u ELSE x
  BY DEF Lifted
<1> HIDE DEF u, m
<1> QED
  BY <1>1, <1>2, <1>3


(* Less stock, or more demand, never leads to a smaller order.                *)
LEMMA OrderGrows ==
  ASSUME NEW p \in Products, NEW r \in Products, NEW s \in Signals, NEW t \in Signals,
         Accepted(p), SameTerms(r, p), r.position <= p.position,
         s.daily <= t.daily, s.safety <= t.safety
  PROVE  OrderOf(p, s) \in Nat /\ OrderOf(r, t) \in Nat /\ OrderOf(p, s) <= OrderOf(r, t)
<1>1. /\ Scale \in Nat \ {0} /\ p.position \in Nat /\ r.position \in Nat
      /\ s.daily \in Nat /\ t.daily \in Nat /\ s.safety \in Nat /\ t.safety \in Nat
      /\ p.lead \in Nat /\ p.review \in Nat /\ p.shelf \in Nat
      /\ r.lead = p.lead /\ r.review = p.review /\ r.shelf = p.shelf
      /\ r.minimum = p.minimum /\ r.case = p.case
  BY ReplenishAssumption DEF ProductType, Accepted, SameTerms
<1>2. r.position * Scale \in Nat /\ p.position * Scale \in Nat
      /\ r.position * Scale <= p.position * Scale
  BY <1>1
<1>3. \A k \in Nat : s.daily * k \in Nat /\ t.daily * k \in Nat /\ s.daily * k <= t.daily * k
  BY <1>1
<1> DEFINE sr == s.daily * (p.lead + p.review)
           tr == t.daily * (p.lead + p.review)
           ps == p.position * Scale
           rs == r.position * Scale
<1>4. sr \in Nat /\ tr \in Nat /\ sr <= tr
  BY <1>1, <1>3
<1>5. /\ NeedOf(p, s) = Larger(0, (sr + s.safety) - ps)
      /\ NeedOf(r, t) = Larger(0, (tr + t.safety) - rs)
  BY <1>1 DEF NeedOf
<1>6. NeedOf(p, s) \in Nat /\ NeedOf(r, t) \in Nat /\ NeedOf(p, s) <= NeedOf(r, t)
  <2> HIDE DEF sr, tr, ps, rs
  <2>1. ps \in Nat /\ rs \in Nat /\ rs <= ps
    BY <1>2 DEF ps, rs
  <2> QED
    BY <1>1, <1>4, <1>5, <2>1 DEF Larger
<1>7. SellableOf(p, s) \in Nat /\ SellableOf(r, t) \in Nat /\ SellableOf(p, s) <= SellableOf(r, t)
  BY <1>1, <1>3 DEF SellableOf
<1> HIDE DEF sr, tr, ps, rs
<1>8. CappedOf(r, t) = Capped(p, SellableOf(r, t), NeedOf(r, t))
  BY <1>1 DEF CappedOf, Capped
<1>9. CasedOf(r, t) = Cased(p, CappedOf(r, t))
  BY <1>1 DEF CasedOf, Cased
<1>10. RecheckedOf(r, t) = Rechecked(p, SellableOf(r, t), CasedOf(r, t))
  BY <1>1 DEF RecheckedOf, Rechecked
<1>11. LiftedOf(r, t) = Lifted(p, RecheckedOf(r, t))
  BY <1>1 DEF LiftedOf, Lifted
<1>12. CappedOf(p, s) \in Nat /\ CappedOf(r, t) \in Nat /\ CappedOf(p, s) <= CappedOf(r, t)
  BY <1>6, <1>7, <1>8, CappedGrows DEF CappedOf
<1>13. /\ CasedOf(p, s) \in Nat /\ CasedOf(r, t) \in Nat /\ CasedOf(p, s) <= CasedOf(r, t)
       /\ Whole(p, CasedOf(p, s)) /\ Whole(p, CasedOf(r, t))
  BY <1>9, <1>12, CasedGrows DEF CasedOf
<1>14. /\ RecheckedOf(p, s) \in Nat /\ RecheckedOf(r, t) \in Nat
       /\ RecheckedOf(p, s) <= RecheckedOf(r, t) /\ Whole(p, RecheckedOf(r, t))
  BY <1>7, <1>10, <1>13, RecheckedGrows DEF RecheckedOf
<1>15. LiftedOf(p, s) \in Nat /\ LiftedOf(r, t) \in Nat /\ LiftedOf(p, s) <= LiftedOf(r, t)
  BY <1>11, <1>14, LiftedGrows DEF LiftedOf
<1>16. /\ Round(LiftedOf(p, s)) \in Nat /\ Round(LiftedOf(r, t)) \in Nat
       /\ Round(LiftedOf(p, s)) <= Round(LiftedOf(r, t))
  BY <1>15, RoundBounds, RoundGrows
<1>17. HeldOf(r, t) => HeldOf(p, s)
  <2> DEFINE sl == s.daily * p.lead
             tl == t.daily * p.lead
  <2>1. sl \in Nat /\ tl \in Nat /\ sl <= tl
    BY <1>1, <1>3
  <2>2. ps \in Nat /\ rs \in Nat /\ rs <= ps
    BY <1>2 DEF ps, rs
  <2>3. (HeldOf(p, s) <=> ps > sl + s.safety) /\ (HeldOf(r, t) <=> rs > tl + t.safety)
    BY <1>1 DEF HeldOf, ps, rs
  <2> HIDE DEF sl, tl
  <2> QED
    BY <1>1, <2>1, <2>2, <2>3
<1> QED
  BY <1>16, <1>17 DEF OrderOf

-------------------------------------------------------------------------------
(* The stages compute the function.                                           *)

\* The quantity so far is that of the function.
Along ==
  /\ stage \in LimitStages \/ Answered => ~HeldOf(product, signal)
  /\ stage = "done" /\ inhibited => HeldOf(product, signal) /\ quantity = 0
  /\ stage = "caseSize" => qty = CappedOf(product, signal)
  /\ stage = "recheck" => qty = CasedOf(product, signal)
  /\ stage = "minimum" => qty = RecheckedOf(product, signal)
  /\ stage = "round" \/ Answered => qty = LiftedOf(product, signal)
  /\ stage \in LimitStages \cup {"trigger", "rejected"} => quantity = 0 /\ ~inhibited

(* It is before the first stage, where nothing is computed.                   *)
LEMMA AlongInit ==
  ASSUME Init
  PROVE  Along
  BY DEF Init, Along, LimitStages, Answered

(* The amounts of the module are those of its arguments.                      *)
LEMMA ArgumentsOf ==
  /\ Need = NeedOf(product, signal)
  /\ Sellable = SellableOf(product, signal)
  /\ Position > ReorderPoint <=> HeldOf(product, signal)
<1>1. Need = NeedOf(product, signal)
  BY DEF Need, NeedOf, Position, TargetLevel, Cover
<1>2. Sellable = SellableOf(product, signal)
  BY DEF Sellable, SellableOf
<1>3. Position > ReorderPoint <=> HeldOf(product, signal)
  BY DEF Position, ReorderPoint, HeldOf
<1> QED
  BY <1>1, <1>2, <1>3

(* They stay the same, and so does what the function makes of them.           *)
LEMMA SameArguments ==
  ASSUME UNCHANGED <<product, signal>>
  PROVE  /\ HeldOf(product, signal)' = HeldOf(product, signal)
         /\ CappedOf(product, signal)' = CappedOf(product, signal)
         /\ CasedOf(product, signal)' = CasedOf(product, signal)
         /\ RecheckedOf(product, signal)' = RecheckedOf(product, signal)
         /\ LiftedOf(product, signal)' = LiftedOf(product, signal)
<1>1. product' = product /\ signal' = signal
  OBVIOUS
<1> QED
  BY <1>1, Zenon

(* Each stage goes on from where the one before it stopped.                   *)
LEMMA AlongStep ==
  ASSUME Inductive, Along, [Next]_vars
  PROVE  Along'
<1> DEFINE held == HeldOf(product, signal)
           capped == CappedOf(product, signal)
           cased == CasedOf(product, signal)
           rechecked == RecheckedOf(product, signal)
           lifted == LiftedOf(product, signal)
<1>0. UNCHANGED <<product, signal>>
  BY DEF Next, vars, Reject, Hold, Trigger, ApplyShelfLife, ApplyCaseSize,
     EnforceShelfLifeAfterRounding, ApplyMinimumOrder, Finish, Stop, Pass
<1>1. /\ held' = held /\ capped' = capped /\ cased' = cased /\ rechecked' = rechecked
      /\ lifted' = lifted
  BY <1>0, SameArguments
<1>2. /\ stage = "shelfLife" => qty = Need
      /\ Position > ReorderPoint <=> held
  BY ArgumentsOf DEF Inductive, BeforeLimits
<1>3. capped = IF Perishable /\ Need > Sellable THEN Sellable ELSE Need
  BY ArgumentsOf DEF CappedOf, Capped, Perishable
<1>4. cased = IF product.case > 1 /\ capped > 0 THEN UpTo(capped, Case) ELSE capped
  BY DEF CasedOf, Cased, Case
<1>5. rechecked = IF Perishable /\ product.case > 1 /\ cased > 0 /\ cased > Sellable
                    THEN DownTo(Sellable, Case) ELSE cased
  BY ArgumentsOf DEF RecheckedOf, Rechecked, Perishable, Case
<1>6. lifted = IF rechecked > 0 /\ rechecked < Minimum
                 THEN IF product.case > 1 THEN UpTo(Minimum, Case) ELSE Minimum
                 ELSE rechecked
  BY DEF LiftedOf, Lifted, Minimum, Case
<1> HIDE DEF held, capped, cased, rechecked, lifted
<1> DEFINE Course(h, c, k, r, l) ==
             /\ stage \in LimitStages \/ Answered => ~h
             /\ stage = "done" /\ inhibited => h /\ quantity = 0
             /\ stage = "caseSize" => qty = c
             /\ stage = "recheck" => qty = k
             /\ stage = "minimum" => qty = r
             /\ stage = "round" \/ Answered => qty = l
             /\ stage \in LimitStages \cup {"trigger", "rejected"} => quantity = 0 /\ ~inhibited
<1>7. Course(held, capped, cased, rechecked, lifted)
  BY DEF Along, held, capped, cased, rechecked, lifted
<1>8. SUFFICES Course(held, capped, cased, rechecked, lifted)'
  BY DEF Along, held, capped, cased, rechecked, lifted
<1> USE <1>1, <1>7 DEF LimitStages, Answered
<1>9. CASE Reject
  BY <1>9 DEF Reject
<1>10. CASE Hold
  BY <1>2, <1>10 DEF Hold
<1>11. CASE Trigger
  <2>1. Position \in Nat /\ ReorderPoint \in Nat
    BY <1>11, Amounts DEF Trigger, Inductive
  <2> QED
    BY <1>2, <1>11, <2>1 DEF Trigger
<1>12. CASE ApplyShelfLife
  BY <1>2, <1>3, <1>12 DEF ApplyShelfLife, Pass
<1>13. CASE ApplyCaseSize
  BY <1>4, <1>13 DEF ApplyCaseSize, Pass
<1>14. CASE EnforceShelfLifeAfterRounding
  BY <1>5, <1>14 DEF EnforceShelfLifeAfterRounding, Pass
<1>15. CASE ApplyMinimumOrder
  BY <1>6, <1>15 DEF ApplyMinimumOrder, Pass
<1>16. CASE Finish
  BY <1>16 DEF Finish
<1>17. CASE Stop \/ UNCHANGED vars
  BY <1>17 DEF Stop, vars
<1> QED
  BY <1>9, <1>10, <1>11, <1>12, <1>13, <1>14, <1>15, <1>16, <1>17 DEF Next

(* The quantity so far is what the function makes of the arguments.           *)
THEOREM Computation == Spec => []Along
<1>1. Init => Along
  BY AlongInit
<1>2. Inductive /\ Along /\ [Next]_vars => Along'
  BY AlongStep
<1> QED
  BY <1>1, <1>2, Invariance, PTL DEF Spec

\* What Recommend answers is this function of its arguments.
IsTheFunction == stage = "done" => quantity = OrderOf(product, signal)

(* The answer of Recommend, held or ordered, depends on nothing but the       *)
(* product and the signal.                                                    *)
THEOREM AnswerIsTheFunction == Spec => []IsTheFunction
<1>1. Inductive /\ Along => IsTheFunction
  <2> SUFFICES ASSUME Inductive, Along, stage = "done"
               PROVE  quantity = OrderOf(product, signal)
    BY DEF IsTheFunction
  <2>1. CASE inhibited
    BY <2>1 DEF Along, OrderOf
  <2>2. CASE ~inhibited
    BY <2>2 DEF Along, Answered, OrderOf, Inductive
  <2> QED
    BY <2>1, <2>2
<1> QED
  BY <1>1, Invariance, Computation, PTL

\* Less stock, or more demand, never leads to a smaller order.
ScarcerOrdersNoLess ==
  stage = "done" =>
    \A p \in Products, s \in Signals :
      /\ SameTerms(p, product) /\ p.position <= product.position
      /\ s.daily >= signal.daily /\ s.safety >= signal.safety
      => quantity <= OrderOf(p, s)

(* Whatever the limits and the cases are, an order never shrinks because      *)
(* there is less in stock or more is sold.                                    *)
THEOREM ScarcityOrdersNoLess == Spec => []ScarcerOrdersNoLess
<1>1. Inductive /\ IsTheFunction => ScarcerOrdersNoLess
  <2> SUFFICES ASSUME Inductive, IsTheFunction, stage = "done",
                      NEW p \in Products, NEW s \in Signals,
                      SameTerms(p, product), p.position <= product.position,
                      s.daily >= signal.daily, s.safety >= signal.safety
               PROVE  quantity <= OrderOf(p, s)
    BY DEF ScarcerOrdersNoLess
  <2>1. product \in Products /\ signal \in Signals /\ Valid
    BY DEF Inductive, TypeOK
  <2>2. Accepted(product)
    BY <2>1, ReplenishAssumption DEF Valid, Accepted, ProductType
  <2>3. signal.daily <= s.daily /\ signal.safety <= s.safety
    BY <2>1, ReplenishAssumption
  <2>4. OrderOf(product, signal) <= OrderOf(p, s)
    BY <2>1, <2>2, <2>3, OrderGrows
  <2> QED
    BY <2>4 DEF IsTheFunction
<1> QED
  BY <1>1, Invariance, AnswerIsTheFunction, PTL

\* Once the order is on its way, the same request is told to hold, unless shelf
\* life took something off or not even half a unit sells in a review period.
OneOrderIsEnough ==
  Answered /\ "shelf_life" \notin Applied /\ 2 * signal.daily * product.review >= Scale =>
    Position + quantity * Scale > ReorderPoint

(* A request that is repeated when its order is on the way does not order     *)
(* again.                                                                     *)
THEOREM OrderLastsTheReview == Spec => []OneOrderIsEnough
<1>1. Inductive => OneOrderIsEnough
  <2> SUFFICES ASSUME Inductive, Answered, "shelf_life" \notin Applied,
                      2 * signal.daily * product.review >= Scale
               PROVE  Position + quantity * Scale > ReorderPoint
    BY DEF OneOrderIsEnough
  <2> DEFINE ordered == quantity * Scale
             sold == signal.daily * product.review
  <2>1. /\ qty \in Nat /\ Scale \in Nat \ {0} /\ ordered \in Nat
        /\ 2 * qty < 2 * ordered + Scale /\ TypeOK /\ Valid
    BY AnswerFacts
  <2>2. /\ ReorderPoint \in Nat /\ TargetLevel \in Nat /\ Position \in Nat /\ Need \in Nat
    BY <2>1, Amounts
  <2>3. /\ signal.daily \in Nat /\ signal.safety \in Nat
        /\ product.lead \in Nat /\ product.review \in Nat
    BY <2>1, ReplenishAssumption DEF TypeOK, Valid, ProductType
  <2>4. /\ signal.daily * product.lead \in Nat /\ sold \in Nat
        /\ signal.daily * Cover = signal.daily * product.lead + sold
        /\ 2 * signal.daily * product.review = 2 * sold
    BY <2>3 DEF Cover
  <2>5. TargetLevel = ReorderPoint + sold
    BY <2>3, <2>4 DEF TargetLevel, ReorderPoint
  <2>6. qty >= Need /\ Need >= TargetLevel - Position
    <3>1. qty >= Need
      BY DEF Inductive, Computing
    <3>2. Need >= TargetLevel - Position
      BY <2>2 DEF Need, Larger
    <3> QED
      BY <3>1, <3>2
  <2> HIDE DEF ordered, sold
  <2>7. 2 * sold >= Scale
    BY <2>4
  <2>8. Position + ordered > ReorderPoint
    BY <2>1, <2>2, <2>4, <2>5, <2>6, <2>7
  <2> QED
    BY <2>8 DEF ordered
<1> QED
  BY <1>1, Invariance, PTL
==============================================================================
