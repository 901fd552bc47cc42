------------------------------ MODULE Replenish ------------------------------
(* The decision of internal/inventory/reorder.go for one product and one      *)
(* demand signal, stage by stage.  Quantities are rational in the code; here  *)
(* they are integers counting 1/Scale of a unit.  The safety stock z * sigma  *)
(* * sqrt(days) is an input: any number that is not negative.                 *)
EXTENDS Integers, Sequences

CONSTANTS
  Scale,         \* fractions of a unit that are told apart
  Products,      \* the products: vendor terms, limits and position, in units
  Signals        \* the demand signals: daily demand and safety stock, scaled

ProductType ==
  [lead : Int, review : Int, minimum : Int, case : Int, shelf : Int, position : Nat]

ASSUME ReplenishAssumption ==
  /\ Scale \in Nat \ {0}
  /\ Products \subseteq ProductType
  /\ Signals \subseteq [daily : Nat, safety : Nat]

VARIABLES
  product, signal,   \* the arguments of Recommend
  stage,             \* the stage to come
  qty,               \* the quantity so far, scaled
  constraints,       \* Recommendation.Constraints
  quantity,          \* Recommendation.RecommendedQuantity, in units
  inhibited          \* Recommendation.OrderingIsInhibited

vars == <<product, signal, stage, qty, constraints, quantity, inhibited>>

Larger(a, b) == IF a >= b THEN a ELSE b

\* math.Round of a scaled quantity that is not negative.
Round(x) == (2 * x + Scale) \div (2 * Scale)

\* The multiples of n next to x: math.Floor(x/n)*n and math.Ceil(x/n)*n.
DownTo(x, n) == (x \div n) * n
UpTo(x, n) == ((x + n - 1) \div n) * n

Cover == product.lead + product.review
ReorderPoint == signal.daily * product.lead + signal.safety
TargetLevel == signal.daily * Cover + signal.safety
Position == product.position * Scale
Need == Larger(0, TargetLevel - Position)

Case == product.case * Scale
Minimum == product.minimum * Scale
Perishable == product.shelf > 0
Sellable == signal.daily * product.shelf

\* Product.Validate.
Valid ==
  /\ product.lead >= 0 /\ product.review >= 1
  /\ product.case >= 0 /\ product.minimum >= 0 /\ product.shelf >= 0

Init ==
  /\ product \in Products
  /\ signal \in Signals
  /\ stage = "trigger"
  /\ qty = 0
  /\ constraints = <<>>
  /\ quantity = 0
  /\ inhibited = FALSE

\* Mutant: every limit that was looked at is listed with the raw quantity.
PassFromNeed(next, q, name) ==
  /\ qty' = q
  /\ constraints' = IF q = qty THEN constraints
                    ELSE Append(constraints, [name |-> name, from |-> Round(Need), to |-> Round(q)])
  /\ stage' = next
  /\ UNCHANGED <<product, signal, quantity, inhibited>>

\* One stage takes qty to q; a limit that changed it is added to the list.
Pass(next, q, name) ==
  /\ qty' = q
  /\ constraints' = IF q = qty THEN constraints
                    ELSE Append(constraints, [name |-> name, from |-> Round(qty), to |-> Round(q)])
  /\ stage' = next
  /\ UNCHANGED <<product, signal, quantity, inhibited>>

Reject ==
  /\ stage = "trigger" /\ ~Valid
  /\ stage' = "rejected"
  /\ UNCHANGED <<product, signal, qty, constraints, quantity, inhibited>>

\* Above the reorder point: hold.
Hold ==
  /\ stage = "trigger" /\ Valid
  /\ Position > ReorderPoint
  /\ inhibited' = TRUE
  /\ stage' = "done"
  /\ UNCHANGED <<product, signal, qty, constraints, quantity>>

Trigger ==
  /\ stage = "trigger" /\ Valid
  /\ Position <= ReorderPoint
  /\ qty' = Need
  /\ stage' = "shelfLife"
  /\ UNCHANGED <<product, signal, constraints, quantity, inhibited>>

ApplyShelfLife ==
  /\ stage = "shelfLife"
  /\ Pass("caseSize", IF Perishable /\ qty > Sellable THEN Sellable ELSE qty, "shelf_life")

\* Mutant: rounds down to a whole case.
CaseSizeDown ==
  /\ stage = "caseSize"
  /\ Pass("recheck", IF product.case > 1 /\ qty > 0 THEN DownTo(qty, Case) ELSE qty, "case_size")

\* Mutant: adds a case to a quantity that is whole cases already.
CaseSizeExtra ==
  /\ stage = "caseSize"
  /\ Pass("recheck", IF product.case > 1 /\ qty > 0 THEN DownTo(qty, Case) + Case ELSE qty,
          "case_size")

ApplyCaseSize ==
  /\ stage = "caseSize"
  /\ Pass("recheck", IF product.case > 1 /\ qty > 0 THEN UpTo(qty, Case) ELSE qty, "case_size")

\* Mutant: the ceiling is not looked at again.
NoRecheck ==
  /\ stage = "recheck"
  /\ Pass("minimum", qty, "shelf_life")

EnforceShelfLifeAfterRounding ==
  /\ stage = "recheck"
  /\ Pass("minimum",
          IF Perishable /\ product.case > 1 /\ qty > 0 /\ qty > Sellable
            THEN DownTo(Sellable, Case) ELSE qty,
          "shelf_life")

\* Mutant: the vendor minimum as it stands, not whole cases.
MinimumUnrounded ==
  /\ stage = "minimum"
  /\ Pass("round", IF qty > 0 /\ qty < Minimum THEN Minimum ELSE qty, "minimum_order_qty")

ApplyMinimumOrder ==
  /\ stage = "minimum"
  /\ Pass("round",
          IF qty > 0 /\ qty < Minimum
            THEN IF product.case > 1 THEN UpTo(Minimum, Case) ELSE Minimum
            ELSE qty,
          "minimum_order_qty")

Finish ==
  /\ stage = "round"
  /\ quantity' = Round(qty)
  /\ stage' = "done"
  /\ UNCHANGED <<product, signal, qty, constraints, inhibited>>

Stop == stage \in {"done", "rejected"} /\ UNCHANGED vars

Next ==
  \/ Reject \/ Hold \/ Trigger
  \/ ApplyShelfLife \/ ApplyCaseSize \/ EnforceShelfLifeAfterRounding \/ ApplyMinimumOrder
  \/ Finish \/ Stop

Spec == Init /\ [][Next]_vars

-------------------------------------------------------------------------------
(* Properties.                                                                *)

Names == {"shelf_life", "case_size", "minimum_order_qty"}
Stages == {"trigger", "shelfLife", "caseSize", "recheck", "minimum", "round", "done", "rejected"}

\* Every variable has its type; in particular no quantity is negative.
TypeOK ==
  /\ product \in Products
  /\ signal \in Signals
  /\ stage \in Stages
  /\ qty \in Nat
  /\ constraints \in Seq([name : Names, from : Nat, to : Nat])
  /\ quantity \in Nat
  /\ inhibited \in BOOLEAN

Answered == stage = "done" /\ ~inhibited
Applied == {constraints[i].name : i \in DOMAIN constraints}

\* reorder.go:72: "negative is impossible here": an order is computed only for a
\* position that is not above the target level.
NeverOverTarget == stage = "shelfLife" => Position <= TargetLevel

\* Whatever the limits did to it, the vendor ships the order: it is nothing, or
\* at least the vendor's minimum, in whole cases.
VendorAccepts ==
  Answered /\ quantity > 0 =>
    /\ quantity >= product.minimum
    /\ product.case > 1 => \E n \in 1..quantity : quantity = n * product.case

\* The list explains the number: it starts from the computed need, each limit
\* takes over where the one before it stopped, the last one gives the answer.
AuditTrail ==
  Answered =>
    LET n == Len(constraints) IN
      /\ quantity = IF n = 0 THEN Round(Need) ELSE constraints[n].to
      /\ n > 0 => constraints[1].from = Round(Need)
      /\ \A i \in 1..(n - 1) : constraints[i].to = constraints[i + 1].from

\* Unless shelf life says otherwise, the order fills the position up to the
\* target level, less half a unit of rounding.
CoversNeed ==
  Answered /\ "shelf_life" \notin Applied => 2 * quantity * Scale + Scale >= 2 * Need

\* The order is over the need by less than one case, or by half a unit where
\* there are no cases, unless the vendor's minimum lifted it; then it is less
\* than a case over the minimum.
NoExcess ==
  Answered =>
    \/ 2 * quantity * Scale <= 2 * Need + Scale
    \/ product.case > 1 /\ quantity * Scale < Need + Case
    \/ "minimum_order_qty" \in Applied
         /\ quantity < product.minimum + Larger(1, product.case)

\* What does not sell within its shelf life is not ordered, to half a unit where
\* there are no cases, unless the vendor's minimum lifted the order.
CeilingUnlessMinimum ==
  Answered /\ Perishable /\ "minimum_order_qty" \notin Applied =>
    IF product.case > 1 THEN quantity * Scale <= Sellable
    ELSE 2 * quantity * Scale <= 2 * Sellable + Scale

\* enforceShelfLifeAfterRounding: when not even one case sells in time, nothing
\* is ordered, and the vendor's minimum does not bring the order back.
NothingStaysNothing ==
  Answered /\ Perishable /\ product.case > 1 /\ Sellable < Case => quantity = 0

-------------------------------------------------------------------------------
(* The inductive invariant behind the safety properties.                      *)

Computing == stage \in {"shelfLife", "caseSize", "recheck", "minimum", "round"} \/ Answered

WholeCases == product.case > 1 => DownTo(qty, Case) = qty

OverByCase == qty <= Need \/ (product.case > 1 /\ qty < Need + Case)

\* The list starts at the need, is connected, and ends at the quantity so far.
ListShape ==
  Computing =>
    /\ constraints = <<>> => qty = Need
    /\ constraints # <<>> => /\ constraints[1].from = Round(Need)
                            /\ constraints[Len(constraints)].to = Round(qty)
    /\ \A i \in 1..(Len(constraints) - 1) : constraints[i].to = constraints[i + 1].from

\* The quantity so far is what the limits that have been looked at allow.
BeforeLimits == stage = "shelfLife" => qty = Need
AfterShelfLife ==
  stage = "caseSize" => qty <= Need /\ (Perishable => qty <= Sellable)
AfterCases ==
  stage = "recheck" =>
    WholeCases /\ OverByCase /\ (Perishable /\ product.case <= 1 => qty <= Sellable)
AfterRecheck ==
  stage = "minimum" => WholeCases /\ OverByCase /\ (Perishable => qty <= Sellable)
AfterMinimum ==
  stage = "round" \/ Answered =>
    /\ WholeCases
    /\ qty > 0 => qty >= Minimum
    /\ \/ OverByCase /\ (Perishable => qty <= Sellable)
       \/ /\ "minimum_order_qty" \in Applied
          /\ qty = Round(qty) * Scale
          /\ qty < Minimum + Larger(1, product.case) * Scale
    /\ Perishable /\ product.case > 1 /\ Sellable < Case => qty = 0

Inductive ==
  /\ TypeOK
  /\ stage = "trigger" => constraints = <<>>
  /\ stage \notin {"trigger", "rejected"} => Valid
  /\ NeverOverTarget
  /\ ListShape
  /\ BeforeLimits /\ AfterShelfLife /\ AfterCases /\ AfterRecheck /\ AfterMinimum
  /\ Computing /\ "shelf_life" \notin Applied => qty >= Need
  /\ Answered => quantity = Round(qty)

==============================================================================
