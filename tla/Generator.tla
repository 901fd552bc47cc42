------------------------------- MODULE Generator -------------------------------
(* The store that cmd/seed simulates for one product: generate of             *)
(* cmd/seed/generate.go over an entry of the catalogue.  A day is a delivery, *)
(* a day's sales and, every third day, an order.                              *)
EXTENDS Integers, FiniteSets, Functions

CONSTANTS
  Catalog,        \* the entries
  Demands,        \* what customers may want on a day
  Days,           \* the -days flag
  ReplenishEvery

\* base is BaseDemand in hundredths of a unit; a final position below zero and a
\* gap, a history of no days stand for none.
SeedSku ==
  [lead : Nat, case : Nat, base : Nat, gapStart : Nat, gapDays : Nat, history : Nat,
   finalOnHand : Int, finalOnOrder : Nat]

\* Every entry of catalog.go has a lead time of a day or more; generate would book
\* a delivery without one on a morning that has passed.
ASSUME GeneratorAssumption ==
  /\ Catalog \subseteq SeedSku
  /\ \A s \in Catalog : s.lead >= 1
  /\ Demands \subseteq Nat
  /\ Days \in Nat \ {0} /\ ReplenishEvery \in Nat \ {0}

VARIABLES
  sku,          \* the entry
  day,          \* the index of the day
  stage,        \* "deliver", "sell", "reorder", "close" or "closed"
  onHand,
  incoming,     \* units on their way, by the day they land on
  row,          \* the day's SalesDay
  demandTotal,  \* TrueDemandTotal
  soldTotal,    \* SoldTotal
  censoredDays, \* CensoredDays
  product,      \* the closing position
  ordered       \* the units ever ordered; a history variable

totals == <<demandTotal, soldTotal, censoredDays>>
vars == <<sku, day, stage, onHand, incoming, row, totals, product, ordered>>

Larger(a, b) == IF a < b THEN b ELSE a
CeilDiv(a, b) == (a + b - 1) \div b

HistoryDays(s) == IF s.history > 0 /\ s.history < Days THEN s.history ELSE Days

\* 1.4 times the demand of lead time and two days, a case at least.
Opening(s) == Larger(CeilDiv(s.base * (s.lead + 2) * 14, 1000), s.case)

\* 1.15 times the demand of lead time and the days to the next order, rounded up.
Target(s) == CeilDiv(s.base * (s.lead + ReplenishEvery) * 115, 10000)

WholeCases(s, n) == IF s.case > 1 THEN CeilDiv(n, s.case) * s.case ELSE n

\* Mutant: the gap takes a day longer than deliveries are put off.
InSupplyGapLonger(s, d) == s.gapDays # 0 /\ d \in s.gapStart .. s.gapStart + s.gapDays

InSupplyGap(s, d) == s.gapDays # 0 /\ d \in s.gapStart .. s.gapStart + s.gapDays - 1

\* Mutant: a delivery put off replaces what is due that day.
BookInstead(deliveries, due, units) ==
  [d \in DOMAIN deliveries \cup {due} |-> IF d = due THEN units ELSE deliveries[d]]

\* incoming[due] += units.
Book(deliveries, due, units) ==
  [d \in DOMAIN deliveries \cup {due} |->
     IF d # due THEN deliveries[d]
     ELSE units + IF due \in DOMAIN deliveries THEN deliveries[due] ELSE 0]

\* pendingTotal.
PendingTotal == SumFunction(incoming)

Init ==
  /\ sku \in Catalog
  /\ day = 0 /\ stage = "deliver"
  /\ onHand = Opening(sku)
  /\ incoming = [d \in {} |-> 0]
  /\ row = [sold |-> 0, censored |-> FALSE]
  /\ demandTotal = 0 /\ soldTotal = 0 /\ censoredDays = 0
  /\ product = [onHand |-> 0, onOrder |-> 0]
  /\ ordered = 0

\* What is due arrives, or waits for the end of the supply gap.
Deliver ==
  /\ stage = "deliver"
  /\ stage' = "sell"
  /\ IF day \in DOMAIN incoming
       THEN LET rest == [d \in DOMAIN incoming \ {day} |-> incoming[d]] IN
            IF InSupplyGap(sku, day)
              THEN /\ incoming' = Book(rest, sku.gapStart + sku.gapDays, incoming[day])
                   /\ UNCHANGED onHand
              ELSE onHand' = onHand + incoming[day] /\ incoming' = rest
       ELSE UNCHANGED <<incoming, onHand>>
  /\ UNCHANGED <<sku, day, row, totals, product, ordered>>

\* Mutant: a day that began with an empty shelf is not marked.
SellMarkingPartial ==
  /\ stage = "sell"
  /\ stage' = "reorder"
  /\ \E wanted \in Demands :
       LET sold == IF wanted > onHand THEN onHand ELSE wanted
           censored == wanted > onHand /\ onHand > 0 IN
       /\ row' = [sold |-> sold, censored |-> censored]
       /\ onHand' = onHand - sold
       /\ demandTotal' = demandTotal + wanted
       /\ soldTotal' = soldTotal + sold
       /\ censoredDays' = censoredDays + IF censored THEN 1 ELSE 0
  /\ UNCHANGED <<sku, day, incoming, product, ordered>>

\* Mutant: what the shelf does not hold is owed.
SellBackordered ==
  /\ stage = "sell"
  /\ stage' = "reorder"
  /\ \E wanted \in Demands :
       /\ row' = [sold |-> wanted, censored |-> wanted > onHand]
       /\ onHand' = onHand - wanted
       /\ demandTotal' = demandTotal + wanted
       /\ soldTotal' = soldTotal + wanted
       /\ censoredDays' = censoredDays + IF wanted > onHand THEN 1 ELSE 0
  /\ UNCHANGED <<sku, day, incoming, product, ordered>>

\* Noise has no ceiling: whatever demandFor draws, stock truncates it.
Sell ==
  /\ stage = "sell"
  /\ stage' = "reorder"
  /\ \E wanted \in Demands :
       LET sold == IF wanted > onHand THEN onHand ELSE wanted
           censored == wanted > onHand IN
       /\ row' = [sold |-> sold, censored |-> censored]
       /\ onHand' = onHand - sold
       /\ demandTotal' = demandTotal + wanted
       /\ soldTotal' = soldTotal + sold
       /\ censoredDays' = censoredDays + IF censored THEN 1 ELSE 0
  /\ UNCHANGED <<sku, day, incoming, product, ordered>>

\* Mutant: what is on its way is ordered again.
NeedFromShelf == Target(sku) - onHand

\* Up to the target, counting what is on its way.
Need == Target(sku) - (onHand + PendingTotal)

\* Every third day outside the gap; then the next day begins, or the books close.
Reorder ==
  /\ stage = "reorder"
  /\ IF ~InSupplyGap(sku, day) /\ day % ReplenishEvery = 0 /\ Need > 0
       THEN LET units == WholeCases(sku, Need) IN
            incoming' = Book(incoming, day + sku.lead, units) /\ ordered' = ordered + units
       ELSE UNCHANGED <<incoming, ordered>>
  /\ day' = day + 1
  /\ stage' = IF day + 1 < HistoryDays(sku) THEN "deliver" ELSE "close"
  /\ UNCHANGED <<sku, onHand, row, totals, product>>

\* The closing position, unless the catalogue pins it.
Close ==
  /\ stage = "close"
  /\ product' =
       [onHand  |-> IF sku.finalOnHand >= 0 THEN sku.finalOnHand ELSE onHand,
        onOrder |-> IF sku.finalOnOrder = 0 /\ sku.finalOnHand < 0
                      THEN PendingTotal ELSE sku.finalOnOrder]
  /\ stage' = "closed"
  /\ UNCHANGED <<sku, day, onHand, incoming, row, totals, ordered>>

Closed == stage = "closed" /\ UNCHANGED vars

Next == Deliver \/ Sell \/ Reorder \/ Close \/ Closed

Spec == Init /\ [][Next]_vars

-------------------------------------------------------------------------------
(* Properties.                                                                *)

\* Every variable has its type.
TypeOK ==
  /\ sku \in Catalog /\ day \in 0..Days
  /\ stage \in {"deliver", "sell", "reorder", "close", "closed"}
  /\ onHand \in Nat
  /\ DOMAIN incoming \subseteq Nat /\ incoming \in [DOMAIN incoming -> Nat]
  /\ row \in [sold : Nat, censored : BOOLEAN]
  /\ demandTotal \in Nat /\ soldTotal \in Nat /\ censoredDays \in Nat
  /\ product \in [onHand : Nat, onOrder : Nat]
  /\ ordered \in Nat

\* generate.go:24: stock is simulated and not made up: what was there at first and
\* what was ordered is sold, on the shelf or on its way, through gaps that put
\* several deliveries together; and that is the position the product gets.
BooksBalance ==
  /\ Opening(sku) + ordered = soldTotal + onHand + PendingTotal
  /\ stage = "closed" /\ sku.finalOnHand < 0 /\ sku.finalOnOrder = 0 =>
       Opening(sku) + ordered = soldTotal + product.onHand + product.onOrder

\* generate.go:71: a delivery is only looked for on the day it lands on, so what is
\* on its way lands on a day to come.
PendingIsDue ==
  \A d \in DOMAIN incoming : IF stage = "sell" \/ stage = "reorder" THEN d > day ELSE d >= day

\* The day of this step: its row is marked exactly when customers wanted more than
\* it says was sold, which leaves the shelf empty; and the totals agree with it.
MarkedAsItWas ==
  /\ row'.censored <=> demandTotal' - demandTotal > row'.sold
  /\ row'.censored => onHand' = 0
  /\ soldTotal' - soldTotal = row'.sold
  /\ censoredDays' - censoredDays = IF row'.censored THEN 1 ELSE 0

\* generate.go:96: "censored whenever stock truncated demand - including when the
\* shelf was empty at opening": so it is for the row of each day, and nothing but a
\* day of sales adds a row or to the totals.
StockoutsAreMarked ==
  [][IF stage = "sell" THEN MarkedAsItWas ELSE UNCHANGED <<row, totals>>]_vars

\* generate.go:130: the buyer never holds and awaits more than the opening stock,
\* or the target and a case short of a unit.
NeverOverstocked ==
  onHand + PendingTotal <= Larger(Opening(sku), Target(sku) + Larger(sku.case, 1) - 1)
===============================================================================
