----------------------------- MODULE SalesLedger -----------------------------
(* What the store promises to whoever reads it: a product changes together    *)
(* with its stock position, a day's figure is replaced by one that was        *)
(* reported, and a seeded history appears whole.                              *)

EXTENDS Naturals

CONSTANTS
  Skus, Days,
  Posts,           \* the figures that points of sale report
  PostSku, PostDay,
  Editions,        \* the runs of the seed generator, as data sets
  Stocked,         \* the SKUs set up at the start, as edition 0, some
                   \* without a position
  None

VARIABLES
  product,         \* product[s]: the editions of its product and position rows
  sales            \* sales[s][d]: a post, an edition, or None

ledger == <<product, sales>>
Absent == <<None, None>>

Init ==
  /\ \E counted \in SUBSET Stocked :
       product = [s \in Skus |-> IF s \notin Stocked THEN Absent
                                 ELSE IF s \in counted THEN <<0, 0>> ELSE <<0, None>>]
  /\ sales = [s \in Skus |-> [d \in Days |-> None]]

SetUp(s, e) ==
  /\ product' = [product EXCEPT ![s] = <<e, e>>]
  /\ UNCHANGED sales

Report(q) ==
  /\ product[PostSku[q]] # Absent
  /\ sales' = [sales EXCEPT ![PostSku[q]][PostDay[q]] = q]
  /\ UNCHANGED product

Clear(s) ==
  /\ sales' = [sales EXCEPT ![s] = [d \in Days |-> None]]
  /\ UNCHANGED product

Load(s, e) ==
  /\ product[s] = <<e, e>>
  /\ sales' = [sales EXCEPT ![s] = [d \in Days |-> e]]
  /\ UNCHANGED product

Next ==
  \/ \E s \in Skus : Clear(s) \/ \E e \in Editions : SetUp(s, e) \/ Load(s, e)
  \/ \E q \in Posts : Report(q)

Spec == Init /\ [][Next]_ledger
==============================================================================
