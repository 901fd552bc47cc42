----------------------------- MODULE SalesService -----------------------------
(* internal/inventory/service.go over internal/storage/postgres.go, as used   *)
(* by the HTTP handlers (record a sale, recommend, recommend a batch) and,    *)
(* from a process of its own, by cmd/seed.                                    *)
(*                                                                            *)
(* Every statement of a request takes a connection of the service's pool,     *)
(* runs, and gives the connection back.  A request that times out in a        *)
(* statement leaves the statement to Postgres, which may still carry it out.  *)
EXTENDS Integers, FiniteSets, Sequences

CONSTANTS
  Skus, Days,
  Posts,           \* the figures that points of sale report
  PostSku, PostDay,
  Revises,         \* Revises[q]: the figures that q corrects
  Censored,        \* the figures reported with a stockout
  Copies,          \* 1..n: a post is sent at most n times
  Readers,         \* requests for recommendations
  Asked,           \* Asked[r]: the SKUs, <<s>> for the single form
  Batch,           \* the readers that use the batch form
  Stocked,         \* the SKUs that are set up already, counted or not
  Catalog,         \* the order in which the generator seeds
  Seedings,        \* the generator runs at most this often
  MaxConns,        \* DB_MAX_CONNS
  None

Editions == 0..Seedings

ASSUME ServiceAssumption ==
  /\ PostSku \in [Posts -> Skus] /\ PostDay \in [Posts -> Days]
  /\ Revises \in [Posts -> SUBSET Posts]
  /\ Censored \subseteq Posts
  /\ Copies \in Nat \ {0}
  /\ Asked \in [Readers -> Seq(Skus)]
  /\ Batch \subseteq Readers
  /\ \A r \in Readers \ Batch : Len(Asked[r]) = 1
  /\ Stocked \subseteq Skus
  /\ Catalog \in Seq(Skus) /\ Catalog # <<>>
  /\ Seedings \in Nat
  /\ MaxConns \in Nat \ {0}
  /\ None \notin Posts \cup Editions

VARIABLES
  productRow, positionRow,   \* committed rows, by the edition that wrote them
  sales,                     \* sales[s][d]: a post, an edition, or None
  copy,                      \* copy[q][c]: where the copy of the post is
  acked,                     \* the posts whose 200 the point of sale has seen
  reader,                    \* where the request is
  seenProduct, seenHistory,  \* what its two queries returned
  answer,                    \* its response, by SKU
  seed                       \* the generator: next step, edition, SKU, -reset

rows == <<productRow, positionRow, sales>>
posts == <<copy, acked>>
reads == <<reader, seenProduct, seenHistory, answer>>
vars == <<rows, posts, reads, seed>>

NoHistory == [d \in Days |-> None]
CopyIds == 1..Copies

\* A product that was set up may not have been counted or received yet: it has
\* no position, which the queries read as an empty shelf.
Init ==
  /\ productRow = [s \in Skus |-> IF s \in Stocked THEN 0 ELSE None]
  /\ \E counted \in SUBSET Stocked :
       positionRow = [s \in Skus |-> IF s \in counted THEN 0 ELSE None]
  /\ sales = [s \in Skus |-> NoHistory]
  /\ copy = [q \in Posts |-> [c \in CopyIds |-> "unsent"]]
  /\ acked = {}
  /\ reader = [r \in Readers |-> "idle"]
  /\ seenProduct = [r \in Readers |-> [s \in Skus |-> <<None, None>>]]
  /\ seenHistory = [r \in Readers |-> [s \in Skus |-> NoHistory]]
  /\ answer = [r \in Readers |-> <<>>]
  /\ seed = [step |-> "stopped", edition |-> 0, at |-> 1, reset |-> FALSE]

\* Mutant: a request keeps its connection from its first query to its last.
InUseThroughout ==
  Cardinality({p \in Posts \X CopyIds : copy[p[1]][p[2]] \in {"checking", "writeWait", "writing"}})
  + Cardinality({r \in Readers : reader[r] \in {"productQuery", "historyWait", "historyQuery"}})

\* The connections that are out: each method of Store takes one for its query.
InUse ==
  Cardinality({p \in Posts \X CopyIds : copy[p[1]][p[2]] \in {"checking", "writing"}})
  + Cardinality({r \in Readers : reader[r] \in {"productQuery", "historyQuery"}})

-------------------------------------------------------------------------------
(* POST /products/{sku}/sales: RecordSale and the retries of its callers.     *)

MoveCopy(q, c, from, to) ==
  /\ copy[q][c] = from
  /\ copy' = [copy EXCEPT ![q][c] = to]

\* The first time, or again as long as there is no answer.
SendPost(q, c) ==
  /\ q \notin acked
  /\ c > 1 => copy[q][c - 1] # "unsent"
  /\ \A p \in Revises[q] : copy[p][1] # "unsent"
  /\ MoveCopy(q, c, "unsent", "checkWait")
  /\ UNCHANGED <<rows, acked, reads, seed>>

AcquireForPost(q, c) ==
  /\ InUse < MaxConns
  /\ MoveCopy(q, c, "checkWait", "checking") \/ MoveCopy(q, c, "writeWait", "writing")
  /\ UNCHANGED <<rows, acked, reads, seed>>

\* GetProduct: 404, or on to the write.
CheckProduct(q, c) ==
  /\ MoveCopy(q, c, "checking",
              IF productRow[PostSku[q]] = None THEN "notFound" ELSE "writeWait")
  /\ UNCHANGED <<rows, acked, reads, seed>>

\* INSERT ... ON CONFLICT (sku, sales_date) DO UPDATE.
Upsert(q) == sales' = [sales EXCEPT ![PostSku[q]][PostDay[q]] = q]

\* RecordSalesDay.
WriteSale(q, c) ==
  /\ MoveCopy(q, c, "writing", "ok")
  /\ Upsert(q)
  /\ UNCHANGED <<productRow, positionRow, acked, reads, seed>>

\* Mutant: the error of a write that timed out is dropped.
TimeoutPostSilent(q, c) ==
  /\ \/ \E from \in {"checkWait", "checking", "writeWait"} : MoveCopy(q, c, from, "failed")
     \/ MoveCopy(q, c, "writing", "ok")
  /\ UNCHANGED <<rows, acked, reads, seed>>

\* The request's deadline.  The statement it was in may be on its way.
TimeoutPost(q, c) ==
  /\ \/ \E from \in {"checkWait", "checking", "writeWait"} : MoveCopy(q, c, from, "failed")
     \/ MoveCopy(q, c, "writing", "late")
  /\ UNCHANGED <<rows, acked, reads, seed>>

LateWrite(q, c) ==
  /\ MoveCopy(q, c, "late", "failed")
  /\ Upsert(q) \/ UNCHANGED sales
  /\ UNCHANGED <<productRow, positionRow, acked, reads, seed>>

\* The 200 arrives, or is lost on the way.
ReplyPost(q, c) ==
  /\ MoveCopy(q, c, "ok", "closed")
  /\ acked' = acked \cup {q} \/ UNCHANGED acked
  /\ UNCHANGED <<rows, reads, seed>>

-------------------------------------------------------------------------------
(* GET /products/{sku}/recommendation and POST /recommendations/batch.        *)

MoveReader(r, from, to) ==
  /\ reader[r] = from
  /\ reader' = [reader EXCEPT ![r] = to]

AskedSkus(r) == {Asked[r][i] : i \in DOMAIN Asked[r]}

StartRead(r) ==
  /\ MoveReader(r, "idle", "productWait")
  /\ UNCHANGED <<rows, posts, seenProduct, seenHistory, answer, seed>>

AcquireForRead(r) ==
  /\ InUse < MaxConns
  /\ MoveReader(r, "productWait", "productQuery") \/ MoveReader(r, "historyWait", "historyQuery")
  /\ UNCHANGED <<rows, posts, seenProduct, seenHistory, answer, seed>>

\* GetProduct or GetProducts.  The single form stops at a product that is not
\* there; the batch form leaves it out.
QueryProducts(r) ==
  /\ LET missing == r \notin Batch /\ \E s \in AskedSkus(r) : productRow[s] = None IN
       /\ MoveReader(r, "productQuery", IF missing THEN "done" ELSE "historyWait")
       /\ answer' = IF missing
                      THEN [answer EXCEPT ![r] = <<[sku |-> Asked[r][1], what |-> "notFound"]>>]
                      ELSE answer
  /\ seenProduct' = [seenProduct EXCEPT ![r] =
       [s \in Skus |-> IF s \in AskedSkus(r) THEN <<productRow[s], positionRow[s]>>
                       ELSE <<None, None>>]]
  /\ UNCHANGED <<rows, posts, seenHistory, seed>>

\* GetSalesHistory or GetSalesHistories, and recommendFrom for each SKU: an
\* error, or a recommendation.  In a batch an error is one SKU's own.
Outcome(s, there, history) ==
  LET days == {d \in Days : history[d] # None} IN
    CASE ~there -> "notFound"
      [] there /\ days = {} -> "noHistory"
      [] there /\ days # {} /\ Cardinality({d \in days : history[d] \notin Censored}) < 2
           -> "insufficient"
      [] OTHER -> "recommended"

\* A repeated SKU is asked for once, where it first stood.
Distinct(list) ==
  LET kept[n \in 0..Len(list)] ==
        IF n = 0 THEN <<>>
        ELSE IF \E i \in DOMAIN kept[n - 1] : kept[n - 1][i] = list[n] THEN kept[n - 1]
        ELSE Append(kept[n - 1], list[n])
  IN kept[Len(list)]

\* Mutant: the batch form leaves out the SKUs it knows nothing of.
QueryHistoriesFound(r) ==
  /\ MoveReader(r, "historyQuery", "done")
  /\ seenHistory' = [seenHistory EXCEPT ![r] =
       [s \in Skus |-> IF s \in AskedSkus(r) THEN sales[s] ELSE NoHistory]]
  /\ LET list == SelectSeq(Distinct(Asked[r]), LAMBDA s : seenProduct[r][s][1] # None) IN
       answer' = [answer EXCEPT ![r] =
         [i \in DOMAIN list |->
            [sku |-> list[i], what |-> Outcome(list[i], TRUE, sales[list[i]])]]]
  /\ UNCHANGED <<rows, posts, seenProduct, seed>>

QueryHistories(r) ==
  /\ MoveReader(r, "historyQuery", "done")
  /\ seenHistory' = [seenHistory EXCEPT ![r] =
       [s \in Skus |-> IF s \in AskedSkus(r) THEN sales[s] ELSE NoHistory]]
  /\ LET list == Distinct(Asked[r]) IN
       answer' = [answer EXCEPT ![r] =
         [i \in DOMAIN list |->
            [sku |-> list[i],
             what |-> Outcome(list[i], seenProduct[r][list[i]][1] # None, sales[list[i]])]]]
  /\ UNCHANGED <<rows, posts, seenProduct, seed>>

TimeoutRead(r) ==
  /\ \E from \in {"productWait", "productQuery", "historyWait", "historyQuery"} :
       MoveReader(r, from, "done")
  /\ answer' = [answer EXCEPT ![r] = <<>>]
  /\ UNCHANGED <<rows, posts, seenProduct, seenHistory, seed>>

-------------------------------------------------------------------------------
(* cmd/seed: for each SKU of the catalog UpsertProduct, a transaction of two  *)
(* statements; DeleteSalesHistory with -reset; RecordSalesDays, a pipelined   *)
(* batch that Postgres runs as one transaction.                               *)

Seeding(step) == seed.step = step
SeedGoes(step) == seed' = [seed EXCEPT !.step = step]

StartSeed ==
  /\ Seeding("stopped") /\ seed.edition < Seedings
  /\ \E r \in BOOLEAN :
       seed' = [step |-> "product", edition |-> seed.edition + 1, at |-> 1, reset |-> r]
  /\ UNCHANGED <<rows, posts, reads>>

\* Mutant: a statement of its own, not of a transaction.
SeedProductAlone ==
  /\ Seeding("product")
  /\ productRow' = [productRow EXCEPT ![Catalog[seed.at]] = seed.edition]
  /\ SeedGoes("position")
  /\ UNCHANGED <<positionRow, sales, posts, reads>>

\* INSERT INTO products, uncommitted.
SeedProduct ==
  /\ Seeding("product")
  /\ SeedGoes("position")
  /\ UNCHANGED <<rows, posts, reads>>

\* INSERT INTO stock_positions and COMMIT.
SeedPosition ==
  /\ Seeding("position")
  /\ productRow' = [productRow EXCEPT ![Catalog[seed.at]] = seed.edition]
  /\ positionRow' = [positionRow EXCEPT ![Catalog[seed.at]] = seed.edition]
  /\ SeedGoes(IF seed.reset THEN "delete" ELSE "load")
  /\ UNCHANGED <<sales, posts, reads>>

SeedDelete ==
  /\ Seeding("delete")
  /\ sales' = [sales EXCEPT ![Catalog[seed.at]] = NoHistory]
  /\ SeedGoes("load")
  /\ UNCHANGED <<productRow, positionRow, posts, reads>>

\* Mutant: RecordSalesDay for one day after the other.
SeedLoadByDay ==
  /\ Seeding("load")
  /\ \E d \in Days : sales' = [sales EXCEPT ![Catalog[seed.at]][d] = seed.edition]
  /\ LET all == \A d \in Days : sales'[Catalog[seed.at]][d] = seed.edition IN
       seed' = IF all THEN [seed EXCEPT !.step = "stopped"] ELSE seed
  /\ UNCHANGED <<productRow, positionRow, posts, reads>>

SeedLoad ==
  /\ Seeding("load")
  /\ sales' = [sales EXCEPT ![Catalog[seed.at]] = [d \in Days |-> seed.edition]]
  /\ seed' = [seed EXCEPT !.step = IF seed.at < Len(Catalog) THEN "product" ELSE "stopped",
                          !.at = IF seed.at < Len(Catalog) THEN @ + 1 ELSE 1]
  /\ UNCHANGED <<productRow, positionRow, posts, reads>>

\* An error, a timeout or a signal ends the process; the transaction is undone.
SeedFails ==
  /\ ~Seeding("stopped")
  /\ SeedGoes("stopped")
  /\ UNCHANGED <<rows, posts, reads>>

-------------------------------------------------------------------------------
PostStep(q, c) ==
  AcquireForPost(q, c) \/ CheckProduct(q, c) \/ WriteSale(q, c) \/ ReplyPost(q, c)

ReadStep(r) == AcquireForRead(r) \/ QueryProducts(r) \/ QueryHistories(r)

Seed == StartSeed \/ SeedProduct \/ SeedPosition \/ SeedDelete \/ SeedLoad \/ SeedFails

\* Nothing more need arrive.
Quiet ==
  /\ \A q \in Posts, c \in CopyIds : copy[q][c] \in {"unsent", "notFound", "failed", "closed"}
  /\ \A r \in Readers : reader[r] \in {"idle", "done"}
  /\ UNCHANGED vars

Next ==
  \/ \E q \in Posts, c \in CopyIds :
       SendPost(q, c) \/ PostStep(q, c) \/ TimeoutPost(q, c) \/ LateWrite(q, c)
  \/ \E r \in Readers : StartRead(r) \/ ReadStep(r) \/ TimeoutRead(r)
  \/ Seed
  \/ Quiet

Spec == Init /\ [][Next]_vars

(* Postgres answers, and the pool hands a free connection to a waiter.        *)
Fairness ==
  /\ \A q \in Posts, c \in CopyIds : WF_vars(PostStep(q, c))
  /\ \A r \in Readers : WF_vars(ReadStep(r))

FairSpec == Spec /\ Fairness

-------------------------------------------------------------------------------
(* Properties.                                                                *)

CopyStates == {"unsent", "checkWait", "checking", "writeWait", "writing", "late",
               "notFound", "failed", "ok", "closed"}
ReaderStates == {"idle", "productWait", "productQuery", "historyWait", "historyQuery", "done"}
Figures == Posts \cup Editions \cup {None}

\* Every variable has its type; what an answer holds is said by OneAnswerPerSku.
TypeOK ==
  /\ productRow \in [Skus -> Editions \cup {None}]
  /\ positionRow \in [Skus -> Editions \cup {None}]
  /\ sales \in [Skus -> [Days -> Figures]]
  /\ copy \in [Posts -> [CopyIds -> CopyStates]]
  /\ acked \subseteq Posts
  /\ reader \in [Readers -> ReaderStates]
  /\ seenProduct \in [Readers -> [Skus -> (Editions \cup {None}) \X (Editions \cup {None})]]
  /\ seenHistory \in [Readers -> [Skus -> [Days -> Figures]]]
  /\ seed \in [step : {"stopped", "product", "position", "delete", "load"},
               edition : Editions, at : 1..Len(Catalog), reset : BOOLEAN]

\* postgres.go:361, 285 and 309: to whoever reads, products change with their
\* positions, seeded histories come whole, and a day holds one reported figure.
Ledger == INSTANCE SalesLedger WITH
  product <- [s \in Skus |-> <<productRow[s], positionRow[s]>>]
ImplementsLedger == Ledger!Spec

\* Rows of one edition; or of a product that no edition wrote and nobody counted.
Whole(product, position) == product = position \/ (product = 0 /\ position = None)

\* postgres.go:361 and 57: no request is answered from a product of one edition
\* with the position of another, from a position without its product, or from a
\* product that the generator wrote without its position.  Only a product set up
\* by hand may be read without one, and has an empty shelf.
NoTornProduct ==
  \A r \in Readers, s \in Skus : Whole(seenProduct[r][s][1], seenProduct[r][s][2])

Stored(q) ==
  \/ sales[PostSku[q]][PostDay[q]] = q
  \/ seed.edition > 0
  \/ \E p \in Posts \ {q} : /\ PostSku[p] = PostSku[q] /\ PostDay[p] = PostDay[q]
                          /\ copy[p][1] # "unsent"

\* postgres.go:285: however often a figure was sent, timed out, or written after
\* its request had gone, once it is acknowledged it is stored, unless another
\* figure was sent for that day or the generator ran.
AckedMeansStored == \A q \in acked : Stored(q)

AskedBefore(r, s, t) ==
  \E i \in DOMAIN Asked[r] : Asked[r][i] = s /\ \A j \in 1..i : Asked[r][j] # t

\* handleBatch and RecommendBatch: an answered request has exactly one answer for
\* each SKU asked for, in the order asked, whatever happened to the others.
OneAnswerPerSku ==
  \A r \in Readers : answer[r] # <<>> =>
    /\ {answer[r][i].sku : i \in DOMAIN answer[r]} = AskedSkus(r)
    /\ \A i, j \in DOMAIN answer[r] : i < j => AskedBefore(r, answer[r][i].sku, answer[r][j].sku)

\* The pool: a request never waits for a connection for ever, because none holds
\* one while it waits for another; no timeout is needed for this.
NoRequestStarves ==
  /\ \A q \in Posts, c \in CopyIds :
       copy[q][c] = "checkWait" ~> copy[q][c] \in {"notFound", "failed", "closed", "late"}
  /\ \A r \in Readers : reader[r] = "productWait" ~> reader[r] = "done"

-------------------------------------------------------------------------------
(* The inductive invariant behind the promises of the ledger.                 *)

\* The generator writes both rows of a product together, and none is taken away.
RowsTogether == \A s \in Skus : Whole(productRow[s], positionRow[s])

\* A post that got past the check is of a product that is there; what was
\* written stays, and a second copy goes out after the first.
PostShape(q, c) ==
  /\ copy[q][c] \in {"writeWait", "writing", "late", "ok", "closed"} => productRow[PostSku[q]] # None
  /\ copy[q][c] \in {"ok", "closed"} => Stored(q)
  /\ copy[q][c] # "unsent" => copy[q][1] # "unsent"

\* The generator writes histories of the edition that the product has.
SeedShape ==
  /\ seed.step # "stopped" => seed.edition > 0
  /\ seed.step \in {"delete", "load"} => productRow[Catalog[seed.at]] = seed.edition

Inductive ==
  /\ TypeOK
  /\ RowsTogether
  /\ \A q \in Posts, c \in CopyIds : PostShape(q, c)
  /\ SeedShape
  /\ AckedMeansStored
  /\ NoTornProduct

-------------------------------------------------------------------------------
(* What comments say and the code does not do.                                *)

\* service.go:49: "a late-arriving corrected figure is normal and should win":
\* when nothing is under way any more, an acknowledged correction is not
\* replaced by what it corrected.
CorrectionWins ==
  \A q \in acked :
    (\A p \in Revises[q] : \A c \in CopyIds :
       copy[p][c] \in {"unsent", "notFound", "failed", "closed"})
    => sales[PostSku[q]][PostDay[q]] \notin Revises[q]
==============================================================================
