----------------------------- MODULE SalesProofs -----------------------------
(* What SalesService promises to readers and to points of sale, for any SKUs, *)
(* days, posts, retries, requests, catalogs and sizes of the pool.            *)
EXTENDS SalesService, WellFoundedInduction, TLAPS

(* The steps of a request for recommendations.                                *)
Reading(r) == StartRead(r) \/ ReadStep(r) \/ TimeoutRead(r)

(* They leave the tables, the posts and the generator alone, and note rows    *)
(* that belong together.                                                      *)
LEMMA ReadingStep ==
  ASSUME Inductive, NEW r \in Readers, Reading(r)
  PROVE  /\ UNCHANGED <<rows, posts, seed>>
         /\ reader' \in [Readers -> ReaderStates]
         /\ seenProduct' \in [Readers -> [Skus -> (Editions \cup {None}) \X (Editions \cup {None})]]
         /\ seenHistory' \in [Readers -> [Skus -> [Days -> Figures]]]
         /\ NoTornProduct'
<1> USE DEF Inductive, TypeOK
<1>1. CASE StartRead(r)
  BY <1>1 DEF StartRead, MoveReader, ReaderStates, NoTornProduct
<1>a. CASE AcquireForRead(r)
  BY <1>a DEF AcquireForRead, MoveReader, ReaderStates, NoTornProduct
<1>t. CASE TimeoutRead(r)
  BY <1>t DEF TimeoutRead, MoveReader, ReaderStates, NoTornProduct
<1>2. CASE QueryProducts(r)
  <2> DEFINE seen == [s \in Skus |-> IF s \in AskedSkus(r) THEN <<productRow[s], positionRow[s]>>
                                     ELSE <<None, None>>]
  <2>1. /\ seenProduct' = [seenProduct EXCEPT ![r] = seen]
        /\ UNCHANGED <<rows, posts, seenHistory, seed>>
    BY <1>2 DEF QueryProducts
  <2>2. reader' \in [Readers -> ReaderStates]
    BY <1>2 DEF QueryProducts, MoveReader, ReaderStates
  <2>3. /\ seen \in [Skus -> (Editions \cup {None}) \X (Editions \cup {None})]
        /\ \A s \in Skus : Whole(seen[s][1], seen[s][2])
    BY DEF RowsTogether, Whole
  <2> HIDE DEF seen
  <2> QED
    BY <2>1, <2>2, <2>3 DEF NoTornProduct
<1>3. CASE QueryHistories(r)
  <2> DEFINE seen == [s \in Skus |-> IF s \in AskedSkus(r) THEN sales[s] ELSE NoHistory]
  <2>1. /\ seenHistory' = [seenHistory EXCEPT ![r] = seen]
        /\ UNCHANGED <<rows, posts, seenProduct, seed>>
    BY <1>3 DEF QueryHistories
  <2>2. reader' \in [Readers -> ReaderStates]
    BY <1>3 DEF QueryHistories, MoveReader, ReaderStates
  <2>3. seen \in [Skus -> [Days -> Figures]]
    BY DEF NoHistory, Figures
  <2> HIDE DEF seen
  <2> QED
    BY <2>1, <2>2, <2>3 DEF NoTornProduct
<1> QED
  BY <1>1, <1>2, <1>3, <1>a, <1>t DEF Reading, ReadStep

(* The steps of a post.                                                       *)
Posting(q, c) == SendPost(q, c) \/ PostStep(q, c) \/ TimeoutPost(q, c) \/ LateWrite(q, c)

(* A post moves one copy, leaves the rest alone and writes only its figure.   *)
LEMMA PostingStep ==
  ASSUME Inductive, NEW q \in Posts, NEW c \in CopyIds, Posting(q, c)
  PROVE  /\ UNCHANGED <<productRow, positionRow, reads, seed>>
         /\ copy' = [copy EXCEPT ![q][c] = copy'[q][c]]
         /\ copy'[q][c] \in CopyStates \ {"unsent"}
         /\ acked' \in {acked, acked \cup {q}}
         /\ acked' # acked => copy'[q][c] = "closed"
         /\ copy'[q][c] \in {"writeWait", "writing", "late", "ok", "closed"} =>
              productRow[PostSku[q]] # None
         /\ copy'[q][c] = "closed" => copy[q][c] = "ok"
         /\ \/ UNCHANGED sales /\ copy'[q][c] # "ok"
            \/ Upsert(q) /\ copy[q][c] \in {"writing", "late"}
         /\ copy[q][c] = "unsent" => c = 1 \/ copy[q][c - 1] # "unsent"
<1> USE DEF Inductive, TypeOK, MoveCopy, CopyStates, PostShape, reads, posts, rows, reads
<1>1. CASE SendPost(q, c)
  <2>1. copy[q] \in [CopyIds -> CopyStates] /\ copy[q][c] = "unsent"
    BY <1>1 DEF SendPost
  <2>2. copy' = [copy EXCEPT ![q][c] = "checkWait"]
    BY <1>1 DEF SendPost
  <2>3. copy'[q][c] = "checkWait"
    BY <2>1, <2>2
  <2>4. c = 1 \/ c > 1
    BY ServiceAssumption DEF CopyIds
  <2>5. c = 1 \/ copy[q][c - 1] # "unsent"
    BY <1>1, <2>4 DEF SendPost
  <2>6. UNCHANGED <<rows, acked, reads, seed>>
    BY <1>1 DEF SendPost
  <2> QED
    BY <2>2, <2>3, <2>5, <2>6
<1>2. CASE AcquireForPost(q, c)
  BY <1>2 DEF AcquireForPost
<1>3. CASE CheckProduct(q, c)
  BY <1>3 DEF CheckProduct
<1>4. CASE WriteSale(q, c)
  BY <1>4 DEF WriteSale
<1>5. CASE TimeoutPost(q, c)
  BY <1>5 DEF TimeoutPost
<1>6. CASE LateWrite(q, c)
  BY <1>6 DEF LateWrite
<1>7. CASE ReplyPost(q, c)
  BY <1>7 DEF ReplyPost
<1> QED
  BY <1>1, <1>2, <1>3, <1>4, <1>5, <1>6, <1>7 DEF Posting, PostStep

(* No copy of a post becomes unsent, and a figure once stored stays stored or *)
(* gives way to another one of its day, which was sent.                       *)
LEMMA PostingKeeps ==
  ASSUME Inductive, NEW q \in Posts, NEW c \in CopyIds, Posting(q, c)
  PROVE  /\ copy' \in [Posts -> [CopyIds -> CopyStates]]
         /\ \A p \in Posts, d \in CopyIds : p # q \/ d # c => copy'[p][d] = copy[p][d]
         /\ \A p \in Posts : copy[p][1] # "unsent" => copy'[p][1] # "unsent"
         /\ \A p \in Posts : Stored(p) => Stored(p)'
<1> USE DEF Inductive, TypeOK
<1>1. /\ copy' = [copy EXCEPT ![q][c] = copy'[q][c]]
      /\ copy'[q][c] \in CopyStates \ {"unsent"}
  BY PostingStep
<1>2. 1 \in CopyIds
  BY ServiceAssumption DEF CopyIds
<1>3. copy' \in [Posts -> [CopyIds -> CopyStates]]
  <2>1. PICK to \in CopyStates : copy' = [copy EXCEPT ![q][c] = to]
    BY <1>1
  <2>2. [copy[q] EXCEPT ![c] = to] \in [CopyIds -> CopyStates]
    OBVIOUS
  <2> QED
    BY <2>1, <2>2
<1>4. \A p \in Posts, d \in CopyIds : p # q \/ d # c => copy'[p][d] = copy[p][d]
  BY <1>1
<1>5. \A p \in Posts : copy[p][1] # "unsent" => copy'[p][1] # "unsent"
  BY <1>1, <1>2, <1>4
<1>6. ASSUME NEW p \in Posts, Stored(p)
      PROVE  Stored(p)'
  <2>1. seed' = seed
    BY PostingStep
  <2>2. CASE UNCHANGED sales
    BY <1>5, <1>6, <2>1, <2>2 DEF Stored
  <2>3. CASE Upsert(q) /\ copy[q][c] \in {"writing", "late"}
    <3>1. PostSku[q] \in Skus /\ PostDay[q] \in Days /\ PostSku[p] \in Skus /\ PostDay[p] \in Days
      BY ServiceAssumption
    <3>2. copy[q][1] # "unsent"
      BY <2>3 DEF PostShape
    <3>3. copy'[q][1] # "unsent"
      BY <1>5, <3>2
    <3>4. CASE PostSku[p] = PostSku[q] /\ PostDay[p] = PostDay[q]
      <4>1. sales'[PostSku[q]][PostDay[q]] = q
        BY <2>3, <3>1 DEF Upsert
      <4> QED
        BY <3>3, <3>4, <4>1 DEF Stored
    <3>5. CASE PostSku[p] # PostSku[q] \/ PostDay[p] # PostDay[q]
      <4>1. sales'[PostSku[p]][PostDay[p]] = sales[PostSku[p]][PostDay[p]]
        BY <2>3, <3>1, <3>5 DEF Upsert
      <4> QED
        BY <1>5, <1>6, <2>1, <4>1 DEF Stored
    <3> QED
      BY <3>4, <3>5
  <2> QED
    BY <2>2, <2>3, PostingStep
<1> QED
  BY <1>3, <1>4, <1>5, <1>6

LEMMA PostingInductive ==
  ASSUME Inductive, NEW q \in Posts, NEW c \in CopyIds, Posting(q, c)
  PROVE  Inductive'
<1>1. /\ UNCHANGED <<productRow, positionRow, reads, seed>>
      /\ acked' \in {acked, acked \cup {q}}
      /\ acked' # acked => copy'[q][c] = "closed"
  BY PostingStep
<1>2. PostSku[q] \in Skus /\ PostDay[q] \in Days /\ 1 \in CopyIds
  BY ServiceAssumption DEF CopyIds
<1>3. TypeOK'
  <2>1. sales' \in [Skus -> [Days -> Figures]]
    <3>1. CASE UNCHANGED sales
      BY <3>1 DEF Inductive, TypeOK
    <3>2. CASE Upsert(q)
      <4>1. q \in Figures
        BY DEF Figures
      <4> QED
        BY <1>2, <3>2, <4>1 DEF Upsert, Inductive, TypeOK
    <3> QED
      BY <3>1, <3>2, PostingStep
  <2>2. copy' \in [Posts -> [CopyIds -> CopyStates]]
    BY PostingKeeps
  <2> QED
    BY <1>1, <2>1, <2>2 DEF Inductive, TypeOK, reads
<1>4. Stored(q)' \/ copy'[q][c] \notin {"ok", "closed"}
  <2>1. CASE copy'[q][c] = "ok"
    <3>1. Upsert(q)
      BY <2>1, PostingStep
    <3>2. sales'[PostSku[q]][PostDay[q]] = q
      BY <1>2, <3>1 DEF Upsert, Inductive, TypeOK
    <3> QED
      BY <3>2 DEF Stored
  <2>2. CASE copy'[q][c] = "closed"
    <3>1. copy[q][c] = "ok"
      BY <2>2, PostingStep
    <3>2. Stored(q)
      BY <3>1 DEF Inductive, PostShape
    <3> QED
      BY <3>2, PostingKeeps
  <2> QED
    BY <2>1, <2>2
<1>5. ASSUME NEW p \in Posts, NEW d \in CopyIds
      PROVE  PostShape(p, d)'
  <2>1. CASE p # q \/ d # c
    <3>1. copy'[p][d] = copy[p][d]
      BY <2>1, PostingKeeps
    <3>2. PostShape(p, d) /\ (Stored(p) => Stored(p)') /\ (copy[p][1] # "unsent" => copy'[p][1] # "unsent")
      BY PostingKeeps DEF Inductive
    <3> QED
      BY <1>1, <3>1, <3>2 DEF PostShape
  <2>2. CASE p = q /\ d = c
    <3>1. copy'[q][c] \in {"writeWait", "writing", "late", "ok", "closed"} =>
            productRow'[PostSku[q]] # None
      BY <1>1, PostingStep
    <3>2. copy'[q][1] # "unsent"
      <4>1. CASE c = 1
        BY <4>1, PostingStep
      <4>2. CASE c # 1 /\ copy[q][c] # "unsent"
        BY <4>2, PostingKeeps DEF Inductive, PostShape
      <4>3. CASE c # 1 /\ copy[q][c] = "unsent"
        <5>1. c - 1 \in CopyIds
          BY <4>3, ServiceAssumption DEF CopyIds
        <5>2. copy[q][c - 1] # "unsent"
          BY <4>3, PostingStep
        <5> QED
          BY <5>1, <5>2, PostingKeeps DEF Inductive, PostShape
      <4> QED
        BY <4>1, <4>2, <4>3
    <3> QED
      BY <1>4, <2>2, <3>1, <3>2 DEF PostShape
  <2> QED
    BY <2>1, <2>2
<1>6. AckedMeansStored'
  <2> SUFFICES ASSUME NEW p \in acked'
               PROVE  Stored(p)'
    BY DEF AckedMeansStored
  <2>1. CASE p \in acked
    <3>1. Stored(p) /\ p \in Posts
      BY <2>1 DEF Inductive, AckedMeansStored, TypeOK
    <3> QED
      BY <3>1, PostingKeeps
  <2>2. CASE p \notin acked
    BY <1>1, <1>4, <2>2
  <2> QED
    BY <2>1, <2>2
<1>7. RowsTogether' /\ SeedShape' /\ NoTornProduct'
  BY <1>1 DEF Inductive, RowsTogether, SeedShape, NoTornProduct, reads
<1> QED
  BY <1>3, <1>5, <1>6, <1>7 DEF Inductive

(* The steps of the generator.                                                *)
LEMMA SeedStep ==
  ASSUME Inductive, Seed
  PROVE  /\ UNCHANGED <<posts, reads>>
         /\ productRow' \in [Skus -> Editions \cup {None}]
         /\ positionRow' \in [Skus -> Editions \cup {None}]
         /\ sales' \in [Skus -> [Days -> Figures]]
         /\ seed' \in [step : {"stopped", "product", "position", "delete", "load"},
                       edition : Editions, at : 1..Len(Catalog), reset : BOOLEAN]
         /\ seed'.edition > 0
         /\ RowsTogether'
         /\ SeedShape'
         /\ \A s \in Skus : productRow[s] # None => productRow'[s] # None
<1> DEFINE s == Catalog[seed.at]
<1>1. s \in Skus /\ Len(Catalog) \in Nat \ {0} /\ Seedings \in Nat
  BY ServiceAssumption DEF Inductive, TypeOK
<1>2. seed.edition \in Editions /\ seed.at \in 1..Len(Catalog) /\ seed.reset \in BOOLEAN
  BY DEF Inductive, TypeOK
<1>3. /\ seed.step # "stopped" => seed.edition > 0
      /\ seed.step \in {"delete", "load"} => productRow[s] = seed.edition
      /\ seed.edition # None
      /\ seed.edition \in Figures
  BY <1>2, ServiceAssumption DEF Inductive, SeedShape, Figures
<1> HIDE DEF s
<1> USE DEF Inductive, TypeOK, RowsTogether, SeedShape, Seeding, SeedGoes, rows, posts, reads
<1>4. CASE StartSeed
  <2>1. PICK r \in BOOLEAN :
          seed' = [step |-> "product", edition |-> seed.edition + 1, at |-> 1, reset |-> r]
    BY <1>4 DEF StartSeed
  <2>2. seed.edition + 1 \in Editions /\ seed.edition + 1 > 0 /\ 1 \in 1..Len(Catalog)
    BY <1>1, <1>2, <1>4 DEF StartSeed, Editions
  <2>3. UNCHANGED <<rows, posts, reads>>
    BY <1>4 DEF StartSeed
  <2> QED
    BY <2>1, <2>2, <2>3
<1>5. CASE SeedProduct
  BY <1>5, <1>3 DEF SeedProduct
<1>6. CASE SeedPosition
  <2>1. /\ productRow' = [productRow EXCEPT ![s] = seed.edition]
        /\ positionRow' = [positionRow EXCEPT ![s] = seed.edition]
        /\ seed' = [seed EXCEPT !.step = IF seed.reset THEN "delete" ELSE "load"]
        /\ UNCHANGED <<sales, posts, reads>>
        /\ seed.step = "position"
    BY <1>6 DEF SeedPosition, s
  <2>2. productRow'[s] = seed.edition
    BY <1>1, <2>1
  <2>3. seed'.at = seed.at /\ seed'.edition = seed.edition
    BY <2>1
  <2>4. SeedShape'
    BY <1>3, <2>1, <2>2, <2>3 DEF s
  <2>5. /\ productRow' \in [Skus -> Editions \cup {None}]
        /\ positionRow' \in [Skus -> Editions \cup {None}]
        /\ RowsTogether'
        /\ \A t \in Skus : productRow[t] # None => productRow'[t] # None
    BY <1>1, <1>2, <1>3, <2>1 DEF Whole
  <2>6. seed' \in [step : {"stopped", "product", "position", "delete", "load"},
                   edition : Editions, at : 1..Len(Catalog), reset : BOOLEAN]
    BY <2>1
  <2> QED
    BY <1>3, <2>1, <2>3, <2>4, <2>5, <2>6
<1>7. CASE SeedDelete
  <2>1. NoHistory \in [Days -> Figures]
    BY DEF NoHistory, Figures
  <2>2. /\ sales' = [sales EXCEPT ![s] = NoHistory]
        /\ seed' = [seed EXCEPT !.step = "load"]
        /\ UNCHANGED <<productRow, positionRow, posts, reads>>
        /\ seed.step = "delete"
    BY <1>7 DEF SeedDelete, s
  <2>3. SeedShape'
    BY <1>3, <2>2 DEF s
  <2> QED
    BY <1>3, <2>1, <2>2, <2>3
<1>8. CASE SeedLoad
  <2> DEFINE all == [d \in Days |-> seed.edition]
  <2>1. all \in [Days -> Figures]
    BY <1>3
  <2>2. /\ sales' = [sales EXCEPT ![s] = all]
        /\ UNCHANGED <<productRow, positionRow, posts, reads>>
        /\ seed.step = "load"
    BY <1>8 DEF SeedLoad, s
  <2>3. seed' = [seed EXCEPT !.step = IF seed.at < Len(Catalog) THEN "product" ELSE "stopped",
                             !.at = IF seed.at < Len(Catalog) THEN seed.at + 1 ELSE 1]
    BY <1>8 DEF SeedLoad
  <2>4. (IF seed.at < Len(Catalog) THEN seed.at + 1 ELSE 1) \in 1..Len(Catalog)
    BY <1>1, <1>2
  <2>5. /\ seed' \in [step : {"stopped", "product", "position", "delete", "load"},
                      edition : Editions, at : 1..Len(Catalog), reset : BOOLEAN]
        /\ seed'.edition = seed.edition
        /\ seed'.step \in {"product", "stopped"}
    BY <2>3, <2>4
  <2> HIDE DEF all
  <2> QED
    BY <1>3, <2>1, <2>2, <2>5
<1>9. CASE SeedFails
  BY <1>9, <1>3 DEF SeedFails
<1> QED
  BY <1>4, <1>5, <1>6, <1>7, <1>8, <1>9 DEF Seed

LEMMA SeedInductive ==
  ASSUME Inductive, Seed
  PROVE  Inductive'
<1>1. TypeOK'
  BY SeedStep DEF Inductive, TypeOK, posts, reads
<1>2. \A q : Stored(q)'
  BY SeedStep DEF Stored
<1>3. ASSUME NEW q \in Posts, NEW c \in CopyIds
      PROVE  PostShape(q, c)'
  <2>1. PostShape(q, c) /\ PostSku[q] \in Skus
    BY ServiceAssumption DEF Inductive
  <2>2. copy' = copy
    BY SeedStep DEF posts
  <2>3. productRow[PostSku[q]] # None => productRow'[PostSku[q]] # None
    BY <2>1, SeedStep
  <2> QED
    BY <1>2, <2>1, <2>2, <2>3 DEF PostShape
<1>4. AckedMeansStored' /\ NoTornProduct'
  BY <1>2, SeedStep DEF AckedMeansStored, NoTornProduct, Inductive, reads
<1> QED
  BY <1>1, <1>3, <1>4, SeedStep DEF Inductive

LEMMA ReadingInductive ==
  ASSUME Inductive, NEW r \in Readers, Reading(r)
  PROVE  Inductive'
<1>1. UNCHANGED <<productRow, positionRow, sales, copy, acked, seed>>
  BY ReadingStep DEF rows, posts
<1>2. TypeOK'
  BY <1>1, ReadingStep DEF Inductive, TypeOK
<1>3. \A q \in Posts, c \in CopyIds : PostShape(q, c)'
  BY <1>1 DEF Inductive, PostShape, Stored
<1>4. RowsTogether' /\ SeedShape' /\ AckedMeansStored'
  BY <1>1 DEF Inductive, RowsTogether, SeedShape, AckedMeansStored, Stored
<1> QED
  BY <1>2, <1>3, <1>4, ReadingStep DEF Inductive

LEMMA StutterInductive ==
  ASSUME Inductive, UNCHANGED vars
  PROVE  Inductive'
<1>1. UNCHANGED <<productRow, positionRow, sales, copy, acked,
                  reader, seenProduct, seenHistory, answer, seed>>
  BY DEF vars, rows, posts, reads
<1>2. TypeOK'
  BY <1>1 DEF Inductive, TypeOK
<1>3. \A q \in Posts, c \in CopyIds : PostShape(q, c)'
  BY <1>1 DEF Inductive, PostShape, Stored
<1> QED
  BY <1>1, <1>2, <1>3 DEF Inductive, RowsTogether, SeedShape, AckedMeansStored, Stored, NoTornProduct

(* Every step is one of a post, of a request, of the generator, or none.      *)
LEMMA Steps ==
  ASSUME [Next]_vars
  PROVE  \/ \E q \in Posts, c \in CopyIds : Posting(q, c)
         \/ \E r \in Readers : Reading(r)
         \/ Seed
         \/ UNCHANGED vars
<1> QED
  BY DEF Next, Posting, Reading, Quiet

LEMMA InductiveInit ==
  ASSUME Init
  PROVE  Inductive
<1>1. Len(Catalog) \in Nat \ {0} /\ Seedings \in Nat /\ 1 \in CopyIds
  BY ServiceAssumption DEF CopyIds
<1>2. 0 \in Editions /\ 1 \in 1..Len(Catalog)
  BY <1>1 DEF Editions
<1>3. NoHistory \in [Days -> Figures]
  BY DEF NoHistory, Figures
<1>4. /\ productRow \in [Skus -> Editions \cup {None}]
      /\ positionRow \in [Skus -> Editions \cup {None}]
      /\ RowsTogether
  BY <1>2 DEF Init, RowsTogether, Whole
<1>5. sales \in [Skus -> [Days -> Figures]]
  BY <1>3 DEF Init
<1>6. copy \in [Posts -> [CopyIds -> CopyStates]] /\ acked = {}
  BY DEF Init, CopyStates
<1>7. /\ reader \in [Readers -> ReaderStates]
      /\ seenProduct \in [Readers -> [Skus -> (Editions \cup {None}) \X (Editions \cup {None})]]
      /\ NoTornProduct
  BY DEF Init, ReaderStates, NoTornProduct, Whole
<1>8. seenHistory \in [Readers -> [Skus -> [Days -> Figures]]]
  BY <1>3 DEF Init
<1>9. /\ seed \in [step : {"stopped", "product", "position", "delete", "load"},
                  edition : Editions, at : 1..Len(Catalog), reset : BOOLEAN]
      /\ SeedShape
  BY <1>2 DEF Init, SeedShape
<1>10. \A q \in Posts, c \in CopyIds : PostShape(q, c)
  BY DEF Init, PostShape
<1>11. AckedMeansStored
  BY <1>6 DEF AckedMeansStored
<1> QED
  BY <1>4, <1>5, <1>6, <1>7, <1>8, <1>9, <1>10, <1>11 DEF Inductive, TypeOK

LEMMA InductiveStep ==
  ASSUME Inductive, [Next]_vars
  PROVE  Inductive'
<1>1. CASE \E q \in Posts, c \in CopyIds : Posting(q, c)
  BY <1>1, PostingInductive
<1>2. CASE \E r \in Readers : Reading(r)
  BY <1>2, ReadingInductive
<1>3. CASE Seed
  BY <1>3, SeedInductive
<1>4. CASE UNCHANGED vars
  BY <1>4, StutterInductive
<1> QED
  BY <1>1, <1>2, <1>3, <1>4, Steps

(* Everything below rests on this: the posts, the requests and the generator  *)
(* keep the shape that Inductive gives the tables and the work under way.     *)
THEOREM Invariance == Spec => []Inductive
<1>1. Init => Inductive
  BY InductiveInit
<1>2. Inductive /\ [Next]_vars => Inductive'
  BY InductiveStep
<1> QED
  BY <1>1, <1>2, PTL DEF Spec

(* Every variable of the service keeps its type, for any catalog and posts.   *)
THEOREM TypeCorrectness == Spec => []TypeOK
<1>1. Inductive => TypeOK
  BY DEF Inductive
<1> QED
  BY <1>1, Invariance, PTL

(* Once a point of sale has seen the 200 for a figure, the figure is stored,  *)
(* whatever was sent again, timed out or was written late, unless another     *)
(* figure was sent for its day or the generator ran.                          *)
THEOREM AcknowledgedIsStored == Spec => []AckedMeansStored
<1>1. Inductive => AckedMeansStored
  BY DEF Inductive
<1> QED
  BY <1>1, Invariance, PTL

(* No request sees a product of one edition with the position of another, nor *)
(* half of what the generator wrote; only a product set up by hand is read    *)
(* without a position.  For any size of the pool and any number of requests.  *)
THEOREM ProductsAreWhole == Spec => []NoTornProduct
<1>1. Inductive => NoTornProduct
  BY DEF Inductive
<1> QED
  BY <1>1, Invariance, PTL

-------------------------------------------------------------------------------
(* The answers of a batch.                                                    *)

(* A set of numbers that is not empty has a least member: < is well founded.   *)
LEMMA LeastOf ==
  ASSUME NEW T, T \subseteq Nat, T # {}
  PROVE \E x \in T : \A y \in T : x <= y
<1> DEFINE R == OpToRel(<, Nat)
<1>1. IsWellFoundedOn(R, Nat)
  BY NatLessThanWellFounded
<1>2. \A x, y \in Nat : x < y => <<x, y>> \in R
  BY DEF OpToRel
<1> HIDE DEF R
<1>3. PICK x \in T : \A y \in T : ~ (<<y, x>> \in R)
  BY <1>1, WFMin
<1>4. \A y \in T : ~ (y < x)
  BY <1>2, <1>3
<1>5. \A y \in T : x <= y
  BY <1>4
<1> QED
  BY <1>5

(* Induction, for a set and not for a predicate: a least number outside of it
   would have a predecessor in it.                                            *)
LEMMA Induction ==
  ASSUME NEW T, 0 \in T, \A n \in Nat : n \in T => n+1 \in T
  PROVE Nat \subseteq T
<1> SUFFICES ASSUME Nat \ T # {} PROVE FALSE
  OBVIOUS
<1>1. PICK x \in Nat \ T : \A y \in Nat \ T : x <= y
  BY LeastOf
<1>2. x # 0 /\ x - 1 \in Nat
  BY <1>1
<1>3. x - 1 \in T
  BY <1>1, <1>2
<1> QED BY <1>1, <1>2, <1>3

\* The loop of handleBatch: what it has kept after n SKUs of a list, and after up to m.
Taken(k, list, n) ==
  IF n = 0 THEN <<>>
  ELSE IF \E i \in DOMAIN k[n - 1] : k[n - 1][i] = list[n] THEN k[n - 1]
  ELSE Append(k[n - 1], list[n])

Keeping(k, list, m) == k = [n \in 0..m |-> Taken(k, list, n)]

LEMMA KeepingExists ==
  ASSUME NEW list, NEW m \in Nat
  PROVE  \E k : Keeping(k, list, m)
<1> DEFINE T == {n \in Nat : \E k : Keeping(k, list, n)}
<1>1. 0 \in T
  <2>1. Keeping([n \in 0..0 |-> <<>>], list, 0)
    BY DEF Keeping, Taken
  <2> QED
    BY <2>1
<1>2. ASSUME NEW n \in Nat, n \in T PROVE n + 1 \in T
  <2>1. PICK k : Keeping(k, list, n)
    BY <1>2
  <2> DEFINE h == [j \in 0..(n + 1) |-> Taken(k, list, j)]
  <2>2. \A j \in 0..n : h[j] = k[j]
    BY <2>1 DEF Keeping
  <2>3. ASSUME NEW j \in 0..(n + 1) PROVE Taken(h, list, j) = Taken(k, list, j)
    <3>1. j # 0 => h[j - 1] = k[j - 1]
      BY <2>2
    <3> HIDE DEF h
    <3> QED
      BY <3>1, Zenon DEF Taken
  <2>4. h = [j \in 0..(n + 1) |-> Taken(h, list, j)]
    <3>1. h = [j \in 0..(n + 1) |-> Taken(k, list, j)]
      OBVIOUS
    <3> HIDE DEF h
    <3> QED
      BY <2>3, <3>1
  <2> HIDE DEF h
  <2>5. \E g : Keeping(g, list, n + 1)
    BY <2>4 DEF Keeping
  <2> QED
    BY <2>5
<1> HIDE DEF T
<1>3. m \in T
  BY <1>1, <1>2, Induction
<1> QED
  BY <1>3 DEF T

(* What Distinct keeps is what the loop has kept at its end.                  *)
LEMMA DistinctIsKept ==
  ASSUME NEW list, Len(list) \in Nat
  PROVE  \E k : Keeping(k, list, Len(list)) /\ Distinct(list) = k[Len(list)]
<1> DEFINE kept == CHOOSE k : k = [n \in 0..Len(list) |->
                                    IF n = 0 THEN <<>>
                                    ELSE IF \E i \in DOMAIN k[n - 1] : k[n - 1][i] = list[n] THEN k[n - 1]
                                    ELSE Append(k[n - 1], list[n])]
<1>1. Distinct(list) = kept[Len(list)]
  BY DEF Distinct
<1>2. PICK k : Keeping(k, list, Len(list))
  BY KeepingExists
<1>3. Keeping(kept, list, Len(list))
  BY <1>2, Zenon DEF Keeping, Taken
<1> QED
  BY <1>1, <1>3

\* Some s of the first n of a list comes before any t.
ComesFirst(list, n, s, t) == \E i \in 1..n : list[i] = s /\ \A j \in 1..i : list[j] # t

(* Each SKU is kept once, in the order in which they first stand.             *)
LEMMA DistinctIs ==
  ASSUME NEW list \in Seq(Skus)
  PROVE  /\ Distinct(list) \in Seq(Skus)
         /\ {Distinct(list)[i] : i \in DOMAIN Distinct(list)} = {list[i] : i \in DOMAIN list}
         /\ \A i, j \in DOMAIN Distinct(list) :
              i < j => ComesFirst(list, Len(list), Distinct(list)[i], Distinct(list)[j])
<1> DEFINE m == Len(list)
<1>0. m \in Nat /\ DOMAIN list = 1..m /\ \A i \in 1..m : list[i] \in Skus
  OBVIOUS
<1>1. PICK k : Keeping(k, list, m) /\ Distinct(list) = k[m]
  BY <1>0, DistinctIsKept
<1> HIDE DEF m
<1>2. \A n \in 0..m : k[n] = Taken(k, list, n)
  BY <1>1 DEF Keeping
<1> DEFINE Good(n) == /\ k[n] \in Seq(Skus)
                      /\ \A i \in 1..Len(k[n]) : \E j \in 1..n : k[n][i] = list[j]
                      /\ \A j \in 1..n : \E i \in 1..Len(k[n]) : k[n][i] = list[j]
                      /\ \A i, j \in 1..Len(k[n]) : i < j => ComesFirst(list, n, k[n][i], k[n][j])
           T == {n \in Nat : n <= m => Good(n)}
<1>3. 0 \in T
  <2>1. k[0] = <<>>
    BY <1>0, <1>2 DEF Taken
  <2>2. k[0] \in Seq(Skus) /\ 1..Len(k[0]) = {} /\ 1..0 = {}
    BY <2>1
  <2>3. Good(0)
    BY <2>2
  <2> HIDE DEF Good
  <2> QED
    BY <2>3
<1>4. ASSUME NEW n \in Nat, n \in T PROVE n + 1 \in T
  <2> SUFFICES ASSUME n + 1 <= m PROVE Good(n + 1)
    OBVIOUS
  <2> DEFINE a == k[n]
             b == k[n + 1]
             x == list[n + 1]
  <2>1. /\ a \in Seq(Skus)
        /\ \A i \in 1..Len(a) : \E j \in 1..n : a[i] = list[j]
        /\ \A j \in 1..n : \E i \in 1..Len(a) : a[i] = list[j]
        /\ \A i, j \in 1..Len(a) : i < j => ComesFirst(list, n, a[i], a[j])
    BY <1>0, <1>4
  <2>2. b = IF \E i \in DOMAIN a : a[i] = x THEN a ELSE Append(a, x)
    <3>1. n + 1 \in 0..m /\ (n + 1) - 1 = n /\ n + 1 # 0
      BY <1>0
    <3>2. b = Taken(k, list, n + 1)
      BY <1>2, <3>1
    <3> QED
      BY <3>1, <3>2, Zenon DEF Taken
  <2>3. x \in Skus
    BY <1>0
  <2>4. \A s, t : ComesFirst(list, n, s, t) => ComesFirst(list, n + 1, s, t)
    BY DEF ComesFirst
  <2> SUFFICES /\ b \in Seq(Skus)
               /\ \A i \in 1..Len(b) : \E j \in 1..(n + 1) : b[i] = list[j]
               /\ \A j \in 1..(n + 1) : \E i \in 1..Len(b) : b[i] = list[j]
               /\ \A i, j \in 1..Len(b) : i < j => ComesFirst(list, n + 1, b[i], b[j])
    OBVIOUS
  <2>d. DOMAIN a = 1..Len(a) /\ Len(a) \in Nat
    BY <2>1
  <2>5. CASE \E i \in DOMAIN a : a[i] = x
    <3>1. b = a
      BY <2>2, <2>5
    <3>2. PICK i \in 1..Len(a) : a[i] = x
      BY <2>d, <2>5
    <3> HIDE DEF a, b
    <3>3. ASSUME NEW j \in 1..(n + 1) PROVE \E h \in 1..Len(a) : a[h] = list[j]
      <4>1. CASE j \in 1..n
        BY <2>1, <4>1
      <4>2. CASE j = n + 1
        BY <3>2, <4>2
      <4> QED
        BY <4>1, <4>2
    <3>4. \A h \in 1..Len(a) : \E j \in 1..(n + 1) : a[h] = list[j]
      BY <2>1
    <3> QED
      BY <2>1, <2>4, <3>1, <3>3, <3>4
  <2>6. CASE ~ \E i \in DOMAIN a : a[i] = x
    <3>1. b = Append(a, x)
      BY <2>2, <2>6
    <3>2. \A i \in 1..Len(a) : a[i] # x
      BY <2>d, <2>6
    <3> HIDE DEF a, b
    <3>3. /\ b \in Seq(Skus) /\ Len(b) = Len(a) + 1 /\ b[Len(a) + 1] = x /\ Len(a) \in Nat
          /\ \A i \in 1..Len(a) : b[i] = a[i]
      BY <2>1, <2>3, <3>1
    <3>4. ASSUME NEW i \in 1..Len(b) PROVE \E j \in 1..(n + 1) : b[i] = list[j]
      <4>1. CASE i \in 1..Len(a)
        <5>1. PICK j \in 1..n : a[i] = list[j]
          BY <2>1, <4>1
        <5>2. j \in 1..(n + 1) /\ b[i] = list[j]
          BY <3>3, <4>1, <5>1
        <5> QED
          BY <5>2
      <4>2. CASE i = Len(a) + 1
        <5>1. b[i] = list[n + 1] /\ n + 1 \in 1..(n + 1)
          BY <3>3, <4>2
        <5> QED
          BY <5>1
      <4> QED
        BY <3>3, <4>1, <4>2
    <3>5. ASSUME NEW j \in 1..(n + 1) PROVE \E i \in 1..Len(b) : b[i] = list[j]
      <4>1. CASE j \in 1..n
        <5>1. PICK i \in 1..Len(a) : a[i] = list[j]
          BY <2>1, <4>1
        <5>2. i \in 1..Len(b) /\ b[i] = list[j]
          BY <3>3, <5>1
        <5> QED
          BY <5>2
      <4>2. CASE j = n + 1
        <5>1. b[Len(a) + 1] = list[j] /\ Len(a) + 1 \in 1..Len(b)
          BY <3>3, <4>2
        <5> QED
          BY <5>1
      <4> QED
        BY <4>1, <4>2
    <3>6. ASSUME NEW i \in 1..Len(b), NEW j \in 1..Len(b), i < j
          PROVE  ComesFirst(list, n + 1, b[i], b[j])
      <4>1. i \in 1..Len(a) /\ b[i] = a[i]
        BY <3>3, <3>6
      <4>2. CASE j \in 1..Len(a)
        BY <2>1, <2>4, <3>3, <3>6, <4>1, <4>2
      <4>3. CASE j = Len(a) + 1
        <5>1. PICK h \in 1..n : a[i] = list[h]
          BY <2>1, <4>1
        <5>2. ASSUME NEW g \in 1..h PROVE list[g] # x
          <6>1. g \in 1..n
            BY <5>1
          <6>2. PICK f \in 1..Len(a) : a[f] = list[g]
            BY <2>1, <6>1
          <6> QED
            BY <3>2, <6>2
        <5>3. h \in 1..(n + 1)
          BY <5>1
        <5> QED
          BY <3>3, <4>1, <4>3, <5>1, <5>2, <5>3 DEF ComesFirst
      <4> QED
        BY <3>3, <4>2, <4>3
    <3> QED
      BY <3>3, <3>4, <3>5, <3>6
  <2> QED
    BY <2>5, <2>6
<1>5. m \in T
  <2> HIDE DEF T
  <2> QED
    BY <1>0, <1>3, <1>4, Induction
<1>6. Good(m)
  <2> HIDE DEF Good
  <2> QED
    BY <1>0, <1>5
<1>7. Distinct(list) = k[m] /\ DOMAIN k[m] = 1..Len(k[m])
  BY <1>1, <1>6
<1>8. {k[m][i] : i \in DOMAIN k[m]} = {list[i] : i \in DOMAIN list}
  <2> DEFINE out == k[m]
  <2>1. /\ \A i \in 1..Len(out) : \E j \in 1..m : out[i] = list[j]
        /\ \A j \in 1..m : \E i \in 1..Len(out) : out[i] = list[j]
        /\ DOMAIN out = 1..Len(out)
    BY <1>6, <1>7
  <2> HIDE DEF out
  <2> DEFINE kept == {out[i] : i \in DOMAIN out}
             given == {list[i] : i \in DOMAIN list}
  <2>2. \A i \in DOMAIN out : out[i] \in given
    BY <1>0, <2>1
  <2>3. \A i \in DOMAIN list : list[i] \in kept
    BY <1>0, <2>1
  <2>4. kept \subseteq given /\ given \subseteq kept
    BY <2>2, <2>3
  <2> QED
    BY <2>4 DEF out
<1>9. Distinct(list) \in Seq(Skus)
  BY <1>6, <1>7
<1>10. \A i, j \in 1..Len(k[m]) : i < j => ComesFirst(list, m, k[m][i], k[m][j])
  BY <1>6
<1> HIDE DEF Good, T, m
<1>11. \A i, j \in DOMAIN Distinct(list) :
         i < j => ComesFirst(list, Len(list), Distinct(list)[i], Distinct(list)[j])
  BY <1>7, <1>10, Zenon DEF m
<1>12. {Distinct(list)[i] : i \in DOMAIN Distinct(list)} = {list[i] : i \in DOMAIN list}
  BY <1>7, <1>8, Zenon
<1> QED
  BY <1>9, <1>11, <1>12, Zenon

\* A request has one answer for each of its SKUs, in their order.
Answering(r, given) ==
  /\ {given[i].sku : i \in DOMAIN given} = AskedSkus(r)
  /\ \A i, j \in DOMAIN given : i < j => AskedBefore(r, given[i].sku, given[j].sku)

\* Every request has an answer, or none yet; the invariant behind OneAnswerPerSku.
Answers == answer = [r \in Readers |-> answer[r]] /\ OneAnswerPerSku

LEMMA AnswersOneMore ==
  ASSUME Answers, NEW r \in Readers, NEW given, answer' = [answer EXCEPT ![r] = given],
         given = <<>> \/ Answering(r, given)
  PROVE  Answers'
<1>1. answer' = [t \in Readers |-> answer'[t]] /\ \A t \in Readers : answer'[t] = IF t = r THEN given ELSE answer[t]
  BY DEF Answers
<1>2. \A t \in Readers : answer[t] # <<>> => Answering(t, answer[t])
  BY DEF Answers, OneAnswerPerSku, Answering
<1>3. \A t \in Readers : answer'[t] # <<>> => Answering(t, answer'[t])
  BY <1>1, <1>2
<1> QED
  BY <1>1, <1>3 DEF Answers, OneAnswerPerSku, Answering, AskedSkus, AskedBefore

LEMMA AnswersKept ==
  ASSUME Answers, answer' = answer
  PROVE  Answers'
<1>1. answer = [t \in Readers |-> answer[t]] /\ \A t \in Readers : answer[t] # <<>> => Answering(t, answer[t])
  BY DEF Answers, OneAnswerPerSku, Answering
<1>2. answer' = [t \in Readers |-> answer'[t]]
  BY <1>1
<1>3. \A t \in Readers : answer'[t] # <<>> => Answering(t, answer'[t])
  BY <1>1
<1> QED
  BY <1>2, <1>3, Zenon DEF Answers, OneAnswerPerSku, Answering, AskedSkus, AskedBefore

(* Where the SKUs of a request are.                                           *)
LEMMA AskedIs ==
  ASSUME NEW r \in Readers
  PROVE  Asked[r] \in Seq(Skus) /\ (r \notin Batch => Len(Asked[r]) = 1)
BY ServiceAssumption

LEMMA QueryProductsAnswers ==
  ASSUME Answers, NEW r \in Readers, QueryProducts(r)
  PROVE  Answers'
<1> DEFINE given == <<[sku |-> Asked[r][1], what |-> "notFound"]>>
<1>1. \/ r \notin Batch /\ answer' = [answer EXCEPT ![r] = given]
      \/ answer' = answer
  BY DEF QueryProducts
<1>2. ASSUME r \notin Batch PROVE Answering(r, given)
  <2>1. DOMAIN Asked[r] = {1}
    BY <1>2, AskedIs
  <2>2. DOMAIN given = {1} /\ given[1].sku = Asked[r][1]
    OBVIOUS
  <2> HIDE DEF given
  <2>3. {given[i].sku : i \in DOMAIN given} = AskedSkus(r)
    BY <2>1, <2>2 DEF AskedSkus
  <2>4. \A i, j \in DOMAIN given : ~(i < j)
    BY <2>2
  <2> QED
    BY <2>3, <2>4 DEF Answering
<1> HIDE DEF given
<1>3. CASE r \notin Batch /\ answer' = [answer EXCEPT ![r] = given]
  BY <1>2, <1>3, AnswersOneMore
<1>4. CASE answer' = answer
  BY <1>4, AnswersKept
<1> QED
  BY <1>1, <1>3, <1>4

LEMMA QueryHistoriesAnswers ==
  ASSUME Answers, NEW r \in Readers, QueryHistories(r)
  PROVE  Answers'
<1> DEFINE list == Distinct(Asked[r])
           given == [i \in DOMAIN list |->
                      [sku |-> list[i],
                       what |-> Outcome(list[i], seenProduct[r][list[i]][1] # None, sales[list[i]])]]
<1>1. answer' = [answer EXCEPT ![r] = given]
  BY DEF QueryHistories
<1>2. /\ {list[i] : i \in DOMAIN list} = {Asked[r][i] : i \in DOMAIN Asked[r]}
      /\ \A i, j \in DOMAIN list : i < j => ComesFirst(Asked[r], Len(Asked[r]), list[i], list[j])
  BY AskedIs, DistinctIs
<1> HIDE DEF list
<1>3. DOMAIN given = DOMAIN list /\ \A i \in DOMAIN list : given[i].sku = list[i]
  OBVIOUS
<1> HIDE DEF given
<1>4. {given[i].sku : i \in DOMAIN given} = AskedSkus(r)
  <2>1. {given[i].sku : i \in DOMAIN given} = {list[i] : i \in DOMAIN list}
    BY <1>3
  <2> QED
    BY <1>2, <2>1 DEF AskedSkus
<1>5. ASSUME NEW i \in DOMAIN given, NEW j \in DOMAIN given, i < j
      PROVE  AskedBefore(r, given[i].sku, given[j].sku)
  <2>1. ComesFirst(Asked[r], Len(Asked[r]), given[i].sku, given[j].sku)
    BY <1>2, <1>3, <1>5
  <2>2. DOMAIN Asked[r] = 1..Len(Asked[r])
    BY AskedIs
  <2> QED
    BY <2>1, <2>2 DEF ComesFirst, AskedBefore
<1>6. Answering(r, given)
  BY <1>4, <1>5 DEF Answering
<1> QED
  BY <1>1, <1>6, AnswersOneMore

(* handleBatch and RecommendBatch: whatever is missing, repeated or fails, an *)
(* answered request has one answer for each SKU it asked for, in its order,   *)
(* for any list of SKUs.                                                      *)
THEOREM EverySkuIsAnswered == Spec => []OneAnswerPerSku
<1>1. Init => Answers
  BY DEF Init, Answers, OneAnswerPerSku
<1>2. Answers /\ [Next]_vars => Answers'
  <2> SUFFICES ASSUME Answers, [Next]_vars PROVE Answers'
    OBVIOUS
  <2>1. ASSUME answer' = answer PROVE Answers'
    BY <2>1, AnswersKept
  <2>2. ASSUME NEW r \in Readers, Reading(r) PROVE Answers'
    <3>1. CASE QueryProducts(r)
      BY <3>1, QueryProductsAnswers
    <3>2. CASE QueryHistories(r)
      BY <3>2, QueryHistoriesAnswers
    <3>3. CASE TimeoutRead(r)
      <4>1. answer' = [answer EXCEPT ![r] = <<>>]
        BY <3>3 DEF TimeoutRead
      <4> QED
        BY <4>1, AnswersOneMore
    <3>4. CASE StartRead(r) \/ AcquireForRead(r)
      BY <2>1, <3>4 DEF StartRead, AcquireForRead
    <3> QED
      BY <2>2, <3>1, <3>2, <3>3, <3>4 DEF Reading, ReadStep
  <2>3. CASE \E q \in Posts, c \in CopyIds : Posting(q, c)
    BY <2>1, <2>3 DEF Posting, PostStep, SendPost, AcquireForPost, CheckProduct, WriteSale, ReplyPost,
                      TimeoutPost, LateWrite, reads
  <2>4. CASE Seed
    BY <2>1, <2>4 DEF Seed, StartSeed, SeedProduct, SeedPosition, SeedDelete, SeedLoad, SeedFails, reads
  <2>5. CASE UNCHANGED vars
    BY <2>1, <2>5 DEF vars, reads
  <2> QED
    BY <2>2, <2>3, <2>4, <2>5, Steps
<1>3. Answers => OneAnswerPerSku
  BY DEF Answers
<1> QED
  BY <1>1, <1>2, <1>3, PTL DEF Spec

-------------------------------------------------------------------------------
(* The store implements the ledger.                                           *)

product == [s \in Skus |-> <<productRow[s], positionRow[s]>>]

LEMMA ImplementsInit ==
  ASSUME Init
  PROVE  Ledger!Init
<1>1. PICK counted \in SUBSET Stocked :
        positionRow = [s \in Skus |-> IF s \in counted THEN 0 ELSE None]
  BY DEF Init
<1>2. product = [s \in Skus |-> IF s \notin Stocked THEN <<None, None>>
                                ELSE IF s \in counted THEN <<0, 0>> ELSE <<0, None>>]
  BY <1>1 DEF Init, product
<1>3. sales = [s \in Skus |-> [d \in Days |-> None]]
  BY DEF Init, NoHistory
<1> QED
  BY <1>2, <1>3 DEF Ledger!Init, Ledger!Absent, product

LEMMA ImplementsPosting ==
  ASSUME Inductive, NEW q \in Posts, NEW c \in CopyIds, Posting(q, c)
  PROVE  [Ledger!Next]_(Ledger!ledger)
<1>1. UNCHANGED <<productRow, positionRow>>
  BY PostingStep
<1>2. product' = product
  BY <1>1 DEF product
<1>3. CASE UNCHANGED sales
  BY <1>2, <1>3 DEF Ledger!ledger, product
<1>4. CASE Upsert(q) /\ copy[q][c] \in {"writing", "late"}
  <2>1. productRow[PostSku[q]] # None /\ PostSku[q] \in Skus
    BY <1>4, ServiceAssumption DEF Inductive, PostShape
  <2>2. product[PostSku[q]] # <<None, None>>
    BY <2>1 DEF product
  <2>3. Ledger!Report(q)
    BY <1>2, <1>4, <2>2 DEF Ledger!Report, Ledger!Absent, Upsert, product
  <2> QED
    BY <2>3 DEF Ledger!Next
<1> QED
  BY <1>3, <1>4, PostingStep

LEMMA ImplementsSeed ==
  ASSUME Inductive, Seed
  PROVE  [Ledger!Next]_(Ledger!ledger)
<1>1. PICK s \in Skus, e \in Editions : s = Catalog[seed.at] /\ e = seed.edition
  BY ServiceAssumption DEF Inductive, TypeOK
<1>2. ASSUME UNCHANGED rows
      PROVE  UNCHANGED Ledger!ledger
  BY <1>2 DEF rows, Ledger!ledger
<1>n. \A t \in Skus, f \in Editions :
        Ledger!Clear(t) \/ Ledger!SetUp(t, f) \/ Ledger!Load(t, f) => Ledger!Next
  BY DEF Ledger!Next
<1>3. CASE SeedPosition
  <2>1. /\ productRow' = [productRow EXCEPT ![s] = e]
        /\ positionRow' = [positionRow EXCEPT ![s] = e]
        /\ UNCHANGED sales
    BY <1>1, <1>3 DEF SeedPosition
  <2>2. product' = [product EXCEPT ![s] = <<e, e>>]
    BY <1>1, <2>1 DEF product, Inductive, TypeOK
  <2>3. Ledger!SetUp(s, e)
    BY <2>1, <2>2 DEF Ledger!SetUp, product
  <2> QED
    BY <1>1, <1>n, <2>3
<1>4. CASE SeedDelete
  <2>1. Ledger!Clear(s)
    BY <1>1, <1>4 DEF SeedDelete, Ledger!Clear, NoHistory
  <2> QED
    BY <1>1, <1>n, <2>1
<1>5. CASE SeedLoad
  <2>1. productRow[s] = e /\ positionRow[s] = e
    BY <1>1, <1>5 DEF Inductive, SeedShape, SeedLoad, Seeding, RowsTogether, Whole
  <2>2. Ledger!Load(s, e)
    BY <1>1, <1>5, <2>1 DEF SeedLoad, Ledger!Load
  <2> QED
    BY <1>1, <1>n, <2>2
<1>6. CASE StartSeed \/ SeedProduct \/ SeedFails
  BY <1>2, <1>6 DEF StartSeed, SeedProduct, SeedFails
<1> QED
  BY <1>3, <1>4, <1>5, <1>6 DEF Seed

LEMMA ImplementsStep ==
  ASSUME Inductive, [Next]_vars
  PROVE  [Ledger!Next]_(Ledger!ledger)
<1>1. CASE \E q \in Posts, c \in CopyIds : Posting(q, c)
  BY <1>1, ImplementsPosting
<1>2. CASE \E r \in Readers : Reading(r)
  BY <1>2, ReadingStep DEF Ledger!ledger, rows
<1>3. CASE Seed
  BY <1>3, ImplementsSeed
<1>4. CASE UNCHANGED vars
  BY <1>4 DEF Ledger!ledger, vars, rows
<1> QED
  BY <1>1, <1>2, <1>3, <1>4, Steps

(* To whoever reads the tables, products change with their positions, seeded  *)
(* histories come whole, and a day holds one figure, reported for a product   *)
(* that is there: every step of posts, requests and the generator is a step   *)
(* of the ledger or changes nothing that can be read.                         *)
THEOREM Refinement == Spec => ImplementsLedger
<1>1. Init => Ledger!Init
  BY ImplementsInit
<1>2. Inductive /\ [Next]_vars => [Ledger!Next]_(Ledger!ledger)
  BY ImplementsStep
<1> QED
  BY <1>1, <1>2, Invariance, PTL DEF Spec, ImplementsLedger, Ledger!Spec
==============================================================================
