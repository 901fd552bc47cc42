# Stockwatch in TLA+

Stockwatch is a grocery replenishment service: a Go HTTP server over Postgres that records daily sales, estimates
demand from them and recommends how much to order. It comes with a migration command, a seed generator and a small
dashboard. This directory holds its specifications, the TLC configurations that check them on small instances, and
the proofs that TLAPS checks for every instance. Paths below are relative to the repository.

## 1. Inventory

| Component | State it keeps | Operations | Correct when | Module |
|---|---|---|---|---|
| Schema migrations (`internal/storage/migrate.go`, `cmd/migrate`) | the tables, `schema_migrations`, the advisory lock, one session per run | `MigrateVerbose`, `Rollback`, `AppliedMigrations`, each under `withMigrationLock` | tables and records agree whatever dies; one run at a time; the operator is told the truth | `Migrator`, `SchemaHistory`, `MigratorProofs` |
| Replenishment decision (`internal/inventory/reorder.go`) | none, a pure function in stages | `Recommend` and its four limits | the order covers the need, the vendor accepts it, the list of limits explains it | `Replenish`, `ReplenishProofs` |
| Demand estimator (`internal/inventory/demand.go`) | none | trim, censor, weekday factors, smoothing | level and variance are those of what was observed, stockouts excluded | `Demand`, `Fractions`, `DemandProofs` |
| Inventory service and store (`internal/inventory/service.go`, `internal/storage/postgres.go`) | `products`, `stock_positions`, `sales_days`, the pool | `RecordSale`, `Recommend`, `RecommendBatch`, `UpsertProduct`, `DeleteSalesHistory`, `RecordSalesDays` | acknowledged figures are stored, no reader sees half a change, nobody starves | `SalesService`, `SalesLedger`, `SalesProofs` |
| HTTP handlers, middleware, router (`internal/httpapi`) | of one request: its context, what was written, the line in the access log | `RequestID`, `Logging`, `CORS`, `Recover`, `Timeout`, `MaxBodyBytes`, seven handlers, `handleNotFound`, `writeError`, `writeJSON` | the status blames whom it should, the log says what was sent, a 200 is true, a batch answers every SKU | `Api`, `ApiProofs`, the requests of `SalesService`, the connections of `Server` |
| Configuration (`cmd/server/config.go`) | the environment | `LoadConfig` | a server boots exactly with what it can run with | `Config` |
| Server process (`cmd/server/main.go`) | listener, signals, drain | load, connect, migrate, serve, drain, close | a stop is orderly, and it does stop | `Server`, `ServerProofs` |
| Seed generator (`cmd/seed`) | a simulated shelf and its deliveries | `generate`, day by day; per SKU: upsert, delete, load | units are conserved, every truncated day is marked; readers never meet half of a product or of a history | `Generator`, `GeneratorProofs`; database side in `SalesService` |
| Dashboard (`web/src/App.tsx`) | the rows of the grid, `loading`, `error` | `loadData`, Retry, the double load of StrictMode | no card waits for ever, no card shows two loads at once | `Dashboard`, `DashboardProofs` |
| Build, deployment, CI | none | | | not modelled |

**How they interact.** A booting server, `cmd/seed` and `cmd/migrate` are separate processes that meet in Postgres, at
the advisory lock. The handlers of one server share a pool; every query takes a connection from it and gives it back.
The generator writes beside them over a session of its own. Demand feeds the decision: the service reads a product,
then its history, estimates and recommends. A signal turns the server from serving to draining while requests run.
Around every handler stand the layers of the middleware, which see its panics, its deadline and what it writes. The
dashboard is a client of the API: a list of products, then one recommendation for each.

**What is hard.** Anything between sending a statement and its reply (timeout, lost session, crash, a late
statement); runs of different builds one after the other; retries of figures that were corrected meanwhile; the two
reads of a recommendation; five overlapping timeouts in the server; a panic or a deadline between the two halves of
an answer; rounding at half units; windows over rows with gaps; loads of the page that cross. `PROJECT.json` lists each hazard at its line with the properties that guard it.

## 2. The modules

### Migrator

A *run* is one process from start to exit. `conn[r]`, `stmt[r]`, `txn[r]` and `rows[r]` are its session as Postgres
sees it; `phase`, `cmd`, `files`, `todo`, `target`, `failed`, `ctxDone` and `reported` are locals of the program.
A statement is two steps, because that is where things go wrong: an action of `Postgres` serves what was sent
(`GrantLock`, `EnsureTable`, `ReadVersions`, `BeginTxn`, `ExecuteDDL`, `RecordVersion`, `CommitTxn`, `AbortTxn`,
`ReleaseLock`, or `Refuse` with an SQL error), and an action of `Program` takes the reply and sends the next one
(`AfterLock`, `AfterEnsure`, `AfterRead`, `AfterTxStatement`, `AfterCommit`, `AfterAbort`, `AfterUnlock`,
`AfterError`). Between the two, `Expire` (timeout or signal), `Interrupt` (pgx closes the connection of a cancelled
context), `NoticeLoss` and `Crash` may come; a statement that was sent may still be carried out until `EndSession`,
which undoes the transaction and frees the lock. The deferred rollback and unlock of the code are the statements
`abort` and `unlock`; that the unlock has no context is why `Interrupt` does not touch it.

The SQL of a migration is reduced to the versions whose tables it uses (`Needs`); a build is the set of versions it
embeds (`Images`). `changed` is a history variable: what the run's commits really did, against which `reported` is
held. Parsing of file names and the check for duplicate numbers happen before any statement and are left out.

`SchemaHistory` is what the database shows to others: a migration is applied once, with its tables and its row in one
step, after what it needs; a rollback takes the highest version. `Migrator` implements it with
`recorded <- Recorded`, the versions that have a row.

### Replenish

One product and one signal go through `Trigger`, `ApplyShelfLife`, `ApplyCaseSize`,
`EnforceShelfLifeAfterRounding`, `ApplyMinimumOrder` and `Finish`, one action each, in the order of `Recommend`.
Quantities are integers that count `1/Scale` of a unit, so that the rounding to whole units at the end is the real
one (`Round` is `math.Round`). The safety stock, `z * sigma * sqrt(days)`, is an input: any non-negative number.
Texts of the constraints and `roundDiagnostics` are left out.

### Fractions and Demand

`Demand` takes the rows of one SKU through `Fetch` (the cutoff of the query in `service.go`), the trim to the window,
`Censor`, the weekday factors with their clamp, and `Smooth`, one observation a step, with exact fractions in place of
`float64` and the variance in place of its square root. The rows are any figures and stockout flags on any set of
dates, later ones than today included, because the API accepts them. Weeks have `Week` days.

The code has a slice of rows that the query sorts by date, and a SKU has one row a date: here it is the set of its
dates. `days` is what the slice has been cut down to at each stage, `ahead` the observations that are still to be
smoothed in, of which the earliest is next. A fraction is in lowest terms, so that equal numbers are equal records.

### SalesService and SalesLedger

Each request is a little program over the pool: wait for a connection, query, give it back, again. `copy[q][c]` is the
c-th time that post `q` is sent; a post may be retried as long as it has no answer. A deadline that strikes during the
upsert leaves the statement on its way (`late`), and `LateWrite` may still carry it out. `reader[r]` reads products and
then histories, in two statements that see different states. `seed` is the generator: `UpsertProduct` is a transaction
whose first statement is invisible (`SeedProduct`) and whose second statement and COMMIT are one step
(`SeedPosition`). Figures are names: a post, or an edition of the generator; what is computed from a history is only
its outcome (not found, no history, insufficient, recommended). `Distinct` is the loop of the batch handler that drops
repeated SKUs: what it has kept after each turn, as a recursive function.

At the start some products are set up and any subset of them has been counted: a product without a
`stock_positions` row is a real state (`postgres.go:57`, `TestGetProductWithoutStockPosition`), which the `LEFT JOIN`
reads as an empty shelf. `Whole` says which pairs of a product and a position a reader may meet: rows of one edition,
or a product that no edition has written, without a position. That the generator's write of a product shows without
its position is not among them.

`SalesLedger` is what a reader may rely on: a product changes with its position, a day holds one reported figure, a
generated history appears whole. `SalesService` implements it with `product[s] <- <<productRow[s], positionRow[s]>>`.

### Config and Server

`Config` is `LoadConfig`: what it makes of an environment (`Loaded`), the problems of single values (`Unreadable`) and
of values together (`Conflicts`). A value is unset, unreadable, NaN or a number; `Int32` is the conversion of the
connection counts, with `Half` for `2^31`. Of `MAX_BODY_BYTES` only whether it parses is looked at: any integer is
accepted, and zero or less falls back to the default in `NewRouter`. `Usable` is the requirement beside it, read off the comments: what the
operator wrote, with no fallback and no wrapping.

`stage` walks through `run` of `cmd/server/main.go`: load, connect (`newPool` with its ping), migrate, serve, drain,
close (`pool.Close`), exit. `listener` and `serveErr` are the goroutine of `ListenAndServe` and its channel.
`intercepting` tells whether a signal cancels the context or kills. Each connection has one request: header, body
(`decodeJSON`, which does not look at the context), query, reply. Time is counted in ticks; `Tick` is not enabled while
something has reached its deadline, so deadlines are met but never exactly at once. `net/http` is modelled from how the
code relies on it: a connection accepted before `Shutdown` may still send its header within `ReadHeaderTimeout`;
`Shutdown` polls, so at the end of the drain it may find no work left and still report the deadline; `Close` severs
clients but not handlers.

### Api

One request, from the outermost layer of `NewRouter` through a handler and back. `depth` is how many layers it is in,
`way` whether it goes in, comes out, or whether a panic (or `http.ErrAbortHandler`) unwinds the stack. A handler is the
list of what it has yet to do (`Stages`): read the SKU, decode, check the fields, call the service, write the status,
write the body. `Refuse` is `writeError` and the `return` after it: it leaves only the writing. `Header` and `Body` are
two steps because `writeJSON` announces the status before it knows whether the value can be encoded. `CallFails` may
leave the sale stored or not, since a deadline does not call a statement back. Between any two steps the deadline may
pass (`Expire`), the client may leave or the handler may panic. `recorded` is what `statusRecorder` has, `status` what
the wire has: a second `WriteHeader` changes only the first. A request is known by what a check can find wrong with
it: its path, method, SKU, content type, body, date, units and list. A SKU is "unstorable" when it passes those checks
and Postgres cannot take it as text: with a NUL (`%00` in a path, `\u0000` in a list) or, in a path, bytes that are
not UTF-8. No statement carries it, so the answer is an error of the driver.

`faults` is what went wrong on the server's side, against which `BlameIsRight` holds the status. A client that leaves
is not a fault of the server, whatever `handleReadyz` makes of it. Where the code does blame the wrong party the
property has an exception with a name, and no other: `ToldAsOurs` (a SKU or a count that only the driver refuses),
`ProbeFailed` (a probe whose client has left) and `ToldAsTheirs` (a stored product that `Recommend` refuses). Each is
in section 5.

### Generator

`generate` for one entry of the catalogue: each day a delivery (`Deliver`, which puts it off during a supply gap), a
day of sales (`Sell`) and on every third day an order (`Reorder`); then `Close`. The demand of a day is any member of
`Demands`, since noise has no ceiling; weekday shape, trend, noise and `poisson` only choose among them. `incoming` is
the map of the code, and `ordered` a history variable. `BaseDemand` is in hundredths and the two policies are exact
fractions, where the code takes the ceiling of a `float64`: an opening stock or a target may differ by the unit that
floating point adds at a whole number.

### Dashboard

`loads` are the calls of `loadData`, each at one of its awaits: the list, the verdicts that arrive in any order, the
end of `Promise.allSettled`. `cards` are the rows, each with the load that listed it and the loads whose recommendation
and error it shows; `Settled` keeps what a row had, as the spread does. In StrictMode the effect runs twice, so two
loads cross; otherwise a second load needs Retry, which is part of the error banner. Other lists of products may come
with every load. What is drawn from this state is left out.

## 3. Runs

All runs are listed in `PROJECT.json`; every property of a passing run has a mutant of the code that breaks it.

| Run | Shows | Bounds, and why they are enough |
|---|---|---|
| `migrate_safe` | record and tables agree, the lock excludes, no plan is stale, reports are honest, and `SchemaHistory` is implemented | two runs of any of the four commands; three migrations of which 3 uses 1 and 2 was merged after 3 was deployed, with two builds. Two runs are the least that interfere; the proofs cover any number |
| `migrate_live` | every run returns, the lock is freed | two runs, one migration: what is waited for is the lock, not the migrations |
| `replenish` | five properties of the quantity and its explanation | half units; leads and reviews 0..2, cases 0, 1, 4, minimums 0, 3, 5, shelf lives 0, 1, 3: cases and minimums that do not divide each other, and each limit met, missed and crossed by half a unit |
| `sales_writes` | acknowledged figures are stored; `SalesLedger` is implemented | a figure and its correction, each sent up to twice, and a run of the generator |
| `sales_reads` | no torn product, one answer per SKU, no request starves | one single and one batch request (with a repeated SKU) beside a post and a generator run over two SKUs, one of them set up before, with or without a position; a pool of one connection, the size at which holding one while asking for another would deadlock |
| `sales_correction` | *violated*, see below | a figure and its correction, each sent once |
| `demand` | the window, level and variance | five dates with gaps, a window of four, a slack of two, weeks of two days; seen from a day that has figures of the future, from within the slack, from its end and beyond it |
| `demand_bridge` | *violated*: a run of stockouts at the start of the window | the same |
| `server` | clean exits, drains, bounded queries, delivered answers, boots with what it can run with, and that a signal ends the process | two connections; request 1..2, write 1..3, read 1..3, shutdown 1, 2, 4, header 1: every order of the five timeouts that matters, with ties; and every pair of settings with values on both sides of each limit, two faults at once being what one check may hide of another. `Half` is 16, so that 17 wraps to a negative number and 34 to a small one |
| `api` | log and wire agree, the status blames rightly, 200 is true, one document | every method on every path, preflight or not; a sale and a batch with every combination of what may be wrong with them, so that the order of the checks matters, SKUs and counts that only the driver refuses included; a panic, a deadline or a departure at any point, and each failure of the database |
| `generator` | the books balance, deliveries are due, each day is marked as it was (an action property), no overstock | nine days, three orders; leads 1, 2, 4, on both sides of the three days between orders; gaps of 0, 1, 4 and 9 days from day 3 or 4, the last one beyond the end; cases of 1 and 3; demands of 0, 1 and 3 against a base of 0.3 and 1 |
| `dashboard` | every card settles, the newest load shows | three loads and two products, with and without StrictMode: two loads that cross and a retry after them |

A type invariant is listed where arithmetic could leave its type: in `demand`, where a divisor could be zero, and in
`generator`, where stock could fall below nothing. The others are left to the theorems.

**Fairness.** `Migrator`: a live program takes a reply that is there; every context has a timeout, so `Expire` comes
(`cmd/server/main.go:124`, `cmd/migrate/main.go:55`); sessions of dead processes end; Postgres serves the unlock, which
has no timeout. Nothing is asked of any other statement: a migration may hang. `SalesService`: Postgres answers, and
pgxpool hands free connections to waiters; timeouts are not needed and not assumed. `Api`, `Generator` and
`Dashboard` promise nothing that needs fairness: a handler may be stuck in its body for ever, the loop of `generate` is
bounded, and `fetch` has no timeout. `Server`: time passes, the main
goroutine and the handlers run, and pgx gives a query up once its context is done; nothing is asked of clients, of
queries within their deadline, or of the listener.

**Deadlock** is checked in every run. Where everything has ended the modules say so with a stuttering step of their
own (`Done`, `Quiet`, `Gone` and their like), so that any other state without a successor is an error.

## 4. Proofs

`MigratorProofs` proves, for any set of runs, versions, builds and commands:

| Theorem | Says |
|---|---|
| `Invariance`, `TypeCorrectness` | `Spec => []Inductive`, and with it `TypeOK` |
| `RecordIsTrue` | the tables are those on record (`SchemaMatchesRecord`) |
| `MutualExclusion` | only the holder of the lock has changes in flight |
| `PlanNeverStale`, `NoReplicaCollides` | a run's plan is what the table says; no SQL is sent twice or without its needs |
| `NoOrphans` | no migration is left without what it needs |
| `SuccessIsComplete`, `ReportTruthful` | success means done, and the list is what was done |
| `Refinement` | `Migrator` implements `SchemaHistory` |

The safety properties are not inductive: `SchemaMatchesRecord` needs to know what the open transaction holds, that
needs who has the lock, and that needs which statement each session is at. `Inductive` is the conjunction of

* `LockExact`: a session holds the lock exactly between its grant and its release, told from the last statement;
* `TxnShape`: what the open transaction has done, told from the statement it is at;
* `SessionShape`: which states of a session and of its program go together;
* `PlanShape`: `todo` and `target` are what the table says while the run migrates;
* `ReportShape`: by how much `reported` may lag `changed`;
* `TypeOK`, `SchemaMatchesRecord`, `PrerequisitesKept`.

The argument: only `CommitTxn` changes the tables or their records (`OnlyCommitChanges`), and it changes one migration,
in the right order (`CommitEffect`); so the database takes a step of `SchemaHistory` or none (`HistoryStep`), which
keeps the last two conjuncts (`HistoryKeeps`). The lock keeps the plan of every other run true while one commits
(`OthersPlanStep`), and the run itself re-establishes its own from the reply it takes (`OwnPlanStep`).

The assumptions are those of `MigratorAssumption`: a migration uses tables of lower versions only, and a build that
embeds a migration embeds what it needs. Nothing is assumed about the order of runs or about which builds they are.

`ReplenishProofs` proves, for every scale, product and signal, with fractions of units and any safety stock:

| Theorem | Says |
|---|---|
| `Invariance`, `TypeCorrectness` | `Spec => []Inductive`, and with it `TypeOK` |
| `NeedIsNeverNegative` | an order is computed only below the target (`NeverOverTarget`) |
| `ListExplains` | the list of limits leads from the need to the answer (`AuditTrail`) |
| `VendorShips` | whole cases, at least the minimum (`VendorAccepts`) |
| `NeedIsCovered`, `ExcessIsBounded` | the need is covered to half a unit, and exceeded by less than a case (`CoversNeed`, `NoExcess`) |
| `CeilingHolds`, `NothingIsLifted` | only the minimum exceeds the ceiling, and it never lifts nothing (`CeilingUnlessMinimum`, `NothingStaysNothing`) |

What is known of the quantity depends on the stage, so the invariant has one conjunct for each (`BeforeLimits`,
`AfterShelfLife`, `AfterCases`, `AfterRecheck`, `AfterMinimum`), beside what holds throughout (`Computing`,
`WholeCases`, `OverByCase`, `ListShape`), and each action takes one conjunct to the next. Under it lie lemmas on whole
division (`Quotient`, `QuotientUnique`), on the rounding of the code (`RoundBounds`, `RoundExact`, `RoundReaches`) and
on multiples of a case (`DownToBounds`, `UpToBounds`). `ReplenishAssumption` says that parameters are natural numbers
and that a unit has at least one part.

Three more theorems are about the decision as a whole, written down as a function `OrderOf` of a product and a signal:

| Theorem | Says |
|---|---|
| `AnswerIsTheFunction` | what is answered, held or ordered, is its value (`IsTheFunction`) |
| `ScarcityOrdersNoLess` | with the same terms, less stock or more demand never leads to a smaller order (`ScarcerOrdersNoLess`) |
| `OrderLastsTheReview` | with an order on its way that shelf life did not cut, the position is above the reorder point (`OneOrderIsEnough`) |

The first is the invariant `Along`, that each stage has what the function has made of the arguments so far. For the
second, each limit is monotone by itself, though cases go up, the recheck goes down and the minimum goes up again: the
recheck leaves whole cases that the ceiling allows as they are (`RecheckedGrows`), and whole cases that reach the
minimum are not under what it is lifted to (`LiftedGrows`). The third asks that half a unit or more sells in a review
period; with less, a need that the rounding dropped remains, and a second request may order again. These compare
answers to different arguments, which no run lists; TLC checked them, as it did `Along`, on a grid of half units.

`SalesProofs` proves, for any posts, retries, requests, catalogs and sizes of the pool:

| Theorem | Says |
|---|---|
| `Invariance`, `TypeCorrectness` | `Spec => []Inductive`, and with it `TypeOK` |
| `AcknowledgedIsStored` | an acknowledged figure is stored, or gave way to one that was sent (`AckedMeansStored`) |
| `ProductsAreWhole` | no request reads a product of one edition with another's position, or an edition without its position (`NoTornProduct`) |
| `EverySkuIsAnswered` | a request is answered for each SKU it asked for, once and in order (`OneAnswerPerSku`) |
| `Refinement` | `SalesService` implements `SalesLedger` |

`AckedMeansStored` alone is not inductive: the acknowledgement comes after the write, and between them other copies
write. `PostShape` therefore says that a figure is stored from the moment its statement succeeded, that only posts
past the check of the product write (which the ledger asks for), and that a copy is preceded by the first one, so that
a figure that overwrites another was sent. `SeedShape` says that the generator writes histories of the edition its
product has, and `RowsTogether` that the two rows of a product are of one edition, or the position is missing and no edition has
written the product; that is what a request then sees. The lemmas
`ReadingStep`, `PostingStep` and `SeedStep` give the effect of each actor; `Steps` puts them together.
`ServiceAssumption` types the parameters; of the pool it says only that it has a connection.

`EverySkuIsAnswered` is about the loop that drops repeated SKUs. `DistinctIs` is its loop invariant, by induction on
the length of the list: after n turns it has kept exactly the SKUs among the first n, each at the place of its first
mention.

`ApiProofs` proves, for any set of requests:

| Theorem | Says |
|---|---|
| `Invariance`, `TypeCorrectness` | `Spec => []Inductive`, and with it `TypeOK` |
| `LogTellsTheWire` | the access log has the status that was sent (`LineMatchesWire`) |
| `BlameFallsRight` | 4xx, 5xx, 404 and 405 are told to whom they should be, with the three exceptions of section 2 and no others (`BlameIsRight`) |
| `AnswerTellsStore` | 200 and 4xx tell whether the sale is stored (`AckIffStored`) |
| `NeverTwoDocuments` | one answer is one document (`OneDocument`) |

A property of the answer is not inductive, because the answer is decided long before it is written. `PlanShape` says
that a check no longer on the handler's list was passed, `AnswerShape` that the status it settled on blames the right
party (or is one of the exceptions), `WireShape` how far the wire, the recorder and the body have come, and `StackShape` where the request is and
what was logged. `PlanType`, `AtStage` and `Deciding` tie the list to the stage; `StackFrame` says that a step of the
middleware leaves the handler's part alone.

`ServerProofs` proves, for any environments, any number of connections and any timeouts:

| Theorem | Says |
|---|---|
| `Invariance`, `TypeCorrectness` | `Spec => []Inductive`, and with it `TypeOK` |
| `ZeroIsClean`, `DrainTakesItsTime` | what exit code 0 and a severed client mean (`CleanExit`, `DrainIsGiven`) |
| `NoQueryLingers`, `NoAnswerLost` | queries end with their request and answers arrive (`QueriesAreBounded`, `AnswersAreDelivered`) |
| `BootMeansUsable` | `LoadConfig` accepts what can be run with, NaN and wrapping apart (`AcceptedIffUsable`) |

`ListenerShape` and `StageShape` say which listeners, codes and drains go with a stage, `ClientShape` when a client can
have been severed, and `AgeShape` how old a request can be by where it is. That the write timeout exceeds the request
timeout is a conjunct of its own: it is what `LoadConfig` establishes.

`DashboardProofs` proves `Invariance`, `TypeCorrectness`, `EveryCardSettles` (`CardsSettle`) and `NewestShows`
(`NewestLoadShows`) for any products and number of loads: a card without a verdict has a load under way that will
settle it (`CardsAwait`), and without StrictMode all loads but the newest are through (`OneAtATime`).

`GeneratorProofs` proves, for any catalogue, any demand and any length of history:

| Theorem | Says |
|---|---|
| `Invariance`, `TypeCorrectness` | `Spec => []Inductive`, and with it `TypeOK`: no stock below nothing |
| `NoDeliveryIsMissed` | no delivery is booked for a day that has passed (`PendingIsDue`) |
| `StockIsSimulated` | units are conserved, and the closing position is what they come to (`BooksBalance`) |
| `LostDemandIsMarked` | the row of a day is marked exactly when its demand was more than it sold, and the totals count just that (`StockoutsAreMarked`) |
| `BuyerKeepsToTarget` | shelf and deliveries stay under the opening stock, or the target and a case (`NeverOverstocked`) |

What is on its way is a sum over a map, so the lemmas are about sums: what a fold over a finite set is after one
member is taken out (`SumTakenOut`), that it does not depend on the order (`AnyFirst`), and what taking the deliveries
of a day and booking one do to the total (`TakenTotal`, `BookedTotal`). `StockoutsAreMarked` is a property of steps: `SellMarks`
shows it of a day of sales from `TypeOK`, and no other action touches a row or the totals. Beside the state properties,
`Inductive` needs only `Running`, that the clock stops at the end of the history and the map is finite. `GeneratorAssumption` types the
catalogue and asks for lead times of a day or more, which the entries of `catalog.go` satisfy.

`DemandProofs` proves, for any history, window, slack, length of the week and weight:

| Theorem | Says |
|---|---|
| `Invariance`, `TypeCorrectness` | `Spec => []Inductive`, and with it `TypeOK`: no divisor is zero |
| `FetchIsWideEnough` | the cutoff of the query takes nothing from the estimate unless reports are later than the slack and a day (`SlackCoversLateReports`) |
| `FactorsAreClamped` | a weekday factor is between a half and two (`FactorsClamped`) |
| `LevelIsObserved` | the level is between two observations, and within a factor two of what was sold (`LevelWithinObserved`) |
| `VarianceIsObserved` | the variance is at most the square of a distance between observations (`VarianceBounded`) |
| `SteadyDemand` | constant sales are found as they are, without a deviation (`SteadyDemandIsFound`) |

The properties speak of the end of the smoothing; `Inductive` says the same of every turn. `Bracketed` has the level
between two observations, which a weighted mean keeps (`SmoothedBetween`); `Spreading` bounds the variance, of which a
turn keeps the share `1 - Alpha` and adds `Alpha (1 - Alpha)` times the square of a residual that `Bracketed` bounds
(`DampedBelow`); `Steady` is the case of equal observations; `Chosen` says which rows are considered at each stage and
`Seasonal` that the factors are those of the observations. Under it lie the fractions: Euclid's algorithm terminates
and divides both (`GcdExists`, `GcdDivides`), so a fraction can be compared by cross multiplication (`FracValue`), the
sums behind the means, and the clamp (`FactorBounds`), which is never asked for a zero mean. `DemandAssumption` says
that `Alpha` is a fraction above 0 and not above 1, as `LoadConfig` checks (NaN apart, see below), that the window and
the week have a day, and that the rows are finitely many.

The library's induction theorems take an operator, which cannot be instantiated here. These modules and `SalesProofs`
prove induction for a set of numbers instead, from the library's theorem that `<` is well founded (`LeastOf`,
`Induction`); with it a recursive function is shown to exist and to satisfy its own equation (`SumExists`,
`GcdExists`, `KeepingExists`). The few lemmas on induction and on sums are repeated where they are needed.

TLC checked each `Inductive` as an invariant before it was proved; no run lists it, since the theorems do.

Every safety property, action property and refinement that a passing run lists is a theorem. Only model-checked are
the liveness properties (`EveryRunReturns`, `LockIsFreed`, `NoRequestStarves`, `SignalEnds`), which rest on fairness
and so on ENABLED, out of the prover's reach.

## 5. Where code and comments part

Each of these is a run that TLC finds violated, with the lines quoted under `findings`:

* `sales_correction`: a correction "should win"; a retry, or a late statement, of the old figure replaces it.
* `demand_bridge`: the slack of the query "means a run of stockouts at the start of the window does not leave us
  short of uncensored observations" (`service.go:215`); the trim to the window comes before the censoring, so it does.
  Today is 5 and the window is the days 2 to 5: the stockouts are 2, 3 and 4, the days 5 and 1 were observed, two
  would be enough, and day 1, which the slack has fetched, is cut off.

Others were met while modelling and have no run. The positive property that does hold is named.

* `migrate.go:109`: `Rollback` "reverts the most recently applied migration"; it reverts the highest version, which is
  another one when a build brought a lower version late (`ImplementsHistory`).
* `reorder.go:120`: an order "capped at" the floor of what sells is rounded, and may be one unit over it
  (`CeilingUnlessMinimum`).
* `migrate.go:102` returns the list of what was applied alongside an error; a COMMIT whose reply is lost is not on it
  (`ReportIsHonest`: at most that one is missing).
* `migrate.go:177`: "every entry point needs the identical dance", but `AppliedMigrations` creates the table without
  the lock.
* `reorder.go:79` calls shelf life "a hard ceiling", but the vendor's minimum is applied after it
  (`CeilingUnlessMinimum`; the theorem `NothingIsLifted`).
* `reorder_test.go:156`: a constraint that "did not change the number is noise"; one that takes off a fraction is
  listed with equal numbers (`AuditTrail`).
* `cmd/seed/main.go:139`: a history that ended more than the window ago gives 422; up to the slack it is still
  estimated from (`SlackCoversLateReports`).
* `middleware.go:227`: Timeout "bounds how long a request may run"; reading a slow body is bounded by `READ_TIMEOUT`
  only (`QueriesAreBounded`).
* `main.go:211`: "the drain timeout should exceed the request timeout"; `LoadConfig` does not compare them
  (`DrainIsGiven` holds all the same). `docker-compose.yml` grants 30 s against a drain of 20 s, which is right.
* `errors.go:79`: "5xx means we broke; 4xx means the caller did". A count of units too wide for its column and a SKU
  that Postgres cannot take as text pass every check and come back as 500 (`BlameIsRight` with `ToldAsOurs`).
* `handlers.go:235` and `service.go:152`: one bad SKU of a batch "must not sink the other ninety-nine"; one with a NUL
  fails the query that reads all of them, and the batch is a 500 (`ToldAsOurs`).
* `errors.go:153`: a client that hung up gets 499, which "keeps these out of the 5xx error rate"; `handleReadyz`
  (`handlers.go:310`) does not ask why its ping failed and answers 503 (`BlameIsRight` with `ProbeFailed`).
* `errors.go:135`, asserted by `api_test.go:207`: `ErrInvalidProduct` is 400. `Recommend` (`reorder.go:38`) returns it
  for a product that is stored, where the caller has done nothing wrong (`ToldAsTheirs`). The constraints of
  `0001_init` mirror `Validate`, so it takes rows from before them or a schema without them.
* `postgres.go:361`: a product without its position row "is a state no reader should ever observe", of which
  `postgres.go:57` says that it "is a real state", and `TestGetProductWithoutStockPosition` that it reads as zero. The
  second is what the code does; of the first what holds is `NoTornProduct`, that the transaction of `UpsertProduct`
  never shows by halves.
* `handlers.go:368` gives 413 for a body over the limit; when the object fits and only what follows it exceeds the
  limit, the answer is 400.
* `middleware.go:157` and `router.go:93`: the access line records the 500 that `Recover` produced; if the status line
  was out before the panic, it records a 500 that the client never got (`LineMatchesWire`).
* `config.go:56`: a misconfigured deployment "reports all its faults in one boot"; a value that does not parse falls
  back to its default before the cross-field checks, which may hide a conflict or report one nobody wrote.
* `config.go:144`: `DEMAND_ALPHA=NaN` passes both comparisons, and the first recommendation is a 200 without a body.
  `config.go:104`: a number of connections beyond 32 bits wraps before it is checked (`AcceptedIffUsable`).
* `router.go:149`: HEAD is served with GET but never named in `Allow` (`BlameIsRight`).
* `App.tsx:116`: a row keeps the error of one load beside the recommendation of another when two cross in StrictMode;
  the card is then drawn as an error (`NewestLoadShows` is stated outside of StrictMode).

## 6. Not modelled

* The fields of responses, request ids, the CORS headers and the text of log lines: no property is about them.
  `ADDR` and `CORS_ALLOWED_ORIGINS` take any text and are not settings of `Config`.
* What `demandFor` draws, the entries of the catalogue, and the statements an aborted generator leaves behind; they are
  assumed to be over before it is started again. `Days` are those the generator covers.
* One query in `Server` stands for the one or two of a request. `Server`, `SalesService` and `Api` look at the same
  requests from three sides, in time, over the shared pool and through the layers, and are not composed: what they
  share is the answer of a request and its fate, which `Api` takes as any.
* A saturated pool as `readyz` sees it: its ping may fail whenever it likes, and nothing in the code says what a full
  pool should read as.
* A COMMIT that fails at the end of the pipelined batch of `RecordSalesDays`, whose error is dropped.
* The build and the deployment.
* `ExpectedDemandOn`, which no decision uses.

## 7. Plan

Done, in this order: `SchemaHistory` and `Migrator` (what can damage data), `Replenish` (what the system is for),
`SalesLedger` and `SalesService`, `Fractions` and `Demand`, `Server`, `MigratorProofs`, `ReplenishProofs`,
`SalesProofs`; then `Generator`, `Dashboard`, `Config`, `Api`, `ServerProofs`, `DashboardProofs`, `ApiProofs` and
`GeneratorProofs`; then the sums of `GeneratorProofs`, `DemandProofs`, the answers of a batch in `SalesProofs` and the
monotony of the decision in `ReplenishProofs`.

Next:

1. The safety half of liveness in `Migrator` and `SalesService`: that some step of the program or the database is
   possible in every state that is not final (`~Quiet` implies an enabled action, stated without ENABLED, by the guards).
2. In `DemandProofs`, that more sold on a day never lowers the level where all weekday factors are one.
