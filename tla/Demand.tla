------------------------------- MODULE Demand -------------------------------
(* The estimate of internal/inventory/demand.go for one SKU, from the rows of *)
(* sales_days to the smoothed level and variance, with the cutoff that        *)
(* service.go puts on the query.  Dates are day numbers, and a slice of rows in *)
(* the order of their dates, which a SKU has once each, is the set of these;   *)
(* float64 is replaced by exact fractions; sqrt(variance) is left as the       *)
(* variance.                                                                  *)
EXTENDS Fractions, FiniteSetsExt

CONSTANTS
  Dates,         \* the dates of the rows
  Todays,        \* the dates on which the estimate is asked for
  Units,         \* the units sold on a day
  Window,        \* HISTORY_WINDOW_DAYS
  Slack,         \* historyFetchSlackDays
  Week,          \* the number of weekdays
  Alpha          \* DEMAND_ALPHA, a fraction

ASSUME DemandAssumption ==
  /\ Dates \subseteq Int /\ IsFiniteSet(Dates)
  /\ Todays \subseteq Int
  /\ Units \subseteq Nat
  /\ Window \in Nat \ {0} /\ Slack \in Nat /\ Week \in Nat \ {0}
  /\ Alpha \in Fraction /\ Alpha.n > 0 /\ Alpha.n <= Alpha.d

VARIABLES
  sales,         \* the rows: units and stockout of the dates that have one
  today,         \* s.now()
  stage,         \* what is to be done next
  days,          \* the dates still considered
  factors,       \* DayOfWeekFactors
  ahead,         \* the dates of the observations still to smooth in
  level,         \* AverageDailyDemand
  variance,      \* DemandStdDev squared
  censored       \* CensoredDays

vars == <<sales, today, stage, days, factors, ahead, level, variance, censored>>

Rows == DOMAIN sales
Weekday(d) == d % Week
Zero == Whole(0)
One == Whole(1)
Neutral == [w \in 0..(Week - 1) |-> One]

Init ==
  /\ sales \in UNION {[D -> [units : Units, stockout : BOOLEAN]] : D \in SUBSET Dates}
  /\ today \in Todays
  /\ stage = "fetch"
  /\ days = {}
  /\ factors = Neutral
  /\ ahead = {}
  /\ level = Zero
  /\ variance = Zero
  /\ censored = 0

\* Mutant: the query asks for the window and nothing more.
FetchWithoutSlack ==
  /\ stage = "fetch"
  /\ days' = {d \in Rows : d >= today - Window}
  /\ stage' = IF days' = {} THEN "noHistory" ELSE "trim"
  /\ UNCHANGED <<sales, today, factors, ahead, level, variance, censored>>

\* GetSalesHistory(sku, historyCutoff()); no row: ErrEmptySalesHistory.
Fetch ==
  /\ stage = "fetch"
  /\ days' = {d \in Rows : d >= today - (Window + Slack)}
  /\ stage' = IF days' = {} THEN "noHistory" ELSE "trim"
  /\ UNCHANGED <<sales, today, factors, ahead, level, variance, censored>>

\* The window counts back from the most recent observation.
Trim ==
  /\ stage = "trim"
  /\ days' = {d \in days : d > Max(days) - Window}
  /\ stage' = "censor"
  /\ UNCHANGED <<sales, today, factors, ahead, level, variance, censored>>

\* Mutant: the stockout days stay.
CensorNothing ==
  /\ stage = "censor"
  /\ stage' = IF Cardinality(days) < 2 THEN "insufficient" ELSE "factors"
  /\ UNCHANGED <<sales, today, days, factors, ahead, level, variance, censored>>

\* Mutant: the counts are subtracted the wrong way round.
CensorMiscounted ==
  /\ stage = "censor"
  /\ days' = {d \in days : ~sales[d].stockout}
  /\ censored' = Cardinality(days') - Cardinality(days)
  /\ stage' = IF Cardinality(days') < 2 THEN "insufficient" ELSE "factors"
  /\ UNCHANGED <<sales, today, factors, ahead, level, variance>>

\* Fewer than two uncensored days: ErrInsufficientHistory.
Censor ==
  /\ stage = "censor"
  /\ days' = {d \in days : ~sales[d].stockout}
  /\ censored' = Cardinality(days) - Cardinality(days')
  /\ stage' = IF Cardinality(days') < 2 THEN "insufficient" ELSE "factors"
  /\ UNCHANGED <<sales, today, factors, ahead, level, variance>>

Total(S) == SumFunction([d \in S |-> sales[d].units])
Mean(S) == Frac(Total(S), Cardinality(S))

\* computeDayOfWeekFactors: the mean of the weekday over the flat mean, between
\* a half and two; 1 for a weekday seen less than twice.
Factor(w) ==
  LET seen == {d \in days : Weekday(d) = w} IN
    IF Cardinality(seen) < 2 \/ Total(days) = 0 THEN One
    ELSE Least(Whole(2), Greatest(Frac(1, 2), Over(Mean(seen), Mean(days))))

Deseasonalize(d) == Over(Whole(sales[d].units), factors[Weekday(d)])

Seasonality ==
  /\ stage = "factors"
  /\ factors' = [w \in 0..(Week - 1) |-> Factor(w)]
  /\ stage' = "start"
  /\ UNCHANGED <<sales, today, days, ahead, level, variance, censored>>

\* The smoother starts from the oldest observation,
Start ==
  /\ stage = "start"
  /\ level' = Deseasonalize(Min(days))
  /\ ahead' = days \ {Min(days)}
  /\ stage' = "smooth"
  /\ UNCHANGED <<sales, today, days, factors, variance, censored>>

\* Mutant: the level moves away from what was observed.
SmoothAway ==
  /\ stage = "smooth" /\ ahead # {}
  /\ LET residual == Minus(Deseasonalize(Min(ahead)), level) IN
       /\ variance' = Times(Minus(One, Alpha),
                            Plus(variance, Times(Alpha, Times(residual, residual))))
       /\ level' = Minus(level, Times(Alpha, residual))
  /\ ahead' = ahead \ {Min(ahead)}
  /\ UNCHANGED <<sales, today, stage, days, factors, censored>>

\* Mutant: the squares are summed and not smoothed.
SmoothSum ==
  /\ stage = "smooth" /\ ahead # {}
  /\ LET residual == Minus(Deseasonalize(Min(ahead)), level) IN
       /\ variance' = Plus(variance, Times(residual, residual))
       /\ level' = Plus(level, Times(Alpha, residual))
  /\ ahead' = ahead \ {Min(ahead)}
  /\ UNCHANGED <<sales, today, stage, days, factors, censored>>

\* and takes in one observation after the other.
Smooth ==
  /\ stage = "smooth" /\ ahead # {}
  /\ LET residual == Minus(Deseasonalize(Min(ahead)), level) IN
       /\ variance' = Times(Minus(One, Alpha),
                            Plus(variance, Times(Alpha, Times(residual, residual))))
       /\ level' = Plus(level, Times(Alpha, residual))
  /\ ahead' = ahead \ {Min(ahead)}
  /\ UNCHANGED <<sales, today, stage, days, factors, censored>>

Finish ==
  /\ stage = "smooth" /\ ahead = {}
  /\ stage' = "estimated"
  /\ level' = Greatest(Zero, level)
  /\ UNCHANGED <<sales, today, days, factors, ahead, variance, censored>>

Answers == {"noHistory", "insufficient", "estimated"}
Stop == stage \in Answers /\ UNCHANGED vars

Next == Fetch \/ Trim \/ Censor \/ Seasonality \/ Start \/ Smooth \/ Finish \/ Stop

Spec == Init /\ [][Next]_vars

-------------------------------------------------------------------------------
(* Properties.                                                                *)

\* Every variable has its type.
TypeOK ==
  /\ Rows \subseteq Dates
  /\ today \in Todays
  /\ stage \in Answers \cup {"fetch", "trim", "censor", "factors", "start", "smooth"}
  /\ days \subseteq Rows /\ ahead \subseteq days
  /\ factors \in [0..(Week - 1) -> Fraction]
  /\ level \in Fraction /\ variance \in Fraction
  /\ censored \in 0..Cardinality(Dates)

Latest == Max(Rows)

\* The days of the window, as fetched.
InWindow(d) == d > Latest - Window /\ d >= today - (Window + Slack)

\* The days of the whole table that ComputeDemandStats would use.
Usable == {d \in Rows : d > Latest - Window /\ ~sales[d].stockout}

\* historyFetchSlackDays: as long as reports are no more than the slack and a day
\* late, the cutoff of the query takes nothing from the estimate.
SlackCoversLateReports ==
  stage \in Answers \ {"noHistory"} /\ today - Latest <= Slack + 1 => days = Usable

\* The smoothed level stays between the lowest and the highest deseasonalized
\* observation, and so within a factor two of what was sold.
LevelWithinObserved ==
  stage = "estimated" =>
    /\ \E d \in days : AtMost(Deseasonalize(d), level)
    /\ \E d \in days : AtMost(level, Deseasonalize(d))
    /\ \E d \in days : AtMost(Frac(sales[d].units, 2), level)
    /\ \E d \in days : AtMost(level, Whole(2 * sales[d].units))

\* The variance is that of what was observed: no more than the square of the
\* widest distance between two deseasonalized observations.
VarianceBounded ==
  stage = "estimated" =>
    /\ AtMost(Zero, variance)
    /\ \E d, e \in days :
         LET distance == Minus(Deseasonalize(d), Deseasonalize(e)) IN
           AtMost(variance, Times(distance, distance))

\* When the same was sold on every day that was not a stockout, that is the
\* estimate, without any deviation, whatever the stockout days report.
SteadyDemandIsFound ==
  stage = "estimated" =>
    \A u \in Units :
      (\A d \in Rows : InWindow(d) /\ ~sales[d].stockout => sales[d].units = u)
        => level = Whole(u) /\ variance = Zero

-------------------------------------------------------------------------------
(* What comments say and the code does not do.                                *)

\* The stockouts of the window are a run at its start, and then it is observed.
StockoutsAtStart ==
  LET window == {d \in Rows : d > Latest - Window} IN
    \E first \in window : \A d \in window : sales[d].stockout <=> d < first

\* service.go:214: fetching more than the window "means a run of stockouts at the
\* start of the window does not leave us short of uncensored observations": when
\* the estimator says it is short after such a run, without a gap in the rows or
\* a figure of the future, what was fetched holds less than two observations.
StockoutsAreBridged ==
  /\ stage = "insufficient" /\ StockoutsAtStart
  /\ Latest <= today /\ \A d \in Dates : d <= Latest => d \in Rows
  => Cardinality({d \in Rows : d >= today - (Window + Slack) /\ ~sales[d].stockout}) < 2
==============================================================================
