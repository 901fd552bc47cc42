---------------------------- MODULE DashboardProofs ----------------------------
(* The safety properties of Dashboard for any products and any number of      *)
(* loads.                                                                     *)
EXTENDS Dashboard, TLAPS

(* What a step leaves alone if it only extends the list of loads.             *)
LEMMA Extended ==
  ASSUME NEW calls \in Seq(Load), NEW s \in Seq(Load)
  PROVE  /\ s \o calls \in Seq(Load)
         /\ Len(s \o calls) = Len(s) + Len(calls)
         /\ \A i \in 1..Len(s) : (s \o calls)[i] = s[i]
         /\ \A i \in 1..Len(calls) : (s \o calls)[Len(s) + i] = calls[i]
  OBVIOUS

(* A new load waits for its list, and has asked for no verdict.               *)
LEMMA NewLoadType == NewLoad \in Load /\ NewLoad.stage = "listing"
<1>1. [s \in {} |-> "pending"] \in [{} -> {"pending", "ok", "failed"}]
  OBVIOUS
<1>2. [s \in {} |-> "pending"] \in UNION {[products -> {"pending", "ok", "failed"}] : products \in SUBSET Skus}
  BY <1>1
<1> QED
  BY <1>2 DEF NewLoad, Load

(* The verdicts of a load are about products there may be.                    *)
LEMMA VerdictsType ==
  ASSUME NEW load \in Load
  PROVE  /\ DOMAIN load.verdicts \subseteq Skus
         /\ load.verdicts \in [DOMAIN load.verdicts -> {"pending", "ok", "failed"}]
  BY DEF Load

LEMMA LoadType ==
  ASSUME NEW stage \in {"listing", "fetching", "done"}, NEW products \in SUBSET Skus,
         NEW verdicts \in [products -> {"pending", "ok", "failed"}]
  PROVE  [stage |-> stage, verdicts |-> verdicts] \in Load
  BY DEF Load

LEMMA InductiveInit == Init => Inductive
<1> SUFFICES ASSUME Init PROVE Inductive
  OBVIOUS
<1>1. DOMAIN cards = {} /\ cards \in [{} -> Card] /\ loads = <<>> /\ ~error
  BY DEF Init, NoCards
<1>2. <<>> \in Seq(Load)
  OBVIOUS
<1>3. TypeOK
  BY <1>1, <1>2 DEF TypeOK, Init
<1>4. CardsAwait /\ LoadingIsTrue /\ OneAtATime /\ NewestLoadShows
  BY <1>1 DEF CardsAwait, LoadingIsTrue, OneAtATime, NewestLoadShows
<1> QED
  BY <1>3, <1>4 DEF Inductive

(* What a step does to one load keeps the type of the list.                   *)
LEMMA Replaced ==
  ASSUME loads \in Seq(Load), NEW l \in DOMAIN loads, NEW load \in Load,
         loads' = [loads EXCEPT ![l] = load]
  PROVE  /\ loads' \in Seq(Load) /\ Len(loads') = Len(loads) /\ DOMAIN loads' = DOMAIN loads
         /\ loads'[l] = load /\ \A k \in DOMAIN loads : k # l => loads'[k] = loads[k]
  OBVIOUS

LEMMA BeginStep ==
  ASSUME Inductive, NEW calls, calls = <<NewLoad>> \/ (strict /\ calls = <<NewLoad, NewLoad>>),
         Begin(calls), UNCHANGED <<strict, cards>>, loads = <<>> \/ error
  PROVE  Inductive'
<1> USE DEF Inductive
<1>1. calls \in Seq(Load) /\ calls # <<>> /\ Len(calls) \in Nat
      /\ \A i \in 1..Len(calls) : calls[i].stage = "listing"
  <2>1. CASE calls = <<NewLoad>>
    BY <2>1, NewLoadType
  <2>2. CASE calls = <<NewLoad, NewLoad>>
    BY <2>2, NewLoadType
  <2> QED
    BY <2>1, <2>2
<1>2. /\ loads' \in Seq(Load) /\ Len(loads') = Len(loads) + Len(calls) /\ Len(calls) > 0
      /\ \A i \in 1..Len(loads) : loads'[i] = loads[i]
      /\ \A i \in 1..Len(calls) : loads'[Len(loads) + i] = calls[i]
  BY <1>1, Extended DEF Begin, TypeOK
<1>3. TypeOK'
  BY <1>2 DEF TypeOK, Begin
<1>4. DOMAIN loads = 1..Len(loads) /\ DOMAIN loads' = 1..Len(loads') /\ Len(loads) \in Nat
  BY <1>2 DEF TypeOK
<1>5. CardsAwait'
  BY <1>2, <1>4 DEF CardsAwait
<1>6. LoadingIsTrue'
  <2>1. Len(loads') \in DOMAIN loads' /\ loads'[Len(loads')].stage = "listing"
    BY <1>1, <1>2, <1>4
  <2> QED
    BY <2>1 DEF LoadingIsTrue
<1>7. ASSUME ~strict PROVE OneAtATime' /\ NewestLoadShows'
  <2>1. calls = <<NewLoad>> /\ Len(calls) = 1
    BY <1>7
  <2>2. DOMAIN cards = {}
    BY <1>7 DEF OneAtATime
  <2>3. Len(loads') = Len(loads) + 1 /\ loads'[Len(loads')] = NewLoad
    BY <1>2, <2>1
  <2>4. \A l \in DOMAIN loads : loads[l].stage = "done"
    BY <1>4, <1>7 DEF OneAtATime, Newest
  <2> QED
    BY <1>2, <1>4, <2>2, <2>3, <2>4, NewLoadType DEF OneAtATime, NewestLoadShows, Newest, Begin
<1>8. strict => OneAtATime' /\ NewestLoadShows'
  BY DEF OneAtATime, NewestLoadShows
<1> QED
  BY <1>3, <1>5, <1>6, <1>7, <1>8

LEMMA ListArrivesStep ==
  ASSUME Inductive, NEW l \in DOMAIN loads, ListArrives(l)
  PROVE  Inductive'
<1> USE DEF Inductive
<1>1. PICK products \in SUBSET Skus :
        /\ loads' = [loads EXCEPT ![l] =
             [stage |-> "fetching", verdicts |-> [s \in products |-> "pending"]]]
        /\ cards' = [s \in products |-> [from |-> l, rec |-> 0, error |-> 0, loading |-> TRUE]]
  BY DEF ListArrives
<1>2. [stage |-> "fetching", verdicts |-> [s \in products |-> "pending"]] \in Load
  <2>1. [s \in products |-> "pending"] \in [products -> {"pending", "ok", "failed"}]
    OBVIOUS
  <2> QED
    BY <2>1, LoadType
<1>3. /\ loads' \in Seq(Load) /\ Len(loads') = Len(loads) /\ DOMAIN loads' = DOMAIN loads
      /\ loads'[l].stage = "fetching" /\ \A k \in DOMAIN loads : k # l => loads'[k] = loads[k]
  BY <1>1, <1>2, Replaced DEF TypeOK
<1>4. DOMAIN loads = 1..Len(loads) /\ Len(loads) \in Nat /\ l \in Nat
  BY DEF TypeOK
<1>5. TypeOK'
  <2>1. cards' \in [products -> Card] /\ DOMAIN cards' = products
    BY <1>1, <1>4 DEF Card
  <2> QED
    BY <1>3, <2>1 DEF TypeOK, ListArrives
<1>6. CardsAwait' /\ LoadingIsTrue'
  BY <1>3 DEF CardsAwait, LoadingIsTrue
<1>7. ASSUME ~strict PROVE OneAtATime' /\ NewestLoadShows'
  <2>1. l = Len(loads) /\ ~error
    BY <1>4, <1>7 DEF OneAtATime, Newest, ListArrives
  <2> QED
    BY <1>1, <1>3, <1>4, <1>7, <2>1 DEF OneAtATime, NewestLoadShows, Newest, ListArrives
<1>8. strict => OneAtATime' /\ NewestLoadShows'
  BY DEF OneAtATime, NewestLoadShows, ListArrives
<1> QED
  BY <1>5, <1>6, <1>7, <1>8

LEMMA ListFailsStep ==
  ASSUME Inductive, NEW l \in DOMAIN loads, ListFails(l)
  PROVE  Inductive'
<1> USE DEF Inductive
<1>1. loads[l] \in Load /\ DOMAIN loads = 1..Len(loads) /\ Len(loads) \in Nat /\ l \in Nat
  BY DEF TypeOK
<1>2. [loads[l] EXCEPT !.stage = "done"] \in Load
  BY <1>1 DEF Load
<1>3. /\ loads' \in Seq(Load) /\ Len(loads') = Len(loads) /\ DOMAIN loads' = DOMAIN loads
      /\ loads'[l].stage = "done" /\ \A k \in DOMAIN loads : k # l => loads'[k] = loads[k]
  <2>1. loads' = [loads EXCEPT ![l] = [loads[l] EXCEPT !.stage = "done"]]
    BY DEF ListFails
  <2> QED
    BY <1>1, <1>2, <2>1, Replaced DEF TypeOK, Load
<1>4. DOMAIN cards' = {} /\ cards' \in [{} -> Card] /\ error' = TRUE /\ loading' = FALSE
      /\ strict' = strict
  BY DEF ListFails, NoCards
<1>5. TypeOK'
  BY <1>3, <1>4 DEF TypeOK
<1>6. CardsAwait' /\ LoadingIsTrue'
  BY <1>4 DEF CardsAwait, LoadingIsTrue
<1>7. OneAtATime' /\ NewestLoadShows'
  <2>1. ~strict => l = Len(loads)
    BY <1>1 DEF OneAtATime, ListFails
  <2> QED
    BY <1>1, <1>3, <1>4, <2>1 DEF OneAtATime, NewestLoadShows, Newest
<1> QED
  BY <1>5, <1>6, <1>7

LEMMA VerdictArrivesStep ==
  ASSUME Inductive, NEW l \in DOMAIN loads, NEW s \in Skus, VerdictArrives(l, s)
  PROVE  Inductive'
<1> USE DEF Inductive
<1>1. loads[l] \in Load /\ DOMAIN loads = 1..Len(loads) /\ Len(loads) \in Nat
  BY DEF TypeOK
<1>2. PICK verdict \in {"ok", "failed"} : loads' = [loads EXCEPT ![l].verdicts[s] = verdict]
  BY DEF VerdictArrives
<1> DEFINE verdicts == [loads[l].verdicts EXCEPT ![s] = verdict]
           load == [stage |-> loads[l].stage, verdicts |-> verdicts]
<1>3. load \in Load
  <2>1. DOMAIN loads[l].verdicts \in SUBSET Skus
        /\ verdicts \in [DOMAIN loads[l].verdicts -> {"pending", "ok", "failed"}]
    BY <1>1, VerdictsType
  <2>2. loads[l].stage \in {"listing", "fetching", "done"}
    BY <1>1 DEF Load
  <2> HIDE DEF verdicts
  <2> QED
    BY <2>1, <2>2, LoadType
<1>4. loads' = [loads EXCEPT ![l] = load]
  <2>1. [loads[l] EXCEPT !.verdicts = verdicts] = load
    BY <1>1 DEF Load
  <2>2. [loads[l] EXCEPT !.verdicts[s] = verdict] = [loads[l] EXCEPT !.verdicts = verdicts]
    OBVIOUS
  <2>3. loads' = [loads EXCEPT ![l] = [loads[l] EXCEPT !.verdicts[s] = verdict]]
    BY <1>2
  <2> QED
    BY <2>1, <2>2, <2>3
<1>5. /\ loads' \in Seq(Load) /\ Len(loads') = Len(loads) /\ DOMAIN loads' = DOMAIN loads
      /\ loads'[l] = load /\ \A k \in DOMAIN loads : k # l => loads'[k] = loads[k]
  <2> HIDE DEF load
  <2> QED
    BY <1>3, <1>4, Replaced DEF TypeOK
<1>6. \A k \in DOMAIN loads : loads'[k].stage = loads[k].stage
  BY <1>5
<1>7. strict' = strict /\ cards' = cards /\ loading' = loading /\ error' = error
  BY DEF VerdictArrives
<1> HIDE DEF load
<1>8. TypeOK'
  BY <1>5, <1>7 DEF TypeOK
<1>9. CardsAwait' /\ LoadingIsTrue'
  BY <1>1, <1>5, <1>6, <1>7 DEF CardsAwait, LoadingIsTrue
<1>10. OneAtATime' /\ NewestLoadShows'
  BY <1>1, <1>5, <1>6, <1>7 DEF OneAtATime, NewestLoadShows, Newest
<1> QED
  BY <1>8, <1>9, <1>10

LEMMA AllSettledStep ==
  ASSUME Inductive, NEW l \in DOMAIN loads, AllSettled(l)
  PROVE  Inductive'
<1> USE DEF Inductive
<1>1. loads[l] \in Load /\ DOMAIN loads = 1..Len(loads) /\ Len(loads) \in Nat /\ l \in Nat \ {0}
  BY DEF TypeOK
<1>2. [loads[l] EXCEPT !.stage = "done"] \in Load
  BY <1>1 DEF Load
<1>3. /\ loads' \in Seq(Load) /\ Len(loads') = Len(loads) /\ DOMAIN loads' = DOMAIN loads
      /\ loads'[l].stage = "done" /\ \A k \in DOMAIN loads : k # l => loads'[k] = loads[k]
  <2>1. loads' = [loads EXCEPT ![l] = [loads[l] EXCEPT !.stage = "done"]]
    BY DEF AllSettled
  <2> QED
    BY <1>1, <1>2, <2>1, Replaced DEF TypeOK, Load
<1>4. /\ DOMAIN cards' = DOMAIN cards
      /\ \A s \in DOMAIN cards :
           /\ cards[s] \in Card /\ cards'[s] \in Card /\ ~cards'[s].loading
           /\ cards'[s].from = cards[s].from
           /\ \/ cards'[s].rec = l /\ cards'[s].error = cards[s].error
              \/ cards'[s].error = l /\ cards'[s].rec = cards[s].rec
  BY <1>1 DEF AllSettled, Settled, TypeOK, Card
<1>5. loading' = FALSE /\ strict' = strict /\ error' = error
  BY DEF AllSettled
<1>6. TypeOK'
  <2>1. cards' \in [DOMAIN cards -> Card]
    BY <1>1, <1>4 DEF AllSettled
  <2> QED
    BY <1>3, <1>4, <1>5, <2>1 DEF TypeOK
<1>7. CardsAwait' /\ LoadingIsTrue'
  BY <1>1, <1>4, <1>5 DEF CardsAwait, LoadingIsTrue
<1>8. ASSUME ~strict PROVE OneAtATime' /\ NewestLoadShows'
  <2>1. l = Len(loads) /\ ~error
    BY <1>1, <1>8 DEF OneAtATime, Newest, AllSettled
  <2>2. \A s \in DOMAIN cards : cards[s].from = l /\ cards[s].rec = 0 /\ cards[s].error = 0
    BY <1>8, <2>1 DEF OneAtATime, Newest, AllSettled
  <2> QED
    BY <1>1, <1>3, <1>4, <1>5, <2>1, <2>2 DEF OneAtATime, NewestLoadShows, Newest
<1>9. strict => OneAtATime' /\ NewestLoadShows'
  BY <1>5 DEF OneAtATime, NewestLoadShows
<1> QED
  BY <1>6, <1>7, <1>8, <1>9

LEMMA InductiveStep == Inductive /\ [Next]_vars => Inductive'
<1> SUFFICES ASSUME Inductive, [Next]_vars PROVE Inductive'
  OBVIOUS
<1>1. CASE Mount
  <2>1. \/ Begin(<<NewLoad>>)
        \/ strict /\ Begin(<<NewLoad, NewLoad>>)
    BY <1>1 DEF Mount
  <2> QED
    BY <1>1, <2>1, BeginStep DEF Mount
<1>2. CASE Retry
  BY <1>2, BeginStep DEF Retry
<1>3. ASSUME NEW l \in DOMAIN loads, ListArrives(l) PROVE Inductive'
  BY <1>3, ListArrivesStep
<1>4. ASSUME NEW l \in DOMAIN loads, ListFails(l) PROVE Inductive'
  BY <1>4, ListFailsStep
<1>5. ASSUME NEW l \in DOMAIN loads, AllSettled(l) PROVE Inductive'
  BY <1>5, AllSettledStep
<1>6. ASSUME NEW l \in DOMAIN loads, NEW s \in Skus, VerdictArrives(l, s) PROVE Inductive'
  BY <1>6, VerdictArrivesStep
<1>7. CASE UNCHANGED vars
  BY <1>7 DEF vars, Inductive, TypeOK, CardsAwait, LoadingIsTrue, OneAtATime, Newest, NewestLoadShows
<1> QED
  BY <1>1, <1>2, <1>3, <1>4, <1>5, <1>6, <1>7 DEF Next, Quiet

-------------------------------------------------------------------------------
(* The page as loadData leaves it, for any number of loads that overlap.      *)
THEOREM Invariance == Spec => []Inductive
<1> QED
  BY InductiveInit, InductiveStep, PTL DEF Spec

(* Every variable of the page keeps its type.                                 *)
THEOREM TypeCorrectness == Spec => []TypeOK
<1>1. Inductive => TypeOK
  BY DEF Inductive
<1> QED
  BY <1>1, Invariance, PTL

(* However many loads crossed, once all are through every card has a verdict. *)
THEOREM EveryCardSettles == Spec => []CardsSettle
<1>1. Inductive => CardsSettle
  BY DEF Inductive, CardsAwait, LoadingIsTrue, CardsSettle
<1> QED
  BY <1>1, Invariance, PTL

(* Outside of StrictMode the page shows the newest load, however often the    *)
(* user retries.                                                              *)
THEOREM NewestShows == Spec => []NewestLoadShows
<1>1. Inductive => NewestLoadShows
  BY DEF Inductive
<1> QED
  BY <1>1, Invariance, PTL
================================================================================
