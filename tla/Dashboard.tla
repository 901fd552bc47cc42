------------------------------- MODULE Dashboard -------------------------------
(* The page of web/src/App.tsx: loadData fetches the list of products, then a *)
(* recommendation for each, and fills one card per product.  StrictMode, in   *)
(* development, runs the first load twice; Retry starts another one.          *)
EXTENDS Naturals, Sequences

CONSTANTS
  Skus,     \* the products there may be
  MaxLoads  \* the loads a page is observed for

ASSUME DashboardAssumption == MaxLoads \in Nat

VARIABLES
  strict,   \* StrictMode is in force
  loads,    \* the calls of loadData, oldest first
  cards,    \* the rows of the grid, by product
  loading,
  error     \* the banner is shown

vars == <<strict, loads, cards, loading, error>>

\* rec and error name the load whose verdict a card shows, 0 for none; from names
\* the load that listed it.
Card == [from : Nat, rec : Nat, error : Nat, loading : BOOLEAN]

Load ==
  [stage    : {"listing", "fetching", "done"},
   verdicts : UNION {[products -> {"pending", "ok", "failed"}] : products \in SUBSET Skus}]

NoCards == [s \in {} |-> [from |-> 0, rec |-> 0, error |-> 0, loading |-> FALSE]]

NewLoad == [stage |-> "listing", verdicts |-> [s \in {} |-> "pending"]]

Init ==
  /\ strict \in BOOLEAN
  /\ loads = <<>> /\ cards = NoCards /\ loading = TRUE /\ error = FALSE

\* Mutant: a new load leaves the banner, and its button, where it is.
BeginUnderBanner(calls) ==
  /\ loads' = loads \o calls
  /\ loading' = TRUE /\ UNCHANGED error

\* loadData up to its first await.
Begin(calls) ==
  /\ loads' = loads \o calls
  /\ loading' = TRUE /\ error' = FALSE

Mount ==
  /\ loads = <<>>
  /\ Begin(IF strict THEN <<NewLoad, NewLoad>> ELSE <<NewLoad>>)
  /\ UNCHANGED <<strict, cards>>

\* The button is part of the banner.
Retry ==
  /\ error /\ Len(loads) < MaxLoads
  /\ Begin(<<NewLoad>>)
  /\ UNCHANGED <<strict, cards>>

\* The list: whatever products the server has by now.
ListArrives(l) ==
  /\ loads[l].stage = "listing"
  /\ \E products \in SUBSET Skus :
       /\ loads' = [loads EXCEPT ![l] =
            [stage |-> "fetching", verdicts |-> [s \in products |-> "pending"]]]
       /\ cards' = [s \in products |-> [from |-> l, rec |-> 0, error |-> 0, loading |-> TRUE]]
  /\ UNCHANGED <<strict, loading, error>>

\* No list, or not one that can be read.
ListFails(l) ==
  /\ loads[l].stage = "listing"
  /\ loads' = [loads EXCEPT ![l].stage = "done"]
  /\ error' = TRUE /\ cards' = NoCards /\ loading' = FALSE
  /\ UNCHANGED strict

VerdictArrives(l, s) ==
  /\ loads[l].stage = "fetching"
  /\ s \in DOMAIN loads[l].verdicts /\ loads[l].verdicts[s] = "pending"
  /\ \E verdict \in {"ok", "failed"} : loads' = [loads EXCEPT ![l].verdicts[s] = verdict]
  /\ UNCHANGED <<strict, cards, loading, error>>

\* Mutant: the verdicts of all but the newest load are thrown away.
SettledNewest(card, l, s) ==
  IF l < Len(loads) THEN card
  ELSE IF s \in DOMAIN loads[l].verdicts /\ loads[l].verdicts[s] = "ok"
    THEN [card EXCEPT !.rec = l, !.loading = FALSE]
    ELSE [card EXCEPT !.error = l, !.loading = FALSE]

\* { ...row, ... }: what the row had stays; a product the load does not know failed.
Settled(card, l, s) ==
  IF s \in DOMAIN loads[l].verdicts /\ loads[l].verdicts[s] = "ok"
    THEN [card EXCEPT !.rec = l, !.loading = FALSE]
    ELSE [card EXCEPT !.error = l, !.loading = FALSE]

\* Promise.allSettled; the cards are those there are now.
AllSettled(l) ==
  /\ loads[l].stage = "fetching"
  /\ \A s \in DOMAIN loads[l].verdicts : loads[l].verdicts[s] # "pending"
  /\ cards' = [s \in DOMAIN cards |-> Settled(cards[s], l, s)]
  /\ loads' = [loads EXCEPT ![l].stage = "done"]
  /\ loading' = FALSE
  /\ UNCHANGED <<strict, error>>

\* All loads are through, and the user does nothing.
Quiet ==
  /\ loads # <<>> /\ \A l \in DOMAIN loads : loads[l].stage = "done"
  /\ UNCHANGED vars

Next ==
  \/ Mount \/ Retry \/ Quiet
  \/ \E l \in DOMAIN loads :
       \/ ListArrives(l) \/ ListFails(l) \/ AllSettled(l)
       \/ \E s \in Skus : VerdictArrives(l, s)

Spec == Init /\ [][Next]_vars

-------------------------------------------------------------------------------
(* Properties.                                                                *)

\* Every variable has its type.
TypeOK ==
  /\ strict \in BOOLEAN /\ loading \in BOOLEAN /\ error \in BOOLEAN
  /\ loads \in Seq(Load)
  /\ DOMAIN cards \subseteq Skus /\ cards \in [DOMAIN cards -> Card]

\* App.tsx:112: once every load is through nothing spins any more and every card
\* shows a recommendation or says why not, even where two loads crossed and saw
\* different lists of products.
CardsSettle ==
  loads # <<>> /\ (\A l \in DOMAIN loads : loads[l].stage = "done") =>
    /\ ~loading
    /\ \A s \in DOMAIN cards : ~cards[s].loading /\ (cards[s].rec # 0 \/ cards[s].error # 0)

\* App.tsx:130: outside of StrictMode loads never cross, because Retry needs the
\* banner and a load takes it down: the page shows the newest load and no other,
\* no card has two verdicts, and the banner hides no card.
NewestLoadShows ==
  ~strict =>
    /\ error => DOMAIN cards = {}
    /\ \A s \in DOMAIN cards :
         /\ cards[s].from = Len(loads)
         /\ cards[s].rec \in {0, Len(loads)} /\ cards[s].error \in {0, Len(loads)}
         /\ cards[s].rec = 0 \/ cards[s].error = 0

-------------------------------------------------------------------------------
(* The inductive invariant behind the safety properties.                      *)

\* A card that has no verdict yet will get one from a load under way.
CardsAwait ==
  \A s \in DOMAIN cards :
    \/ ~cards[s].loading /\ (cards[s].rec # 0 \/ cards[s].error # 0)
    \/ \E l \in DOMAIN loads : loads[l].stage = "fetching"

LoadingIsTrue ==
  loading => loads = <<>> \/ \E l \in DOMAIN loads : loads[l].stage # "done"

Newest == loads[Len(loads)]

\* Outside of StrictMode all loads but the newest are through, and the cards are
\* what the newest has made of them so far.
OneAtATime ==
  ~strict =>
    /\ \A l \in DOMAIN loads : l < Len(loads) => loads[l].stage = "done"
    /\ error => loads # <<>> /\ Newest.stage = "done" /\ DOMAIN cards = {}
    /\ loads = <<>> \/ Newest.stage = "listing" => DOMAIN cards = {}
    /\ \A s \in DOMAIN cards :
         /\ cards[s].from = Len(loads)
         /\ Newest.stage = "fetching" => cards[s].rec = 0 /\ cards[s].error = 0

Inductive == TypeOK /\ CardsAwait /\ LoadingIsTrue /\ OneAtATime /\ NewestLoadShows
===============================================================================
