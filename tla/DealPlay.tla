------------------------------ MODULE DealPlay ------------------------------
(***************************************************************************)
(* One deal played from its first card to its last by players who always   *)
(* answer: the loop of dealThread with every call it makes on the deal,    *)
(* and the check and the call handleTRICK makes for the card that comes.   *)
(* HeartsServer adds the threads, the messages and the failures.           *)
(***************************************************************************)
EXTENDS DealProperties

CONSTANT Deals   \* the deals a game file may describe

ASSUME DealPlayAssumption == \A f \in Deals : ProperDeal(f)

VARIABLES
  deal,   \* *currentDeal
  over    \* has dealThread left its loop?

vars == <<deal, over>>

Init ==
  /\ \E f \in Deals : deal = NewDeal(f)
  /\ over = FALSE

\* Mutant of LeavesLoop: a trick too few.
LeavesLoopEarly(d) == d.currentTrick >= LastTrick \/ IsOver(d)

\* The loop condition of dealThread and the break that ends a deal early.
LeavesLoop(d) == d.currentTrick > LastTrick \/ IsOver(d)

\* The current player plays a legal card, and the last card of a trick ends it.
PlayTurn(card) ==
  LET d == NextPlayer(PlayCard(deal, card)) IN
  /\ ~over
  /\ IsLegal(deal, deal.currentTrick, card)
  /\ IF d.currentPlayer = d.firstPlayer
     THEN deal' = NextTrick(d) /\ over' = LeavesLoop(deal')
     ELSE deal' = d /\ UNCHANGED over

Next == \E card \in Card : PlayTurn(card)

Spec == Init /\ [][Next]_vars /\ WF_vars(Next)
-----------------------------------------------------------------------------
\* The object of class Deal keeps the types of its members.
TypeOK ==
  /\ IsDeal(deal)
  /\ over \in BOOLEAN

\* deleteCard on the hands, the append to the table and the move to tricksTaken
\* never lose or double a card.
CardsConserved == ConservesCards(deal)

\* What isLegal let a seat play in one trick is never contradicted by what the
\* seat shows later.
NoRevoke == ShowsNoRevoke(deal)

\* playCard and nextTrick give the trick and the lead to the owner of the
\* highest card of the suit led.
HighestTakes == GivesTricksToHighest(deal)

\* nextPlayer and the comparison with firstPlayer let every seat play once in
\* every trick.
OneCardEach == TakesOneCardEach(deal)
-----------------------------------------------------------------------------
\* The deal as the rules of the game see it.
Rules == INSTANCE HeartsRules WITH
  type <- deal.type,
  hand <- deal.currentHand,
  leader <- deal.firstPlayer,
  table <- deal.cardsOnTable,
  number <- deal.currentTrick,
  points <- [s \in Seats |->
               IF s \in DOMAIN deal.scores THEN deal.scores[s] ELSE 0]

\* The loop of dealThread plays Hearts: turns, suits, winners, points and the
\* end of the deal are those of HeartsRules, and the deal goes on to its end.
PlaysHearts == Rules!Spec

\* dealThread leaves its loop exactly when a trick has been played and no
\* points are left: an early end takes no points from anyone, and a late one
\* asks nobody for a card he does not have.
EndsWhenScored == over <=> Rules!Done

\* Every deal ends.
DealEnds == <>over
=============================================================================
