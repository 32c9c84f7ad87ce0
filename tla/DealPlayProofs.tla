--------------------------- MODULE DealPlayProofs ---------------------------
(***************************************************************************)
(* Proofs about one deal played to its end, for every set of seats, every  *)
(* number of tricks and every set of deals a game file may describe.       *)
(***************************************************************************)
EXTENDS DealPlay, DealLemmas

\* The strengthening all four properties need together: what a trick records is
\* judged by the hands and the turns before it.
PlayInv == GameInv(deal) /\ over \in BOOLEAN

\* A deal read from the game file.
LEMMA PlayInit == Init => PlayInv
<1> SUFFICES ASSUME Init PROVE PlayInv
  OBVIOUS
<1>1. PICK f \in Deals : deal = NewDeal(f)
  BY DEF Init
<1>2. GameInv(NewDeal(f))
  BY DealPlayAssumption, NewDealGame
<1>3. QED
  BY <1>1, <1>2 DEF Init, PlayInv

\* A card keeps the game, also the card that ends a trick.
LEMMA PlayStep == PlayInv /\ [Next]_vars => PlayInv'
<1> SUFFICES ASSUME PlayInv, [Next]_vars PROVE PlayInv'
  OBVIOUS
<1>1. ASSUME NEW card \in Card, PlayTurn(card) PROVE PlayInv'
  <2> DEFINE e == PlayCard(deal, card)
             d == NextPlayer(e)
  <2>1. GameInv(e) /\ e.cardsOnTable # <<>>
    BY <1>1, PlayCardGame DEF PlayInv, PlayTurn
  <2>2. GameInv(d) /\ d.cardsOnTable # <<>>
    <3> HIDE DEF e
    <3> QED BY <2>1, NextPlayerGame
  <2>3. CASE d.currentPlayer = d.firstPlayer
    <3>1. deal' = NextTrick(d) /\ over' = LeavesLoop(deal')
      BY <1>1, <2>3 DEF PlayTurn
    <3> HIDE DEF d
    <3>2. GameInv(NextTrick(d))
      BY <2>2, NextTrickGame
    <3>3. QED
      BY <3>1, <3>2 DEF PlayInv, LeavesLoop
  <2>4. CASE d.currentPlayer # d.firstPlayer
    <3>1. deal' = d /\ over' = over
      BY <1>1, <2>4 DEF PlayTurn
    <3> HIDE DEF d
    <3>2. QED
      BY <2>2, <3>1 DEF PlayInv
  <2>5. QED
    BY <2>3, <2>4
<1>2. CASE UNCHANGED vars
  BY <1>2 DEF vars, PlayInv
<1>3. QED
  BY <1>1, <1>2 DEF Next

\* It holds of every deal that is played.
LEMMA PlayAlways == Spec => []PlayInv
BY PlayInit, PlayStep, PTL DEF Spec
-----------------------------------------------------------------------------
\* The fields of a deal keep their types whatever is dealt and played: above
\* all highestPlayer names a seat whenever nextTrick credits it.
THEOREM TypeCorrect == Spec => []TypeOK
<1>1. PlayInv => TypeOK
  BY DEF PlayInv, GameInv, TypeOK
<1>2. QED
  BY PlayAlways, <1>1, PTL

\* Whatever is dealt and played, no card is lost and none is played twice: every
\* card a seat was dealt is in its hand or in one place of the table and the
\* tricks, and never in both.
THEOREM CardsAlwaysConserved == Spec => []CardsConserved
<1>1. PlayInv => CardsConserved
  BY DEF PlayInv, GameInv, CardsConserved
<1>2. QED
  BY PlayAlways, <1>1, PTL

\* isLegal is enough to keep the players honest: a seat that did not follow suit
\* never shows a card of that suit later in the deal.
THEOREM NeverRevokes == Spec => []NoRevoke
<1>1. PlayInv => NoRevoke
  BY GameShowsNoRevoke DEF PlayInv, NoRevoke
<1>2. QED
  BY PlayAlways, <1>1, PTL

\* The card by card comparison of playCard finds the owner of the highest card
\* of the suit led, who takes the trick and leads the next one.
THEOREM HighestAlwaysTakes == Spec => []HighestTakes
<1>1. PlayInv => HighestTakes
  BY GameGivesTricks DEF PlayInv, HighestTakes
<1>2. QED
  BY PlayAlways, <1>1, PTL
-----------------------------------------------------------------------------
\* Between two cards the turn is where the cards on the table say.
TurnInv ==
  /\ WentRound(deal)
  /\ \E f \in 1..Players : Rotates(deal, f)
  /\ Len(deal.cardsOnTable) < Players

\* Every card keeps the turns.
LEMMA TurnStep == PlayInv /\ TurnInv /\ [Next]_vars => TurnInv'
<1> SUFFICES ASSUME PlayInv, TurnInv, [Next]_vars PROVE TurnInv'
  OBVIOUS
<1>1. ASSUME NEW card \in Card, PlayTurn(card) PROVE TurnInv'
  <2> DEFINE e == PlayCard(deal, card)
             d == NextPlayer(e)
             m == Len(deal.cardsOnTable)
  <2>1. GameInv(deal) /\ IsLegal(deal, deal.currentTrick, card)
    BY <1>1 DEF PlayInv, PlayTurn
  <2>2. PICK f \in 1..Players : Rotates(deal, f)
    BY DEF TurnInv
  <2>3. m < Players /\ m \in Nat /\ Players \in Nat
    BY <2>1, TablePlaces, LenProperties DEF TurnInv, GameInv, IsDeal
  <2>4. Rotates(d, f) /\ Len(d.cardsOnTable) = m + 1
    BY <2>1, <2>2, <2>3, PlayRotates
  <2>5. GameInv(e) /\ e.cardsOnTable # <<>>
    BY <2>1, PlayCardGame
  <2>6. GameInv(d) /\ d.cardsOnTable # <<>>
    <3> HIDE DEF e
    <3> QED BY <2>5, NextPlayerGame
  <2>7. WentRound(d)
    <3>1. d.tricksTaken = deal.tricksTaken /\ d.originalHand = deal.originalHand
      <4>1. e.tricksTaken = deal.tricksTaken /\ e.originalHand = deal.originalHand
        BY <2>1, PlayCardFields DEF GameInv, Plays
      <4>2. IsDeal(e)
        BY <2>5 DEF GameInv
      <4> HIDE DEF e
      <4>3. d.tricksTaken = e.tricksTaken /\ d.originalHand = e.originalHand
        BY <4>2, NextPlayerFields DEF Passes
      <4>4. QED
        BY <4>1, <4>3
    <3> HIDE DEF d
    <3>2. QED
      BY <3>1 DEF TurnInv, WentRound
  <2>8. d.currentPlayer = d.firstPlayer <=> m + 1 = Players
    <3>1. m + 1 \in 1..Players
      BY <2>3
    <3>2. Len(d.cardsOnTable) \in 1..Players
      BY <2>4, <3>1
    <3> HIDE DEF d
    <3>3. QED
      BY <2>2, <2>4, <3>2, BackAtLeader
  <2>9. IF d.currentPlayer = d.firstPlayer THEN deal' = NextTrick(d) ELSE deal' = d
    BY <1>1 DEF PlayTurn
  <2> HIDE DEF d, m
  <2>10. CASE d.currentPlayer = d.firstPlayer
    <3>1. deal' = NextTrick(d) /\ Len(d.cardsOnTable) = Players
      BY <2>4, <2>8, <2>9, <2>10
    <3>2. /\ WentRound(deal') /\ \E g \in 1..Players : Rotates(deal', g)
          /\ Len(deal'.cardsOnTable) = 0
      BY <2>2, <2>4, <2>6, <2>7, <3>1, TakesRound
    <3>3. QED
      BY <2>3, <3>2, TablePlaces DEF TurnInv
  <2>11. CASE d.currentPlayer # d.firstPlayer
    <3>1. deal' = d /\ m + 1 < Players
      BY <2>3, <2>8, <2>9, <2>11
    <3>2. QED
      BY <2>2, <2>4, <2>7, <3>1 DEF TurnInv
  <2>12. QED
    BY <2>10, <2>11
<1>2. CASE UNCHANGED vars
  BY <1>2 DEF vars, TurnInv
<1>3. QED
  BY <1>1, <1>2 DEF Next

\* The first seat leads the first trick.
LEMMA TurnInit == Init => TurnInv
<1> SUFFICES ASSUME Init PROVE TurnInv
  OBVIOUS
<1>1. PICK h \in Deals : deal = NewDeal(h)
  BY DEF Init
<1>2. ProperDeal(h)
  BY DealPlayAssumption
<1>3. /\ WentRound(deal) /\ \E f \in 1..Players : Rotates(deal, f)
      /\ Len(deal.cardsOnTable) = 0
  BY <1>1, <1>2, NewDealRotates
<1>4. QED
  BY <1>3, TablePlaces DEF TurnInv

\* The turn goes once round the table in every trick, whoever leads it: no seat
\* plays twice into a trick, and no trick ends before all have played.
THEOREM OneCardEachAlways == Spec => []OneCardEach
<1>1. ASSUME PlayInv, TurnInv PROVE OneCardEach
  <2>1. PICK f \in 1..Players : Rotates(deal, f)
    BY <1>1 DEF TurnInv
  <2>2. Dealt(deal) /\ IsDeal(deal) /\ InTurn(deal.originalHand, deal.cardsOnTable, f)
    BY <1>1, <2>1 DEF PlayInv, GameInv, Rotates, Turned
  <2>3. Len(deal.cardsOnTable) \in 0..Players
    <3>1. Len(deal.cardsOnTable) \in Nat /\ Players \in Nat
      BY <2>2, TablePlaces, LenProperties DEF IsDeal
    <3>2. QED
      BY <1>1, <3>1 DEF TurnInv
  <2>4. QED
    BY <1>1, <2>2, <2>3, RoundsAreTricks DEF TurnInv, OneCardEach
<1>2. QED
  BY PlayAlways, PlayInit, PlayStep, TurnInit, TurnStep, <1>1, PTL DEF Spec
-----------------------------------------------------------------------------
\* The deal and the rules.

\* The seats hold what the tricks to come take, and dealThread is still in its
\* loop exactly while points are left.
EndInv == Sized(deal) /\ (over <=> Finished(deal))

WholeInv == PlayInv /\ TurnInv /\ EndInv

\* The first trick has not been played.
LEMMA WholeInit == Init => WholeInv
<1> SUFFICES ASSUME Init PROVE WholeInv
  OBVIOUS
<1>1. PICK h \in Deals : deal = NewDeal(h)
  BY DEF Init
<1>2. Sized(deal)
  BY <1>1, DealPlayAssumption, NewDealSized
<1>3. ~Finished(deal)
  BY <1>1 DEF Finished, NewDeal
<1>4. QED
  BY <1>2, <1>3, PlayInit, TurnInit DEF WholeInv, EndInv, Init

\* What a legal card makes of the deal: a card of the rules, and hands that match
\* the tricks to come.
LEMMA CardByRules ==
  ASSUME WholeInv, NEW card \in Card, PlayTurn(card)
  PROVE  /\ PlaysByRules(deal, card, deal')
         /\ Sized(deal')
         /\ over' => deal'.cardsOnTable = <<>>
         /\ deal'.cardsOnTable = <<>> =>
              deal'.currentTrick > 1 /\ (over' <=> LeavesLoop(deal'))
<1> DEFINE p == PlayCard(deal, card)
           d == NextPlayer(p)
           m == Len(deal.cardsOnTable)
<1>1. GameInv(deal) /\ IsLegal(deal, deal.currentTrick, card) /\ Sized(deal) /\ ~over
  BY DEF WholeInv, PlayInv, EndInv, PlayTurn
<1>2. PICK f \in 1..Players : Rotates(deal, f)
  BY DEF WholeInv, TurnInv
<1>3. m < Players /\ m \in Nat /\ Players \in Nat
  BY <1>1, TablePlaces, LenProperties DEF WholeInv, TurnInv, GameInv, IsDeal
<1>4. GameInv(p) /\ p.cardsOnTable # <<>> /\ Sized(p)
  BY <1>1, <1>2, <1>3, PlayCardGame, PlaySized
<1>5. Rotates(d, f) /\ Len(d.cardsOnTable) = m + 1
  BY <1>1, <1>2, <1>3, PlayRotates
<1>6. GameInv(d) /\ d.cardsOnTable # <<>> /\ Sized(d) /\ IsDeal(p)
  <2> HIDE DEF p
  <2> QED BY <1>4, NextPlayerGame, PassSized DEF GameInv
<1>7. d.currentPlayer = d.firstPlayer <=> m + 1 = Players
  <2>1. Len(d.cardsOnTable) \in 1..Players
    BY <1>3, <1>5
  <2> HIDE DEF d
  <2>2. QED
    BY <1>2, <1>5, <2>1, BackAtLeader
<1>8. CASE m + 1 = Players
  <2>1. deal' = NextTrick(d) /\ over' = LeavesLoop(deal')
    BY <1>7, <1>8 DEF PlayTurn
  <2>2. PlaysByRules(deal, card, NextTrick(p))
    BY <1>1, <1>2, <1>8, LastCardByRules
  <2>3. SameToRules(NextTrick(p), NextTrick(d))
    <3> HIDE DEF p
    <3> QED BY <1>6, PassedTrickSame
  <2>4. PlaysByRules(deal, card, deal')
    <3> HIDE DEF p, d
    <3> QED BY <2>1, <2>2, <2>3, SameByRules
  <2>5. Sized(NextTrick(d)) /\ NextTrick(d).currentTrick = d.currentTrick + 1
    <3>1. InTurn(d.originalHand, d.cardsOnTable, f) /\ Len(d.cardsOnTable) = Players
      BY <1>5, <1>8 DEF Rotates, Turned
    <3> HIDE DEF d
    <3>2. QED
      BY <1>2, <1>6, <3>1, TakenSized DEF GameInv
  <2>6. NextTrick(d).cardsOnTable = <<>>
    <3> HIDE DEF d
    <3> QED BY <1>6, NextTrickFields DEF Takes, GameInv
  <2>7. d.currentTrick > 0 /\ d.currentTrick \in Nat
    <3> HIDE DEF d
    <3> QED BY <1>6 DEF Sized, GameInv, IsDeal
  <2> HIDE DEF d
  <2>8. QED
    BY <2>1, <2>4, <2>5, <2>6, <2>7
<1>9. CASE m + 1 # Players
  <2>1. deal' = d /\ over' = over
    BY <1>7, <1>9 DEF PlayTurn
  <2>2. PlaysByRules(deal, card, p)
    <3>1. m + 1 < Players
      BY <1>3, <1>9
    <3>2. QED
      BY <1>1, <1>2, <3>1, PlayCardByRules
  <2>3. SameToRules(p, d)
    <3> HIDE DEF p
    <3> QED BY <1>6, PassSame
  <2> HIDE DEF p, d
  <2>4. QED
    BY <1>1, <1>6, <2>1, <2>2, <2>3, SameByRules
<1>10. QED
  BY <1>8, <1>9

\* dealThread leaves its loop with the card that takes the last points.
LEMMA WholeStep == WholeInv /\ [Next]_vars => WholeInv'
<1> SUFFICES ASSUME WholeInv, [Next]_vars PROVE WholeInv'
  OBVIOUS
<1>1. PlayInv' /\ TurnInv'
  BY PlayStep, TurnStep DEF WholeInv
<1>2. ASSUME NEW card \in Card, PlayTurn(card) PROVE EndInv'
  <2>1. /\ Sized(deal') /\ over' \in BOOLEAN
        /\ over' => deal'.cardsOnTable = <<>>
        /\ deal'.cardsOnTable = <<>> =>
             deal'.currentTrick > 1 /\ (over' <=> LeavesLoop(deal'))
    BY <1>1, <1>2, CardByRules DEF PlayInv
  <2>2. IsDeal(deal')
    BY <1>1 DEF PlayInv, GameInv
  <2>3. CASE deal'.cardsOnTable = <<>>
    <3>1. R!Worth(deal'.type, UNION Range(deal'.currentHand), deal'.currentTrick..LastTrick) = 0
            <=> deal'.currentTrick > LastTrick \/ IsOver(deal')
      BY <2>1, <2>2, <2>3, NothingLeft
    <3>2. over' <=> Finished(deal')
      BY <2>1, <2>3, <3>1 DEF Finished, LeavesLoop
    <3>3. QED
      BY <2>1, <3>2 DEF EndInv
  <2>4. CASE deal'.cardsOnTable # <<>>
    BY <2>1, <2>4 DEF EndInv, Finished
  <2>5. QED
    BY <2>3, <2>4
<1>3. ASSUME UNCHANGED vars PROVE EndInv'
  BY <1>3 DEF vars, WholeInv, EndInv
<1>4. EndInv'
  BY <1>2, <1>3 DEF Next
<1>5. QED
  BY <1>1, <1>4 DEF WholeInv

\* It holds of every deal that is played.
LEMMA WholeAlways == Spec => []WholeInv
BY WholeInit, WholeStep, PTL DEF Spec
-----------------------------------------------------------------------------
\* HeartsRules, read with the fields of the deal for its variables.

\* The sums of the rules are those of the lemmas.
LEMMA SameWorth == \A k, C, T : Rules!Worth(k, C, T) = R!Worth(k, C, T)
<1> TAKE k, C, T
<1>1. Rules!CardsWorth(k, C) = R!CardsWorth(k, C)
  BY DEF Rules!CardsWorth, R!CardsWorth, Rules!MapThenSumSet, R!MapThenSumSet,
         Rules!MapThenFoldSet, R!MapThenFoldSet, Rules!CardValue, R!CardValue,
         Rules!Queen, Rules!Jack, Rules!King, R!Queen, R!Jack, R!King
<1>2. Rules!TricksWorth(k, T) = R!TricksWorth(k, T)
  BY DEF Rules!TricksWorth, R!TricksWorth, Rules!MapThenSumSet, R!MapThenSumSet,
         Rules!MapThenFoldSet, R!MapThenFoldSet, Rules!TrickValue, R!TrickValue
<1>3. QED
  BY <1>1, <1>2 DEF Rules!Worth, R!Worth

\* The rules call the deal done when it is finished.
LEMMA SameEnd == Finished(deal) <=> Rules!Done
BY SameWorth DEF Finished, Rules!Done, Rules!Range, Range

\* A card of the rules is a step of HeartsRules.
LEMMA PlayIsRules ==
  ASSUME NEW c \in Card, deal.currentHand \in HandsType,
         PlaysByRules(deal, c, deal'), ~Finished(deal)
  PROVE  Rules!Next
<1>1. /\ \A s, k : Rules!Clockwise(s, k) = R!Clockwise(s, k)
      /\ \A t : Rules!WinningPlace(t) = R!WinningPlace(t)
      /\ Rules!Players = Players /\ Rules!Seats = Seats
  BY DEF Rules!Clockwise, R!Clockwise, Rules!WinningPlace, R!WinningPlace,
         Rules!Players, R!Players, Players, Rules!Seats, Seats, Rules!Range, Range
<1>2. Rules!Play(c)
  BY <1>1, SameWorth, SameEnd
     DEF PlaysByRules, Rules!Play, Rules!Turn, Points, Rules!Range, Range
<1>3. c \in UNION Rules!Range(deal.currentHand)
  <2>1. PICK s \in Seats : c \in deal.currentHand[s]
    BY DEF PlaysByRules
  <2>2. QED
    BY <2>1 DEF Rules!Range, HandsType
<1>4. QED
  BY <1>2, <1>3 DEF Rules!Next, Rules!PlayCard
-----------------------------------------------------------------------------
\* A deal ends when no points are left, and not before: the early end of a deal
\* takes no points from anyone, and nobody is asked for a card he does not have.
THEOREM EndsAlwaysWhenScored == Spec => []EndsWhenScored
<1>1. WholeInv => EndsWhenScored
  BY SameEnd DEF WholeInv, EndInv, EndsWhenScored
<1>2. QED
  BY WholeAlways, <1>1, PTL

\* The loop of dealThread with the methods of class Deal implements the rules of
\* the game: whose turn it is, which cards may be played, who takes a trick, what
\* it costs and when the deal is done.
THEOREM PlaysByTheRules == Spec => Rules!Safe
<1>1. Init => Rules!Init
  <2> SUFFICES ASSUME Init PROVE Rules!Init
    OBVIOUS
  <2>1. PICK f \in Deals : deal = NewDeal(f)
    BY DEF Init
  <2>2. QED
    BY <2>1 DEF Rules!Init, NewDeal, Rules!Seats, Seats, Rules!Range, Range
<1>2. WholeInv /\ [Next]_vars => [Rules!Next]_(Rules!vars)
  <2> SUFFICES ASSUME WholeInv, [Next]_vars PROVE [Rules!Next]_(Rules!vars)
    OBVIOUS
  <2>1. ASSUME NEW card \in Card, PlayTurn(card) PROVE Rules!Next
    <3>1. deal.currentHand \in HandsType
      BY DEF WholeInv, PlayInv, GameInv, IsDeal
    <3>2. ~Finished(deal)
      BY <2>1 DEF WholeInv, EndInv, PlayTurn
    <3>3. QED
      BY <2>1, <3>1, <3>2, CardByRules, PlayIsRules
  <2>2. CASE UNCHANGED vars
    BY <2>2 DEF vars, Rules!vars
  <2>3. QED
    BY <2>1, <2>2 DEF Next
<1>3. QED
  BY WholeAlways, <1>1, <1>2, PTL DEF Spec, Rules!Safe
=============================================================================
