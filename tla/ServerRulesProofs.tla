------------------------- MODULE ServerRulesProofs --------------------------
(***************************************************************************)
(* Proof that the threads of the server play Hearts as long as no client   *)
(* has left: every step of HeartsServer is a step of HeartsRules, or none, *)
(* for every game file and whatever the clients send.                      *)
(***************************************************************************)
EXTENDS ServerSeatsProofs

\* The groups of variables an action leaves alone.
USE DEF mainVars, loopVars, gameVars, acceptVars, netVars, threadVars, clientVars

\* dealThread has left the loop of the deal, or has not entered the next one.
Ended == {"SCORE", "TOTAL", "done"}

\* The seats hold what the tricks to come take, and dealThread is past its loop
\* exactly when no points are left.
EndInv ==
  di > 0 => Sized(deal) /\ (Finished(deal) <=> dealPc \in Ended)

\* A step that changes neither the deal nor the half of dealThread it is in.
LEMMA ElsewhereKeepsEnd ==
  ASSUME EndInv, UNCHANGED <<di, deal>>, dealPc' \in Ended <=> dealPc \in Ended
  PROVE  EndInv'
BY DEF EndInv

\* The next deal has all its points.
LEMMA EndMainStep == EndInv /\ TableInv /\ MainStep => EndInv'
<1> SUFFICES ASSUME EndInv, TableInv, MainStep PROVE EndInv'
  OBVIOUS
<1>1. CASE NextDeal
  <2>1. /\ di' = di + 1 /\ deal' = NewDeal(GameFile[di + 1]) /\ dealPc' = "ready"
    BY <1>1 DEF NextDeal
  <2>2. di + 1 \in DOMAIN GameFile
    BY <1>1, ServerAssumption, LenProperties DEF NextDeal, TableInv
  <2>3. ProperDeal(GameFile[di + 1])
    BY <2>2, ServerAssumption
  <2>4. Sized(deal')
    BY <2>1, <2>3, NewDealSized
  <2>5. ~Finished(deal')
    BY <2>1 DEF Finished, NewDeal
  <2>6. QED
    BY <2>1, <2>4, <2>5 DEF EndInv, Ended
<1>2. CASE ~NextDeal
  BY <1>2, ElsewhereKeepsEnd
  DEF MainStep, JoinDeal, EndGame, StopAccepting, DisconnectAll, JoinClients
<1>3. QED
  BY <1>1, <1>2

\* The turn is passed inside the loop.
LEMMA TurnOverKeepsEnd ==
  ASSUME EndInv, TableInv, TurnOver, dealPc \in {"suspended", "TRICK", "await"}, di' = di
  PROVE  EndInv'
<1>1. di > 0 /\ IsDeal(deal)
  BY DEF TableInv, GameInv
<1>2. deal' = NextPlayer(deal) /\ dealPc' \in {"TAKEN", "turn"}
  BY DEF TurnOver, SendTo
<1>3. Sized(deal') /\ (Finished(deal') <=> Finished(deal))
  BY <1>1, <1>2, PassSized, PassSame, SameFinished DEF EndInv
<1>4. QED
  BY <1>1, <1>2, <1>3 DEF EndInv, Ended

\* The seats that have no points yet get an entry of zero.
LEMMA CreditNothing ==
  ASSUME NEW d, IsDeal(d), DOMAIN playerFds \subseteq Seats
  PROVE  LET e == [d EXCEPT !.scores = CreditSeats(d.scores, <<>>)]
         IN  SameToRules(d, e) /\ (Sized(d) => Sized(e))
<1> DEFINE c == CreditSeats(d.scores, <<>>)
           e == [d EXCEPT !.scores = c]
<1>1. /\ e.type = d.type /\ e.currentHand = d.currentHand /\ e.firstPlayer = d.firstPlayer
      /\ e.cardsOnTable = d.cardsOnTable /\ e.currentTrick = d.currentTrick
      /\ e.originalHand = d.originalHand /\ e.scores = c
  BY DEF IsDeal
<1>2. \A s \in Seats : (IF s \in DOMAIN c THEN c[s] ELSE 0)
                         = IF s \in DOMAIN d.scores THEN d.scores[s] ELSE 0
  <2>1. d.scores \in [DOMAIN d.scores -> Nat]
    BY DEF IsDeal
  <2>2. /\ DOMAIN c = DOMAIN d.scores \cup DOMAIN playerFds
        /\ \A s \in DOMAIN c : c[s] = (IF s \in DOMAIN d.scores THEN d.scores[s] ELSE 0) + 0
    BY DEF CreditSeats
  <2> HIDE DEF c
  <2>3. QED
    BY <2>1, <2>2
<1> HIDE DEF e, c
<1>3. Points(e) = Points(d)
  BY <1>1, <1>2 DEF Points
<1>4. \A s \in Seats : HasPlayed(e, s) <=> HasPlayed(d, s)
  BY <1>1 DEF HasPlayed
<1>5. SameToRules(d, e) /\ (Sized(d) => Sized(e))
  BY <1>1, <1>3, <1>4 DEF SameToRules, Sized
<1>6. QED
  BY <1>5 DEF e, c

\* dealThread leaves its loop with the last points.
LEMMA EndTrickEnds ==
  ASSUME EndInv, TurnsInv, TableInv, EntryInv, EndTrick
  PROVE  EndInv' /\ SameToRules(NextTrick(deal), deal')
<1> DEFINE d == NextTrick(deal)
<1>1. dealPc = "TAKEN" /\ di > 0 /\ GameInv(deal) /\ deal.cardsOnTable # <<>> /\ di' = di
  BY DEF EndTrick, TableInv
<1>2. PICK f \in 1..Players : Rotates(deal, f) /\ Len(deal.cardsOnTable) = Players
  BY <1>1 DEF TurnsInv, Played
<1>3. IsDeal(deal) /\ Sized(deal)
  BY <1>1 DEF GameInv, EndInv
<1>4. IsDeal(d) /\ Sized(d) /\ d.currentTrick = deal.currentTrick + 1
  <2>1. InTurn(deal.originalHand, deal.cardsOnTable, f)
    BY <1>2 DEF Rotates, Turned
  <2>2. QED
    BY <1>1, <1>2, <1>3, <2>1, TakenSized, NextTrickGame DEF GameInv
<1>5. d.cardsOnTable = <<>> /\ d.currentTrick > 1
  <2>1. d.cardsOnTable = <<>>
    BY <1>3, NextTrickFields DEF Takes
  <2>2. deal.currentTrick \in Nat /\ deal.currentTrick > 0
    BY <1>3 DEF IsDeal, Sized
  <2> HIDE DEF d
  <2>3. QED
    BY <1>4, <2>1, <2>2
<1>6. \/ /\ d.currentTrick > LastTrick \/ IsOver(d)
         /\ deal' = [d EXCEPT !.scores = CreditSeats(d.scores, <<>>)] /\ dealPc' = "SCORE"
      \/ /\ ~(d.currentTrick > LastTrick \/ IsOver(d))
         /\ deal' = d /\ dealPc' = "turn"
  BY DEF EndTrick, SendTo
<1> HIDE DEF d
<1>7. Finished(d) <=> d.currentTrick > LastTrick \/ IsOver(d)
  BY <1>4, <1>5, NothingLeft DEF Finished
<1>8. SameToRules(d, deal') /\ Sized(deal')
  BY <1>4, <1>6, CreditNothing DEF EntryInv, SameToRules
<1>9. Finished(deal') <=> dealPc' \in Ended
  BY <1>6, <1>7, <1>8, SameFinished DEF Ended
<1>10. QED
  BY <1>1, <1>8, <1>9 DEF EndInv, d

\* Each step of dealThread.
LEMMA EndDealStep ==
  ASSUME EndInv, TurnsInv, CardInv, DealStep
  PROVE  EndInv'
<1>0. di' = di /\ TableInv /\ EntryInv
  BY DEF CardInv, DealStep, DealReady, Broadcast, BroadcastFails, Blocks, BeginTurn, AskSent,
     Timeout, Answered, Resume, EndTrick, EndDeal
<1>1. CASE DealReady \/ Timeout \/ EndDeal \/ BroadcastFails \/ Blocks(DealThread)
  BY <1>1, ElsewhereKeepsEnd
  DEF DealReady, Timeout, EndDeal, BroadcastFails, Blocks, SendTo, Ended
<1>2. CASE Broadcast
  BY <1>2, ElsewhereKeepsEnd DEF Broadcast, SendTo, Ended
<1>3. CASE BeginTurn
  BY <1>3, ElsewhereKeepsEnd DEF BeginTurn, Ask, Ended
<1>4. CASE AskSent
  <2>1. dealPc = "TRICK"
    BY <1>4 DEF AskSent
  <2>2. CASE trickDone[deal.currentPlayer]
    BY <1>0, <1>4, <2>1, <2>2, TurnOverKeepsEnd DEF AskSent
  <2>3. CASE ~trickDone[deal.currentPlayer]
    BY <1>0, <1>4, <2>1, <2>3, ElsewhereKeepsEnd DEF AskSent, Ended
  <2>4. QED
    BY <2>2, <2>3
<1>5. CASE Answered
  BY <1>0, <1>5, TurnOverKeepsEnd DEF Answered
<1>6. CASE Resume
  <2>1. dealPc = "suspended"
    BY <1>6 DEF Resume
  <2>2. CASE trickDone[deal.currentPlayer]
    BY <1>0, <1>6, <2>1, <2>2, TurnOverKeepsEnd DEF Resume
  <2>3. CASE ~trickDone[deal.currentPlayer]
    BY <1>0, <1>6, <2>1, <2>3, ElsewhereKeepsEnd DEF Resume, Ask, Ended
  <2>4. QED
    BY <2>2, <2>3
<1>7. CASE EndTrick
  BY <1>0, <1>7, EndTrickEnds
<1>8. QED
  BY <1>1, <1>2, <1>3, <1>4, <1>5, <1>6, <1>7 DEF DealStep

\* A card leaves the hand of the seat in turn.
LEMMA EndPlayerStep ==
  ASSUME EndInv, TurnsInv, TableInv, LockInv, NEW fd \in Fds, PlayerStep(fd)
  PROVE  EndInv'
<1>1. ASSUME NEW trick \in 1..LastTrick, NEW card \in Offers,
             HandleTRICK(fd, trick, card)
      PROVE  EndInv'
  <2>1. /\ di > 0 /\ GameInv(deal) /\ card \in Card /\ IsLegal(deal, trick, card)
        /\ dealPc \in {"TRICK", "await"} /\ Len(deal.cardsOnTable) < Players
    BY <1>1, AcceptsInTurn
  <2>2. PICK f \in 1..Players : Rotates(deal, f)
    BY <1>1, AcceptsInTurn
  <2>3. deal' = PlayCard(deal, card) /\ UNCHANGED <<di, dealPc>>
    BY <1>1 DEF HandleTRICK
  <2>4. Sized(deal')
    BY <2>1, <2>2, <2>3, PlaySized DEF EndInv
  <2>5. ~Finished(deal')
    BY <2>1, <2>3, PlayCardGame DEF Finished
  <2>6. QED
    BY <2>1, <2>3, <2>4, <2>5 DEF EndInv, Ended
<1>2. CASE UNCHANGED <<di, deal, dealPc>>
  BY <1>2, ElsewhereKeepsEnd
<1>3. QED
  BY <1>1, <1>2 DEF PlayerStep, RecvIAM, RecvIAMFails, HandleIAM, CatchUp, CaughtUp,
     LeaveIAM, RecvTRICK, RecvTRICKFails, RefuseTRICK, SpoiltTRICK, WrongSent, Blocks,
     Fail
-----------------------------------------------------------------------------
\* The deal as the rules see it.

\* A full table is a trick taken.
LEMMA SettledDeal ==
  /\ di = 0 => Settled = NewDeal(GameFile[1])
  /\ di \in Nat /\ di > 0 =>
       /\ Len(deal.cardsOnTable) = Players => Settled = NextTrick(deal)
       /\ Len(deal.cardsOnTable) # Players => Settled = deal
BY DEF Settled, Players

\* Passing the turn is nothing to the rules, also when the trick is full.
LEMMA PassSettled ==
  ASSUME di \in Nat, di > 0, di' = di, IsDeal(deal), deal' = NextPlayer(deal)
  PROVE  SameToRules(Settled, Settled')
<1> DEFINE n == NextPlayer(deal)
<1>1. n.cardsOnTable = deal.cardsOnTable
  BY NextPlayerFields DEF Passes
<1>2. SameToRules(deal, n) /\ SameToRules(NextTrick(deal), NextTrick(n))
  BY PassSame, PassedTrickSame
<1>3. /\ Len(deal'.cardsOnTable) = Players => Settled' = NextTrick(deal')
      /\ Len(deal'.cardsOnTable) # Players => Settled' = deal'
  BY DEF Settled, Players
<1> HIDE DEF n
<1>4. QED
  BY <1>1, <1>2, <1>3, SettledDeal DEF n

\* What a step of the server is to the rules.
Stutters == SameToRules(Settled, Settled')
PlaysOne == \E c \in Card : PlaysByRules(Settled, c, Settled') /\ ~Finished(Settled)
DealsAnew == Finished(Settled) /\ \E f \in Range(GameFile) : Settled' = NewDeal(f)

\* A step that leaves the deal alone.
LEMMA ElsewhereStutters == UNCHANGED <<di, deal>> => Stutters
BY DEF Stutters, Settled, SameToRules, Points

\* The next deal begins when no points are left.
LEMMA MainStepByRules ==
  ASSUME EndInv, TurnsInv, TableInv, MainStep
  PROVE  Stutters \/ DealsAnew
<1>1. CASE NextDeal
  <2>1. /\ mainPc = "next" /\ di \in Nat /\ di < Len(GameFile)
        /\ di' = di + 1 /\ deal' = NewDeal(GameFile[di + 1])
    BY <1>1 DEF NextDeal, TableInv
  <2>2. di + 1 \in DOMAIN GameFile
    BY <2>1, ServerAssumption, LenProperties
  <2>3. Settled' = NewDeal(GameFile[di + 1])
    <3>1. deal'.cardsOnTable = <<>>
      BY <2>1 DEF NewDeal
    <3>2. Len(deal'.cardsOnTable) # Len(PlayerOrder)
      BY <3>1, TablePlaces DEF Players
    <3>3. Settled' = deal'
      BY <2>1, <3>2 DEF Settled
    <3>4. QED
      BY <2>1, <3>3
  <2>4. CASE di = 0
    BY <2>3, <2>4, SettledDeal DEF Stutters, SameToRules
  <2>5. CASE di # 0
    <3>1. dealPc = "done" /\ di > 0
      BY <2>1, <2>5 DEF TurnsInv
    <3>2. Finished(deal)
      BY <3>1 DEF EndInv, Ended
    <3>3. Settled = deal
      <4>1. Len(deal.cardsOnTable) # Players
        BY <3>2, TablePlaces DEF Finished
      <4>2. QED
        BY <2>1, <3>1, <4>1, SettledDeal
    <3>4. QED
      BY <2>2, <2>3, <3>2, <3>3 DEF DealsAnew, Range
  <2>6. QED
    BY <2>4, <2>5
<1>2. CASE ~NextDeal
  BY <1>2, ElsewhereStutters
  DEF MainStep, JoinDeal, EndGame, StopAccepting, DisconnectAll, JoinClients
<1>3. QED
  BY <1>1, <1>2

\* dealThread does nothing the rules see: it passes turns and ends tricks that are
\* over.
LEMMA DealStepByRules ==
  ASSUME EndInv, TurnsInv, CardInv, DealStep
  PROVE  Stutters
<1>0. di' = di /\ TableInv /\ EntryInv /\ di \in Nat
  BY DEF CardInv, TableInv, DealStep, DealReady, Broadcast, BroadcastFails, Blocks, BeginTurn,
     AskSent, Timeout, Answered, Resume, EndTrick, EndDeal
<1>1. CASE DealReady \/ Timeout \/ EndDeal \/ BroadcastFails \/ Blocks(DealThread)
           \/ Broadcast \/ BeginTurn
  BY <1>1, ElsewhereStutters
  DEF DealReady, Timeout, EndDeal, BroadcastFails, Blocks, Broadcast, BeginTurn
<1>2. ASSUME TurnOver, dealPc \in {"suspended", "TRICK", "await"} PROVE Stutters
  <2>1. di > 0 /\ IsDeal(deal) /\ deal' = NextPlayer(deal)
    BY <1>0, <1>2 DEF TableInv, GameInv, TurnOver
  <2>2. QED
    BY <1>0, <2>1, PassSettled DEF Stutters
<1>3. CASE AskSent \/ Answered \/ Resume
  BY <1>0, <1>2, <1>3, ElsewhereStutters DEF AskSent, Answered, Resume
<1>4. CASE EndTrick
  <2>1. dealPc = "TAKEN" /\ di > 0
    BY <1>0, <1>4 DEF EndTrick, TableInv
  <2>2. Len(deal.cardsOnTable) = Players
    BY <2>1 DEF TurnsInv
  <2>3. Settled = NextTrick(deal)
    BY <1>0, <2>1, <2>2, SettledDeal
  <2>4. SameToRules(NextTrick(deal), deal') /\ IsDeal(deal)
    BY <1>0, <1>4, <2>1, EndTrickEnds DEF TableInv, GameInv
  <2>5. deal'.cardsOnTable = <<>>
    BY <2>4, NextTrickFields DEF Takes, SameToRules
  <2>6. Settled' = deal'
    <3>1. Len(deal'.cardsOnTable) # Len(PlayerOrder)
      BY <2>5, TablePlaces DEF Players
    <3>2. QED
      BY <1>0, <2>1, <3>1 DEF Settled
  <2>7. QED
    BY <2>3, <2>4, <2>6 DEF Stutters
<1>5. QED
  BY <1>1, <1>3, <1>4 DEF DealStep

\* The card that is accepted is a card of the rules, and the last one of a trick
\* takes it.
LEMMA PlayerStepByRules ==
  ASSUME EndInv, TurnsInv, TableInv, LockInv, NEW fd \in Fds, PlayerStep(fd)
  PROVE  Stutters \/ (PlaysOne /\ di > 0 /\ Settled = deal)
<1>1. ASSUME NEW trick \in 1..LastTrick, NEW card \in Offers,
             HandleTRICK(fd, trick, card)
      PROVE  PlaysOne /\ di > 0 /\ Settled = deal
  <2> DEFINE e == PlayCard(deal, card)
             m == Len(deal.cardsOnTable)
  <2>1. /\ di > 0 /\ GameInv(deal) /\ card \in Card /\ IsLegal(deal, trick, card)
        /\ dealPc \in {"TRICK", "await"} /\ m < Players /\ di \in Nat
    BY <1>1, AcceptsInTurn DEF TableInv
  <2>2. PICK f \in 1..Players : Rotates(deal, f)
    BY <1>1, AcceptsInTurn
  <2>3. deal' = e /\ di' = di
    BY <1>1 DEF HandleTRICK
  <2>4. m \in Nat /\ Players \in Nat /\ Len(e.cardsOnTable) = m + 1
    <3>1. m \in Nat /\ Players \in Nat
      BY <2>1, TablePlaces, LenProperties DEF GameInv, IsDeal
    <3>2. Len(e.cardsOnTable) = m + 1
      BY <2>1, <2>2, PlayPlaces
    <3>3. QED
      BY <3>1, <3>2
  <2>5. Settled = deal /\ ~Finished(deal)
    <3>1. m # Players
      BY <2>1, <2>4
    <3>2. QED
      BY <2>1, <3>1, SettledDeal DEF EndInv, Ended
  <2>6. CASE m + 1 < Players
    <3>1. PlaysByRules(deal, card, e)
      BY <2>1, <2>2, <2>6, PlayCardByRules
    <3>2. Settled' = e
      <4>1. Len(deal'.cardsOnTable) # Len(PlayerOrder)
        BY <2>3, <2>4, <2>6 DEF Players
      <4>2. QED
        BY <2>1, <2>3, <4>1 DEF Settled
    <3>3. QED
      BY <2>1, <2>5, <3>1, <3>2 DEF PlaysOne
  <2>7. CASE ~(m + 1 < Players)
    <3>1. m + 1 = Players
      BY <2>1, <2>4, <2>7
    <3>2. PlaysByRules(deal, card, NextTrick(e))
      BY <2>1, <2>2, <3>1, LastCardByRules
    <3>3. Settled' = NextTrick(e)
      <4>1. Len(deal'.cardsOnTable) = Len(PlayerOrder)
        BY <2>3, <2>4, <3>1 DEF Players
      <4>2. QED
        BY <2>1, <2>3, <4>1 DEF Settled
    <3>4. QED
      BY <2>1, <2>5, <3>2, <3>3 DEF PlaysOne
  <2>8. QED
    BY <2>6, <2>7
<1>2. CASE UNCHANGED <<di, deal>>
  BY <1>2, ElsewhereStutters
<1>3. QED
  BY <1>1, <1>2 DEF PlayerStep, RecvIAM, RecvIAMFails, HandleIAM, CatchUp, CaughtUp,
     LeaveIAM, RecvTRICK, RecvTRICKFails, RefuseTRICK, SpoiltTRICK, WrongSent, Blocks,
     Fail
-----------------------------------------------------------------------------
\* HeartsRules, read with the fields of the settled deal for its variables.

\* The sums of the rules are those of the lemmas.
LEMMA SameWorth == \A k, C, T : Rules!Worth(k, C, T) = R!Worth(k, C, T)
<1> TAKE k, C, T
<1>1. Rules!CardsWorth(k, C) = R!CardsWorth(k, C)
  BY DEF Rules!CardsWorth, R!CardsWorth, Rules!MapThenSumSet, R!MapThenSumSet,
         Rules!MapThenFoldSet, R!MapThenFoldSet, Rules!CardValue, R!CardValue,
         Rules!Queen, Rules!Jack, Rules!King, R!Queen, R!Jack, R!King
<1>2. Rules!TricksWorth(k, T) = R!TricksWorth(k, T)
  BY DEF Rules!TricksWorth, R!TricksWorth, Rules!MapThenSumSet, R!MapThenSumSet,
         Rules!MapThenFoldSet, R!MapThenFoldSet, Rules!TrickValue, R!TrickValue
<1>3. QED
  BY <1>1, <1>2 DEF Rules!Worth, R!Worth

\* The rules call the deal done when it is finished.
LEMMA SameEnd == Finished(Settled) <=> Rules!Done
BY SameWorth DEF Finished, Rules!Done, Rules!Range, Range

\* A card of the rules is a step of HeartsRules.
LEMMA PlaysOneIsRules ==
  ASSUME Settled.currentHand \in HandsType, PlaysOne
  PROVE  Rules!Next
<1>1. PICK c \in Card : PlaysByRules(Settled, c, Settled') /\ ~Finished(Settled)
  BY DEF PlaysOne
<1>2. /\ \A s, k : Rules!Clockwise(s, k) = R!Clockwise(s, k)
      /\ \A t : Rules!WinningPlace(t) = R!WinningPlace(t)
      /\ Rules!Players = Players /\ Rules!Seats = Seats
  BY DEF Rules!Clockwise, R!Clockwise, Rules!WinningPlace, R!WinningPlace,
         Rules!Players, R!Players, Players, Rules!Seats, Seats, Rules!Range, Range
<1>3. Rules!Play(c)
  BY <1>1, <1>2, SameWorth, SameEnd
     DEF PlaysByRules, Rules!Play, Rules!Turn, Points, Rules!Range, Range
<1>4. c \in UNION Rules!Range(Settled.currentHand)
  <2>1. PICK s \in Seats : c \in Settled.currentHand[s]
    BY <1>1 DEF PlaysByRules
  <2>2. QED
    BY <2>1 DEF Rules!Range, HandsType
<1>5. QED
  BY <1>3, <1>4 DEF Rules!Next, Rules!PlayCard

\* The rules deal what the file describes.
LEMMA DealsAnewIsRules == DealsAnew => Rules!Next
<1> SUFFICES ASSUME DealsAnew PROVE Rules!Next
  OBVIOUS
<1>1. PICK f \in Range(GameFile) : Settled' = NewDeal(f)
  BY DEF DealsAnew
<1>2. Rules!Init'
  BY <1>1 DEF Rules!Init, NewDeal, Rules!Seats, Seats, Rules!Range, Range
<1>3. Rules!Done
  BY SameEnd DEF DealsAnew
<1>4. QED
  BY <1>2, <1>3 DEF Rules!Next, Rules!NextDeal

\* The hands of the settled deal are hands.
LEMMA SettledHands ==
  ASSUME TableInv, di > 0 \/ GameFile # <<>>
  PROVE  Settled.currentHand \in HandsType
<1>1. di \in Nat
  BY DEF TableInv
<1>2. CASE di = 0
  <2>1. 1 \in DOMAIN GameFile
    BY <1>1, <1>2, ServerAssumption
  <2>2. GameFile[1].hands \in HandsType
    BY <2>1, ServerAssumption DEF ProperDeal, DealSpec
  <2>3. QED
    BY <1>2, <2>2, SettledDeal DEF NewDeal
<1>3. CASE di > 0
  <2>1. IsDeal(deal)
    BY <1>3 DEF TableInv, GameInv
  <2>2. NextTrick(deal).currentHand = deal.currentHand /\ deal.currentHand \in HandsType
    BY <2>1, NextTrickFields DEF Takes, IsDeal
  <2>3. QED
    BY <1>1, <1>3, <2>2, SettledDeal
<1>4. QED
  BY <1>1, <1>2, <1>3
-----------------------------------------------------------------------------
\* The quiet server is always where the rules are.
RulesInv == QuietInv /\ (drops = 0 => EndInv)

\* The server starts before the first deal.
LEMMA RulesInit == Init => RulesInv
BY QuietInit DEF RulesInv, EndInv, Init

\* Every step keeps it.
LEMMA RulesStep == RulesInv /\ [Next]_vars => RulesInv'
<1> SUFFICES ASSUME RulesInv, [Next]_vars PROVE RulesInv'
  OBVIOUS
<1>1. QuietInv'
  BY QuietStep DEF RulesInv
<1>2. ASSUME drops' = 0 PROVE EndInv'
  <2>1. EndInv /\ TurnsInv /\ TableInv /\ CardInv /\ LockInv
    BY <1>2, DropsGrow DEF RulesInv, QuietInv, PeaceInv, CardInv
  <2>2. CASE AcceptStep \/ UNCHANGED vars \/ \E fd \in Fds : ClientCloses(fd)
    BY <2>1, <2>2, ElsewhereKeepsEnd
    DEF AcceptStep, PollIn, PollHup, Accept, AcceptFails, ClientCloses, vars
  <2>3. QED
    BY <2>1, <2>2, EndMainStep, EndDealStep, EndPlayerStep DEF Next
<1>3. QED
  BY <1>1, <1>2 DEF RulesInv

\* And it is a step of the rules, or none.
LEMMA StepByRules ==
  ASSUME GameFile # <<>>, RulesInv, drops = 0, [Next]_vars
  PROVE  [Rules!Next]_(Rules!vars)
<1>1. EndInv /\ TurnsInv /\ TableInv /\ CardInv /\ LockInv
  BY DEF RulesInv, QuietInv, CardInv
<1>2. Stutters \/ PlaysOne \/ DealsAnew
  <2>1. CASE AcceptStep \/ UNCHANGED vars \/ \E fd \in Fds : ClientCloses(fd)
    BY <2>1, ElsewhereStutters
    DEF AcceptStep, PollIn, PollHup, Accept, AcceptFails, ClientCloses, vars
  <2>2. QED
    BY <1>1, <2>1, MainStepByRules, DealStepByRules, PlayerStepByRules DEF Next
<1>3. Stutters => UNCHANGED Rules!vars
  BY DEF Stutters, SameToRules, Points, Rules!vars, Rules!Seats, Seats, Rules!Range, Range
<1>4. QED
  BY <1>1, <1>2, <1>3, SettledHands, PlaysOneIsRules, DealsAnewIsRules

\* As long as no client has left, the threads of the server together play Hearts:
\* the cards the player threads accept, the turns and tricks of the deal thread
\* and the deals the main thread begins are those of the rules, whatever the
\* clients send, however the threads interleave and wherever a write waits.
THEOREM ServerPlaysHearts ==
  ASSUME GameFile # <<>>
  PROVE  Spec /\ [](drops = 0) => PlaysHearts
<1>1. Init => Rules!Init
  <2> SUFFICES ASSUME Init PROVE Rules!Init
    OBVIOUS
  <2>1. Settled = NewDeal(GameFile[1]) /\ 1 \in DOMAIN GameFile
    BY ServerAssumption, SettledDeal DEF Init
  <2>2. GameFile[1] \in Range(GameFile)
    BY <2>1 DEF Range
  <2>3. QED
    BY <2>1, <2>2 DEF Rules!Init, NewDeal, Rules!Seats, Seats, Rules!Range, Range
<1>2. RulesInv /\ drops = 0 /\ [Next]_vars => [Rules!Next]_(Rules!vars)
  BY StepByRules
<1>3. QED
  BY RulesInit, RulesStep, <1>1, <1>2, PTL DEF Spec, PlaysHearts, Rules!Safe
-----------------------------------------------------------------------------
\* The totals.

\* The deals whose points are in totalScores.
Counted == IF dealPc \in Ended THEN di ELSE di - 1
DealWorth(f) == R!Worth(f.type, UNION Range(f.hands), 1..LastTrick)
Worths(n) == [i \in 1..n |-> DealWorth(GameFile[i])]

\* What the seats have and what is left to take is what the file deals, and the
\* totals add up to the deals counted.
TotalsInv ==
  /\ di \in 0..Len(GameFile)
  /\ totalScores \in [DOMAIN totalScores -> Nat] /\ DOMAIN totalScores \subseteq Seats
  /\ di > 0 => Value(Settled) = DealWorth(GameFile[di])
  /\ SumFunction(totalScores) = SumFunction(Worths(Counted))

\* Every deal of the file is worth a number, the worth of its beginning.
LEMMA FileWorth ==
  ASSUME NEW i \in 1..Len(GameFile)
  PROVE  /\ DealWorth(GameFile[i]) \in Nat
         /\ Value(NewDeal(GameFile[i])) = DealWorth(GameFile[i])
<1> DEFINE f == GameFile[i]
           U == UNION Range(f.hands)
           W == R!Worth(f.type, U, 1..LastTrick)
<1>1. i \in DOMAIN GameFile
  BY ServerAssumption, LenProperties
<1>2. ProperDeal(f)
  BY <1>1, ServerAssumption
<1> HIDE DEF f
<1>3. Value(NewDeal(f)) = W
  BY <1>2, NewDealValue
<1>4. W \in Nat
  <2>1. f.hands \in HandsType
    BY <1>2 DEF ProperDeal, DealSpec
  <2>2. IsFiniteSet(U)
    BY <2>1, HandCards, CardFinite, FS_Subset
  <2>3. LastTrick \in Nat
    BY CardsAssumption
  <2>4. 1 \in Int /\ LastTrick \in Int
    BY <2>3
  <2>5. IsFiniteSet(1..LastTrick)
    BY <2>4, FS_Interval
  <2> HIDE DEF U
  <2>6. QED
    BY <2>2, <2>5, WorthZero
<1>5. QED
  BY <1>3, <1>4 DEF DealWorth, f

\* The totals stay while no deal is counted.
LEMMA ElsewhereKeepsTotals ==
  ASSUME TotalsInv, UNCHANGED <<di, totalScores>>, dealPc' \in Ended <=> dealPc \in Ended,
         di > 0 => Value(Settled') = Value(Settled)
  PROVE  TotalsInv'
<1>1. Counted' = Counted
  BY DEF Counted
<1>2. Worths(Counted)' = Worths(Counted)
  BY <1>1 DEF Worths
<1>3. QED
  BY <1>2 DEF TotalsInv

\* The next deal has all its points before it.
LEMMA TotalsMainStep ==
  ASSUME TotalsInv, DealInv, MainStep
  PROVE  TotalsInv'
<1>1. CASE NextDeal
  <2>1. /\ mainPc = "next" /\ di < Len(GameFile) /\ di' = di + 1
        /\ deal' = NewDeal(GameFile[di + 1]) /\ dealPc' = "ready"
        /\ UNCHANGED totalScores
    BY <1>1 DEF NextDeal
  <2>2. dealPc = "done"
    BY <2>1 DEF DealInv
  <2>3. di \in Nat /\ Len(GameFile) \in Nat
    BY ServerAssumption, LenProperties DEF TotalsInv
  <2>4. di' \in 1..Len(GameFile) /\ di' \in 0..Len(GameFile) /\ di' > 0 /\ di' - 1 = di
    BY <2>1, <2>3
  <2>5. Settled' = deal'
    <3>1. deal'.cardsOnTable = <<>>
      BY <2>1 DEF NewDeal
    <3>2. Len(deal'.cardsOnTable) # Len(PlayerOrder)
      BY <3>1, TablePlaces DEF Players
    <3>3. QED
      BY <2>4, <3>2 DEF Settled
  <2>6. Value(Settled') = DealWorth(GameFile[di'])
    BY <2>1, <2>4, <2>5, FileWorth
  <2>7. Counted = di /\ Counted' = di
    BY <2>1, <2>2, <2>4 DEF Counted, Ended
  <2>8. Worths(Counted)' = Worths(Counted)
    BY <2>7 DEF Worths
  <2>9. QED
    BY <2>1, <2>4, <2>6, <2>8 DEF TotalsInv
<1>2. CASE ~NextDeal
  <2>1. UNCHANGED <<di, deal, dealPc, totalScores>>
    BY <1>2 DEF MainStep, JoinDeal, EndGame, StopAccepting, DisconnectAll, JoinClients
  <2>2. Settled' = Settled
    BY <2>1 DEF Settled
  <2>3. QED
    BY <2>1, <2>2, ElsewhereKeepsTotals
<1>3. QED
  BY <1>1, <1>2

\* A player thread gives no points: the card it accepts moves them from the hands
\* to the table, or to the seat that takes the trick.
LEMMA TotalsPlayerStep ==
  ASSUME TotalsInv, EndInv, TurnsInv, TableInv, LockInv, NEW fd \in Fds, PlayerStep(fd)
  PROVE  TotalsInv'
<1>1. UNCHANGED <<di, dealPc, totalScores>>
  BY DEF PlayerStep, RecvIAM, RecvIAMFails, HandleIAM, CatchUp, CaughtUp, LeaveIAM,
     RecvTRICK, RecvTRICKFails, HandleTRICK, RefuseTRICK, SpoiltTRICK, WrongSent, Blocks, Fail
<1>2. Value(Settled') = Value(Settled)
  <2>1. CASE Stutters
    BY <2>1, SameValue DEF Stutters
  <2>2. CASE PlaysOne /\ di > 0 /\ Settled = deal
    <3>1. PICK c \in Card : PlaysByRules(deal, c, Settled')
      BY <2>2 DEF PlaysOne
    <3>2. GameInv(deal) /\ Sized(deal)
      BY <2>2 DEF TableInv, EndInv
    <3>3. QED
      BY <2>2, <3>1, <3>2, PlayKeepsValue
  <2>3. QED
    BY <2>1, <2>2, PlayerStepByRules
<1>3. QED
  BY <1>1, <1>2, ElsewhereKeepsTotals

\* The seats' points of a deal join their totals.
LEMMA CreditAdds ==
  ASSUME NEW d, IsDeal(d), DOMAIN playerFds = Seats,
         totalScores \in [DOMAIN totalScores -> Nat], DOMAIN totalScores \subseteq Seats
  PROVE  /\ CreditSeats(totalScores, d.scores) \in [Seats -> Nat]
         /\ SumFunction(CreditSeats(totalScores, d.scores))
              = SumFunction(totalScores) + Total(d)
<1> DEFINE D == DOMAIN totalScores
           P == [s \in Seats |-> IF s \in D THEN totalScores[s] ELSE 0]
           Q == Points(d)
           C == CreditSeats(totalScores, d.scores)
<1>1. P \in [Seats -> Nat] /\ Q \in [Seats -> Nat]
  BY PointsType
<1>2. C = [s \in Seats |-> P[s] + Q[s]]
  <2>1. D \cup DOMAIN playerFds = Seats
    OBVIOUS
  <2>2. C = [s \in Seats |-> (IF s \in D THEN totalScores[s] ELSE 0)
                             + (IF s \in Seats \cap DOMAIN d.scores THEN d.scores[s] ELSE 0)]
    BY <2>1 DEF CreditSeats
  <2>3. \A s \in Seats :
          (IF s \in D THEN totalScores[s] ELSE 0)
          + (IF s \in Seats \cap DOMAIN d.scores THEN d.scores[s] ELSE 0) = P[s] + Q[s]
    BY DEF Points
  <2> HIDE DEF C, P, Q, D
  <2>4. QED
    BY <2>2, <2>3
<1>3. SumFunction(P) = SumFunction(totalScores)
  <2>1. totalScores \in [D -> Nat] /\ D \subseteq Seats
    OBVIOUS
  <2> HIDE DEF D
  <2>2. QED
    BY <2>1, SeatsFinite, SumPadded
<1> HIDE DEF P, Q, C
<1>4. SumFunction([s \in Seats |-> P[s] + Q[s]]) = SumFunction(P) + SumFunction(Q)
  BY <1>1, SeatsFinite, SumTogether
<1>5. C \in [Seats -> Nat]
  BY <1>1, <1>2
<1>6. QED
  BY <1>2, <1>3, <1>4, <1>5 DEF C, Q, Total

\* When dealThread leaves its loop it counts the deal, once and for every seat.
LEMMA TotalsEndTrick ==
  ASSUME TotalsInv, EndInv, TurnsInv, TableInv, EntryInv, AllSeated, EndTrick
  PROVE  TotalsInv'
<1> DEFINE d == NextTrick(deal)
<1>1. dealPc = "TAKEN" /\ di > 0 /\ GameInv(deal) /\ di' = di
  BY DEF EndTrick, TableInv
<1>2. EndInv' /\ SameToRules(d, deal')
  BY EndTrickEnds
<1>3. IsDeal(d) /\ IsDeal(deal)
  <2>1. deal.cardsOnTable # <<>>
    BY <1>1 DEF TableInv
  <2>2. QED
    BY <1>1, <2>1, NextTrickGame DEF GameInv
<1>4. di \in Nat /\ Len(deal.cardsOnTable) = Players
  BY <1>1 DEF TotalsInv, TurnsInv
<1>5. Settled = d
  BY <1>1, <1>4, SettledDeal
<1>6. Settled' = deal'
  <2>1. deal'.cardsOnTable = <<>>
    BY <1>2, <1>3, NextTrickFields DEF Takes, SameToRules
  <2>2. Len(deal'.cardsOnTable) # Len(PlayerOrder)
    BY <2>1, TablePlaces DEF Players
  <2>3. QED
    BY <1>1, <2>2 DEF Settled
<1>7. Value(Settled') = Value(Settled) /\ Value(d) = DealWorth(GameFile[di])
  <2> HIDE DEF d
  <2>1. Value(deal') = Value(d)
    BY <1>2, SameValue
  <2>2. QED
    BY <1>1, <1>5, <1>6, <2>1 DEF TotalsInv
<1>8. \/ totalScores' = CreditSeats(totalScores, d.scores) /\ dealPc' = "SCORE"
      \/ UNCHANGED totalScores /\ dealPc' = "turn"
  BY DEF EndTrick, SendTo
<1> HIDE DEF d
<1>9. CASE UNCHANGED totalScores /\ dealPc' = "turn"
  BY <1>1, <1>7, <1>9, ElsewhereKeepsTotals DEF Ended
<1>10. CASE totalScores' = CreditSeats(totalScores, d.scores) /\ dealPc' = "SCORE"
  <2> DEFINE n == di - 1
             F == Worths(n)
             G == Worths(di)
  <2>1. Finished(d)
    BY <1>1, <1>2, <1>10, SameFinished DEF EndInv, Ended
  <2>2. Total(d) = DealWorth(GameFile[di])
    BY <1>3, <1>7, <2>1, FinishedValue
  <2>3. DOMAIN playerFds = Seats
    BY DEF AllSeated, EntryInv
  <2>4. /\ totalScores' \in [Seats -> Nat]
        /\ SumFunction(totalScores') = SumFunction(totalScores) + Total(d)
    BY <1>3, <1>10, <2>3, CreditAdds DEF TotalsInv
  <2>5. SumFunction(totalScores) = SumFunction(F)
    BY <1>1 DEF TotalsInv, Counted, Ended
  <2>6. n \in Nat /\ n + 1 = di /\ 1..n \subseteq 1..Len(GameFile) /\ di \in 1..Len(GameFile)
    <3>1. Len(GameFile) \in Nat /\ di <= Len(GameFile)
      BY <1>4, ServerAssumption, LenProperties DEF TotalsInv
    <3>2. QED
      BY <1>1, <1>4, <3>1
  <2>7. F \in [1..n -> Nat] /\ G \in [1..(n + 1) -> Nat] /\ (\A i \in 1..n : G[i] = F[i])
        /\ G[n + 1] = DealWorth(GameFile[di])
    <3>1. \A i \in 1..Len(GameFile) : DealWorth(GameFile[i]) \in Nat
      BY FileWorth
    <3>2. 1..(n + 1) \subseteq 1..Len(GameFile) /\ 1..n \subseteq 1..(n + 1) /\ n + 1 \in 1..(n + 1)
      BY <2>6
    <3>3. n + 1 = di
      BY <2>6
    <3> HIDE DEF n
    <3>4. QED
      BY <3>1, <3>2, <3>3 DEF Worths
  <2> HIDE DEF n, F, G
  <2>8. SumFunction(G) = SumFunction(F) + G[n + 1]
    BY <2>6, <2>7, SumExtended
  <2>9. SumFunction(totalScores') = SumFunction(G)
    BY <2>2, <2>4, <2>5, <2>7, <2>8
  <2>10. Counted' = di
    BY <1>1, <1>10 DEF Counted, Ended
  <2>11. Worths(Counted)' = G
    BY <1>1, <2>10 DEF G, Worths
  <2>12. QED
    BY <1>1, <1>7, <2>4, <2>9, <2>11 DEF TotalsInv
<1>11. QED
  BY <1>8, <1>9, <1>10

\* Each step of dealThread.
LEMMA TotalsDealStep ==
  ASSUME TotalsInv, EndInv, TurnsInv, CardInv, dealPc \notin {"ready", "done"} => AllSeated, DealStep
  PROVE  TotalsInv'
<1>0. di' = di /\ TableInv /\ EntryInv
  BY DEF CardInv, DealStep, DealReady, Broadcast, BroadcastFails, Blocks, BeginTurn, AskSent,
     Timeout, Answered, Resume, EndTrick, EndDeal
<1>1. CASE EndTrick
  BY <1>0, <1>1, TotalsEndTrick DEF EndTrick
<1>2. CASE Blocks(DealThread)
  <2>1. UNCHANGED <<di, deal, dealPc, totalScores>>
    BY <1>2 DEF Blocks
  <2>2. Settled' = Settled
    BY <2>1 DEF Settled
  <2>3. QED
    BY <2>1, <2>2, ElsewhereKeepsTotals
<1>3. CASE ~EndTrick /\ ~Blocks(DealThread)
  <2>1. UNCHANGED totalScores /\ di > 0 /\ IsDeal(deal)
    <3>1. UNCHANGED totalScores /\ dealPc # "done"
      BY <1>3 DEF DealStep, DealReady, Broadcast, BroadcastFails, BeginTurn, Ask,
         AskSent, Timeout, Answered, Resume, TurnOver, EndDeal
    <3>2. QED
      BY <1>0, <3>1 DEF TableInv, GameInv
  <2>2. deal' = deal \/ deal' = NextPlayer(deal)
    BY <1>3 DEF DealStep, DealReady, Broadcast, BroadcastFails, BeginTurn, Ask,
       AskSent, Timeout, Answered, Resume, TurnOver, EndDeal
  <2>3. SameToRules(deal, deal')
    BY <2>1, <2>2, PassSame DEF SameToRules
  <2>4. dealPc' \in Ended <=> dealPc \in Ended
    BY <1>0, <2>1, <2>3, EndDealStep, SameFinished DEF EndInv
  <2>5. Value(Settled') = Value(Settled)
    BY DealStepByRules, SameValue DEF Stutters
  <2>6. QED
    BY <1>0, <2>1, <2>4, <2>5, ElsewhereKeepsTotals
<1>4. QED
  BY <1>1, <1>2, <1>3

\* The totals of a server no client has left.
ScoresInv == SeatsInv /\ RulesInv /\ (drops = 0 => TotalsInv)

\* No deal, no totals.
LEMMA ScoresInit == Init => ScoresInv
<1> SUFFICES ASSUME Init PROVE ScoresInv
  OBVIOUS
<1>1. di = 0 /\ totalScores = <<>> /\ dealPc = "done"
  BY DEF Init
<1>2. Len(GameFile) \in Nat
  BY ServerAssumption, LenProperties
<1>3. SumFunction(totalScores) = SumFunction(Worths(Counted))
  <2>1. totalScores = Worths(0)
    BY <1>1 DEF Worths
  <2>2. QED
    BY <1>1, <2>1 DEF Counted, Ended
<1>4. TotalsInv
  BY <1>1, <1>2, <1>3 DEF TotalsInv
<1>5. QED
  BY <1>4, SeatsInit, RulesInit DEF ScoresInv

\* Every step keeps them.
LEMMA ScoresStep == ScoresInv /\ [Next]_vars => ScoresInv'
<1> SUFFICES ASSUME ScoresInv, [Next]_vars PROVE ScoresInv'
  OBVIOUS
<1>1. SeatsInv' /\ RulesInv'
  BY SeatsStep, RulesStep DEF ScoresInv
<1>2. ASSUME drops' = 0 PROVE TotalsInv'
  <2>1. /\ drops = 0 /\ TotalsInv /\ EndInv /\ TurnsInv /\ TableInv /\ CardInv /\ LockInv
        /\ DealInv /\ OnceInv
    BY <1>2, DropsGrow DEF ScoresInv, SeatsInv, RulesInv, QuietInv, PeaceInv, CardInv
  <2>2. CASE MainStep
    BY <2>1, <2>2, TotalsMainStep
  <2>3. CASE DealStep
    <3>1. dealPc \notin {"ready", "done"} => AllSeated
      BY <2>1 DEF OnceInv, Once, DealInv
    <3>2. QED
      BY <2>1, <2>3, <3>1, TotalsDealStep
  <2>4. CASE \E fd \in Fds : PlayerStep(fd)
    BY <2>1, <2>4, TotalsPlayerStep
  <2>5. CASE AcceptStep \/ UNCHANGED vars \/ \E fd \in Fds : ClientCloses(fd)
    <3>1. UNCHANGED <<di, deal, dealPc, totalScores>>
      BY <2>5 DEF AcceptStep, PollIn, PollHup, Accept, AcceptFails, ClientCloses, vars
    <3>2. Settled' = Settled
      BY <3>1 DEF Settled
    <3>3. QED
      BY <2>1, <3>1, <3>2, ElsewhereKeepsTotals
  <2>6. QED
    BY <2>2, <2>3, <2>4, <2>5 DEF Next
<1>3. QED
  BY <1>1, <1>2 DEF ScoresInv

\* As long as no client has left, the totals of all seats add up to what all the
\* deals so far are worth whenever a deal is over: whoever takes the tricks, no
\* card and no trick is scored twice or not at all, and a deal that ends early
\* has no points left.
THEOREM TotalsAlwaysAddUp == Spec => [](drops = 0 => TotalsAddUp)
<1>1. ScoresInv => (drops = 0 => TotalsAddUp)
  <2> SUFFICES ASSUME ScoresInv, drops = 0, dealPc = "done"
               PROVE  SumFunction(totalScores) = SumFunction([i \in 1..di |-> WorthOf(GameFile[i])])
    BY DEF TotalsAddUp
  <2>1. TotalsInv /\ Counted = di
    BY DEF ScoresInv, Counted, Ended
  <2>2. \A f : WorthOf(f) = DealWorth(f)
    BY SameWorth DEF WorthOf, DealWorth
  <2>3. QED
    BY <2>1, <2>2 DEF TotalsInv, Worths
<1>2. QED
  BY ScoresInit, ScoresStep, <1>1, PTL DEF Spec
=============================================================================
