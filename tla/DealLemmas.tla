----------------------------- MODULE DealLemmas -----------------------------
(***************************************************************************)
(* Lemmas about the operations of class Deal, for every set of seats and   *)
(* every number of tricks: what each of them does to the types of a deal,  *)
(* to the cards it holds and to the game it records - who follows suit,    *)
(* who takes a trick and who leads the next one.  GameInv collects what    *)
(* the operations keep true of a deal, whoever calls them.                 *)
(***************************************************************************)
EXTENDS DealProperties, FiniteSetsExt, FiniteSetTheorems, SequenceTheorems,
        WellFoundedInduction, TLAPS

\* The turn passes to a seat of the table: the index stays in playerOrder.
LEMMA NextSeatType == \A s \in Seats : NextSeat(s) \in Seats
<1> SUFFICES ASSUME NEW s \in Seats PROVE NextSeat(s) \in Seats
  OBVIOUS
<1> DEFINE i == CHOOSE i \in DOMAIN PlayerOrder : PlayerOrder[i] = s
<1> DEFINE n == Len(PlayerOrder)
<1>a. n \in Nat /\ n > 0 /\ DOMAIN PlayerOrder = 1..n
  BY CardsAssumption, LenProperties
<1>1. i \in 1..n
  BY <1>a DEF Seats, Range
<1>b. ASSUME NEW a \in Int, NEW b \in Nat, b > 0 PROVE (a % b) + 1 \in 1..b
  BY <1>b
<1>2. (i % n) + 1 \in DOMAIN PlayerOrder
  BY <1>a, <1>1, <1>b
<1>3. QED
  BY <1>2 DEF NextSeat, Seats, Range

\* playCard keeps the types of the fields.
LEMMA LayCardType ==
  ASSUME NEW d, IsDeal(d), NEW card \in Card
  PROVE  IsDeal(LayCard(d, card))
<1>1. card.suit \in Suits
  BY DEF Card
<1> DEFINE led == IF d.cardsOnTable = <<>> THEN card.suit ELSE d.trickSuit
           takes == /\ card.suit = led
                    /\ d.highestCard = NoCard \/ CompareRanks(d.highestCard, card)
           hc == IF takes THEN card ELSE d.highestCard
           hp == IF takes THEN d.currentPlayer ELSE d.highestPlayer
           tab == Append(d.cardsOnTable, card)
           e == [d EXCEPT !.trickSuit = led, !.highestCard = hc,
                          !.highestPlayer = hp, !.cardsOnTable = tab]
<1>3. /\ led \in Suits \cup {NoSuit}
      /\ hc \in Card \cup {NoCard}
      /\ hp \in Seats \cup {NoSeat}
      /\ tab \in Seq(Card)
  BY <1>1 DEF IsDeal
<1>4. IsDeal(e)
  <2> HIDE DEF led, takes, hc, hp, tab
  <2> QED BY <1>3 DEF IsDeal
<1>5. QED
  BY <1>4 DEF LayCard

\* playCard keeps them when it also erases the card from the hand.
LEMMA PlayCardType ==
  ASSUME NEW d, IsDeal(d), NEW card \in Card
  PROVE  IsDeal(PlayCard(d, card))
<1> DEFINE e == LayCard(d, card)
<1>1. IsDeal(e)
  BY LayCardType
<1>2. d.currentPlayer \in Seats
  BY DEF IsDeal
<1>3. QED
  BY <1>1, <1>2 DEF PlayCard, IsDeal, HandsType

\* nextPlayer makes a seat of the table the current player.
LEMMA NextPlayerType ==
  ASSUME NEW d, IsDeal(d)
  PROVE  IsDeal(NextPlayer(d))
<1>1. NextSeat(d.currentPlayer) \in Seats
  BY NextSeatType DEF IsDeal
<1>2. QED
  BY <1>1 DEF NextPlayer, IsDeal

\* getScore counts cards, so its points are natural numbers.
LEMMA GetScoreType ==
  ASSUME NEW d, IsDeal(d)
  PROVE  GetScore(d) \in Nat
<1> DEFINE t == d.cardsOnTable
           Count(R, S) ==
             Cardinality({i \in DOMAIN t : t[i].rank \in R /\ t[i].suit \in S})
           When(k, n) == IF d.type \in {k, 7} THEN n ELSE 0
           late == IF d.currentTrick \in {SeventhTrick, LastTrick} THEN 10 ELSE 0
           kingH == IF Count({King}, {"H"}) > 0 THEN 18 ELSE 0
<1>1. t \in Seq(Card)
  BY DEF IsDeal
<1>2. ASSUME NEW R, NEW S PROVE Count(R, S) \in Nat
  <2> DEFINE I == {i \in DOMAIN t : t[i].rank \in R /\ t[i].suit \in S}
  <2>1. DOMAIN t = 1..Len(t) /\ Len(t) \in Nat
    BY <1>1, LenProperties
  <2>2. IsFiniteSet(1..Len(t))
    BY <2>1, FS_Interval
  <2>3. IsFiniteSet(I)
    BY <2>1, <2>2, FS_Subset
  <2>4. QED
    BY <2>3, FS_CardinalityType
<1>3. late \in Nat /\ kingH \in Nat
  OBVIOUS
<1>4. /\ Count(2..Ace, {"H"}) \in Nat
      /\ 5 * Count({Queen}, Suits) \in Nat
      /\ 2 * Count({Jack, King}, Suits) \in Nat
  <2>1. /\ Count(2..Ace, {"H"}) \in Nat
        /\ Count({Queen}, Suits) \in Nat
        /\ Count({Jack, King}, Suits) \in Nat
    BY <1>2
  <2> HIDE DEF Count
  <2> QED BY <2>1
<1>5. ASSUME NEW k, NEW n \in Nat PROVE When(k, n) \in Nat
  OBVIOUS
<1>6. GetScore(d) = When(1, 1) + When(2, Count(2..Ace, {"H"}))
        + When(3, 5 * Count({Queen}, Suits)) + When(4, 2 * Count({Jack, King}, Suits))
        + When(5, kingH) + When(6, late)
  BY DEF GetScore
<1>7. QED
  <2> HIDE DEF Count, When, late, kingH
  <2>1. /\ When(1, 1) \in Nat /\ When(2, Count(2..Ace, {"H"})) \in Nat
        /\ When(3, 5 * Count({Queen}, Suits)) \in Nat
        /\ When(4, 2 * Count({Jack, King}, Suits)) \in Nat
        /\ When(5, kingH) \in Nat /\ When(6, late) \in Nat
    BY <1>3, <1>4, <1>5
  <2>2. QED BY <1>6, <2>1

\* The end of nextTrick leaves the empty values of an empty table.
LEMMA ClearTableType ==
  ASSUME NEW d, IsDeal(d)
  PROVE  IsDeal(ClearTable(d))
<1>1. <<>> \in Seq(Card)
  OBVIOUS
<1>2. QED
  BY <1>1 DEF ClearTable, IsDeal

\* nextTrick keeps the types when the trick has a highest player.
LEMMA NextTrickType ==
  ASSUME NEW d, IsDeal(d), d.highestPlayer \in Seats
  PROVE  IsDeal(NextTrick(d))
<1> DEFINE sc == Credit(d.scores, d.highestPlayer, GetScore(d))
           taken == Append(d.tricksTaken, [cards |-> d.cardsOnTable,
                                           seat |-> d.highestPlayer])
           next == d.currentTrick + 1
           w == d.highestPlayer
           e == [d EXCEPT !.scores = sc, !.tricksTaken = taken,
                          !.currentTrick = next, !.currentPlayer = w]
<1>1. DOMAIN sc \subseteq Seats /\ sc \in [DOMAIN sc -> Nat]
  BY GetScoreType DEF IsDeal, Credit
<1>2. taken \in Seq(TrickTaken)
  BY DEF IsDeal, TrickTaken
<1>3. next \in Nat /\ w \in Seats
  BY DEF IsDeal
<1>4. IsDeal(e)
  <2> HIDE DEF sc, taken, next, w
  <2> QED BY <1>1, <1>2, <1>3 DEF IsDeal
<1>5. IsDeal(ClearTable(e))
  BY <1>4, ClearTableType
<1>6. IsDeal(TakeTrick(d))
  BY <1>5 DEF TakeTrick
<1>7. QED
  BY <1>3, <1>6 DEF NextTrick, IsDeal
-----------------------------------------------------------------------------
\* A card appended to a sequence it is not in.
LEMMA AppendNew ==
  ASSUME NEW S, NEW t \in Seq(S), NEW c \in S
  PROVE  /\ Range(Append(t, c)) = Range(t) \cup {c}
         /\ IsInjective(t) /\ c \notin Range(t) => IsInjective(Append(t, c))
<1> DEFINE n == Len(t)
           a == Append(t, c)
<1>1. /\ n \in Nat /\ DOMAIN t = 1..n /\ DOMAIN a = 1..(n + 1)
      /\ \A i \in 1..n : a[i] = t[i]
      /\ a[n + 1] = c
  BY AppendProperties, LenProperties
<1>2. Range(a) = Range(t) \cup {c}
  <2> HIDE DEF a, n
  <2> QED BY <1>1 DEF Range
<1>3. ASSUME IsInjective(t), c \notin Range(t) PROVE IsInjective(a)
  <2>1. \A i \in 1..n : t[i] # c
    BY <1>1, <1>3 DEF Range
  <2> HIDE DEF a, n
  <2>2. QED BY <1>1, <1>3, <2>1 DEF IsInjective
<1>4. QED
  BY <1>2, <1>3

\* The hands a seat is dealt have no card in common.
Dealt(d) == \A s, t \in Seats : s # t => d.originalHand[s] \cap d.originalHand[t] = {}

\* A legal card leaves the hand of the current player for the table; it is in no
\* other hand and has not been played.
LEMMA PlayCardConserves ==
  ASSUME NEW d, IsDeal(d), Dealt(d), ConservesCards(d),
         NEW trick, NEW card \in Card, IsLegal(d, trick, card)
  PROVE  Dealt(PlayCard(d, card)) /\ ConservesCards(PlayCard(d, card))
<1> DEFINE e == PlayCard(d, card)
           p == d.currentPlayer
<1>1. /\ p \in Seats /\ d.cardsOnTable \in Seq(Card)
      /\ d.originalHand \in [Seats -> SUBSET Card]
      /\ d.currentHand \in [Seats -> SUBSET Card]
  BY DEF IsDeal, HandsType
<1>2. /\ e.originalHand = d.originalHand
      /\ e.tricksTaken = d.tricksTaken
      /\ e.cardsOnTable = Append(d.cardsOnTable, card)
      /\ e.currentHand = [d.currentHand EXCEPT ![p] = @ \ {card}]
  <2> DEFINE l == LayCard(d, card)
  <2>1. /\ l.originalHand = d.originalHand
        /\ l.tricksTaken = d.tricksTaken
        /\ l.cardsOnTable = Append(d.cardsOnTable, card)
        /\ l.currentHand = d.currentHand
        /\ l.currentPlayer = p
    BY DEF LayCard, IsDeal
  <2>2. IsDeal(l)
    BY LayCardType
  <2>3. QED
    BY <2>1, <2>2 DEF PlayCard, IsDeal
<1>3. card \in d.currentHand[p]
  BY DEF IsLegal, FollowsSuit, HoldsCard
<1>4. /\ card \in d.originalHand[p]
      /\ card \notin PlayedCards(d)
  BY <1>1, <1>3 DEF ConservesCards
<1>5. /\ Range(e.cardsOnTable) = Range(d.cardsOnTable) \cup {card}
      /\ IsInjective(e.cardsOnTable)
  BY <1>1, <1>2, <1>4, AppendNew DEF PlayedCards, ConservesCards
<1>6. PlayedCards(e) = PlayedCards(d) \cup {card}
  BY <1>2, <1>5 DEF PlayedCards, CardsIn
<1>7. Tricks(e) = Tricks(d)
  BY <1>2 DEF Tricks
<1>8. \A k \in DOMAIN Tricks(d) : card \notin Range(Tricks(d)[k])
  BY <1>4 DEF PlayedCards, CardsIn, Tricks
<1> HIDE DEF e, p
<1>9. ASSUME NEW s \in Seats
      PROVE  e.currentHand[s] = e.originalHand[s] \ PlayedCards(e)
  <2>1. d.currentHand[s] = d.originalHand[s] \ PlayedCards(d)
    BY DEF ConservesCards
  <2>2. s # p => card \notin d.originalHand[s]
    BY <1>1, <1>4 DEF Dealt
  <2>3. QED
    BY <1>1, <1>2, <1>6, <2>1, <2>2
<1>10. PlayedCards(e) \subseteq UNION {e.originalHand[s] : s \in Seats}
  BY <1>1, <1>2, <1>4, <1>6 DEF ConservesCards
<1>11. \A k \in DOMAIN Tricks(e) :
         /\ IsInjective(Tricks(e)[k])
         /\ Range(Tricks(e)[k]) \cap Range(e.cardsOnTable) = {}
         /\ \A j \in DOMAIN Tricks(e) :
              j # k => Range(Tricks(e)[k]) \cap Range(Tricks(e)[j]) = {}
  BY <1>5, <1>7, <1>8 DEF ConservesCards
<1>12. Dealt(e)
  BY <1>2 DEF Dealt
<1>13. ConservesCards(e)
  BY <1>5, <1>9, <1>10, <1>11 DEF ConservesCards
<1>14. QED
  BY <1>12, <1>13 DEF e

\* Passing the turn moves no card.
LEMMA NextPlayerConserves ==
  ASSUME NEW d, IsDeal(d), Dealt(d), ConservesCards(d)
  PROVE  Dealt(NextPlayer(d)) /\ ConservesCards(NextPlayer(d))
<1> DEFINE e == NextPlayer(d)
<1>1. /\ e.originalHand = d.originalHand
      /\ e.currentHand = d.currentHand
      /\ e.cardsOnTable = d.cardsOnTable
      /\ e.tricksTaken = d.tricksTaken
  BY DEF NextPlayer, IsDeal
<1> HIDE DEF e
<1>2. Tricks(e) = Tricks(d) /\ PlayedCards(e) = PlayedCards(d)
  BY <1>1 DEF Tricks, PlayedCards, CardsIn
<1>3. Dealt(e) /\ ConservesCards(e)
  BY <1>1, <1>2 DEF Dealt, ConservesCards
<1>4. QED
  BY <1>3 DEF e

\* The cards on the table become one more trick, and the table is empty.
LEMMA NextTrickConserves ==
  ASSUME NEW d, IsDeal(d), d.highestPlayer \in Seats, Dealt(d), ConservesCards(d)
  PROVE  Dealt(NextTrick(d)) /\ ConservesCards(NextTrick(d))
<1> DEFINE e == NextTrick(d)
           n == Len(d.tricksTaken)
           taken == [cards |-> d.cardsOnTable, seat |-> d.highestPlayer]
<1>1. /\ e.originalHand = d.originalHand
      /\ e.currentHand = d.currentHand
      /\ e.cardsOnTable = <<>>
      /\ e.tricksTaken = Append(d.tricksTaken, taken)
  BY DEF NextTrick, TakeTrick, ClearTable, IsDeal
<1>2. d.tricksTaken \in Seq(TrickTaken) /\ taken \in TrickTaken
  BY DEF IsDeal, TrickTaken
<1>3. taken.cards = d.cardsOnTable
  OBVIOUS
<1> HIDE DEF e, taken
<1>4. /\ n \in Nat /\ DOMAIN d.tricksTaken = 1..n
      /\ DOMAIN e.tricksTaken = 1..(n + 1)
      /\ \A k \in 1..n : e.tricksTaken[k] = d.tricksTaken[k]
      /\ e.tricksTaken[n + 1] = taken
  BY <1>1, <1>2, AppendProperties, LenProperties
<1> HIDE DEF n
<1>5. /\ DOMAIN Tricks(d) = 1..n /\ DOMAIN Tricks(e) = 1..(n + 1)
      /\ \A k \in 1..n : Tricks(e)[k] = Tricks(d)[k]
      /\ Tricks(e)[n + 1] = d.cardsOnTable
  BY <1>3, <1>4 DEF Tricks
<1>6. Range(e.cardsOnTable) = {} /\ IsInjective(e.cardsOnTable)
  BY <1>1 DEF Range, IsInjective
<1>7. PlayedCards(e) = PlayedCards(d)
  <2>1. 1..(n + 1) = (1..n) \cup {n + 1}
    BY <1>4
  <2>2. CardsIn(e, 1..(n + 1)) = CardsIn(d, 1..n) \cup Range(d.cardsOnTable)
    BY <1>3, <1>4, <2>1 DEF CardsIn
  <2>3. QED
    BY <1>4, <1>6, <2>2 DEF PlayedCards
<1>8. \A k \in DOMAIN Tricks(e) :
        /\ IsInjective(Tricks(e)[k])
        /\ Range(Tricks(e)[k]) \cap Range(e.cardsOnTable) = {}
        /\ \A j \in DOMAIN Tricks(e) :
             j # k => Range(Tricks(e)[k]) \cap Range(Tricks(e)[j]) = {}
  <2>1. \A k \in 1..(n + 1) : k \in 1..n \/ k = n + 1
    BY <1>4
  <2>2. QED
    BY <1>5, <1>6, <2>1 DEF ConservesCards
<1>9. Dealt(e) /\ ConservesCards(e)
  BY <1>1, <1>6, <1>7, <1>8 DEF Dealt, ConservesCards
<1>10. QED
  BY <1>9 DEF e
-----------------------------------------------------------------------------
\* Is the card the new highest one, when the suit is led?
Beats(d, suit, card) ==
  /\ card.suit = suit
  /\ d.highestCard = NoCard \/ d.highestCard.rank < card.rank

\* What playCard does to each field.
Plays(d, card, e) ==
  /\ e.originalHand = d.originalHand /\ e.tricksTaken = d.tricksTaken
  /\ e.cardsOnTable = Append(d.cardsOnTable, card)
  /\ e.currentHand = [d.currentHand EXCEPT ![d.currentPlayer] = @ \ {card}]
  /\ e.currentPlayer = d.currentPlayer /\ e.firstPlayer = d.firstPlayer
  /\ e.trickSuit = IF d.cardsOnTable = <<>> THEN card.suit ELSE d.trickSuit
  /\ \/ /\ Beats(d, e.trickSuit, card)
        /\ e.highestCard = card /\ e.highestPlayer = d.currentPlayer
     \/ /\ ~Beats(d, e.trickSuit, card)
        /\ e.highestCard = d.highestCard /\ e.highestPlayer = d.highestPlayer

LEMMA PlayCardFields ==
  ASSUME NEW d, IsDeal(d), NEW card \in Card
  PROVE  Plays(d, card, PlayCard(d, card))
<1> DEFINE e == PlayCard(d, card)
<1> DEFINE l == LayCard(d, card)
<1>1. /\ l.originalHand = d.originalHand /\ l.tricksTaken = d.tricksTaken
      /\ l.cardsOnTable = Append(d.cardsOnTable, card)
      /\ l.currentHand = d.currentHand
      /\ l.currentPlayer = d.currentPlayer /\ l.firstPlayer = d.firstPlayer
      /\ l.trickSuit = IF d.cardsOnTable = <<>> THEN card.suit ELSE d.trickSuit
      /\ \/ /\ Beats(d, l.trickSuit, card)
            /\ l.highestCard = card /\ l.highestPlayer = d.currentPlayer
         \/ /\ ~Beats(d, l.trickSuit, card)
            /\ l.highestCard = d.highestCard /\ l.highestPlayer = d.highestPlayer
  BY DEF LayCard, IsDeal, CompareRanks, Beats
<1>2. IsDeal(l)
  BY LayCardType
<1>3. /\ e.originalHand = l.originalHand /\ e.tricksTaken = l.tricksTaken
      /\ e.cardsOnTable = l.cardsOnTable /\ e.trickSuit = l.trickSuit
      /\ e.currentHand = [l.currentHand EXCEPT ![d.currentPlayer] = @ \ {card}]
      /\ e.currentPlayer = l.currentPlayer /\ e.firstPlayer = l.firstPlayer
      /\ e.highestCard = l.highestCard /\ e.highestPlayer = l.highestPlayer
  <2> HIDE DEF l
  <2> QED BY <1>2 DEF PlayCard, IsDeal, l
<1> HIDE DEF l, e
<1>4. Plays(d, card, e)
  BY <1>1, <1>3 DEF Plays
<1>5. QED
  BY <1>4 DEF e

\* What nextTrick does to each field but the scores.
Takes(d, e) ==
  /\ e.originalHand = d.originalHand /\ e.currentHand = d.currentHand
  /\ e.cardsOnTable = <<>>
  /\ e.tricksTaken = Append(d.tricksTaken, [cards |-> d.cardsOnTable,
                                            seat |-> d.highestPlayer])
  /\ e.currentPlayer = d.highestPlayer /\ e.firstPlayer = d.highestPlayer
  /\ e.trickSuit = NoSuit /\ e.highestCard = NoCard

LEMMA NextTrickFields ==
  ASSUME NEW d, IsDeal(d)
  PROVE  Takes(d, NextTrick(d))
BY DEF Takes, NextTrick, TakeTrick, ClearTable, IsDeal

\* What nextPlayer leaves alone.
Passes(d, e) ==
  /\ e.originalHand = d.originalHand /\ e.currentHand = d.currentHand
  /\ e.cardsOnTable = d.cardsOnTable /\ e.tricksTaken = d.tricksTaken
  /\ e.firstPlayer = d.firstPlayer /\ e.trickSuit = d.trickSuit
  /\ e.highestCard = d.highestCard /\ e.highestPlayer = d.highestPlayer

LEMMA NextPlayerFields ==
  ASSUME NEW d, IsDeal(d)
  PROVE  Passes(d, NextPlayer(d))
BY DEF Passes, NextPlayer, IsDeal

\* A card that was dealt has one owner.
LEMMA OwnerUnique ==
  ASSUME NEW d, Dealt(d), NEW s \in Seats, NEW c \in d.originalHand[s]
  PROVE  OwnerOf(d, c) = s
BY DEF OwnerOf, Dealt
-----------------------------------------------------------------------------
\* What playCard knows of the table: the suit led is that of the first card, and
\* the highest card and its player are kept along.
TableLed(d) ==
  /\ d.cardsOnTable = <<>> => d.highestCard = NoCard
  /\ d.cardsOnTable # <<>> =>
       /\ d.trickSuit = d.cardsOnTable[1].suit
       /\ d.highestCard \in Range(d.cardsOnTable)
       /\ d.highestCard.suit = d.trickSuit
       /\ \A x \in Range(d.cardsOnTable) :
            x.suit = d.trickSuit => x.rank <= d.highestCard.rank
       /\ d.highestPlayer \in Seats
       /\ d.highestCard \in d.originalHand[d.highestPlayer]

\* A card is compared with the highest of the cards before it.
LEMMA PlayCardLed ==
  ASSUME NEW d, IsDeal(d), TableLed(d), ConservesCards(d),
         NEW trick, NEW card \in Card, IsLegal(d, trick, card)
  PROVE  TableLed(PlayCard(d, card))
<1> DEFINE t == d.cardsOnTable
<1>0. PICK e : e = PlayCard(d, card)
  OBVIOUS
<1>1. /\ t \in Seq(Card) /\ d.currentPlayer \in Seats
      /\ d.highestCard \in Card \cup {NoCard}
  BY DEF IsDeal
<1>2. /\ e.originalHand = d.originalHand /\ e.cardsOnTable = Append(t, card)
      /\ e.trickSuit = IF t = <<>> THEN card.suit ELSE d.trickSuit
      /\ \/ /\ Beats(d, e.trickSuit, card)
            /\ e.highestCard = card /\ e.highestPlayer = d.currentPlayer
         \/ /\ ~Beats(d, e.trickSuit, card)
            /\ e.highestCard = d.highestCard /\ e.highestPlayer = d.highestPlayer
  <2>1. Plays(d, card, e)
    BY <1>0, PlayCardFields
  <2>2. QED
    BY <2>1 DEF Plays
<1>3. card \in d.originalHand[d.currentPlayer]
  BY <1>1 DEF IsLegal, FollowsSuit, HoldsCard, ConservesCards
<1>4. Range(e.cardsOnTable) = Range(t) \cup {card}
  BY <1>1, <1>2, AppendNew
<1>5. e.cardsOnTable # <<>> /\ e.cardsOnTable[1] = IF t = <<>> THEN card ELSE t[1]
  BY <1>1, <1>2, AppendProperties
<1>6. Range(t) \subseteq Card
  BY <1>1 DEF Range
<1>7. \A x \in Card : x.rank \in Int /\ x # NoCard
  BY DEF Card, NoCard, Ace
<1> HIDE DEF t
<1>8. TableLed(e)
  <2>1. CASE t = <<>>
    <3>1. Range(e.cardsOnTable) = {card}
      BY <1>4, <2>1 DEF Range
    <3>2. d.highestCard = NoCard
      BY <2>1 DEF TableLed, t
    <3>3. QED
      BY <1>1, <1>2, <1>3, <1>5, <1>7, <2>1, <3>1, <3>2 DEF TableLed, Beats
  <2>2. CASE t # <<>>
    <3>1. /\ d.trickSuit = t[1].suit /\ d.highestCard \in Range(t)
          /\ d.highestCard.suit = d.trickSuit
          /\ \A x \in Range(t) : x.suit = d.trickSuit => x.rank <= d.highestCard.rank
          /\ d.highestPlayer \in Seats
          /\ d.highestCard \in d.originalHand[d.highestPlayer]
      BY <2>2 DEF TableLed, t
    <3>2. \A x \in Range(t) : x.rank \in Int /\ x # NoCard
      BY <1>6, <1>7
    <3>3. e.trickSuit = d.trickSuit /\ e.cardsOnTable[1] = t[1] /\ card.rank \in Int
      BY <1>2, <1>5, <1>7, <2>2
    <3>4. CASE card.suit = d.trickSuit /\ d.highestCard.rank < card.rank
      <4>1. e.highestCard = card /\ e.highestPlayer = d.currentPlayer
        BY <1>2, <3>3, <3>4 DEF Beats
      <4>2. \A x \in Range(t) : x.suit = d.trickSuit => x.rank <= card.rank
        BY <3>1, <3>2, <3>3, <3>4
      <4>3. QED
        BY <1>1, <1>2, <1>3, <1>4, <1>5, <3>1, <3>3, <3>4, <4>1, <4>2 DEF TableLed
    <3>5. CASE ~(card.suit = d.trickSuit /\ d.highestCard.rank < card.rank)
      <4>1. e.highestCard = d.highestCard /\ e.highestPlayer = d.highestPlayer
        BY <1>2, <3>1, <3>2, <3>3, <3>5 DEF Beats
      <4>2. card.suit = d.trickSuit => card.rank <= d.highestCard.rank
        BY <3>1, <3>2, <3>3, <3>5
      <4>3. QED
        BY <1>2, <1>4, <1>5, <3>1, <3>3, <4>1, <4>2 DEF TableLed
    <3>6. QED
      BY <3>4, <3>5
  <2>3. QED
    BY <2>1, <2>2
<1>9. QED
  BY <1>0, <1>8

\* nextPlayer does not touch the table.
LEMMA NextPlayerLed ==
  ASSUME NEW d, IsDeal(d), TableLed(d)
  PROVE  TableLed(NextPlayer(d))
<1> DEFINE e == NextPlayer(d)
<1>1. Passes(d, e)
  BY NextPlayerFields
<1> HIDE DEF e
<1>2. TableLed(e)
  BY <1>1 DEF TableLed, Passes
<1>3. QED
  BY <1>2 DEF e

\* nextTrick resets all of it.
LEMMA NextTrickLed ==
  ASSUME NEW d, IsDeal(d)
  PROVE  TableLed(NextTrick(d))
BY NextTrickFields DEF TableLed, Takes
-----------------------------------------------------------------------------
\* The game a deal records.

\* A seat whose card on the table is not of the suit led holds none of it.
TableFollows(d) ==
  \A i \in DOMAIN d.cardsOnTable : d.cardsOnTable[i].suit # d.cardsOnTable[1].suit =>
    \A s \in Seats : d.cardsOnTable[i] \in d.originalHand[s] =>
      \A c \in d.currentHand[s] : c.suit # d.cardsOnTable[1].suit

\* The cards played after trick k.
Later(d, k) ==
  Range(d.cardsOnTable) \cup CardsIn(d, {j \in DOMAIN d.tricksTaken : j > k})

\* ShowsNoRevoke for every seat that was dealt the card.
TricksFollow(d) ==
  \A k \in DOMAIN d.tricksTaken : LET t == d.tricksTaken[k].cards IN
    \A i \in DOMAIN t : t[i].suit # t[1].suit =>
      \A s \in Seats : t[i] \in d.originalHand[s] =>
        \A c \in d.currentHand[s] \cup (Later(d, k) \cap d.originalHand[s]) :
          c.suit # t[1].suit

\* The card takes a trick made of the cards t.
Best(c, t) ==
  /\ c \in Range(t) /\ c.suit = t[1].suit
  /\ \A x \in Range(t) : x.suit = t[1].suit => x.rank <= c.rank

\* A trick went to the seat dealt its best card.
WonBy(hands, taken) ==
  /\ taken.seat \in Seats
  /\ \E c \in hands[taken.seat] : Best(c, taken.cards)

\* Who takes a trick leads the next one, or is in turn to lead it.
TricksWon(d) ==
  /\ \A k \in DOMAIN d.tricksTaken : WonBy(d.originalHand, d.tricksTaken[k])
  /\ \A k \in DOMAIN d.tricksTaken : k + 1 \in DOMAIN d.tricksTaken =>
       d.tricksTaken[k + 1].cards[1] \in d.originalHand[d.tricksTaken[k].seat]
  /\ LET n == Len(d.tricksTaken) IN n > 0 =>
       IF d.cardsOnTable = <<>>
       THEN d.currentPlayer = d.tricksTaken[n].seat
       ELSE d.cardsOnTable[1] \in d.originalHand[d.tricksTaken[n].seat]

GameInv(d) ==
  /\ IsDeal(d) /\ Dealt(d) /\ ConservesCards(d)
  /\ TableLed(d) /\ TableFollows(d) /\ TricksFollow(d) /\ TricksWon(d)
-----------------------------------------------------------------------------
\* A deal as the game file gives it.
LEMMA NewDealGame ==
  ASSUME NEW f, ProperDeal(f)
  PROVE  GameInv(NewDeal(f))
<1> DEFINE d == NewDeal(f)
<1>1. /\ f \in DealSpec
      /\ \A s, t \in Seats : s # t => f.hands[s] \cap f.hands[t] = {}
  BY DEF ProperDeal
<1>2. /\ <<>> \in Seq(Card) /\ <<>> \in Seq(TrickTaken)
      /\ DOMAIN <<>> = {} /\ <<>> \in [{} -> Nat] /\ Len(<<>>) = 0
  OBVIOUS
<1>3. IsDeal(d)
  BY <1>1, <1>2 DEF NewDeal, IsDeal, DealSpec
<1>4. /\ d.originalHand = f.hands /\ d.currentHand = f.hands
      /\ d.cardsOnTable = <<>> /\ d.tricksTaken = <<>>
      /\ d.highestCard = NoCard
  BY DEF NewDeal
<1> HIDE DEF d
<1>5. f.hands \in [Seats -> SUBSET Card]
  BY <1>1 DEF DealSpec, HandsType
<1>6. Dealt(d)
  BY <1>1, <1>4 DEF Dealt
<1>7. DOMAIN Tricks(d) = {}
  BY <1>4 DEF Tricks
<1>8. PlayedCards(d) = {}
  BY <1>4 DEF PlayedCards, CardsIn, Range
<1>9. IsInjective(d.cardsOnTable)
  BY <1>4 DEF IsInjective
<1>10. ConservesCards(d)
  BY <1>4, <1>5, <1>7, <1>8, <1>9 DEF ConservesCards
<1>11. TableLed(d) /\ TableFollows(d) /\ TricksFollow(d) /\ TricksWon(d)
  BY <1>2, <1>4 DEF TableLed, TableFollows, TricksFollow, TricksWon
<1>12. QED
  BY <1>3, <1>6, <1>10, <1>11 DEF GameInv, d

\* The card that is played follows suit, or its seat cannot.
LEMMA PlayCardFollows ==
  ASSUME NEW d, GameInv(d), NEW trick, NEW card \in Card, IsLegal(d, trick, card),
         NEW e, Plays(d, card, e)
  PROVE  TableFollows(e)
<1> DEFINE t == d.cardsOnTable
           p == d.currentPlayer
           n == Len(t)
<1>1. /\ t \in Seq(Card) /\ p \in Seats
      /\ d.originalHand \in [Seats -> SUBSET Card]
      /\ d.currentHand \in [Seats -> SUBSET Card]
  BY DEF GameInv, IsDeal, HandsType
<1>2. /\ card \in d.currentHand[p]
      /\ \/ t = <<>> \/ card.suit = d.trickSuit
         \/ \A c \in d.currentHand[p] : c.suit # d.trickSuit
  BY DEF IsLegal, FollowsSuit, HoldsCard
<1>3. t # <<>> => d.trickSuit = t[1].suit
  BY DEF GameInv, TableLed
<1>4. /\ n \in Nat /\ DOMAIN t = 1..n
      /\ DOMAIN Append(t, card) = 1..(n + 1)
      /\ \A i \in 1..n : Append(t, card)[i] = t[i]
      /\ Append(t, card)[n + 1] = card
      /\ t = <<>> => n = 0
      /\ t # <<>> => n > 0
  BY <1>1, AppendProperties, LenProperties
<1>5. /\ e.originalHand = d.originalHand
      /\ e.currentHand = [d.currentHand EXCEPT ![p] = @ \ {card}]
      /\ e.cardsOnTable = Append(t, card)
  BY DEF Plays
<1>6. \A s \in Seats : e.currentHand[s] \subseteq d.currentHand[s]
  BY <1>1, <1>5
<1>7. \A s \in Seats : card \in d.originalHand[s] => s = p
  BY <1>1, <1>2 DEF GameInv, ConservesCards, Dealt
<1>8. TableFollows(d)
  BY DEF GameInv
<1> DEFINE a == e.cardsOnTable
<1>9. /\ DOMAIN a = 1..(n + 1) /\ \A i \in 1..n : a[i] = t[i]
      /\ a[n + 1] = card
  BY <1>4, <1>5
<1>10. ASSUME t # <<>>, NEW s \in Seats, NEW i \in 1..n, t[i] \in d.originalHand[s],
              t[i].suit # t[1].suit, NEW c \in d.currentHand[s]
       PROVE  c.suit # t[1].suit
  BY <1>4, <1>8, <1>10 DEF TableFollows
<1> HIDE DEF a, t, n, p
<1>11. ASSUME NEW i \in DOMAIN a, a[i].suit # a[1].suit,
              NEW s \in Seats, a[i] \in e.originalHand[s], NEW c \in e.currentHand[s]
       PROVE  c.suit # a[1].suit
  <2>1. t # <<>> /\ n > 0 /\ a[1] = t[1]
    BY <1>4, <1>9, <1>11
  <2>2. c \in d.currentHand[s] /\ a[i] \in d.originalHand[s]
    BY <1>5, <1>6, <1>11
  <2>3. CASE i \in 1..n
    BY <1>9, <1>10, <1>11, <2>1, <2>2, <2>3
  <2>4. CASE i = n + 1
    <3>1. s = p /\ card.suit # t[1].suit
      BY <1>7, <1>9, <1>11, <2>1, <2>2, <2>4
    <3>2. QED
      BY <1>2, <1>3, <2>1, <2>2, <3>1
  <2>5. QED
    BY <1>4, <1>9, <1>11, <2>3, <2>4
<1>12. QED
  BY <1>11 DEF TableFollows, a

\* It is a card its seat still held when the earlier tricks were judged.
LEMMA PlayCardKeepsTricks ==
  ASSUME NEW d, GameInv(d), NEW trick, NEW card \in Card, IsLegal(d, trick, card),
         NEW e, Plays(d, card, e)
  PROVE  TricksFollow(e)
<1> DEFINE p == d.currentPlayer
<1>1. /\ d.cardsOnTable \in Seq(Card) /\ p \in Seats
      /\ d.originalHand \in [Seats -> SUBSET Card]
      /\ d.currentHand \in [Seats -> SUBSET Card]
  BY DEF GameInv, IsDeal, HandsType
<1>2. card \in d.currentHand[p]
  BY DEF IsLegal, FollowsSuit, HoldsCard
<1>3. \A s \in Seats : card \in d.originalHand[s] => s = p
  BY <1>1, <1>2 DEF GameInv, ConservesCards, Dealt
<1>4. /\ e.originalHand = d.originalHand /\ e.tricksTaken = d.tricksTaken
      /\ e.currentHand = [d.currentHand EXCEPT ![p] = @ \ {card}]
      /\ e.cardsOnTable = Append(d.cardsOnTable, card)
  BY DEF Plays
<1>5. Range(e.cardsOnTable) = Range(d.cardsOnTable) \cup {card}
  BY <1>1, <1>4, AppendNew
<1>6. \A k : Later(e, k) = Later(d, k) \cup {card}
  BY <1>4, <1>5 DEF Later, CardsIn
<1>7. \A s \in Seats : e.currentHand[s] \subseteq d.currentHand[s]
  BY <1>1, <1>4
<1> HIDE DEF p
<1>8. ASSUME NEW s \in Seats, NEW k
      PROVE  e.currentHand[s] \cup (Later(e, k) \cap e.originalHand[s])
               \subseteq d.currentHand[s] \cup (Later(d, k) \cap d.originalHand[s])
  BY <1>2, <1>3, <1>4, <1>6, <1>7
<1>9. TricksFollow(d)
  BY DEF GameInv
<1>10. QED
  BY <1>4, <1>8, <1>9 DEF TricksFollow

\* The card that opens a trick is led by the seat that took the last one.
LEMMA PlayCardWon ==
  ASSUME NEW d, GameInv(d), NEW trick, NEW card \in Card, IsLegal(d, trick, card),
         NEW e, Plays(d, card, e)
  PROVE  TricksWon(e)
<1> DEFINE t == d.cardsOnTable
           p == d.currentPlayer
<1>1. t \in Seq(Card) /\ p \in Seats
  BY DEF GameInv, IsDeal
<1>2. card \in d.originalHand[p]
  BY <1>1 DEF IsLegal, FollowsSuit, HoldsCard, GameInv, ConservesCards
<1>3. /\ e.originalHand = d.originalHand /\ e.tricksTaken = d.tricksTaken
      /\ e.cardsOnTable = Append(t, card)
  BY DEF Plays
<1>4. Append(t, card) # <<>> /\ Append(t, card)[1] = IF t = <<>> THEN card ELSE t[1]
  BY <1>1, AppendProperties
<1>5. TricksWon(d)
  BY DEF GameInv
<1>6. ASSUME Len(d.tricksTaken) > 0
      PROVE  Append(t, card)[1] \in d.originalHand[d.tricksTaken[Len(d.tricksTaken)].seat]
  BY <1>2, <1>4, <1>5, <1>6 DEF TricksWon
<1>7. QED
  BY <1>3, <1>4, <1>5, <1>6 DEF TricksWon

\* A legal card keeps the game.
LEMMA PlayCardGame ==
  ASSUME NEW d, GameInv(d), NEW trick, NEW card \in Card, IsLegal(d, trick, card)
  PROVE  GameInv(PlayCard(d, card)) /\ PlayCard(d, card).cardsOnTable # <<>>
<1> DEFINE e == PlayCard(d, card)
<1>1. IsDeal(d) /\ Dealt(d) /\ ConservesCards(d) /\ TableLed(d)
  BY DEF GameInv
<1>2. Plays(d, card, e)
  BY <1>1, PlayCardFields
<1>3. IsDeal(e)
  BY <1>1, PlayCardType
<1>4. Dealt(e) /\ ConservesCards(e)
  BY <1>1, PlayCardConserves
<1>5. TableLed(e)
  BY <1>1, PlayCardLed
<1> HIDE DEF e
<1>6. TableFollows(e) /\ TricksFollow(e) /\ TricksWon(e)
  BY <1>2, PlayCardFollows, PlayCardKeepsTricks, PlayCardWon
<1>7. e.cardsOnTable # <<>>
  <2>1. d.cardsOnTable \in Seq(Card) /\ e.cardsOnTable = Append(d.cardsOnTable, card)
    BY <1>1, <1>2 DEF IsDeal, Plays
  <2>2. QED
    BY <2>1, AppendProperties
<1>8. GameInv(e)
  BY <1>3, <1>4, <1>5, <1>6 DEF GameInv
<1>9. QED
  BY <1>7, <1>8 DEF e

\* The turn is passed with cards on the table.
LEMMA NextPlayerGame ==
  ASSUME NEW d, GameInv(d), d.cardsOnTable # <<>>
  PROVE  GameInv(NextPlayer(d)) /\ NextPlayer(d).cardsOnTable # <<>>
<1> DEFINE e == NextPlayer(d)
<1>1. IsDeal(d) /\ Dealt(d) /\ ConservesCards(d) /\ TableLed(d)
  BY DEF GameInv
<1>2. Passes(d, e)
  BY <1>1, NextPlayerFields
<1>3. IsDeal(e)
  BY <1>1, NextPlayerType
<1>4. Dealt(e) /\ ConservesCards(e)
  BY <1>1, NextPlayerConserves
<1>5. TableLed(e)
  BY <1>1, NextPlayerLed
<1> HIDE DEF e
<1>6. TableFollows(e) /\ TricksFollow(e)
  BY <1>2 DEF GameInv, Passes, TableFollows, TricksFollow, Later, CardsIn
<1>7. TricksWon(e)
  BY <1>2 DEF GameInv, Passes, TricksWon
<1>8. e.cardsOnTable # <<>>
  BY <1>2 DEF Passes
<1>9. GameInv(e)
  BY <1>3, <1>4, <1>5, <1>6, <1>7 DEF GameInv
<1>10. QED
  BY <1>8, <1>9 DEF e

\* The table becomes a trick, which its best card has taken.
LEMMA NextTrickGame ==
  ASSUME NEW d, GameInv(d), d.cardsOnTable # <<>>
  PROVE  GameInv(NextTrick(d))
<1> DEFINE e == NextTrick(d)
           n == Len(d.tricksTaken)
           taken == [cards |-> d.cardsOnTable, seat |-> d.highestPlayer]
<1>1. /\ IsDeal(d) /\ Dealt(d) /\ ConservesCards(d) /\ TableLed(d)
      /\ TableFollows(d) /\ TricksFollow(d) /\ TricksWon(d)
  BY DEF GameInv
<1>2. d.highestPlayer \in Seats
  BY <1>1 DEF TableLed
<1>3. IsDeal(e)
  BY <1>1, <1>2, NextTrickType
<1>4. Dealt(e) /\ ConservesCards(e)
  BY <1>1, <1>2, NextTrickConserves
<1>5. TableLed(e)
  BY <1>1, NextTrickLed
<1>6. Takes(d, e)
  BY <1>1, NextTrickFields
<1>7. d.tricksTaken \in Seq(TrickTaken) /\ taken \in TrickTaken
  BY <1>1, <1>2 DEF IsDeal, TrickTaken
<1>8. taken.cards = d.cardsOnTable /\ taken.seat = d.highestPlayer
  OBVIOUS
<1>9. /\ e.originalHand = d.originalHand /\ e.currentHand = d.currentHand
      /\ e.cardsOnTable = <<>> /\ e.tricksTaken = Append(d.tricksTaken, taken)
      /\ e.currentPlayer = taken.seat
  BY <1>6, <1>8 DEF Takes
<1> HIDE DEF e, taken
<1>10. /\ n \in Nat /\ DOMAIN d.tricksTaken = 1..n
       /\ DOMAIN e.tricksTaken = 1..(n + 1) /\ Len(e.tricksTaken) = n + 1
       /\ \A k \in 1..n : e.tricksTaken[k] = d.tricksTaken[k]
       /\ e.tricksTaken[n + 1] = taken
  BY <1>7, <1>9, AppendProperties, LenProperties
<1>11. TableFollows(e)
  BY <1>9 DEF TableFollows
<1>12. TricksFollow(e)
  <2> HIDE DEF n
  <2>1. \A k \in 1..n : Later(e, k) = Later(d, k)
    <3>1. ASSUME NEW k \in 1..n
          PROVE  CardsIn(e, {j \in 1..(n + 1) : j > k})
                   = CardsIn(d, {j \in 1..n : j > k}) \cup Range(d.cardsOnTable)
      <4>1. {j \in 1..(n + 1) : j > k} = {j \in 1..n : j > k} \cup {n + 1}
        BY <1>10
      <4>2. \A j \in {i \in 1..n : i > k} : e.tricksTaken[j].cards = d.tricksTaken[j].cards
        BY <1>10
      <4>3. QED
        BY <1>8, <1>10, <4>1, <4>2 DEF CardsIn
    <3>2. Range(e.cardsOnTable) = {}
      BY <1>9 DEF Range
    <3>3. QED
      BY <1>10, <3>1, <3>2 DEF Later
  <2>2. CardsIn(e, {j \in 1..(n + 1) : j > n + 1}) = {} /\ Range(e.cardsOnTable) = {}
    BY <1>9, <1>10 DEF CardsIn, Range
  <2>3. Later(e, n + 1) = {}
    BY <1>10, <2>2 DEF Later
  <2>4. ASSUME NEW k \in 1..(n + 1), NEW i \in DOMAIN e.tricksTaken[k].cards,
               e.tricksTaken[k].cards[i].suit # e.tricksTaken[k].cards[1].suit,
               NEW s \in Seats, e.tricksTaken[k].cards[i] \in e.originalHand[s],
               NEW c \in e.currentHand[s] \cup (Later(e, k) \cap e.originalHand[s])
        PROVE  c.suit # e.tricksTaken[k].cards[1].suit
    <3>1. CASE k \in 1..n
      <4>1. e.tricksTaken[k] = d.tricksTaken[k] /\ Later(e, k) = Later(d, k)
        BY <1>10, <2>1, <3>1
      <4>2. k \in DOMAIN d.tricksTaken
        BY <1>10, <3>1
      <4>3. QED
        BY <1>1, <1>9, <2>4, <4>1, <4>2 DEF TricksFollow
    <3>2. CASE k = n + 1
      <4>1. e.tricksTaken[k].cards = d.cardsOnTable /\ c \in d.currentHand[s]
        BY <1>8, <1>9, <1>10, <2>3, <2>4, <3>2
      <4>2. QED
        BY <1>1, <1>9, <2>4, <4>1 DEF TableFollows
    <3>3. QED
      BY <1>10, <3>1, <3>2
  <2>5. QED
    BY <1>10, <2>4 DEF TricksFollow
<1>13. WonBy(d.originalHand, taken)
  <2>1. /\ d.highestCard \in d.originalHand[d.highestPlayer]
        /\ Best(d.highestCard, d.cardsOnTable)
    BY <1>1 DEF TableLed, Best
  <2>2. QED
    BY <1>2, <1>8, <2>1 DEF WonBy
<1>14. TricksWon(e)
  <2>1. \A k \in DOMAIN e.tricksTaken : WonBy(e.originalHand, e.tricksTaken[k])
    <3>1. \A k \in 1..n : WonBy(d.originalHand, d.tricksTaken[k])
      BY <1>1, <1>10 DEF TricksWon
    <3> HIDE DEF n
    <3>2. QED
      BY <1>9, <1>10, <1>13, <3>1
  <2>2. ASSUME NEW k \in DOMAIN e.tricksTaken, k + 1 \in DOMAIN e.tricksTaken
        PROVE  e.tricksTaken[k + 1].cards[1] \in e.originalHand[e.tricksTaken[k].seat]
    <3>1. k \in 1..n /\ e.tricksTaken[k] = d.tricksTaken[k]
      BY <1>10, <2>2
    <3>2. CASE k = n
      <4>1. n > 0 /\ e.tricksTaken[k + 1].cards = d.cardsOnTable
        BY <1>8, <1>10, <3>1, <3>2
      <4>2. d.cardsOnTable[1] \in d.originalHand[d.tricksTaken[n].seat]
        BY <1>1, <4>1 DEF TricksWon
      <4>3. QED
        BY <1>9, <3>1, <3>2, <4>1, <4>2
    <3>3. CASE k # n
      <4>1. /\ k \in DOMAIN d.tricksTaken /\ k + 1 \in DOMAIN d.tricksTaken
            /\ e.tricksTaken[k + 1] = d.tricksTaken[k + 1]
        BY <1>10, <3>1, <3>3
      <4>2. QED
        BY <1>1, <1>9, <3>1, <4>1 DEF TricksWon
    <3>4. QED
      BY <3>2, <3>3
  <2>3. e.currentPlayer = e.tricksTaken[Len(e.tricksTaken)].seat
    BY <1>9, <1>10
  <2> HIDE DEF n
  <2>4. QED
    BY <1>9, <2>1, <2>2, <2>3 DEF TricksWon
<1>15. GameInv(e)
  BY <1>3, <1>4, <1>5, <1>11, <1>12, <1>14 DEF GameInv
<1>16. QED
  BY <1>15 DEF e

\* The scores are no part of the game.
LEMMA ScoresGame ==
  ASSUME NEW d, GameInv(d), NEW scores,
         DOMAIN scores \subseteq Seats, scores \in [DOMAIN scores -> Nat]
  PROVE  GameInv([d EXCEPT !.scores = scores])
<1> DEFINE e == [d EXCEPT !.scores = scores]
<1>1. /\ IsDeal(d) /\ Dealt(d) /\ ConservesCards(d) /\ TableLed(d)
      /\ TableFollows(d) /\ TricksFollow(d) /\ TricksWon(d)
  BY DEF GameInv
<1>2. IsDeal(e)
  BY <1>1 DEF IsDeal
<1>3. Passes(d, e) /\ e.currentPlayer = d.currentPlayer
  BY <1>1 DEF Passes, IsDeal
<1> HIDE DEF e
<1>4. Dealt(e) /\ ConservesCards(e)
  <2>1. Tricks(e) = Tricks(d) /\ PlayedCards(e) = PlayedCards(d)
    BY <1>3 DEF Passes, Tricks, PlayedCards, CardsIn
  <2>2. QED
    BY <1>1, <1>3, <2>1 DEF Passes, Dealt, ConservesCards
<1>5. TableLed(e)
  BY <1>1, <1>3 DEF Passes, TableLed
<1>6. TableFollows(e) /\ TricksFollow(e)
  BY <1>1, <1>3 DEF Passes, TableFollows, TricksFollow, Later, CardsIn
<1>7. TricksWon(e)
  BY <1>1, <1>3 DEF Passes, TricksWon
<1>8. GameInv(e)
  BY <1>2, <1>4, <1>5, <1>6, <1>7 DEF GameInv
<1>9. QED
  BY <1>8 DEF e
-----------------------------------------------------------------------------
\* What the invariant says of the game that is recorded.

\* Every card of a trick was dealt to the seat OwnerOf finds.
LEMMA TrickOwners ==
  ASSUME NEW d, GameInv(d), NEW k \in DOMAIN d.tricksTaken,
         NEW i \in DOMAIN d.tricksTaken[k].cards
  PROVE  /\ OwnerOf(d, d.tricksTaken[k].cards[i]) \in Seats
         /\ d.tricksTaken[k].cards[i] \in d.originalHand[OwnerOf(d, d.tricksTaken[k].cards[i])]
<1> DEFINE c == d.tricksTaken[k].cards[i]
<1>1. c \in PlayedCards(d)
  BY DEF PlayedCards, CardsIn, Range
<1> HIDE DEF c
<1>2. PICK s \in Seats : c \in d.originalHand[s]
  BY <1>1 DEF GameInv, ConservesCards
<1>3. OwnerOf(d, c) = s
  BY <1>2, OwnerUnique DEF GameInv
<1>4. QED
  BY <1>2, <1>3 DEF c

\* No revoke is recorded.
LEMMA GameShowsNoRevoke ==
  ASSUME NEW d, GameInv(d)
  PROVE  ShowsNoRevoke(d)
<1>1. ASSUME NEW k \in DOMAIN d.tricksTaken, NEW i \in DOMAIN d.tricksTaken[k].cards,
             d.tricksTaken[k].cards[i].suit # d.tricksTaken[k].cards[1].suit,
             NEW c \in d.currentHand[OwnerOf(d, d.tricksTaken[k].cards[i])]
                    \cup (Later(d, k) \cap d.originalHand[OwnerOf(d, d.tricksTaken[k].cards[i])])
      PROVE  c.suit # d.tricksTaken[k].cards[1].suit
  BY <1>1, TrickOwners DEF GameInv, TricksFollow
<1>2. \A k \in DOMAIN d.tricksTaken : Tricks(d)[k] = d.tricksTaken[k].cards
  BY DEF Tricks
<1>3. QED
  BY <1>1, <1>2 DEF ShowsNoRevoke, Later

\* The best card of a trick is one card, its owner the seat that took it.
LEMMA GameGivesTricks ==
  ASSUME NEW d, GameInv(d)
  PROVE  GivesTricksToHighest(d)
<1>1. Dealt(d) /\ TricksWon(d) /\ d.tricksTaken \in Seq(TrickTaken)
  BY DEF GameInv, IsDeal
<1>2. \A k \in DOMAIN d.tricksTaken :
        /\ Tricks(d)[k] = d.tricksTaken[k].cards
        /\ d.tricksTaken[k].cards \in Seq(Card)
  <2>1. \A k \in DOMAIN d.tricksTaken : d.tricksTaken[k] \in TrickTaken
    BY <1>1
  <2>2. QED
    BY <2>1 DEF Tricks, TrickTaken
<1>3. DOMAIN Tricks(d) = DOMAIN d.tricksTaken
  BY DEF Tricks
<1>4. ASSUME NEW k \in DOMAIN d.tricksTaken
      PROVE  LET t == Tricks(d)[k]
                 best == CHOOSE c \in Range(t) :
                           /\ c.suit = t[1].suit
                           /\ \A x \in Range(t) : x.suit = t[1].suit => x.rank <= c.rank
                 next == IF k < Len(d.tricksTaken) THEN Tricks(d)[k + 1]
                         ELSE d.cardsOnTable
             IN  /\ d.tricksTaken[k].seat = OwnerOf(d, best)
                 /\ next # <<>> => OwnerOf(d, next[1]) = OwnerOf(d, best)
  <2> DEFINE t == Tricks(d)[k]
             best == CHOOSE c \in Range(t) :
                       /\ c.suit = t[1].suit
                       /\ \A x \in Range(t) : x.suit = t[1].suit => x.rank <= c.rank
             next == IF k < Len(d.tricksTaken) THEN Tricks(d)[k + 1]
                     ELSE d.cardsOnTable
             w == d.tricksTaken[k].seat
  <2>1. t = d.tricksTaken[k].cards /\ Range(t) \subseteq Card
    BY <1>2 DEF Range
  <2>2. PICK c \in d.originalHand[w] : Best(c, t)
    BY <1>1, <2>1 DEF TricksWon, WonBy
  <2>3. w \in Seats
    BY <1>1 DEF TricksWon, WonBy
  <2> HIDE DEF t, w
  <2>4. Best(best, t)
    BY <2>2 DEF Best
  <2> HIDE DEF best
  <2>5. best = c
    <3>1. /\ best \in Card /\ c \in Card
          /\ best.suit = c.suit /\ best.rank <= c.rank /\ c.rank <= best.rank
      BY <2>1, <2>2, <2>4 DEF Best
    <3>2. best.rank = c.rank
      BY <3>1 DEF Card, Ace
    <3>3. QED
      BY <3>1, <3>2 DEF Card
  <2>6. OwnerOf(d, best) = w
    BY <1>1, <2>2, <2>3, <2>5, OwnerUnique
  <2>7. ASSUME next # <<>> PROVE next[1] \in d.originalHand[w]
    <3>1. Len(d.tricksTaken) \in Nat /\ DOMAIN d.tricksTaken = 1..Len(d.tricksTaken)
      BY <1>1, LenProperties
    <3>2. CASE k < Len(d.tricksTaken)
      <4>1. k + 1 \in DOMAIN d.tricksTaken /\ next = d.tricksTaken[k + 1].cards
        BY <1>2, <3>1, <3>2
      <4>2. QED
        BY <1>1, <4>1 DEF TricksWon, w
    <3>3. CASE ~(k < Len(d.tricksTaken))
      <4>1. k = Len(d.tricksTaken) /\ Len(d.tricksTaken) > 0 /\ next = d.cardsOnTable
        BY <3>1, <3>3
      <4>2. QED
        BY <1>1, <2>7, <4>1 DEF TricksWon, w
    <3>4. QED
      BY <3>2, <3>3
  <2> HIDE DEF next
  <2>8. next # <<>> => OwnerOf(d, next[1]) = w
    BY <1>1, <2>3, <2>7, OwnerUnique
  <2>9. w = OwnerOf(d, best) /\ (next # <<>> => OwnerOf(d, next[1]) = OwnerOf(d, best))
    BY <2>6, <2>8
  <2>10. QED
    BY <2>9 DEF t, best, next, w
<1>5. QED
  BY <1>3, <1>4 DEF GivesTricksToHighest

-----------------------------------------------------------------------------
(***************************************************************************)
(* What class Deal does to the turn and to the points, for every deal: the *)
(* turn goes round the table from the leader, the points of a trick are a  *)
(* sum over its cards, and a card is a step of HeartsRules.  The machines  *)
(* that play a deal count on it, each with its own moments at which a card *)
(* is played and the turn is passed.                                       *)
(***************************************************************************)

Players == Len(PlayerOrder)

\* The place in playerOrder of the i-th seat to play when place f leads.
Place(f, i) == IF f + i - 1 <= Players THEN f + i - 1 ELSE f + i - 1 - Players

\* Card i of t was dealt to the seat that plays i-th.
InTurn(hands, t, f) == \A i \in DOMAIN t : t[i] \in hands[PlayerOrder[Place(f, i)]]

\* Place f leads, and the turn is with the n-th seat to play.
Turned(d, f, n) ==
  /\ d.firstPlayer = PlayerOrder[f]
  /\ InTurn(d.originalHand, d.cardsOnTable, f)
  /\ d.currentPlayer = PlayerOrder[Place(f, n)]

\* The turn has gone on once for every card on the table.
Rotates(d, f) == Turned(d, f, Len(d.cardsOnTable) + 1)

\* It went round once for every trick.
WentRound(d) ==
  \A k \in DOMAIN d.tricksTaken :
    /\ Len(d.tricksTaken[k].cards) = Players
    /\ \E f \in 1..Players : InTurn(d.originalHand, d.tricksTaken[k].cards, f)
-----------------------------------------------------------------------------
\* The places are numbers, one for each seat.
LEMMA TablePlaces ==
  /\ Players \in Nat \ {0} /\ DOMAIN PlayerOrder = 1..Players
  /\ \A i, j \in 1..Players : PlayerOrder[i] = PlayerOrder[j] => i = j
  /\ \A i \in 1..Players : PlayerOrder[i] \in Seats
  /\ \A s \in Seats : \E i \in 1..Players : PlayerOrder[i] = s
  /\ \A f \in 1..Players : \A i \in 1..(Players + 1) : Place(f, i) \in 1..Players
  /\ \A f \in 1..Players : Place(f, 1) = f /\ Place(f, Players + 1) = f
  /\ \A f \in 1..Players : \A i, j \in 1..Players : Place(f, i) = Place(f, j) => i = j
<1>1. Players \in Nat \ {0} /\ DOMAIN PlayerOrder = 1..Players
  <2>1. PlayerOrder \in Seq(STRING) /\ Len(PlayerOrder) > 0
    BY CardsAssumption
  <2>2. Len(PlayerOrder) \in Nat /\ DOMAIN PlayerOrder = 1..Len(PlayerOrder)
    BY <2>1, LenProperties
  <2>3. QED
    BY <2>1, <2>2 DEF Players
<1>2. \A i, j \in 1..Players : PlayerOrder[i] = PlayerOrder[j] => i = j
  BY <1>1, CardsAssumption DEF IsInjective
<1>3. /\ \A i \in 1..Players : PlayerOrder[i] \in Seats
      /\ \A s \in Seats : \E i \in 1..Players : PlayerOrder[i] = s
  BY <1>1 DEF Seats, Range
<1>4. \A f \in 1..Players : \A i \in 1..(Players + 1) : Place(f, i) \in 1..Players
  BY <1>1 DEF Place
<1>5. \A f \in 1..Players : Place(f, 1) = f /\ Place(f, Players + 1) = f
  BY <1>1 DEF Place
<1>6. \A f \in 1..Players : \A i, j \in 1..Players : Place(f, i) = Place(f, j) => i = j
  BY <1>1 DEF Place
<1>7. QED
  BY <1>1, <1>2, <1>3, <1>4, <1>5, <1>6

\* There are finitely many seats.
LEMMA SeatsFinite == IsFiniteSet(Seats)
<1>1. PlayerOrder \in Seq(STRING)
  BY CardsAssumption
<1>2. /\ Len(PlayerOrder) \in Nat /\ DOMAIN PlayerOrder = 1..Len(PlayerOrder)
      /\ 1 \in Int /\ Len(PlayerOrder) \in Int
  BY <1>1, LenProperties
<1>3. IsFiniteSet(1..Len(PlayerOrder))
  BY <1>2, FS_Interval, Zenon
<1>4. PlayerOrder \in Surjection(1..Len(PlayerOrder), Seats)
  <2>1. PlayerOrder = [i \in 1..Len(PlayerOrder) |-> PlayerOrder[i]]
    BY <1>1, <1>2
  <2>2. QED
    BY <1>2, <2>1 DEF Surjection, Seats, Range
<1>5. QED
  BY <1>3, <1>4, FS_Surjection

\* There are as many seats as places.
LEMMA SeatsCounted == Cardinality(Seats) = Players
<1>1. PlayerOrder \in [1..Players -> Seats] /\ IsInjective(PlayerOrder)
  <2>1. PlayerOrder = [i \in 1..Players |-> PlayerOrder[i]]
    <3>1. PlayerOrder \in Seq(STRING)
      BY CardsAssumption
    <3>2. PlayerOrder \in [1..Len(PlayerOrder) -> STRING]
      BY <3>1, LenProperties
    <3>3. QED
      BY <3>2 DEF Players
  <2>2. QED
    BY <2>1, TablePlaces, CardsAssumption
<1>2. PlayerOrder \in Bijection(1..Players, Seats)
  BY <1>1, TablePlaces DEF Bijection, Injection, Surjection
<1>3. ExistsBijection(1..Players, Seats)
  BY <1>2 DEF ExistsBijection
<1>4. QED
  BY <1>3, TablePlaces, FS_CountingElements

\* nextPlayer goes on by one place.
LEMMA NextPlace ==
  ASSUME NEW f \in 1..Players, NEW i \in 1..Players
  PROVE  NextSeat(PlayerOrder[Place(f, i)]) = PlayerOrder[Place(f, i + 1)]
<1> DEFINE j == Place(f, i)
           c == CHOOSE k \in DOMAIN PlayerOrder : PlayerOrder[k] = PlayerOrder[j]
<1>1. j \in 1..Players /\ Players \in Nat \ {0}
  <2>1. Players \in Nat \ {0}
    BY TablePlaces
  <2>2. i \in 1..(Players + 1)
    BY <2>1
  <2>3. QED
    BY <2>1, <2>2, TablePlaces
<1>2. c = j
  BY <1>1, TablePlaces
<1>3. (j % Players) + 1 = IF j = Players THEN 1 ELSE j + 1
  <2>1. CASE j = Players
    BY <1>1, <2>1
  <2>2. CASE j # Players
    <3>1. j \in Nat /\ j < Players
      BY <1>1, <2>2
    <3> HIDE DEF j
    <3>2. j % Players = j
      BY <1>1, <3>1
    <3>3. QED
      BY <2>2, <3>2
  <2>3. QED
    BY <2>1, <2>2
<1>4. Place(f, i + 1) = IF j = Players THEN 1 ELSE j + 1
  BY <1>1 DEF Place
<1>5. NextSeat(PlayerOrder[j]) = PlayerOrder[(c % Players) + 1]
  BY DEF NextSeat, Players
<1>6. QED
  BY <1>2, <1>3, <1>4, <1>5

\* The seat in turn plays, and keeps the turn.
LEMMA PlayPlaces ==
  ASSUME NEW d, GameInv(d), NEW trick, NEW card \in Card, IsLegal(d, trick, card),
         NEW f \in 1..Players, Rotates(d, f)
  PROVE  LET e == PlayCard(d, card) IN
         /\ Len(e.cardsOnTable) = Len(d.cardsOnTable) + 1
         /\ Turned(e, f, Len(e.cardsOnTable))
<1> DEFINE e == PlayCard(d, card)
           t == d.cardsOnTable
           m == Len(t)
<1>1. Plays(d, card, e)
  BY PlayCardFields DEF GameInv
<1>2. t \in Seq(Card) /\ d.currentPlayer \in Seats
  BY DEF GameInv, IsDeal
<1>3. card \in d.originalHand[d.currentPlayer]
  BY <1>2 DEF IsLegal, FollowsSuit, HoldsCard, GameInv, ConservesCards
<1> HIDE DEF e
<1>4. /\ e.originalHand = d.originalHand /\ e.cardsOnTable = Append(t, card)
      /\ e.firstPlayer = d.firstPlayer /\ e.currentPlayer = d.currentPlayer
  BY <1>1 DEF Plays
<1>5. /\ m \in Nat /\ DOMAIN t = 1..m /\ DOMAIN Append(t, card) = 1..(m + 1)
      /\ Len(Append(t, card)) = m + 1 /\ Append(t, card)[m + 1] = card
      /\ \A i \in 1..m : Append(t, card)[i] = t[i]
  BY <1>2, AppendProperties, LenProperties
<1> HIDE DEF t, m
<1>6. /\ d.firstPlayer = PlayerOrder[f]
      /\ \A i \in 1..m : t[i] \in d.originalHand[PlayerOrder[Place(f, i)]]
      /\ d.currentPlayer = PlayerOrder[Place(f, m + 1)]
  BY <1>5 DEF Rotates, Turned, InTurn, t, m
<1>7. InTurn(d.originalHand, Append(t, card), f)
  <2>1. \A i \in 1..(m + 1) : i \in 1..m \/ i = m + 1
    BY <1>5
  <2>2. QED
    BY <1>3, <1>5, <1>6, <2>1 DEF InTurn
<1>8. Len(e.cardsOnTable) = m + 1 /\ Turned(e, f, m + 1)
  BY <1>4, <1>5, <1>6, <1>7 DEF Turned
<1>9. QED
  BY <1>8 DEF e, t, m

\* The turn is passed to the next place.
LEMMA PassPlaces ==
  ASSUME NEW d, IsDeal(d), NEW f \in 1..Players,
         Len(d.cardsOnTable) \in 1..Players, Turned(d, f, Len(d.cardsOnTable))
  PROVE  LET e == NextPlayer(d) IN
         e.cardsOnTable = d.cardsOnTable /\ Rotates(e, f)
<1> DEFINE e == NextPlayer(d)
<1>1. Passes(d, e) /\ e.currentPlayer = NextSeat(d.currentPlayer)
  BY NextPlayerFields DEF NextPlayer, IsDeal
<1> HIDE DEF e
<1>2. /\ e.originalHand = d.originalHand /\ e.cardsOnTable = d.cardsOnTable
      /\ e.firstPlayer = d.firstPlayer
  BY <1>1 DEF Passes
<1>3. e.currentPlayer = PlayerOrder[Place(f, Len(d.cardsOnTable) + 1)]
  BY <1>1, NextPlace DEF Turned
<1>4. QED
  BY <1>2, <1>3 DEF e, Rotates, Turned

\* A card of the seat in turn, and the turn passed on.
LEMMA PlayRotates ==
  ASSUME NEW d, GameInv(d), NEW trick, NEW card \in Card, IsLegal(d, trick, card),
         NEW f \in 1..Players, Rotates(d, f), Len(d.cardsOnTable) < Players
  PROVE  LET e == NextPlayer(PlayCard(d, card)) IN
         Rotates(e, f) /\ Len(e.cardsOnTable) = Len(d.cardsOnTable) + 1
<1> DEFINE e == PlayCard(d, card)
<1>1. Len(d.cardsOnTable) \in Nat /\ Players \in Nat
  BY TablePlaces, LenProperties DEF GameInv, IsDeal
<1>2. Len(d.cardsOnTable) + 1 \in 1..Players
  BY <1>1
<1>3. /\ Len(e.cardsOnTable) = Len(d.cardsOnTable) + 1
      /\ Turned(e, f, Len(e.cardsOnTable))
  BY PlayPlaces
<1>4. IsDeal(e)
  BY PlayCardType DEF GameInv
<1> HIDE DEF e
<1>5. /\ NextPlayer(e).cardsOnTable = e.cardsOnTable
      /\ Rotates(NextPlayer(e), f)
  BY <1>2, <1>3, <1>4, PassPlaces
<1>6. QED
  BY <1>3, <1>5 DEF e

\* The turn is back at the leader when and only when every seat has played.
LEMMA BackAtLeader ==
  ASSUME NEW d, NEW f \in 1..Players, Rotates(d, f),
         Len(d.cardsOnTable) \in 1..Players
  PROVE  d.currentPlayer = d.firstPlayer <=> Len(d.cardsOnTable) = Players
<1> DEFINE m == Len(d.cardsOnTable)
<1>1. /\ Players \in Nat \ {0} /\ m \in 1..Players /\ m + 1 \in 1..(Players + 1)
      /\ d.firstPlayer = PlayerOrder[f]
      /\ d.currentPlayer = PlayerOrder[Place(f, m + 1)]
  <2>1. Players \in Nat \ {0}
    BY TablePlaces
  <2>2. m \in 1..Players
    OBVIOUS
  <2>3. QED
    BY <2>1, <2>2 DEF Rotates, Turned
<1> HIDE DEF m
<1>2. d.currentPlayer = d.firstPlayer <=> Place(f, m + 1) = f
  <2>1. Place(f, m + 1) \in 1..Players
    BY <1>1, TablePlaces
  <2>2. PlayerOrder[Place(f, m + 1)] = PlayerOrder[f] => Place(f, m + 1) = f
    BY <2>1, TablePlaces
  <2>3. QED
    BY <1>1, <2>2
<1>3. Place(f, m + 1) = f <=> m = Players
  BY <1>1 DEF Place
<1>4. QED
  BY <1>2, <1>3 DEF m

\* The winner leads with an empty table, and the trick has gone round.
LEMMA TakesRound ==
  ASSUME NEW d, GameInv(d), d.cardsOnTable # <<>>, WentRound(d),
         NEW f \in 1..Players, Rotates(d, f), Len(d.cardsOnTable) = Players
  PROVE  LET e == NextTrick(d) IN
         /\ WentRound(e) /\ \E g \in 1..Players : Rotates(e, g)
         /\ Len(e.cardsOnTable) = 0
<1> DEFINE e == NextTrick(d)
           n == Len(d.tricksTaken)
           taken == [cards |-> d.cardsOnTable, seat |-> d.highestPlayer]
<1>1. Takes(d, e)
  BY NextTrickFields DEF GameInv
<1>2. d.highestPlayer \in Seats
  BY DEF GameInv, TableLed
<1>3. d.tricksTaken \in Seq(TrickTaken) /\ taken \in TrickTaken
  BY <1>2 DEF GameInv, IsDeal, TrickTaken
<1>4. taken.cards = d.cardsOnTable
  OBVIOUS
<1>5. /\ e.originalHand = d.originalHand /\ e.cardsOnTable = <<>>
      /\ e.tricksTaken = Append(d.tricksTaken, taken)
      /\ e.currentPlayer = d.highestPlayer /\ e.firstPlayer = d.highestPlayer
  BY <1>1 DEF Takes
<1> HIDE DEF e, taken
<1>6. /\ n \in Nat /\ DOMAIN d.tricksTaken = 1..n /\ DOMAIN e.tricksTaken = 1..(n + 1)
      /\ \A k \in 1..n : e.tricksTaken[k] = d.tricksTaken[k]
      /\ e.tricksTaken[n + 1] = taken
  BY <1>3, <1>5, AppendProperties, LenProperties
<1> HIDE DEF n
<1>7. WentRound(e)
  <2>1. ASSUME NEW k \in 1..(n + 1)
        PROVE  /\ Len(e.tricksTaken[k].cards) = Players
               /\ \E g \in 1..Players : InTurn(e.originalHand, e.tricksTaken[k].cards, g)
    <3>1. CASE k \in 1..n
      <4>1. k \in DOMAIN d.tricksTaken /\ e.tricksTaken[k] = d.tricksTaken[k]
        BY <1>6, <3>1
      <4>2. QED
        BY <1>5, <4>1 DEF WentRound
    <3>2. CASE k = n + 1
      <4>1. e.tricksTaken[k].cards = d.cardsOnTable
        BY <1>4, <1>6, <3>2
      <4>2. InTurn(d.originalHand, d.cardsOnTable, f)
        BY DEF Rotates, Turned
      <4>3. QED
        BY <1>5, <4>1, <4>2
    <3>3. QED
      BY <1>6, <3>1, <3>2
  <2>2. QED
    BY <1>6, <2>1 DEF WentRound
<1>8. Len(e.cardsOnTable) = 0 /\ DOMAIN e.cardsOnTable = {}
  BY <1>5
<1>9. PICK g \in 1..Players : PlayerOrder[g] = d.highestPlayer
  BY <1>2, TablePlaces
<1>10. Rotates(e, g)
  BY <1>5, <1>8, <1>9, TablePlaces DEF Rotates, Turned, InTurn
<1>11. QED
  BY <1>7, <1>8, <1>10 DEF e

\* A new deal begins with the turn of its leader.
LEMMA NewDealRotates ==
  ASSUME NEW h, ProperDeal(h)
  PROVE  LET d == NewDeal(h) IN
         /\ WentRound(d) /\ \E f \in 1..Players : Rotates(d, f)
         /\ Len(d.cardsOnTable) = 0
<1> DEFINE d == NewDeal(h)
<1>1. /\ d.firstPlayer = h.first /\ d.currentPlayer = h.first
      /\ d.cardsOnTable = <<>> /\ d.tricksTaken = <<>>
  BY DEF NewDeal
<1> HIDE DEF d
<1>2. h.first \in Seats
  BY DEF ProperDeal, DealSpec
<1>3. PICK f \in 1..Players : PlayerOrder[f] = h.first
  BY <1>2, TablePlaces
<1>4. DOMAIN d.cardsOnTable = {} /\ Len(d.cardsOnTable) = 0 /\ DOMAIN d.tricksTaken = {}
  BY <1>1
<1>5. Rotates(d, f)
  <2>1. Place(f, Len(d.cardsOnTable) + 1) = f
    BY <1>4, TablePlaces
  <2>2. QED
    BY <1>1, <1>3, <1>4, <2>1 DEF Rotates, Turned, InTurn
<1>6. QED
  BY <1>4, <1>5 DEF WentRound, d

\* Cards that were played in turn have different owners.
LEMMA InTurnOwners ==
  ASSUME NEW d, Dealt(d), NEW t, NEW m \in 0..Players, DOMAIN t = 1..m,
         NEW f \in 1..Players, InTurn(d.originalHand, t, f),
         NEW i \in 1..m, NEW j \in 1..m, i # j
  PROVE  OwnerOf(d, t[i]) # OwnerOf(d, t[j])
<1>1. i \in 1..Players /\ j \in 1..Players /\ i \in 1..(Players + 1) /\ j \in 1..(Players + 1)
  <2>1. Players \in Nat
    BY TablePlaces
  <2>2. QED
    BY <2>1
<1>2. Place(f, i) \in 1..Players /\ Place(f, j) \in 1..Players /\ Place(f, i) # Place(f, j)
  BY <1>1, TablePlaces
<1>3. /\ PlayerOrder[Place(f, i)] \in Seats /\ PlayerOrder[Place(f, j)] \in Seats
      /\ t[i] \in d.originalHand[PlayerOrder[Place(f, i)]]
      /\ t[j] \in d.originalHand[PlayerOrder[Place(f, j)]]
  BY <1>2, TablePlaces DEF InTurn
<1>4. OwnerOf(d, t[i]) = PlayerOrder[Place(f, i)] /\ OwnerOf(d, t[j]) = PlayerOrder[Place(f, j)]
  BY <1>3, OwnerUnique
<1>5. QED
  BY <1>2, <1>4, TablePlaces

\* A deal in which the turn goes round has one card of each seat in a trick.
LEMMA RoundsAreTricks ==
  ASSUME NEW d, Dealt(d), IsDeal(d), WentRound(d), NEW f \in 1..Players,
         InTurn(d.originalHand, d.cardsOnTable, f), Len(d.cardsOnTable) \in 0..Players
  PROVE  TakesOneCardEach(d)
<1>1. d.cardsOnTable \in Seq(Card) /\ d.tricksTaken \in Seq(TrickTaken)
  BY DEF IsDeal
<1>2. /\ DOMAIN Tricks(d) = DOMAIN d.tricksTaken
      /\ \A k \in DOMAIN d.tricksTaken : Tricks(d)[k] = d.tricksTaken[k].cards
  BY DEF Tricks
<1>3. ASSUME NEW t \in Range(Tricks(d)) \cup {d.cardsOnTable},
             NEW i \in DOMAIN t, NEW j \in DOMAIN t, i # j
      PROVE  OwnerOf(d, t[i]) # OwnerOf(d, t[j])
  <2>1. CASE t = d.cardsOnTable
    <3>1. DOMAIN t = 1..Len(t)
      BY <1>1, <2>1, LenProperties
    <3>2. QED
      BY <1>3, <2>1, <3>1, InTurnOwners
  <2>2. CASE t \in Range(Tricks(d))
    <3>1. PICK k \in DOMAIN d.tricksTaken : t = d.tricksTaken[k].cards
      BY <1>2, <2>2 DEF Range
    <3>2. PICK g \in 1..Players : InTurn(d.originalHand, t, g)
      BY <3>1 DEF WentRound
    <3>3. Len(t) = Players /\ t \in Seq(Card)
      <4>1. d.tricksTaken[k] \in TrickTaken
        BY <1>1, <3>1
      <4>2. QED
        BY <3>1, <4>1 DEF WentRound, TrickTaken
    <3>4. Players \in 0..Players /\ DOMAIN t = 1..Players
      BY <3>3, TablePlaces, LenProperties
    <3>5. QED
      BY <1>3, <3>2, <3>4, InTurnOwners
  <2>3. QED
    BY <2>1, <2>2
<1>4. \A k \in DOMAIN Tricks(d) : Len(Tricks(d)[k]) = Cardinality(Seats)
  BY <1>2, SeatsCounted DEF WentRound
<1>5. QED
  BY <1>3, <1>4 DEF TakesOneCardEach
-----------------------------------------------------------------------------
\* The definitions of the rules that do not depend on a state.
R == INSTANCE HeartsRules WITH
  Deals <- {}, type <- 1, hand <- <<>>, leader <- NoSeat, table <- <<>>,
  number <- 1, points <- <<>>
-----------------------------------------------------------------------------
\* Sums over finite sets.

\* Some element of s, the one a fold takes first.
Some(s) == CHOOSE x \in s : TRUE

\* g sums F over every subset of S, element by element in the order of CHOOSE.
Sums(g, F, S) ==
  g = [s \in SUBSET S |-> IF s = {} THEN 0 ELSE F[Some(s)] + g[s \ {Some(s)}]]

\* g sums F over every subset of S, in whatever order.
Adds(g, F, S) ==
  /\ g \in [SUBSET S -> Nat] /\ g[{}] = 0
  /\ \A s \in SUBSET S : \A x \in s : g[s] = F[x] + g[s \ {x}]

\* A set of numbers has a least one, which induction over numbers is made of.
LEMMA LeastNumber ==
  ASSUME NEW T, T \subseteq Nat, T # {}
  PROVE  \E j \in T : \A k \in T : j <= k
<1>1. PICK j \in T : \A k \in T : ~(<<k, j>> \in OpToRel(<, Nat))
  BY NatLessThanWellFounded, WFMin
<1>2. \A k \in T : ~(k < j)
  BY <1>1 DEF OpToRel
<1>3. QED
  BY <1>2

\* A subset of a finite set and an element of it.
LEMMA SmallerSet ==
  ASSUME NEW S, IsFiniteSet(S), NEW s \in SUBSET S, NEW x \in s
  PROVE  /\ IsFiniteSet(s) /\ Cardinality(s) \in Nat \ {0}
         /\ s \ {x} \in SUBSET S /\ Cardinality(s \ {x}) = Cardinality(s) - 1
<1>1. IsFiniteSet(s)
  BY FS_Subset
<1>2. Cardinality(s) \in Nat /\ Cardinality(s) # 0
  BY <1>1, FS_CardinalityType, FS_EmptySet
<1>3. Cardinality(s \ {x}) = Cardinality(s) - 1
  BY <1>1, FS_RemoveElement
<1>4. QED
  BY <1>1, <1>2, <1>3

\* The recursion of a fold has a solution: subsets are solved in the order of
\* their size.
LEMMA SumsExist ==
  ASSUME NEW S, IsFiniteSet(S), NEW F \in [S -> Nat]
  PROVE  \E g : Sums(g, F, S) /\ g \in [SUBSET S -> Nat]
<1> DEFINE Solves(g, n) ==
             /\ g \in [SUBSET S -> Nat]
             /\ \A s \in SUBSET S : Cardinality(s) < n =>
                  g[s] = IF s = {} THEN 0 ELSE F[Some(s)] + g[s \ {Some(s)}]
           T == {n \in Nat : ~ \E g : Solves(g, n)}
<1>1. \A s \in SUBSET S : s # {} => Some(s) \in s /\ Some(s) \in S
  BY DEF Some
<1>2. \A s \in SUBSET S : Cardinality(s) \in Nat
  BY FS_Subset, FS_CardinalityType
<1>3. T = {}
  <2> SUFFICES ASSUME T # {} PROVE FALSE
    OBVIOUS
  <2>1. PICK n \in T : \A k \in T : n <= k
    <3> HIDE DEF Solves
    <3>1. T \subseteq Nat
      OBVIOUS
    <3> QED BY <3>1, LeastNumber
  <2>2. n \in Nat /\ ~ \E g : Solves(g, n)
    BY <2>1
  <2>3. n # 0
    <3>1. Solves([s \in SUBSET S |-> 0], 0)
      BY <1>2
    <3> HIDE DEF Solves
    <3> QED BY <2>2, <3>1
  <2>4. PICK g : Solves(g, n - 1)
    <3> HIDE DEF Solves
    <3>1. n - 1 \in Nat /\ ~(n <= n - 1)
      BY <2>2, <2>3
    <3> QED BY <2>1, <3>1
  <2> DEFINE h == [s \in SUBSET S |->
                     IF s = {} THEN 0 ELSE F[Some(s)] + g[s \ {Some(s)}]]
  <2>5. h \in [SUBSET S -> Nat]
    BY <1>1, <2>4
  <2>6. \A s \in SUBSET S : Cardinality(s) < n - 1 => g[s] = h[s]
    BY <2>4
  <2>7. ASSUME NEW s \in SUBSET S, Cardinality(s) < n, s # {}
        PROVE  g[s \ {Some(s)}] = h[s \ {Some(s)}]
    <3>1. Some(s) \in s
      BY <1>1, <2>7
    <3>2. /\ s \ {Some(s)} \in SUBSET S
          /\ Cardinality(s \ {Some(s)}) = Cardinality(s) - 1
      BY <3>1, SmallerSet
    <3>3. Cardinality(s \ {Some(s)}) < n - 1
      BY <1>2, <2>2, <2>7, <3>2
    <3>4. QED
      BY <2>6, <3>2, <3>3
  <2>8. \A s \in SUBSET S : Cardinality(s) < n =>
          h[s] = IF s = {} THEN 0 ELSE F[Some(s)] + h[s \ {Some(s)}]
    <3>1. TAKE s \in SUBSET S
    <3>2. h[s] = IF s = {} THEN 0 ELSE F[Some(s)] + g[s \ {Some(s)}]
      OBVIOUS
    <3> HIDE DEF h
    <3>3. QED
      BY <2>7, <3>2
  <2>9. Solves(h, n)
    <3> HIDE DEF h
    <3> QED BY <2>5, <2>8
  <2>10. QED
    <3> HIDE DEF Solves
    <3> QED BY <2>2, <2>9
<1>4. Cardinality(S) \in Nat
  BY FS_CardinalityType
<1>5. PICK g : Solves(g, Cardinality(S) + 1)
  <2> HIDE DEF Solves
  <2> QED BY <1>3, <1>4
<1>6. \A s \in SUBSET S : Cardinality(s) < Cardinality(S) + 1
  <2>1. \A s \in SUBSET S : Cardinality(s) <= Cardinality(S)
    BY FS_Subset
  <2>2. QED
    BY <1>2, <1>4, <2>1
<1>7. Sums(g, F, S)
  BY <1>5, <1>6 DEF Sums
<1>8. QED
  BY <1>5, <1>7

\* Addition makes the order irrelevant.
LEMMA SumsAdd ==
  ASSUME NEW S, IsFiniteSet(S), NEW F \in [S -> Nat], NEW g, Sums(g, F, S)
  PROVE  Adds(g, F, S)
<1>1. \A s \in SUBSET S : s # {} => Some(s) \in s /\ Some(s) \in S
  BY DEF Some
<1>2. \A s \in SUBSET S : Cardinality(s) \in Nat
  BY FS_Subset, FS_CardinalityType
<1>3. g \in [SUBSET S -> Nat]
  <2>1. DOMAIN g = SUBSET S /\ g = [s \in SUBSET S |-> g[s]]
    BY DEF Sums
  <2> DEFINE T == {n \in Nat : \E s \in SUBSET S : Cardinality(s) = n /\ g[s] \notin Nat}
  <2>2. T = {}
    <3> SUFFICES ASSUME T # {} PROVE FALSE
      OBVIOUS
    <3>1. PICK n \in T : \A k \in T : n <= k
      <4>1. T \subseteq Nat
        OBVIOUS
      <4> HIDE DEF T
      <4>2. QED
        BY <4>1, LeastNumber
    <3>2. PICK s \in SUBSET S : Cardinality(s) = n /\ g[s] \notin Nat
      BY <3>1
    <3>3. s # {} /\ g[s] = F[Some(s)] + g[s \ {Some(s)}]
      <4>1. g[s] = IF s = {} THEN 0 ELSE F[Some(s)] + g[s \ {Some(s)}]
        BY DEF Sums
      <4>2. QED
        BY <3>2, <4>1
    <3>4. /\ Some(s) \in s /\ s \ {Some(s)} \in SUBSET S
          /\ Cardinality(s \ {Some(s)}) = n - 1 /\ n - 1 \in Nat /\ ~(n <= n - 1)
      BY <1>1, <3>2, <3>3, SmallerSet
    <3>5. g[s \ {Some(s)}] \in Nat
      BY <3>1, <3>4
    <3>6. QED
      BY <1>1, <3>2, <3>3, <3>5
  <2>3. \A s \in SUBSET S : g[s] \in Nat
    BY <1>2, <2>2
  <2>4. QED
    BY <2>1, <2>3
<1>4. g[{}] = 0
  BY DEF Sums
<1> DEFINE Free(s) == \A x \in s : g[s] = F[x] + g[s \ {x}]
           T == {n \in Nat : \E s \in SUBSET S : Cardinality(s) = n /\ ~Free(s)}
<1>5. T = {}
  <2> SUFFICES ASSUME T # {} PROVE FALSE
    OBVIOUS
  <2>1. PICK n \in T : \A k \in T : n <= k
    <3>1. T \subseteq Nat
      OBVIOUS
    <3> HIDE DEF T
    <3>2. QED
      BY <3>1, LeastNumber
  <2>2. PICK s \in SUBSET S : Cardinality(s) = n /\ ~Free(s)
    BY <2>1
  <2>3. \A r \in SUBSET S : Cardinality(r) = n - 1 /\ n - 1 \in Nat => Free(r)
    <3> HIDE DEF Free
    <3>1. \A k \in Nat : k < n => k \notin T
      BY <2>1
    <3>2. QED
      BY <2>1, <3>1
  <2>4. PICK x \in s : g[s] # F[x] + g[s \ {x}]
    BY <2>2
  <2> DEFINE c == Some(s)
  <2>5. c \in s /\ g[s] = F[c] + g[s \ {c}]
    BY <1>1, <2>4 DEF Sums
  <2> HIDE DEF c
  <2>6. c # x
    BY <2>4, <2>5
  <2>7. /\ s \ {c} \in SUBSET S /\ s \ {x} \in SUBSET S
        /\ Cardinality(s \ {c}) = n - 1 /\ Cardinality(s \ {x}) = n - 1 /\ n - 1 \in Nat
    <3>1. ASSUME NEW y \in s
          PROVE  /\ s \ {y} \in SUBSET S /\ Cardinality(s \ {y}) = n - 1 /\ n - 1 \in Nat
      BY <2>2, SmallerSet
    <3>2. QED
      BY <2>4, <2>5, <3>1
  <2>8. g[s \ {c}] = F[x] + g[(s \ {c}) \ {x}]
    BY <2>3, <2>4, <2>6, <2>7
  <2>9. g[s \ {x}] = F[c] + g[(s \ {x}) \ {c}]
    BY <2>3, <2>5, <2>6, <2>7
  <2>10. (s \ {c}) \ {x} = (s \ {x}) \ {c} /\ (s \ {x}) \ {c} \in SUBSET S
    OBVIOUS
  <2>11. F[x] \in Nat /\ F[c] \in Nat /\ g[(s \ {x}) \ {c}] \in Nat
    BY <1>3, <2>4, <2>5, <2>10
  <2>12. g[s] = F[c] + (F[x] + g[(s \ {x}) \ {c}])
    BY <2>5, <2>8, <2>10
  <2>13. F[x] + g[s \ {x}] = F[x] + (F[c] + g[(s \ {x}) \ {c}])
    BY <2>9
  <2>14. F[c] + (F[x] + g[(s \ {x}) \ {c}]) = F[x] + (F[c] + g[(s \ {x}) \ {c}])
    BY <2>11
  <2>15. QED
    BY <2>4, <2>12, <2>13, <2>14
<1>6. \A s \in SUBSET S : Free(s)
  BY <1>2, <1>5
<1>7. QED
  BY <1>3, <1>4, <1>6 DEF Adds

\* A sum over a set depends on nothing but the values there.
LEMMA AddsAgree ==
  ASSUME NEW S, IsFiniteSet(S), NEW F \in [S -> Nat], NEW g, Adds(g, F, S),
         NEW C, IsFiniteSet(C), NEW G \in [C -> Nat], NEW h, Adds(h, G, C),
         NEW A, A \subseteq S, A \subseteq C, \A x \in A : F[x] = G[x]
  PROVE  g[A] = h[A]
<1> DEFINE T == {n \in Nat : \E s \in SUBSET A : Cardinality(s) = n /\ g[s] # h[s]}
<1>1. T = {}
  <2> SUFFICES ASSUME T # {} PROVE FALSE
    OBVIOUS
  <2>1. PICK n \in T : \A k \in T : n <= k
    <3>1. T \subseteq Nat
      OBVIOUS
    <3> HIDE DEF T
    <3>2. QED
      BY <3>1, LeastNumber
  <2>2. PICK s \in SUBSET A : Cardinality(s) = n /\ g[s] # h[s]
    BY <2>1
  <2>3. PICK x : x \in s
    BY <2>2 DEF Adds
  <2>4. s \in SUBSET S /\ s \in SUBSET C
    OBVIOUS
  <2>5. /\ s \ {x} \in SUBSET A
        /\ Cardinality(s \ {x}) = n - 1 /\ n - 1 \in Nat /\ ~(n <= n - 1)
    BY <2>2, <2>3, <2>4, SmallerSet
  <2>6. g[s \ {x}] = h[s \ {x}]
    BY <2>1, <2>5
  <2>7. F[x] = G[x]
    BY <2>3
  <2>8. QED
    BY <2>2, <2>3, <2>4, <2>6, <2>7 DEF Adds
<1>2. IsFiniteSet(A) /\ Cardinality(A) \in Nat
  BY FS_Subset, FS_CardinalityType
<1>3. QED
  BY <1>1, <1>2

\* A sum is zero when and only when every term is.
LEMMA AddsZero ==
  ASSUME NEW S, IsFiniteSet(S), NEW F \in [S -> Nat], NEW g, Adds(g, F, S)
  PROVE  g[S] = 0 <=> \A x \in S : F[x] = 0
<1>1. ASSUME g[S] = 0, NEW x \in S PROVE F[x] = 0
  <2>1. g[S] = F[x] + g[S \ {x}] /\ F[x] \in Nat /\ g[S \ {x}] \in Nat
    BY DEF Adds
  <2>2. QED
    BY <1>1, <2>1
<1>2. ASSUME \A x \in S : F[x] = 0 PROVE g[S] = 0
  <2> DEFINE T == {n \in Nat : \E s \in SUBSET S : Cardinality(s) = n /\ g[s] # 0}
  <2>1. T = {}
    <3> SUFFICES ASSUME T # {} PROVE FALSE
      OBVIOUS
    <3>1. PICK n \in T : \A k \in T : n <= k
      <4>1. T \subseteq Nat
        OBVIOUS
      <4> HIDE DEF T
      <4>2. QED
        BY <4>1, LeastNumber
    <3>2. PICK s \in SUBSET S : Cardinality(s) = n /\ g[s] # 0
      BY <3>1
    <3>3. PICK x : x \in s
      BY <3>2 DEF Adds
    <3>4. /\ s \ {x} \in SUBSET S
          /\ Cardinality(s \ {x}) = n - 1 /\ n - 1 \in Nat /\ ~(n <= n - 1)
      BY <3>2, <3>3, SmallerSet
    <3>5. g[s \ {x}] = 0
      BY <3>1, <3>4
    <3>6. g[s] = F[x] + g[s \ {x}]
      BY <3>3 DEF Adds
    <3>7. QED
      BY <1>2, <3>2, <3>3, <3>5, <3>6
  <2>2. Cardinality(S) \in Nat
    BY FS_CardinalityType
  <2>3. QED
    BY <2>1, <2>2
<1>3. QED
  BY <1>1, <1>2
\* The sum over a function, as a fold computes it, in whatever order.
LEMMA FunctionAdds ==
  ASSUME NEW S, IsFiniteSet(S), NEW F \in [S -> Nat]
  PROVE  \E g : Adds(g, F, S) /\ SumFunction(F) = g[S]
<1> DEFINE P(h) == h = [s \in SUBSET S |->
                          IF s = {} THEN 0
                          ELSE F[CHOOSE x \in s : TRUE] + h[s \ {CHOOSE x \in s : TRUE}]]
           g == CHOOSE h : P(h)
<1>1. \A h : Sums(h, F, S) <=> P(h)
  BY DEF Sums, Some
<1>2. P(g)
  <2>1. \E h : P(h)
    <3> HIDE DEF P, g
    <3> QED BY <1>1, SumsExist
  <2> HIDE DEF P
  <2>2. QED
    BY <2>1, Zenon
<1>3. Adds(g, F, S)
  <2> HIDE DEF P, g
  <2> QED BY <1>1, <1>2, SumsAdd
<1>4. SumFunction(F) = g[S]
  <2>1. DOMAIN F = S
    OBVIOUS
  <2>2. SumFunction(F) = (CHOOSE h : h = [s \in SUBSET DOMAIN F |->
                            IF s = {} THEN 0
                            ELSE F[CHOOSE x \in s : TRUE] + h[s \ {CHOOSE x \in s : TRUE}]])[DOMAIN F]
    BY DEF SumFunction, SumFunctionOnSet, FoldFunctionOnSet, MapThenFoldSet
  <2>3. QED
    BY <2>1, <2>2
<1>5. QED
  BY <1>3, <1>4

\* The terms of disjoint sets add up to those of their union.
LEMMA AddsUnion ==
  ASSUME NEW S, IsFiniteSet(S), NEW F \in [S -> Nat], NEW g, Adds(g, F, S),
         NEW A, NEW B, S = A \cup B, A \cap B = {}
  PROVE  g[S] = g[A] + g[B]
<1> DEFINE k == [s \in SUBSET S |-> g[s \cap A] + g[s \cap B]]
<1>1. Adds(k, F, S)
  <2>1. k \in [SUBSET S -> Nat]
    BY DEF Adds
  <2>2. k[{}] = 0
    <3>1. {} \cap A = {} /\ {} \cap B = {} /\ {} \in SUBSET S
      OBVIOUS
    <3>2. QED
      BY <3>1 DEF Adds
  <2>3. ASSUME NEW s \in SUBSET S, NEW x \in s PROVE k[s] = F[x] + k[s \ {x}]
    <3>1. /\ g[s \cap A] \in Nat /\ g[s \cap B] \in Nat /\ F[x] \in Nat
          /\ g[(s \ {x}) \cap A] \in Nat /\ g[(s \ {x}) \cap B] \in Nat
      BY DEF Adds
    <3>2. k[s] = g[s \cap A] + g[s \cap B]
          /\ k[s \ {x}] = g[(s \ {x}) \cap A] + g[(s \ {x}) \cap B]
      OBVIOUS
    <3> HIDE DEF k
    <3>3. CASE x \in A
      <4>1. (s \ {x}) \cap A = (s \cap A) \ {x} /\ (s \ {x}) \cap B = s \cap B
        BY <3>3
      <4>2. s \cap A \in SUBSET S /\ x \in s \cap A
        BY <3>3
      <4>3. g[s \cap A] = F[x] + g[(s \cap A) \ {x}]
        BY <4>2 DEF Adds
      <4> DEFINE a == g[(s \ {x}) \cap A]
                 b == g[(s \ {x}) \cap B]
                 fx == F[x]
      <4>4. k[s \ {x}] = a + b /\ k[s] = (fx + a) + b
        BY <3>2, <4>1, <4>3
      <4>5. a \in Nat /\ b \in Nat /\ fx \in Nat
        BY <3>1
      <4> HIDE DEF a, b
      <4>6. k[s] = fx + k[s \ {x}]
        <5> HIDE DEF fx
        <5> QED BY <4>4, <4>5
      <4>7. QED
        BY <4>6
    <3>4. CASE x \in B
      <4>1. (s \ {x}) \cap B = (s \cap B) \ {x} /\ (s \ {x}) \cap A = s \cap A
        BY <3>4
      <4>2. s \cap B \in SUBSET S /\ x \in s \cap B
        BY <3>4
      <4>3. g[s \cap B] = F[x] + g[(s \cap B) \ {x}]
        BY <4>2 DEF Adds
      <4> DEFINE a == g[(s \ {x}) \cap A]
                 b == g[(s \ {x}) \cap B]
                 fx == F[x]
      <4>4. k[s \ {x}] = a + b /\ k[s] = a + (fx + b)
        BY <3>2, <4>1, <4>3
      <4>5. a \in Nat /\ b \in Nat /\ fx \in Nat
        BY <3>1
      <4> HIDE DEF a, b
      <4>6. k[s] = fx + k[s \ {x}]
        <5> HIDE DEF fx
        <5> QED BY <4>4, <4>5
      <4>7. QED
        BY <4>6
    <3>5. QED
      BY <3>3, <3>4
  <2> HIDE DEF k
  <2>4. QED
    BY <2>1, <2>2, <2>3 DEF Adds
<1>2. k[S] = g[A] + g[B]
  <2>1. S \cap A = A /\ S \cap B = B
    OBVIOUS
  <2>2. QED
    BY <2>1
<1> HIDE DEF k
<1>3. g[S] = k[S]
  BY <1>1, AddsAgree
<1>4. QED
  BY <1>2, <1>3

\* The sum of no terms is nought.
LEMMA SumEmpty ==
  ASSUME NEW F, DOMAIN F = {}, F = [x \in {} |-> F[x]]
  PROVE  SumFunction(F) = 0
<1>1. IsFiniteSet({}) /\ F \in [{} -> Nat]
  BY FS_EmptySet
<1>2. PICK g : Adds(g, F, {}) /\ SumFunction(F) = g[{}]
  BY <1>1, FunctionAdds
<1>3. QED
  BY <1>2 DEF Adds

\* The sum of noughts is nought.
LEMMA SumZero ==
  ASSUME NEW S, IsFiniteSet(S), NEW F \in [S -> Nat], \A x \in S : F[x] = 0
  PROVE  SumFunction(F) = 0
<1>1. PICK g : Adds(g, F, S) /\ SumFunction(F) = g[S]
  BY FunctionAdds
<1>2. QED
  BY <1>1, AddsZero

\* A term that grows makes the sum grow by as much.
LEMMA SumChanged ==
  ASSUME NEW S, IsFiniteSet(S), NEW F \in [S -> Nat], NEW w \in S, NEW n \in Nat,
         NEW G \in [S -> Nat], G[w] = F[w] + n, \A x \in S \ {w} : G[x] = F[x]
  PROVE  SumFunction(G) = SumFunction(F) + n
<1>1. PICK f : Adds(f, F, S) /\ SumFunction(F) = f[S]
  BY FunctionAdds
<1>2. PICK g : Adds(g, G, S) /\ SumFunction(G) = g[S]
  BY FunctionAdds
<1>3. g[S \ {w}] = f[S \ {w}]
  BY <1>1, <1>2, AddsAgree
<1>4. /\ f[S] = F[w] + f[S \ {w}] /\ g[S] = G[w] + g[S \ {w}]
      /\ F[w] \in Nat /\ f[S \ {w}] \in Nat
  BY <1>1, <1>2 DEF Adds
<1>5. QED
  BY <1>1, <1>2, <1>3, <1>4

\* The sums of two functions add up to that of both together.
LEMMA SumTogether ==
  ASSUME NEW S, IsFiniteSet(S), NEW F \in [S -> Nat], NEW G \in [S -> Nat]
  PROVE  SumFunction([x \in S |-> F[x] + G[x]]) = SumFunction(F) + SumFunction(G)
<1> DEFINE H == [x \in S |-> F[x] + G[x]]
<1>1. PICK f : Adds(f, F, S) /\ SumFunction(F) = f[S]
  BY FunctionAdds
<1>2. PICK g : Adds(g, G, S) /\ SumFunction(G) = g[S]
  BY FunctionAdds
<1> DEFINE k == [s \in SUBSET S |-> f[s] + g[s]]
<1>3. H \in [S -> Nat] /\ \A x \in S : H[x] = F[x] + G[x]
  OBVIOUS
<1> HIDE DEF H
<1>4. PICK h : Adds(h, H, S) /\ SumFunction(H) = h[S]
  BY <1>3, FunctionAdds
<1>5. Adds(k, H, S)
  <2>1. k \in [SUBSET S -> Nat] /\ k[{}] = 0
    BY <1>1, <1>2 DEF Adds
  <2>2. ASSUME NEW s \in SUBSET S, NEW x \in s PROVE k[s] = H[x] + k[s \ {x}]
    <3>1. /\ f[s] = F[x] + f[s \ {x}] /\ g[s] = G[x] + g[s \ {x}]
          /\ f[s \ {x}] \in Nat /\ g[s \ {x}] \in Nat
      BY <1>1, <1>2 DEF Adds
    <3>2. k[s] = f[s] + g[s] /\ k[s \ {x}] = f[s \ {x}] + g[s \ {x}]
          /\ F[x] \in Nat /\ G[x] \in Nat
      OBVIOUS
    <3> HIDE DEF k
    <3>3. QED
      BY <1>3, <3>1, <3>2
  <2> HIDE DEF k
  <2>3. QED
    BY <2>1, <2>2 DEF Adds
<1>6. k[S] = f[S] + g[S]
  OBVIOUS
<1> HIDE DEF k
<1>7. h[S] = k[S]
  BY <1>3, <1>4, <1>5, AddsAgree
<1>8. QED
  BY <1>1, <1>2, <1>4, <1>6, <1>7 DEF H

\* Filling a function up with noughts leaves its sum alone.
LEMMA SumPadded ==
  ASSUME NEW S, IsFiniteSet(S), NEW D, D \subseteq S, NEW F \in [D -> Nat]
  PROVE  SumFunction([x \in S |-> IF x \in D THEN F[x] ELSE 0]) = SumFunction(F)
<1> DEFINE G == [x \in S |-> IF x \in D THEN F[x] ELSE 0]
<1>1. IsFiniteSet(D)
  BY FS_Subset
<1>2. PICK f : Adds(f, F, D) /\ SumFunction(F) = f[D]
  BY <1>1, FunctionAdds
<1> DEFINE k == [s \in SUBSET S |-> f[s \cap D]]
<1>3. G \in [S -> Nat] /\ \A x \in S : G[x] = IF x \in D THEN F[x] ELSE 0
  OBVIOUS
<1> HIDE DEF G
<1>4. PICK g : Adds(g, G, S) /\ SumFunction(G) = g[S]
  BY <1>3, FunctionAdds
<1>5. Adds(k, G, S)
  <2>1. k \in [SUBSET S -> Nat]
    BY <1>2 DEF Adds
  <2>2. k[{}] = 0
    <3>1. {} \cap D = {}
      OBVIOUS
    <3>2. QED
      BY <1>2, <3>1 DEF Adds
  <2>3. ASSUME NEW s \in SUBSET S, NEW x \in s PROVE k[s] = G[x] + k[s \ {x}]
    <3>1. k[s] = f[s \cap D] /\ k[s \ {x}] = f[(s \ {x}) \cap D]
          /\ f[s \cap D] \in Nat
      BY <1>2 DEF Adds
    <3> HIDE DEF k
    <3>2. CASE x \in D
      <4>1. (s \ {x}) \cap D = (s \cap D) \ {x}
        OBVIOUS
      <4>2. f[s \cap D] = F[x] + f[(s \cap D) \ {x}]
        BY <1>2, <3>2 DEF Adds
      <4>3. QED
        BY <1>3, <3>1, <3>2, <4>1, <4>2
    <3>3. CASE x \notin D
      <4>1. (s \ {x}) \cap D = s \cap D
        BY <3>3
      <4>2. QED
        BY <1>3, <3>1, <3>3, <4>1
    <3>4. QED
      BY <3>2, <3>3
  <2> HIDE DEF k
  <2>4. QED
    BY <2>1, <2>2, <2>3 DEF Adds
<1>6. k[S] = f[D]
  <2>1. S \cap D = D
    OBVIOUS
  <2>2. QED
    BY <2>1
<1> HIDE DEF k
<1>7. g[S] = k[S]
  BY <1>3, <1>4, <1>5, AddsAgree
<1>8. QED
  BY <1>2, <1>4, <1>6, <1>7 DEF G

\* One number more at the end of a list adds itself to the sum.
LEMMA SumExtended ==
  ASSUME NEW n \in Nat, NEW F \in [1..n -> Nat], NEW G \in [1..(n + 1) -> Nat],
         \A i \in 1..n : G[i] = F[i]
  PROVE  SumFunction(G) = SumFunction(F) + G[n + 1]
<1>1. IsFiniteSet(1..n) /\ IsFiniteSet(1..(n + 1))
  <2>1. 1 \in Int /\ n \in Int /\ n + 1 \in Int
    OBVIOUS
  <2>2. QED
    BY <2>1, FS_Interval
<1>2. PICK f : Adds(f, F, 1..n) /\ SumFunction(F) = f[1..n]
  BY <1>1, FunctionAdds
<1>3. PICK g : Adds(g, G, 1..(n + 1)) /\ SumFunction(G) = g[1..(n + 1)]
  BY <1>1, FunctionAdds
<1>4. 1..n \subseteq 1..(n + 1) /\ n + 1 \in 1..(n + 1) /\ (1..(n + 1)) \ {n + 1} = 1..n
  OBVIOUS
<1>5. g[1..n] = f[1..n]
  BY <1>1, <1>2, <1>3, <1>4, AddsAgree
<1> DEFINE I == 1..(n + 1)
           l == n + 1
<1>6. g[1..n] \in Nat /\ G[n + 1] \in Nat /\ g[1..(n + 1)] = G[n + 1] + g[1..n]
  <2>1. I \in SUBSET I /\ l \in I /\ Adds(g, G, I) /\ I \ {l} = 1..n
    BY <1>3, <1>4
  <2>2. G \in [I -> Nat] /\ 1..n \in SUBSET I
    BY <1>4
  <2> HIDE DEF I, l
  <2>3. g[I] = G[l] + g[I \ {l}] /\ g[1..n] \in Nat /\ G[l] \in Nat
    BY <2>1, <2>2 DEF Adds
  <2>4. QED
    BY <2>1, <2>3 DEF I, l
<1>7. QED
  BY <1>2, <1>3, <1>5, <1>6
-----------------------------------------------------------------------------
\* The points of cards and tricks.

\* The values of the cards of a set are summed, in whatever order.
LEMMA CardsAdd ==
  ASSUME NEW k, NEW C, IsFiniteSet(C)
  PROVE  \E g : /\ Adds(g, [c \in C |-> R!CardValue(k, c)], C)
                /\ R!CardsWorth(k, C) = g[C]
<1> DEFINE V(c) == R!CardValue(k, c)
           F == [c \in C |-> V(c)]
           P(h) == h = [s \in SUBSET C |->
                          IF s = {} THEN 0
                          ELSE V(CHOOSE x \in s : TRUE) + h[s \ {CHOOSE x \in s : TRUE}]]
           g == CHOOSE h : P(h)
<1>1. F \in [C -> Nat]
  BY DEF R!CardValue
<1> HIDE DEF V
<1>2. \A h : Sums(h, F, C) <=> P(h)
  <2>1. \A s \in SUBSET C : s # {} => F[Some(s)] = V(CHOOSE x \in s : TRUE)
    BY DEF Some
  <2>2. TAKE h
  <2>3. [s \in SUBSET C |-> IF s = {} THEN 0 ELSE F[Some(s)] + h[s \ {Some(s)}]]
        = [s \in SUBSET C |->
             IF s = {} THEN 0
             ELSE V(CHOOSE x \in s : TRUE) + h[s \ {CHOOSE x \in s : TRUE}]]
    <3> HIDE DEF F
    <3> QED BY <2>1 DEF Some
  <2>4. QED
    BY <2>3 DEF Sums
<1>3. P(g)
  <2>1. \E h : P(h)
    <3> HIDE DEF F, P, g
    <3> QED BY <1>1, <1>2, SumsExist
  <2> HIDE DEF P
  <2>2. QED
    BY <2>1, Zenon
<1>4. Adds(g, F, C)
  <2> HIDE DEF F, P, g
  <2> QED BY <1>1, <1>2, <1>3, SumsAdd
<1> USE DEF V
<1>5. R!CardsWorth(k, C) = g[C]
  BY DEF R!CardsWorth, R!MapThenSumSet, R!MapThenFoldSet
<1>6. QED
  BY <1>4, <1>5

\* So are the values of the tricks.
LEMMA TricksAdd ==
  ASSUME NEW k, NEW C, IsFiniteSet(C)
  PROVE  \E g : /\ Adds(g, [n \in C |-> R!TrickValue(k, n)], C)
                /\ R!TricksWorth(k, C) = g[C]
<1> DEFINE V(n) == R!TrickValue(k, n)
           F == [n \in C |-> V(n)]
           P(h) == h = [s \in SUBSET C |->
                          IF s = {} THEN 0
                          ELSE V(CHOOSE x \in s : TRUE) + h[s \ {CHOOSE x \in s : TRUE}]]
           g == CHOOSE h : P(h)
<1>1. F \in [C -> Nat]
  BY DEF R!TrickValue
<1> HIDE DEF V
<1>2. \A h : Sums(h, F, C) <=> P(h)
  <2>1. \A s \in SUBSET C : s # {} => F[Some(s)] = V(CHOOSE x \in s : TRUE)
    BY DEF Some
  <2>2. TAKE h
  <2>3. [s \in SUBSET C |-> IF s = {} THEN 0 ELSE F[Some(s)] + h[s \ {Some(s)}]]
        = [s \in SUBSET C |->
             IF s = {} THEN 0
             ELSE V(CHOOSE x \in s : TRUE) + h[s \ {CHOOSE x \in s : TRUE}]]
    <3> HIDE DEF F
    <3> QED BY <2>1 DEF Some
  <2>4. QED
    BY <2>3 DEF Sums
<1>3. P(g)
  <2>1. \E h : P(h)
    <3> HIDE DEF F, P, g
    <3> QED BY <1>1, <1>2, SumsExist
  <2> HIDE DEF P
  <2>2. QED
    BY <2>1, Zenon
<1>4. Adds(g, F, C)
  <2> HIDE DEF F, P, g
  <2> QED BY <1>1, <1>2, <1>3, SumsAdd
<1> USE DEF V
<1>5. R!TricksWorth(k, C) = g[C]
  BY DEF R!TricksWorth, R!MapThenSumSet, R!MapThenFoldSet
<1>6. QED
  BY <1>4, <1>5

\* No points are left exactly when every card and every trick is worth nothing.
LEMMA WorthZero ==
  ASSUME NEW k, NEW C, IsFiniteSet(C), NEW T, IsFiniteSet(T)
  PROVE  /\ R!Worth(k, C, T) \in Nat
         /\ R!Worth(k, C, T) = 0 <=>
              /\ \A c \in C : R!CardValue(k, c) = 0
              /\ \A n \in T : R!TrickValue(k, n) = 0
<1> DEFINE F == [c \in C |-> R!CardValue(k, c)]
           G == [n \in T |-> R!TrickValue(k, n)]
<1>1. PICK g : Adds(g, F, C) /\ R!CardsWorth(k, C) = g[C]
  BY CardsAdd
<1>2. PICK h : Adds(h, G, T) /\ R!TricksWorth(k, T) = h[T]
  BY TricksAdd
<1>3. R!Worth(k, C, T) = g[C] + h[T]
  BY <1>1, <1>2 DEF R!Worth
<1>4. F \in [C -> Nat] /\ G \in [T -> Nat]
  BY DEF R!CardValue, R!TrickValue
<1>5. g[C] \in Nat /\ h[T] \in Nat
  BY <1>1, <1>2 DEF Adds
<1>6. g[C] = 0 <=> \A c \in C : F[c] = 0
  <2> HIDE DEF F
  <2> QED BY <1>1, <1>4, AddsZero
<1>7. h[T] = 0 <=> \A n \in T : G[n] = 0
  <2> HIDE DEF G
  <2> QED BY <1>2, <1>4, AddsZero
<1>8. QED
  BY <1>3, <1>5, <1>6, <1>7

\* The cards are finitely many.
LEMMA CardFinite == IsFiniteSet(Card)
<1> DEFINE Of(u) == [rank : 2..Ace, suit : {u}]
<1>1. ASSUME NEW u PROVE IsFiniteSet(Of(u))
  <2> DEFINE b == [r \in 2..Ace |-> [rank |-> r, suit |-> u]]
  <2>1. b \in Bijection(2..Ace, Of(u))
    BY DEF Bijection, Injection, Surjection, IsInjective
  <2>2. IsFiniteSet(2..Ace)
    <3>1. 2 \in Int /\ Ace \in Int
      BY DEF Ace
    <3>2. QED
      BY <3>1, FS_Interval
  <2> HIDE DEF b
  <2>3. QED
    BY <2>1, <2>2, FS_Bijection DEF ExistsBijection
<1>2. Card = ((Of("S") \cup Of("H")) \cup Of("D")) \cup Of("C")
  BY DEF Card, Suits
<1> HIDE DEF Of
<1>3. IsFiniteSet(((Of("S") \cup Of("H")) \cup Of("D")) \cup Of("C"))
  BY <1>1, FS_Union
<1>4. QED
  BY <1>2, <1>3

\* The cards of these ranks and suits.
Picked(C, A, S) == {c \in C : c.rank \in A /\ c.suit \in S}

\* One card fewer.
LEMMA PickedLess ==
  ASSUME NEW C, IsFiniteSet(C), NEW x \in C, NEW A, NEW S
  PROVE  /\ Cardinality(Picked(C, A, S)) \in Nat
         /\ Cardinality(Picked(C \ {x}, A, S)) \in Nat
         /\ Cardinality(Picked(C, A, S)) =
              Cardinality(Picked(C \ {x}, A, S))
              + IF x.rank \in A /\ x.suit \in S THEN 1 ELSE 0
<1>1. /\ IsFiniteSet(Picked(C, A, S)) /\ IsFiniteSet(Picked(C \ {x}, A, S))
  <2>1. Picked(C, A, S) \subseteq C /\ Picked(C \ {x}, A, S) \subseteq C
    BY DEF Picked
  <2>2. QED
    BY <2>1, FS_Subset
<1>2. /\ Cardinality(Picked(C, A, S)) \in Nat
      /\ Cardinality(Picked(C \ {x}, A, S)) \in Nat
  BY <1>1, FS_CardinalityType
<1>3. CASE x.rank \in A /\ x.suit \in S
  <2>1. Picked(C, A, S) = Picked(C \ {x}, A, S) \cup {x} /\ x \notin Picked(C \ {x}, A, S)
    BY <1>3 DEF Picked
  <2>2. QED
    BY <1>1, <1>2, <1>3, <2>1, FS_AddElement
<1>4. CASE ~(x.rank \in A /\ x.suit \in S)
  <2>1. Picked(C, A, S) = Picked(C \ {x}, A, S)
    BY <1>4 DEF Picked
  <2>2. QED
    BY <1>2, <1>4, <2>1
<1>5. QED
  BY <1>3, <1>4

\* What getScore counts in the cards C.
Tally(k, C) ==
  (IF k \in {2, 7} THEN Cardinality(Picked(C, 2..Ace, {"H"})) ELSE 0)
  + (IF k \in {3, 7} THEN 5 * Cardinality(Picked(C, {Queen}, Suits)) ELSE 0)
  + (IF k \in {4, 7} THEN 2 * Cardinality(Picked(C, {Jack, King}, Suits)) ELSE 0)
  + (IF k \in {5, 7} /\ [rank |-> King, suit |-> "H"] \in C THEN 18 ELSE 0)

\* It is the sum of the values of the cards.
LEMMA TallyIsWorth ==
  ASSUME NEW k, NEW C \in SUBSET Card
  PROVE  Tally(k, C) = R!CardsWorth(k, C)
<1> DEFINE F == [c \in C |-> R!CardValue(k, c)]
           t == [s \in SUBSET C |-> Tally(k, s)]
<1>1. \A s \in SUBSET C : IsFiniteSet(s)
  BY CardFinite, FS_Subset
<1>2. Adds(t, F, C)
  <2>1. \A s \in SUBSET C : \A A, S : Cardinality(Picked(s, A, S)) \in Nat
    <3>1. \A s : \A A, S : Picked(s, A, S) \subseteq s
      BY DEF Picked
    <3>2. QED
      BY <1>1, <3>1, FS_Subset, FS_CardinalityType
  <2>2. t \in [SUBSET C -> Nat]
    BY <2>1 DEF Tally
  <2>3. t[{}] = 0
    <3>1. \A A, S : Picked({}, A, S) = {}
      BY DEF Picked
    <3>2. QED
      <4>1. Tally(k, {}) = 0
        <5> HIDE DEF t, F
        <5>1. Cardinality({}) = 0 /\ [rank |-> King, suit |-> "H"] \notin {}
          BY FS_EmptySet
        <5>2. /\ Cardinality(Picked({}, 2..Ace, {"H"})) = 0
              /\ Cardinality(Picked({}, {Queen}, Suits)) = 0
              /\ Cardinality(Picked({}, {Jack, King}, Suits)) = 0
          BY <3>1, <5>1
        <5>3. QED
          BY <5>1, <5>2 DEF Tally
      <4>2. QED
        BY <4>1
  <2>4. ASSUME NEW s \in SUBSET C, NEW x \in s
        PROVE  t[s] = F[x] + t[s \ {x}]
    <3>1. x.rank \in 2..Ace /\ x.suit \in Suits
          /\ (x = [rank |-> King, suit |-> "H"] <=> x.rank = King /\ x.suit = "H")
      BY DEF Card
    <3> DEFINE n1 == Cardinality(Picked(s \ {x}, 2..Ace, {"H"}))
               n2 == Cardinality(Picked(s \ {x}, {Queen}, Suits))
               n3 == Cardinality(Picked(s \ {x}, {Jack, King}, Suits))
               K == [rank |-> King, suit |-> "H"]
    <3>2. /\ n1 \in Nat /\ n2 \in Nat /\ n3 \in Nat
          /\ Cardinality(Picked(s, 2..Ace, {"H"})) = n1 + IF x.suit = "H" THEN 1 ELSE 0
          /\ Cardinality(Picked(s, {Queen}, Suits)) = n2 + IF x.rank = Queen THEN 1 ELSE 0
          /\ Cardinality(Picked(s, {Jack, King}, Suits))
               = n3 + IF x.rank \in {Jack, King} THEN 1 ELSE 0
      <4>1. x.rank \in {Queen} <=> x.rank = Queen
        OBVIOUS
      <4>2. x.suit \in {"H"} <=> x.suit = "H"
        OBVIOUS
      <4>3. ASSUME NEW A, NEW S
            PROVE  /\ Cardinality(Picked(s \ {x}, A, S)) \in Nat
                   /\ Cardinality(Picked(s, A, S)) = Cardinality(Picked(s \ {x}, A, S))
                        + IF x.rank \in A /\ x.suit \in S THEN 1 ELSE 0
        BY <1>1, PickedLess
      <4> HIDE DEF t, F, K
      <4>4. n1 \in Nat /\ Cardinality(Picked(s, 2..Ace, {"H"})) = n1 + IF x.suit = "H" THEN 1 ELSE 0
        BY <3>1, <4>3
      <4>5. n2 \in Nat /\ Cardinality(Picked(s, {Queen}, Suits)) = n2 + IF x.rank = Queen THEN 1 ELSE 0
        BY <3>1, <4>3
      <4>6. n3 \in Nat /\ Cardinality(Picked(s, {Jack, King}, Suits))
                            = n3 + IF x.rank \in {Jack, King} THEN 1 ELSE 0
        BY <3>1, <4>3
      <4>7. QED
        BY <4>4, <4>5, <4>6
    <3>3. K \in s <=> K \in s \ {x} \/ (x.rank = King /\ x.suit = "H")
      BY <3>1
    <3>4. ~(K \in s \ {x} /\ x.rank = King /\ x.suit = "H")
      BY <3>1
    <3>5. t[s] = Tally(k, s) /\ t[s \ {x}] = Tally(k, s \ {x})
          /\ F[x] = R!CardValue(k, x)
      OBVIOUS
    <3> HIDE DEF n1, n2, n3, K, t, F
    <3>6. Tally(k, s \ {x}) =
            (IF k \in {2, 7} THEN n1 ELSE 0) + (IF k \in {3, 7} THEN 5 * n2 ELSE 0)
            + (IF k \in {4, 7} THEN 2 * n3 ELSE 0)
            + (IF k \in {5, 7} /\ K \in s \ {x} THEN 18 ELSE 0)
      BY DEF Tally, n1, n2, n3, K
    <3>7. Tally(k, s) =
            (IF k \in {2, 7} THEN n1 + IF x.suit = "H" THEN 1 ELSE 0 ELSE 0)
            + (IF k \in {3, 7} THEN 5 * (n2 + IF x.rank = Queen THEN 1 ELSE 0) ELSE 0)
            + (IF k \in {4, 7} THEN 2 * (n3 + IF x.rank \in {Jack, King} THEN 1 ELSE 0) ELSE 0)
            + (IF k \in {5, 7} /\ K \in s THEN 18 ELSE 0)
      BY <3>2 DEF Tally, K
    <3>8. Tally(k, s) = R!CardValue(k, x) + Tally(k, s \ {x})
      <4>1. (IF k \in {5, 7} /\ K \in s THEN 18 ELSE 0)
            = (IF k \in {5, 7} /\ K \in s \ {x} THEN 18 ELSE 0)
              + (IF k \in {5, 7} /\ x.rank = King /\ x.suit = "H" THEN 18 ELSE 0)
        BY <3>3, <3>4
      <4>2. R!CardValue(k, x) =
              (IF k \in {2, 7} THEN IF x.suit = "H" THEN 1 ELSE 0 ELSE 0)
              + (IF k \in {3, 7} THEN IF x.rank = Queen THEN 5 ELSE 0 ELSE 0)
              + (IF k \in {4, 7} THEN IF x.rank \in {Jack, King} THEN 2 ELSE 0 ELSE 0)
              + (IF k \in {5, 7} /\ x.rank = King /\ x.suit = "H" THEN 18 ELSE 0)
        BY DEF R!CardValue, R!Queen, R!Jack, R!King, Queen, Jack, King
      <4>3. QED
        BY <3>2, <3>6, <3>7, <4>1, <4>2
    <3>9. QED
      BY <3>5, <3>8
  <2>5. QED
    <3> HIDE DEF t, F
    <3> QED BY <2>2, <2>3, <2>4 DEF Adds
<1>3. PICK g : Adds(g, F, C) /\ R!CardsWorth(k, C) = g[C]
  BY <1>1, CardsAdd
<1>4. F \in [C -> Nat]
  BY DEF R!CardValue
<1>5. t[C] = g[C]
  <2> HIDE DEF t, F
  <2> QED BY <1>1, <1>2, <1>3, <1>4, AddsAgree
<1>6. QED
  BY <1>3, <1>5

\* A trick of different cards has as many places as cards of some kind.
LEMMA CountPicked ==
  ASSUME NEW t \in Seq(Card), IsInjective(t), NEW A, NEW S
  PROVE  Cardinality({i \in DOMAIN t : t[i].rank \in A /\ t[i].suit \in S})
           = Cardinality(Picked(Range(t), A, S))
<1> DEFINE D == {i \in DOMAIN t : t[i].rank \in A /\ t[i].suit \in S}
           b == [i \in D |-> t[i]]
<1>1. b \in Bijection(D, Picked(Range(t), A, S))
  BY DEF Bijection, Injection, Surjection, IsInjective, Picked, Range
<1>2. IsFiniteSet(D)
  <2>1. DOMAIN t = 1..Len(t) /\ Len(t) \in Nat
    BY LenProperties
  <2>2. IsFiniteSet(1..Len(t)) /\ D \subseteq 1..Len(t)
    BY <2>1, FS_Interval
  <2> HIDE DEF D
  <2>3. QED
    BY <2>2, FS_Subset
<1> HIDE DEF b
<1>3. Cardinality(Picked(Range(t), A, S)) = Cardinality(D)
  BY <1>1, <1>2, FS_Bijection DEF ExistsBijection
<1>4. QED
  BY <1>3

\* One trick is worth its own value.
LEMMA OneTrick ==
  ASSUME NEW k, NEW n
  PROVE  R!TricksWorth(k, {n}) = R!TrickValue(k, n)
<1> DEFINE F == [m \in {n} |-> R!TrickValue(k, m)]
<1>1. IsFiniteSet({n})
  BY FS_Singleton
<1>2. PICK g : Adds(g, F, {n}) /\ R!TricksWorth(k, {n}) = g[{n}]
  BY <1>1, TricksAdd
<1>3. F[n] = R!TrickValue(k, n) /\ {n} \ {n} = {}
  OBVIOUS
<1>4. R!TrickValue(k, n) \in Nat
  BY DEF R!TrickValue
<1> HIDE DEF F
<1>5. g[{n}] = F[n] + g[{n} \ {n}] /\ g[{}] = 0
  BY <1>2 DEF Adds
<1>6. g[{n} \ {n}] = 0
  BY <1>3, <1>5
<1>7. QED
  BY <1>2, <1>3, <1>4, <1>5, <1>6

\* getScore, which counts on the table, finds what the cards and the trick are
\* worth.
LEMMA ScoreIsWorth ==
  ASSUME NEW d, IsDeal(d), IsInjective(d.cardsOnTable)
  PROVE  GetScore(d) = R!Worth(d.type, Range(d.cardsOnTable), {d.currentTrick})
<1> DEFINE t == d.cardsOnTable
           k == d.type
           C == Range(t)
           Count(A, S) == Cardinality({i \in DOMAIN t : t[i].rank \in A /\ t[i].suit \in S})
           K == [rank |-> King, suit |-> "H"]
           v == (IF k \in {1, 7} THEN 1 ELSE 0)
                + (IF k \in {6, 7} /\ d.currentTrick \in {SeventhTrick, LastTrick} THEN 10 ELSE 0)
<1>1. t \in Seq(Card) /\ C \in SUBSET Card
  <2>1. t \in Seq(Card)
    BY DEF IsDeal
  <2>2. QED
    BY <2>1, LenProperties DEF Range
<1>2. \A A, S : Count(A, S) = Cardinality(Picked(C, A, S))
  BY <1>1, CountPicked
<1>3. \A A, S : Cardinality(Picked(C, A, S)) \in Nat
  <2>1. \A A, S : Picked(C, A, S) \subseteq Card
    BY <1>1 DEF Picked
  <2>2. QED
    BY <2>1, CardFinite, FS_Subset, FS_CardinalityType
<1>4. Count({King}, {"H"}) > 0 <=> K \in C
  <2>1. Picked(C, {King}, {"H"}) \subseteq Card
    BY <1>1 DEF Picked
  <2>2. IsFiniteSet(Picked(C, {King}, {"H"}))
    BY <2>1, CardFinite, FS_Subset
  <2>3. Picked(C, {King}, {"H"}) = {} <=> K \notin C
    BY <1>1 DEF Picked, Card
  <2>4. Cardinality(Picked(C, {King}, {"H"})) = 0 <=> Picked(C, {King}, {"H"}) = {}
    BY <2>2, FS_EmptySet
  <2>5. Count({King}, {"H"}) = Cardinality(Picked(C, {King}, {"H"}))
    BY <1>2
  <2> HIDE DEF Count, K, C, t
  <2>6. QED
    BY <1>3, <2>3, <2>4, <2>5
<1>5. R!Worth(k, C, {d.currentTrick}) = Tally(k, C) + v
  <2>1. R!CardsWorth(k, C) = Tally(k, C)
    BY <1>1, TallyIsWorth
  <2>2. R!TricksWorth(k, {d.currentTrick}) = R!TrickValue(k, d.currentTrick)
    BY OneTrick
  <2>3. R!TrickValue(k, d.currentTrick) = v
    BY DEF R!TrickValue
  <2>4. QED
    BY <2>1, <2>2, <2>3 DEF R!Worth
<1>6. GetScore(d) =
        (IF k \in {1, 7} THEN 1 ELSE 0)
        + (IF k \in {2, 7} THEN Count(2..Ace, {"H"}) ELSE 0)
        + (IF k \in {3, 7} THEN 5 * Count({Queen}, Suits) ELSE 0)
        + (IF k \in {4, 7} THEN 2 * Count({Jack, King}, Suits) ELSE 0)
        + (IF k \in {5, 7} THEN IF Count({King}, {"H"}) > 0 THEN 18 ELSE 0 ELSE 0)
        + (IF k \in {6, 7} THEN IF d.currentTrick \in {SeventhTrick, LastTrick} THEN 10 ELSE 0
           ELSE 0)
  BY DEF GetScore
<1> HIDE DEF t, C, Count, k
<1>7. QED
  <2> DEFINE n1 == Cardinality(Picked(C, 2..Ace, {"H"}))
             n2 == Cardinality(Picked(C, {Queen}, Suits))
             n3 == Cardinality(Picked(C, {Jack, King}, Suits))
             b == K \in C
             s == d.currentTrick \in {SeventhTrick, LastTrick}
  <2>1. n1 \in Nat /\ n2 \in Nat /\ n3 \in Nat
    BY <1>3
  <2>2. Tally(k, C) =
          (IF k \in {2, 7} THEN n1 ELSE 0) + (IF k \in {3, 7} THEN 5 * n2 ELSE 0)
          + (IF k \in {4, 7} THEN 2 * n3 ELSE 0) + (IF k \in {5, 7} /\ b THEN 18 ELSE 0)
    BY DEF Tally
  <2>3. GetScore(d) =
          (IF k \in {1, 7} THEN 1 ELSE 0)
          + (IF k \in {2, 7} THEN n1 ELSE 0) + (IF k \in {3, 7} THEN 5 * n2 ELSE 0)
          + (IF k \in {4, 7} THEN 2 * n3 ELSE 0)
          + (IF k \in {5, 7} THEN IF b THEN 18 ELSE 0 ELSE 0)
          + (IF k \in {6, 7} THEN IF s THEN 10 ELSE 0 ELSE 0)
    BY <1>2, <1>4, <1>6
  <2>4. v = (IF k \in {1, 7} THEN 1 ELSE 0) + (IF k \in {6, 7} /\ s THEN 10 ELSE 0)
    OBVIOUS
  <2> HIDE DEF n1, n2, n3, b, s, v
  <2>5. GetScore(d) = Tally(k, C) + v
    BY <2>1, <2>2, <2>3, <2>4
  <2>6. QED
    BY <1>5, <2>5 DEF k, C, t
-----------------------------------------------------------------------------
\* Turns and tricks.

\* Counting clockwise from the leader is going round the places.
LEMMA ClockwisePlace ==
  ASSUME NEW f \in 1..Players, NEW k \in 1..Players
  PROVE  R!Clockwise(PlayerOrder[f], k) = PlayerOrder[Place(f, k)]
<1> DEFINE c == CHOOSE i \in DOMAIN PlayerOrder : PlayerOrder[i] = PlayerOrder[f]
<1>1. /\ Players \in Nat \ {0} /\ DOMAIN PlayerOrder = 1..Players
      /\ \A i, j \in 1..Players : PlayerOrder[i] = PlayerOrder[j] => i = j
  BY TablePlaces
<1>2. c = f
  <2>1. c \in DOMAIN PlayerOrder /\ PlayerOrder[c] = PlayerOrder[f]
    BY <1>1
  <2> HIDE DEF c
  <2>2. QED
    BY <1>1, <2>1
<1>3. ((f + k - 2) % Players) + 1 = Place(f, k)
  <2>1. CASE f + k - 1 <= Players
    <3>1. (f + k - 2) % Players = f + k - 2
      BY <1>1, <2>1
    <3>2. QED
      BY <1>1, <2>1, <3>1 DEF Place
  <2>2. CASE ~(f + k - 1 <= Players)
    <3>1. (f + k - 2) % Players = f + k - 2 - Players
      <4>1. f + k - 2 - Players \in 0..(Players - 1)
        BY <1>1, <2>2
      <4>2. f + k - 2 = Players * 1 + (f + k - 2 - Players)
        BY <1>1
      <4>3. QED
        BY <1>1, <4>1, <4>2
    <3>2. QED
      BY <1>1, <2>2, <3>1 DEF Place
  <2>3. QED
    BY <2>1, <2>2
<1>4. R!Clockwise(PlayerOrder[f], k) = PlayerOrder[((c + k - 2) % Players) + 1]
  BY DEF R!Clockwise, R!Players, Players
<1> HIDE DEF c
<1>5. QED
  BY <1>2, <1>3, <1>4

\* The highest card that playCard keeps along is the one the rules find in the
\* whole trick, and its player sits where it lies.
LEMMA WinnerSeat ==
  ASSUME NEW d, GameInv(d), d.cardsOnTable # <<>>, NEW f \in 1..Players,
         d.firstPlayer = PlayerOrder[f], InTurn(d.originalHand, d.cardsOnTable, f),
         Len(d.cardsOnTable) \in 1..Players
  PROVE  R!Clockwise(d.firstPlayer, R!WinningPlace(d.cardsOnTable)) = d.highestPlayer
<1> DEFINE t == d.cardsOnTable
           Wins(i) == /\ t[i].suit = t[1].suit
                      /\ \A j \in DOMAIN t : t[j].suit = t[1].suit => t[j].rank <= t[i].rank
           w == CHOOSE i \in DOMAIN t : Wins(i)
<1>1. IsDeal(d) /\ Dealt(d) /\ TableLed(d) /\ IsInjective(t)
  BY DEF GameInv, ConservesCards
<1>2. t \in Seq(Card) /\ DOMAIN t = 1..Len(t)
  BY <1>1, LenProperties DEF IsDeal
<1>3. PICK p \in DOMAIN t : t[p] = d.highestCard
  BY <1>1 DEF TableLed, Range
<1>4. Wins(p)
  <2>1. \A j \in DOMAIN t : t[j] \in Range(t)
    BY DEF Range
  <2>2. QED
    BY <1>1, <1>3, <2>1 DEF TableLed
<1>5. \A i \in DOMAIN t : Wins(i) => i = p
  <2>1. SUFFICES ASSUME NEW i \in DOMAIN t, Wins(i) PROVE i = p
    OBVIOUS
  <2>2. t[i] \in Card /\ t[p] \in Card
    BY <1>2
  <2>3. t[i].rank = t[p].rank /\ t[i].suit = t[p].suit
    <3>1. t[i].rank \in Int /\ t[p].rank \in Int
      BY <2>2 DEF Card
    <3>2. QED
      BY <1>4, <2>1, <3>1
  <2>4. t[i] = t[p]
    BY <2>2, <2>3 DEF Card
  <2>5. QED
    BY <1>1, <2>4 DEF IsInjective
<1>6. w = p
  <2> HIDE DEF Wins, t
  <2>1. QED
    BY <1>4, <1>5
<1>7. R!WinningPlace(t) = p
  BY <1>6 DEF R!WinningPlace
<1>8. p \in 1..Players /\ Players \in Nat
  BY <1>2, <1>3, TablePlaces
<1>9. R!Clockwise(d.firstPlayer, p) = PlayerOrder[Place(f, p)]
  BY <1>8, ClockwisePlace
<1>10. d.highestPlayer = PlayerOrder[Place(f, p)]
  <2>1. d.highestCard \in d.originalHand[PlayerOrder[Place(f, p)]]
    BY <1>3 DEF InTurn
  <2>2. d.highestCard \in d.originalHand[d.highestPlayer] /\ d.highestPlayer \in Seats
    BY <1>1 DEF TableLed
  <2>3. PlayerOrder[Place(f, p)] \in Seats
    BY <1>8, TablePlaces
  <2>4. QED
    BY <1>1, <2>1, <2>2, <2>3 DEF Dealt
<1>11. QED
  BY <1>7, <1>9, <1>10
-----------------------------------------------------------------------------
\* The end of a deal.

\* A seat with a card on the table.
HasPlayed(d, s) == \E c \in Range(d.cardsOnTable) : c \in d.originalHand[s]

\* The seats hold a card for every trick to come, and one for the trick on the
\* table if they have not played it.
Sized(d) ==
  /\ d.currentTrick > 0
  /\ \A s \in Seats : Cardinality(d.currentHand[s])
                        = LastTrick + 1 - d.currentTrick - IF HasPlayed(d, s) THEN 1 ELSE 0

\* So it is in the game file.
LEMMA NewDealSized ==
  ASSUME NEW f, ProperDeal(f)
  PROVE  Sized(NewDeal(f))
<1> DEFINE d == NewDeal(f)
<1>1. d.currentTrick = 1 /\ d.currentHand = f.hands /\ d.cardsOnTable = <<>>
  BY DEF NewDeal
<1>2. \A s \in Seats : ~HasPlayed(d, s)
  BY <1>1 DEF HasPlayed, Range
<1>3. \A s \in Seats : Cardinality(f.hands[s]) = LastTrick
  BY DEF ProperDeal
<1>4. LastTrick \in Nat
  BY CardsAssumption
<1> HIDE DEF d
<1>5. QED
  BY <1>1, <1>2, <1>3, <1>4 DEF Sized, d

\* The seat in turn has no card on the table.
LEMMA TurnNotPlayed ==
  ASSUME NEW d, GameInv(d), NEW f \in 1..Players, Rotates(d, f), Len(d.cardsOnTable) < Players
  PROVE  ~HasPlayed(d, d.currentPlayer)
<1> DEFINE p == d.currentPlayer
           m == Len(d.cardsOnTable)
<1>1. Dealt(d) /\ p \in Seats /\ d.cardsOnTable \in Seq(Card)
  BY DEF GameInv, IsDeal
<1> SUFFICES ASSUME NEW i \in DOMAIN d.cardsOnTable, d.cardsOnTable[i] \in d.originalHand[p]
             PROVE  FALSE
  BY DEF HasPlayed, Range
<1>2. DOMAIN d.cardsOnTable = 1..m /\ m \in Nat
  BY <1>1, LenProperties
<1>3. Players \in Nat
  BY TablePlaces
<1>4. p = PlayerOrder[Place(f, m + 1)] /\ d.cardsOnTable[i] \in d.originalHand[PlayerOrder[Place(f, i)]]
  BY DEF Rotates, Turned, InTurn
<1>5. Place(f, i) \in 1..Players /\ Place(f, m + 1) \in 1..Players
  <2>1. i \in 1..(Players + 1) /\ m + 1 \in 1..(Players + 1)
    BY <1>2, <1>3
  <2>2. QED
    BY <2>1, TablePlaces
<1>6. Place(f, i) # Place(f, m + 1)
  BY <1>2, <1>3 DEF Place
<1>7. PlayerOrder[Place(f, i)] # p
  BY <1>4, <1>5, <1>6, TablePlaces
<1>8. PlayerOrder[Place(f, i)] \in Seats
  BY <1>5, TablePlaces
<1>9. QED
  BY <1>1, <1>4, <1>7, <1>8 DEF Dealt

\* The current player holds one card less, and has played.
LEMMA PlaySized ==
  ASSUME NEW d, GameInv(d), Sized(d), NEW f \in 1..Players, Rotates(d, f),
         Len(d.cardsOnTable) < Players,
         NEW trick, NEW card \in Card, IsLegal(d, trick, card)
  PROVE  Sized(PlayCard(d, card))
<1> DEFINE e == PlayCard(d, card)
           p == d.currentPlayer
<1>1. IsDeal(d) /\ Dealt(d) /\ ConservesCards(d)
  BY DEF GameInv
<1>2. Plays(d, card, e) /\ e.currentTrick = d.currentTrick
  <2>1. Plays(d, card, e)
    BY <1>1, PlayCardFields
  <2>2. e.currentTrick = d.currentTrick
    BY <1>1 DEF PlayCard, LayCard, IsDeal
  <2>3. QED
    BY <2>1, <2>2
<1>3. p \in Seats /\ d.currentHand \in HandsType /\ d.cardsOnTable \in Seq(Card)
      /\ d.currentTrick \in Nat
  BY <1>1 DEF IsDeal
<1>4. card \in d.currentHand[p] /\ card \in d.originalHand[p]
  <2>1. card \in d.currentHand[p]
    BY DEF IsLegal, FollowsSuit, HoldsCard
  <2>2. QED
    BY <1>1, <1>3, <2>1 DEF ConservesCards
<1>5. ~HasPlayed(d, p)
  BY TurnNotPlayed
<1>6. Range(e.cardsOnTable) = Range(d.cardsOnTable) \cup {card}
  BY <1>2, <1>3, AppendNew DEF Plays
<1>7. HasPlayed(e, p)
  BY <1>2, <1>4, <1>6 DEF HasPlayed, Plays
<1>8. \A s \in Seats : s # p => (HasPlayed(e, s) <=> HasPlayed(d, s))
  BY <1>1, <1>2, <1>3, <1>4, <1>6 DEF HasPlayed, Plays, Dealt
<1>9. Cardinality(e.currentHand[p]) = Cardinality(d.currentHand[p]) - 1
  <2>1. IsFiniteSet(d.currentHand[p])
    <3>1. d.currentHand[p] \subseteq Card
      BY <1>3 DEF HandsType
    <3>2. QED
      BY <3>1, CardFinite, FS_Subset
  <2>2. e.currentHand[p] = d.currentHand[p] \ {card}
    BY <1>2, <1>3 DEF Plays, HandsType
  <2> HIDE DEF e, p
  <2>3. Cardinality(d.currentHand[p] \ {card}) = Cardinality(d.currentHand[p]) - 1
    BY <1>4, <2>1, FS_RemoveElement
  <2>4. QED
    BY <2>2, <2>3
<1>10. \A s \in Seats : s # p => e.currentHand[s] = d.currentHand[s]
  BY <1>2, <1>3 DEF Plays, HandsType
<1> HIDE DEF e, p
<1>11. LastTrick \in Nat
  BY CardsAssumption
<1>12. Sized(e)
  <2>1. ASSUME NEW s \in Seats
        PROVE  Cardinality(e.currentHand[s])
                 = LastTrick + 1 - e.currentTrick - IF HasPlayed(e, s) THEN 1 ELSE 0
    <3>1. CASE s = p
      BY <1>2, <1>3, <1>5, <1>7, <1>9, <1>11, <3>1 DEF Sized
    <3>2. CASE s # p
      BY <1>2, <1>8, <1>10, <3>2 DEF Sized
    <3>3. QED
      BY <3>1, <3>2
  <2>2. QED
    BY <1>2, <2>1 DEF Sized
<1>13. QED
  BY <1>12 DEF e

\* Passing the turn changes neither hands nor table.
LEMMA PassSized ==
  ASSUME NEW d, IsDeal(d), Sized(d)
  PROVE  Sized(NextPlayer(d))
<1>1. Passes(d, NextPlayer(d)) /\ NextPlayer(d).currentTrick = d.currentTrick
  BY NextPlayerFields DEF NextPlayer, IsDeal
<1>2. \A s \in Seats : HasPlayed(NextPlayer(d), s) <=> HasPlayed(d, s)
  BY <1>1 DEF HasPlayed, Passes
<1>3. QED
  BY <1>1, <1>2 DEF Sized, Passes

\* Every seat has a card in a trick that is full.
LEMMA AllHavePlayed ==
  ASSUME NEW d, IsDeal(d), NEW f \in 1..Players,
         InTurn(d.originalHand, d.cardsOnTable, f), Len(d.cardsOnTable) = Players
  PROVE  \A s \in Seats : HasPlayed(d, s)
<1> SUFFICES ASSUME NEW s \in Seats PROVE HasPlayed(d, s)
  OBVIOUS
<1>0. d.cardsOnTable \in Seq(Card)
  BY DEF IsDeal
<1>1. PICK j \in 1..Players : PlayerOrder[j] = s
  BY TablePlaces
<1>2. Players \in Nat /\ DOMAIN d.cardsOnTable = 1..Players
  BY <1>0, TablePlaces, LenProperties
<1>3. PICK i \in 1..Players : Place(f, i) = j
  <2>1. CASE j >= f
    <3>1. j - f + 1 \in 1..Players /\ Place(f, j - f + 1) = j
      BY <1>2, <2>1 DEF Place
    <3>2. QED
      BY <3>1
  <2>2. CASE j < f
    <3>1. j - f + 1 + Players \in 1..Players /\ Place(f, j - f + 1 + Players) = j
      BY <1>2, <2>2 DEF Place
    <3>2. QED
      BY <3>1
  <2>3. QED
    BY <2>1, <2>2
<1>4. d.cardsOnTable[i] \in d.originalHand[s] /\ d.cardsOnTable[i] \in Range(d.cardsOnTable)
  BY <1>1, <1>2, <1>3 DEF InTurn, Range
<1>5. QED
  BY <1>4 DEF HasPlayed

\* All seats have played a trick that is taken.
LEMMA TakenSized ==
  ASSUME NEW d, IsDeal(d), Sized(d), NEW f \in 1..Players,
         InTurn(d.originalHand, d.cardsOnTable, f), Len(d.cardsOnTable) = Players
  PROVE  Sized(NextTrick(d)) /\ NextTrick(d).currentTrick = d.currentTrick + 1
<1> DEFINE e == NextTrick(d)
<1>1. /\ Takes(d, e) /\ e.currentTrick = d.currentTrick + 1
  BY NextTrickFields DEF NextTrick, TakeTrick, ClearTable, IsDeal
<1>2. d.currentTrick \in Nat /\ d.cardsOnTable \in Seq(Card)
  BY DEF IsDeal
<1>3. \A s \in Seats : HasPlayed(d, s)
  BY AllHavePlayed
<1>4. \A s \in Seats : ~HasPlayed(e, s)
  BY <1>1 DEF HasPlayed, Takes, Range
<1>5. LastTrick \in Nat
  BY CardsAssumption
<1> HIDE DEF e
<1>6. Sized(e)
  BY <1>1, <1>2, <1>3, <1>4, <1>5 DEF Sized, Takes
<1>7. QED
  BY <1>1, <1>6 DEF e

\* The rules' end of a deal: a trick has been played and no points are left.
Finished(d) ==
  /\ d.currentTrick > 1
  /\ d.cardsOnTable = <<>>
  /\ R!Worth(d.type, UNION Range(d.currentHand), d.currentTrick..LastTrick) = 0

\* Between two tricks dealThread leaves its loop exactly then: no scoring card is
\* left, or no card at all.
LEMMA NothingLeft ==
  ASSUME NEW d, IsDeal(d), Sized(d), d.cardsOnTable = <<>>
  PROVE  R!Worth(d.type, UNION Range(d.currentHand), d.currentTrick..LastTrick) = 0
           <=> d.currentTrick > LastTrick \/ IsOver(d)
<1> DEFINE C == UNION Range(d.currentHand)
           T == d.currentTrick..LastTrick
           k == d.type
<1>1. /\ k \in 1..7 /\ d.currentTrick \in Nat /\ d.currentHand \in HandsType
      /\ LastTrick \in Nat \ {0} /\ d.currentTrick > 0
  BY CardsAssumption DEF IsDeal, Sized
<1>2. C \subseteq Card /\ \A c : c \in C <=> \E s \in Seats : c \in d.currentHand[s]
  BY <1>1 DEF HandsType, Range
<1>3. IsFiniteSet(C) /\ IsFiniteSet(T)
  <2>1. IsFiniteSet(C)
    BY <1>2, CardFinite, FS_Subset
  <2>2. IsFiniteSet(T)
    <3>1. d.currentTrick \in Int /\ LastTrick \in Int
      BY <1>1
    <3> HIDE DEF C, k
    <3>2. QED
      BY <3>1, FS_Interval, Zenon
  <2>3. QED
    BY <2>1, <2>2
<1>4. R!Worth(k, C, T) = 0 <=> /\ \A c \in C : R!CardValue(k, c) = 0
                               /\ \A n \in T : R!TrickValue(k, n) = 0
  BY <1>3, WorthZero
<1>5. CASE d.currentTrick > LastTrick
  <2>1. ASSUME NEW s \in Seats PROVE d.currentHand[s] = {}
    <3>1. d.currentHand[s] \subseteq Card
      BY <1>1 DEF HandsType
    <3>2. IsFiniteSet(d.currentHand[s])
      BY <3>1, CardFinite, FS_Subset
    <3>3. Cardinality(d.currentHand[s]) \in Nat
      BY <3>2, FS_CardinalityType
    <3>4. Cardinality(d.currentHand[s]) = 0
      BY <1>1, <1>5, <3>3 DEF Sized
    <3>5. QED
      BY <3>2, <3>4, FS_EmptySet
  <2>2. C = {} /\ T = {}
    <3>1. T = {}
      BY <1>1, <1>5
    <3>2. \A c : c \notin C
      <4> HIDE DEF C
      <4> QED BY <1>2, <2>1
    <3>3. QED
      BY <3>1, <3>2
  <2>3. QED
    BY <1>4, <1>5, <2>2
<1>6. CASE ~(d.currentTrick > LastTrick)
  <2>1. LastTrick \in T
    BY <1>1, <1>6
  <2>2. CASE k \in {1, 6, 7}
    <3>1. R!TrickValue(k, LastTrick) # 0
      BY <2>2 DEF R!TrickValue
    <3>2. ~IsOver(d)
      BY <2>2 DEF IsOver
    <3> HIDE DEF T, C
    <3>3. QED
      BY <1>4, <1>6, <2>1, <3>1, <3>2 DEF T, C
  <2>3. CASE k \in 2..5
    <3>1. \A n \in T : R!TrickValue(k, n) = 0
      BY <2>3 DEF R!TrickValue
    <3>2. \A c \in C : R!CardValue(k, c) = 0 <=> c \notin Scoring(k)
      BY <1>2, <2>3 DEF R!CardValue, R!Queen, R!Jack, R!King, Queen, Jack, King, Scoring, Card
    <3>3. IsOver(d) <=> \A c \in C : c \notin Scoring(k)
      BY <1>2, <2>3 DEF IsOver
    <3> HIDE DEF C, T
    <3>4. QED
      BY <1>4, <1>6, <3>1, <3>2, <3>3 DEF C, T
  <2>4. QED
    BY <1>1, <2>2, <2>3
<1>7. QED
  BY <1>5, <1>6
-----------------------------------------------------------------------------
\* One card of the rules.

\* The points of all seats, as std::map gives them.
Points(d) == [s \in Seats |-> IF s \in DOMAIN d.scores THEN d.scores[s] ELSE 0]

\* Card c takes deal d to deal e by the rules of the game: the action Play of
\* HeartsRules, with the fields of the deals for its variables.
PlaysByRules(d, c, e) ==
  LET s == R!Clockwise(d.firstPlayer, Len(d.cardsOnTable) + 1)
      t == Append(d.cardsOnTable, c)
      w == R!Clockwise(d.firstPlayer, R!WinningPlace(t))
  IN  /\ s \in Seats /\ c \in d.currentHand[s]
      /\ c.suit # t[1].suit => \A x \in d.currentHand[s] : x.suit # t[1].suit
      /\ e.currentHand = [d.currentHand EXCEPT ![s] = @ \ {c}]
      /\ IF Len(t) < Players
         THEN /\ e.cardsOnTable = t /\ e.firstPlayer = d.firstPlayer
              /\ e.currentTrick = d.currentTrick /\ Points(e) = Points(d)
         ELSE /\ e.cardsOnTable = <<>> /\ e.firstPlayer = w /\ w \in Seats
              /\ e.currentTrick = d.currentTrick + 1
              /\ Points(e) = [Points(d) EXCEPT ![w] =
                                @ + R!Worth(d.type, Range(t), {d.currentTrick})]
      /\ e.type = d.type

\* What the rules see of a deal.
SameToRules(d, e) ==
  /\ e.type = d.type /\ e.currentHand = d.currentHand
  /\ e.firstPlayer = d.firstPlayer /\ e.cardsOnTable = d.cardsOnTable
  /\ e.currentTrick = d.currentTrick /\ Points(e) = Points(d)

\* A card isLegal lets the current player play is one the rules let the seat in
\* turn play: the suit led is that of the first card, the table is not empty.
LEMMA LegalByRules ==
  ASSUME NEW d, GameInv(d), NEW f \in 1..Players, Rotates(d, f),
         Len(d.cardsOnTable) < Players,
         NEW trick, NEW card \in Card, IsLegal(d, trick, card)
  PROVE  LET s == R!Clockwise(d.firstPlayer, Len(d.cardsOnTable) + 1)
             t == Append(d.cardsOnTable, card)
         IN  /\ s = d.currentPlayer
             /\ card \in d.currentHand[s]
             /\ card.suit # t[1].suit => \A x \in d.currentHand[s] : x.suit # t[1].suit
<1> DEFINE m == Len(d.cardsOnTable)
           t == Append(d.cardsOnTable, card)
<1>1. IsDeal(d) /\ TableLed(d) /\ d.cardsOnTable \in Seq(Card)
  BY DEF GameInv, IsDeal
<1>2. m \in Nat /\ Players \in Nat /\ DOMAIN d.cardsOnTable = 1..m
  BY <1>1, TablePlaces, LenProperties
<1>3. R!Clockwise(d.firstPlayer, m + 1) = d.currentPlayer
  <2>1. m + 1 \in 1..Players
    BY <1>2
  <2>2. R!Clockwise(PlayerOrder[f], m + 1) = PlayerOrder[Place(f, m + 1)]
    BY <2>1, ClockwisePlace
  <2>3. QED
    BY <2>2 DEF Rotates, Turned
<1>4. t[1] = IF d.cardsOnTable = <<>> THEN card ELSE d.cardsOnTable[1]
  BY <1>1, <1>2
<1>5. d.cardsOnTable # <<>> => t[1].suit = d.trickSuit
  BY <1>1, <1>4 DEF TableLed
<1>6. card \in d.currentHand[d.currentPlayer]
      /\ (d.cardsOnTable = <<>> \/ card.suit = d.trickSuit
          \/ \A c \in d.currentHand[d.currentPlayer] : c.suit # d.trickSuit)
  BY DEF IsLegal, FollowsSuit, HoldsCard
<1> HIDE DEF t
<1>7. QED
  BY <1>3, <1>4, <1>5, <1>6 DEF t

\* playCard is a card of the rules, as long as the trick is not full.
LEMMA PlayCardByRules ==
  ASSUME NEW d, GameInv(d), NEW f \in 1..Players, Rotates(d, f),
         Len(d.cardsOnTable) + 1 < Players,
         NEW trick, NEW card \in Card, IsLegal(d, trick, card)
  PROVE  PlaysByRules(d, card, PlayCard(d, card))
<1> DEFINE e == PlayCard(d, card)
           t == Append(d.cardsOnTable, card)
<1>1. IsDeal(d) /\ d.cardsOnTable \in Seq(Card)
  BY DEF GameInv, IsDeal
<1>2. Plays(d, card, e)
  BY <1>1, PlayCardFields
<1>3. e.type = d.type /\ e.currentTrick = d.currentTrick /\ e.scores = d.scores
  BY <1>1 DEF PlayCard, LayCard, IsDeal
<1>4. Len(t) = Len(d.cardsOnTable) + 1 /\ Len(d.cardsOnTable) \in Nat /\ Players \in Nat
  <2>1. Len(t) = Len(d.cardsOnTable) + 1 /\ Len(d.cardsOnTable) \in Nat
    BY <1>1
  <2>2. QED
    BY <2>1, TablePlaces
<1>5. Len(t) < Players /\ Len(d.cardsOnTable) < Players
  BY <1>4
<1> HIDE DEF e
<1>6. Points(e) = Points(d)
  BY <1>3 DEF Points
<1>7. PlaysByRules(d, card, e)
  <2> DEFINE s == R!Clockwise(d.firstPlayer, Len(d.cardsOnTable) + 1)
  <2>1. /\ s = d.currentPlayer /\ s \in Seats /\ card \in d.currentHand[s]
        /\ card.suit # t[1].suit => \A x \in d.currentHand[s] : x.suit # t[1].suit
    BY <1>1, <1>5, LegalByRules DEF IsDeal
  <2>2. /\ e.currentHand = [d.currentHand EXCEPT ![d.currentPlayer] = @ \ {card}]
        /\ e.cardsOnTable = t /\ e.firstPlayer = d.firstPlayer
    BY <1>2 DEF Plays
  <2> HIDE DEF s, t
  <2>3. QED
    BY <1>3, <1>5, <1>6, <2>1, <2>2 DEF PlaysByRules, s, t
<1>8. QED
  BY <1>7 DEF e

\* The last card of a trick is one too: playCard has found the winner and
\* getScore counted what the trick is worth.
LEMMA LastCardByRules ==
  ASSUME NEW d, GameInv(d), NEW f \in 1..Players, Rotates(d, f),
         Len(d.cardsOnTable) + 1 = Players,
         NEW trick, NEW card \in Card, IsLegal(d, trick, card)
  PROVE  PlaysByRules(d, card, NextTrick(PlayCard(d, card)))
<1> DEFINE p == PlayCard(d, card)
           e == NextTrick(p)
           t == Append(d.cardsOnTable, card)
           w == R!Clockwise(d.firstPlayer, R!WinningPlace(t))
<1>1. IsDeal(d) /\ d.cardsOnTable \in Seq(Card)
  BY DEF GameInv, IsDeal
<1>2. Plays(d, card, p) /\ GameInv(p) /\ p.cardsOnTable # <<>>
  BY <1>1, PlayCardFields, PlayCardGame
<1>3. p.type = d.type /\ p.currentTrick = d.currentTrick /\ p.scores = d.scores
  BY <1>1 DEF PlayCard, LayCard, IsDeal
<1>4. Len(t) = Len(d.cardsOnTable) + 1 /\ Len(d.cardsOnTable) \in Nat /\ Players \in Nat
  <2>1. Len(t) = Len(d.cardsOnTable) + 1 /\ Len(d.cardsOnTable) \in Nat
    BY <1>1
  <2>2. QED
    BY <2>1, TablePlaces
<1>5. ~(Len(t) < Players) /\ Len(d.cardsOnTable) < Players /\ Len(t) = Players
  BY <1>4
<1>6. IsDeal(p) /\ IsInjective(p.cardsOnTable) /\ p.cardsOnTable = t
  BY <1>2 DEF GameInv, ConservesCards, Plays
<1>7. w = p.highestPlayer /\ p.highestPlayer \in Seats
  <2>1. Turned(p, f, Len(p.cardsOnTable))
    BY PlayPlaces
  <2>2. p.firstPlayer = d.firstPlayer
    BY <1>2 DEF Plays
  <2>3. Len(p.cardsOnTable) \in 1..Players
    BY <1>4, <1>5, <1>6
  <2>4. p.highestPlayer \in Seats
    BY <1>2 DEF GameInv, TableLed
  <2> HIDE DEF p
  <2>5. R!Clockwise(p.firstPlayer, R!WinningPlace(p.cardsOnTable)) = p.highestPlayer
    BY <1>2, <2>1, <2>3, WinnerSeat DEF Turned
  <2>6. QED
    BY <1>6, <2>2, <2>4, <2>5
<1>8. GetScore(p) = R!Worth(d.type, Range(t), {d.currentTrick})
  <2> HIDE DEF p, t
  <2> QED BY <1>3, <1>6, ScoreIsWorth
<1>9. GetScore(p) \in Nat
  <2> HIDE DEF p
  <2> QED BY <1>6, GetScoreType
<1> HIDE DEF p
<1>10. /\ e.currentHand = p.currentHand /\ e.cardsOnTable = <<>>
       /\ e.firstPlayer = p.highestPlayer /\ e.currentTrick = p.currentTrick + 1
       /\ e.type = p.type /\ e.scores = Credit(p.scores, p.highestPlayer, GetScore(p))
  <2>1. Takes(p, e)
    BY <1>6, NextTrickFields
  <2>2. /\ e.currentTrick = p.currentTrick + 1 /\ e.type = p.type
        /\ e.scores = Credit(p.scores, p.highestPlayer, GetScore(p))
    BY <1>6 DEF NextTrick, TakeTrick, ClearTable, IsDeal
  <2> HIDE DEF e
  <2>3. QED
    BY <2>1, <2>2 DEF Takes
<1> HIDE DEF e
<1>11. Points(e) = [Points(d) EXCEPT ![w] = @ + R!Worth(d.type, Range(t), {d.currentTrick})]
  <2> DEFINE n == GetScore(p)
  <2>1. p.scores \in [DOMAIN p.scores -> Nat] /\ DOMAIN p.scores \subseteq Seats
    BY <1>6 DEF IsDeal
  <2>2. /\ DOMAIN e.scores = DOMAIN p.scores \cup {w}
        /\ \A s \in DOMAIN p.scores \cup {w} :
             e.scores[s] = (IF s \in DOMAIN p.scores THEN p.scores[s] ELSE 0)
                           + (IF s = w THEN n ELSE 0)
    BY <1>7, <1>10 DEF Credit
  <2> HIDE DEF n, w
  <2>3. \A s \in Seats : Points(e)[s] = Points(p)[s] + IF s = w THEN n ELSE 0
    <3>1. n \in Nat
      BY <1>9 DEF n
    <3>2. QED
      BY <1>7, <2>1, <2>2, <3>1 DEF Points
  <2>4. \A s \in Seats : Points(p)[s] \in Nat
    BY <2>1 DEF Points
  <2>5. Points(e) = [Points(p) EXCEPT ![w] = @ + n]
    <3>1. DOMAIN Points(e) = Seats /\ DOMAIN Points(p) = Seats
          /\ Points(e) = [s \in Seats |-> Points(e)[s]]
      BY DEF Points
    <3>2. Points(e) = [s \in Seats |-> IF s = w THEN Points(p)[s] + n ELSE Points(p)[s]]
      BY <2>3, <2>4, <3>1
    <3>3. QED
      BY <3>1, <3>2
  <2>6. Points(p) = Points(d)
    BY <1>3 DEF Points
  <2>7. QED
    BY <1>8, <2>5, <2>6 DEF n
<1>12. PlaysByRules(d, card, e)
  <2>1. p.currentHand = [d.currentHand EXCEPT ![d.currentPlayer] = @ \ {card}]
    BY <1>2 DEF Plays
  <2> DEFINE s == R!Clockwise(d.firstPlayer, Len(d.cardsOnTable) + 1)
  <2>2. /\ s = d.currentPlayer /\ s \in Seats /\ card \in d.currentHand[s]
        /\ card.suit # t[1].suit => \A x \in d.currentHand[s] : x.suit # t[1].suit
    BY <1>1, <1>5, LegalByRules DEF IsDeal
  <2>3. /\ e.currentHand = [d.currentHand EXCEPT ![s] = @ \ {card}]
        /\ e.cardsOnTable = <<>> /\ e.firstPlayer = w /\ w \in Seats
        /\ e.currentTrick = d.currentTrick + 1 /\ e.type = d.type
    BY <1>3, <1>7, <1>10, <2>1, <2>2
  <2> HIDE DEF s, t, w
  <2>4. QED
    BY <1>5, <1>11, <2>2, <2>3 DEF PlaysByRules, s, t, w
<1>13. QED
  BY <1>12 DEF e, p

\* nextTrick sets the turn, whether it was passed before or not.
LEMMA PassedTrickSame ==
  ASSUME NEW d, IsDeal(d)
  PROVE  SameToRules(NextTrick(d), NextTrick(NextPlayer(d)))
<1> DEFINE n == NextPlayer(d)
<1>1. /\ Passes(d, n) /\ IsDeal(n)
      /\ n.type = d.type /\ n.currentTrick = d.currentTrick /\ n.scores = d.scores
  <2>1. Passes(d, n) /\ IsDeal(n)
    BY NextPlayerFields, NextPlayerType
  <2>2. n.type = d.type /\ n.currentTrick = d.currentTrick /\ n.scores = d.scores
    BY DEF NextPlayer, IsDeal
  <2>3. QED
    BY <2>1, <2>2
<1>2. ASSUME NEW x, IsDeal(x)
      PROVE  /\ NextTrick(x).currentHand = x.currentHand
             /\ NextTrick(x).cardsOnTable = <<>>
             /\ NextTrick(x).firstPlayer = x.highestPlayer
             /\ NextTrick(x).type = x.type
             /\ NextTrick(x).currentTrick = x.currentTrick + 1
             /\ NextTrick(x).scores = Credit(x.scores, x.highestPlayer, GetScore(x))
  <2>1. Takes(x, NextTrick(x))
    BY <1>2, NextTrickFields
  <2>2. /\ NextTrick(x).currentTrick = x.currentTrick + 1 /\ NextTrick(x).type = x.type
        /\ NextTrick(x).scores = Credit(x.scores, x.highestPlayer, GetScore(x))
    BY <1>2 DEF NextTrick, TakeTrick, ClearTable, IsDeal
  <2>3. QED
    BY <2>1, <2>2 DEF Takes
<1>3. GetScore(n) = GetScore(d)
  <2> HIDE DEF n
  <2> QED BY <1>1 DEF GetScore, Passes
<1> HIDE DEF n
<1>4. NextTrick(n).scores = NextTrick(d).scores
  BY <1>1, <1>2, <1>3 DEF Passes
<1>5. SameToRules(NextTrick(d), NextTrick(n))
  BY <1>1, <1>2, <1>4 DEF SameToRules, Passes, Points
<1>6. QED
  BY <1>5 DEF n

\* The rules tell two such deals apart by nothing.
LEMMA SameByRules ==
  ASSUME NEW d, NEW c, NEW e, NEW x, PlaysByRules(d, c, e), SameToRules(e, x)
  PROVE  PlaysByRules(d, c, x)
BY DEF PlaysByRules, SameToRules

\* Nor does the end of the deal.
LEMMA SameFinished ==
  ASSUME NEW d, NEW e, SameToRules(d, e)
  PROVE  Finished(d) <=> Finished(e)
BY DEF SameToRules, Finished

\* Passing the turn is nothing to the rules.
LEMMA PassSame ==
  ASSUME NEW d, IsDeal(d)
  PROVE  SameToRules(d, NextPlayer(d))
<1>1. /\ Passes(d, NextPlayer(d)) /\ NextPlayer(d).type = d.type
      /\ NextPlayer(d).currentTrick = d.currentTrick /\ NextPlayer(d).scores = d.scores
  BY NextPlayerFields DEF NextPlayer, IsDeal
<1>2. QED
  BY <1>1 DEF SameToRules, Passes, Points
-----------------------------------------------------------------------------
\* The points of a deal, those taken and those left.

\* Cards in two heaps are worth what the heaps are.
LEMMA CardsSplit ==
  ASSUME NEW k, NEW S, IsFiniteSet(S), NEW A, NEW B, S = A \cup B, A \cap B = {}
  PROVE  /\ R!CardsWorth(k, S) = R!CardsWorth(k, A) + R!CardsWorth(k, B)
         /\ R!CardsWorth(k, A) \in Nat /\ R!CardsWorth(k, B) \in Nat
<1> DEFINE F(C) == [c \in C |-> R!CardValue(k, c)]
<1>1. \A C : F(C) \in [C -> Nat] /\ \A c \in C : F(C)[c] = R!CardValue(k, c)
  BY DEF R!CardValue
<1>2. IsFiniteSet(A) /\ IsFiniteSet(B)
  BY FS_Subset
<1>3. PICK g : Adds(g, F(S), S) /\ R!CardsWorth(k, S) = g[S]
  BY CardsAdd
<1>4. PICK a : Adds(a, F(A), A) /\ R!CardsWorth(k, A) = a[A]
  BY <1>2, CardsAdd
<1>5. PICK b : Adds(b, F(B), B) /\ R!CardsWorth(k, B) = b[B]
  BY <1>2, CardsAdd
<1> HIDE DEF F
<1>6. g[S] = g[A] + g[B]
  BY <1>1, <1>3, AddsUnion
<1>7. g[A] = a[A]
  BY <1>1, <1>2, <1>3, <1>4, AddsAgree
<1>8. g[B] = b[B]
  BY <1>1, <1>2, <1>3, <1>5, AddsAgree
<1>9. a[A] \in Nat /\ b[B] \in Nat
  BY <1>4, <1>5 DEF Adds
<1>10. QED
  BY <1>3, <1>4, <1>5, <1>6, <1>7, <1>8, <1>9

\* The tricks to come are the next one and those after it.
LEMMA TricksSplit ==
  ASSUME NEW k, NEW n \in Nat, n <= LastTrick
  PROVE  /\ R!TricksWorth(k, n..LastTrick)
              = R!TricksWorth(k, {n}) + R!TricksWorth(k, (n + 1)..LastTrick)
         /\ R!TricksWorth(k, {n}) \in Nat
         /\ R!TricksWorth(k, (n + 1)..LastTrick) \in Nat
<1> DEFINE A == {n}
           B == (n + 1)..LastTrick
           S == n..LastTrick
           F(C) == [i \in C |-> R!TrickValue(k, i)]
<1>1. \A C : F(C) \in [C -> Nat] /\ \A i \in C : F(C)[i] = R!TrickValue(k, i)
  BY DEF R!TrickValue
<1>2. A \cup B = S /\ A \cap B = {}
  <2>1. LastTrick \in Nat
    BY CardsAssumption
  <2>2. QED
    BY <2>1
<1>3. IsFiniteSet(A) /\ IsFiniteSet(B)
  <2>1. LastTrick \in Nat
    BY CardsAssumption
  <2>2. n + 1 \in Int /\ LastTrick \in Int
    BY <2>1
  <2>3. QED
    BY <2>2, FS_Singleton, FS_Interval
<1> HIDE DEF A, B, S
<1>4. IsFiniteSet(S)
  BY <1>2, <1>3, FS_Union
<1>5. PICK g : Adds(g, F(S), S) /\ R!TricksWorth(k, S) = g[S]
  BY <1>4, TricksAdd
<1>6. PICK a : Adds(a, F(A), A) /\ R!TricksWorth(k, A) = a[A]
  BY <1>3, TricksAdd
<1>7. PICK b : Adds(b, F(B), B) /\ R!TricksWorth(k, B) = b[B]
  BY <1>3, TricksAdd
<1> HIDE DEF F
<1>8. g[S] = g[A] + g[B]
  BY <1>1, <1>2, <1>4, <1>5, AddsUnion
<1>9. g[A] = a[A]
  BY <1>1, <1>2, <1>3, <1>4, <1>5, <1>6, AddsAgree
<1>10. g[B] = b[B]
  BY <1>1, <1>2, <1>3, <1>4, <1>5, <1>7, AddsAgree
<1>11. a[A] \in Nat /\ b[B] \in Nat
  BY <1>6, <1>7 DEF Adds
<1>12. R!TricksWorth(k, S) = R!TricksWorth(k, A) + R!TricksWorth(k, B)
       /\ R!TricksWorth(k, A) \in Nat /\ R!TricksWorth(k, B) \in Nat
  BY <1>5, <1>6, <1>7, <1>8, <1>9, <1>10, <1>11
<1>13. QED
  BY <1>12 DEF A, B, S

\* What a deal is worth: the points the seats have, the cards in the hands and on
\* the table, and the tricks to come with the one on the table.
Total(d) == SumFunction(Points(d))
Left(d) == R!Worth(d.type, (UNION Range(d.currentHand)) \cup Range(d.cardsOnTable),
                   d.currentTrick..LastTrick)
Value(d) == Total(d) + Left(d)

\* It is the same where the rules see no difference.
LEMMA SameValue ==
  ASSUME NEW d, NEW e, SameToRules(d, e)
  PROVE  Value(e) = Value(d)
BY DEF SameToRules, Value, Total, Left

\* The points of the seats are numbers, and so are their sum and what is left.
LEMMA PointsType ==
  ASSUME NEW d, IsDeal(d)
  PROVE  Points(d) \in [Seats -> Nat] /\ Total(d) \in Nat
<1>1. d.scores \in [DOMAIN d.scores -> Nat]
  BY DEF IsDeal
<1>2. Points(d) \in [Seats -> Nat]
  BY <1>1 DEF Points
<1>3. PICK g : Adds(g, Points(d), Seats) /\ SumFunction(Points(d)) = g[Seats]
  BY <1>2, SeatsFinite, FunctionAdds
<1>4. QED
  BY <1>2, <1>3 DEF Adds, Total

\* The cards of a deal.
LEMMA HandCards ==
  ASSUME NEW h \in HandsType
  PROVE  /\ UNION Range(h) \subseteq Card
         /\ \A c : c \in UNION Range(h) <=> \E s \in Seats : c \in h[s]
BY DEF HandsType, Range

\* A new deal is worth what its cards and tricks are.
LEMMA NewDealValue ==
  ASSUME NEW f, ProperDeal(f)
  PROVE  Value(NewDeal(f)) = R!Worth(f.type, UNION Range(f.hands), 1..LastTrick)
<1> DEFINE d == NewDeal(f)
           W == R!Worth(f.type, UNION Range(f.hands), 1..LastTrick)
<1>1. /\ d.type = f.type /\ d.currentHand = f.hands /\ d.cardsOnTable = <<>>
      /\ d.currentTrick = 1 /\ d.scores = <<>>
  BY DEF NewDeal
<1> HIDE DEF d
<1>2. Points(d) = [s \in Seats |-> 0]
  BY <1>1 DEF Points
<1>3. Total(d) = 0
  <2>1. Points(d) \in [Seats -> Nat] /\ \A s \in Seats : Points(d)[s] = 0
    BY <1>2
  <2>2. QED
    BY <2>1, SeatsFinite, SumZero DEF Total
<1>4. Left(d) = W
  <2>1. (UNION Range(f.hands)) \cup Range(<<>>) = UNION Range(f.hands)
    BY DEF Range
  <2>2. QED
    BY <1>1, <2>1 DEF Left
<1>5. W \in Nat
  <2>1. f.hands \in HandsType
    BY DEF ProperDeal, DealSpec
  <2>2. IsFiniteSet(UNION Range(f.hands))
    BY <2>1, HandCards, CardFinite, FS_Subset
  <2>3. IsFiniteSet(1..LastTrick)
    <3>1. LastTrick \in Nat
      BY CardsAssumption
    <3>2. 1 \in Int /\ LastTrick \in Int
      BY <3>1
    <3>3. QED
      BY <3>2, FS_Interval
  <2>4. QED
    BY <2>2, <2>3, WorthZero
<1> HIDE DEF W
<1>6. Value(d) = W
  BY <1>3, <1>4, <1>5 DEF Value
<1>7. QED
  BY <1>6 DEF d, W

\* All points of a finished deal have been taken.
LEMMA FinishedValue ==
  ASSUME NEW d, IsDeal(d), Finished(d)
  PROVE  Value(d) = Total(d)
<1>1. (UNION Range(d.currentHand)) \cup Range(d.cardsOnTable) = UNION Range(d.currentHand)
  BY DEF Finished, Range
<1>2. Left(d) = 0
  BY <1>1 DEF Left, Finished
<1>3. Total(d) \in Nat
  BY PointsType
<1>4. QED
  BY <1>2, <1>3 DEF Value

\* A card played by the rules leaves the worth of the deal alone: the card moves
\* from a hand to the table, and the seat that takes a trick gets the points of
\* its cards and of the trick.
LEMMA PlayKeepsValue ==
  ASSUME NEW d, GameInv(d), Sized(d), NEW c \in Card, NEW e, PlaysByRules(d, c, e)
  PROVE  Value(e) = Value(d)
<1> DEFINE s == R!Clockwise(d.firstPlayer, Len(d.cardsOnTable) + 1)
           t == Append(d.cardsOnTable, c)
           w == R!Clockwise(d.firstPlayer, R!WinningPlace(t))
           U == UNION Range(d.currentHand)
           T == Range(d.cardsOnTable)
           V == UNION Range(e.currentHand)
           k == d.type
           n == d.currentTrick
<1>1. IsDeal(d) /\ Dealt(d) /\ ConservesCards(d)
  BY DEF GameInv
<1>2. /\ d.currentHand \in HandsType /\ d.cardsOnTable \in Seq(Card) /\ n \in Nat
  BY <1>1 DEF IsDeal
<1>3. /\ s \in Seats /\ c \in d.currentHand[s] /\ e.type = k
      /\ e.currentHand = [d.currentHand EXCEPT ![s] = @ \ {c}]
  BY DEF PlaysByRules
<1>4. Range(t) = T \cup {c}
  BY <1>2, AppendNew
<1>5. U \subseteq Card /\ \A x : x \in U <=> \E q \in Seats : x \in d.currentHand[q]
  BY <1>2, HandCards
<1>6. V = U \ {c} /\ c \in U
  <2>1. e.currentHand \in HandsType
    BY <1>2, <1>3 DEF HandsType
  <2>2. \A x : x \in V <=> \E q \in Seats : x \in e.currentHand[q]
    BY <2>1, HandCards
  <2>3. \A q \in Seats : q # s => c \notin d.currentHand[q]
    BY <1>1, <1>3 DEF ConservesCards, Dealt
  <2>4. \A q \in Seats : e.currentHand[q] = d.currentHand[q] \ {c}
    <3>1. \A q \in Seats : e.currentHand[q]
                              = IF q = s THEN d.currentHand[q] \ {c} ELSE d.currentHand[q]
      BY <1>2, <1>3 DEF HandsType
    <3>2. QED
      BY <2>3, <3>1
  <2> HIDE DEF U, V, s
  <2>5. QED
    BY <1>3, <1>5, <2>2, <2>4
<1>7. U \cap T = {}
  <2>1. ASSUME NEW q \in Seats PROVE d.currentHand[q] \cap T = {}
    BY <1>1 DEF ConservesCards, PlayedCards
  <2> HIDE DEF U, T
  <2>2. QED
    BY <1>5, <2>1
<1>8. T \subseteq Card
  BY <1>2 DEF Range
<1> HIDE DEF U, V, T
<1>9. CASE Len(t) < Players
  <2>1. /\ e.cardsOnTable = t /\ e.currentTrick = n /\ Points(e) = Points(d)
    BY <1>9 DEF PlaysByRules
  <2>2. V \cup Range(t) = U \cup T
    <3> HIDE DEF t
    <3> QED BY <1>4, <1>6
  <2>3. Left(e) = Left(d) /\ Total(e) = Total(d)
    <3> HIDE DEF t
    <3> QED BY <1>3, <2>1, <2>2 DEF Left, Total, U, V, T
  <2>4. QED
    BY <2>3 DEF Value
<1>10. CASE ~(Len(t) < Players)
  <2> DEFINE a == R!CardsWorth(k, V)
             b == R!CardsWorth(k, T \cup {c})
             y == R!TricksWorth(k, {n})
             z == R!TricksWorth(k, (n + 1)..LastTrick)
             p == Total(d)
  <2>1. /\ e.cardsOnTable = <<>> /\ e.currentTrick = n + 1 /\ w \in Seats
        /\ Points(e) = [Points(d) EXCEPT ![w] = @ + R!Worth(k, Range(t), {n})]
    BY <1>10 DEF PlaysByRules
  <2>2. n <= LastTrick
    <3>1. IsFiniteSet(d.currentHand[s])
      <4>1. d.currentHand[s] \subseteq Card
        BY <1>2, <1>3 DEF HandsType
      <4>2. QED
        BY <4>1, CardFinite, FS_Subset
    <3>2. Cardinality(d.currentHand[s]) \in Nat /\ Cardinality(d.currentHand[s]) # 0
      BY <1>3, <3>1, FS_CardinalityType, FS_EmptySet
    <3>3. Cardinality(d.currentHand[s]) = LastTrick + 1 - n - IF HasPlayed(d, s) THEN 1 ELSE 0
      BY <1>3 DEF Sized
    <3>4. LastTrick \in Nat
      BY CardsAssumption
    <3> HIDE DEF s, n
    <3>5. QED
      BY <1>2, <3>2, <3>3, <3>4
  <2>3. IsFiniteSet(V) /\ IsFiniteSet(T \cup {c})
    <3>1. V \subseteq Card /\ T \cup {c} \subseteq Card
      BY <1>5, <1>6, <1>8
    <3>2. QED
      BY <3>1, CardFinite, FS_Subset
  <2>4. V \cap (T \cup {c}) = {} /\ V \cup (T \cup {c}) = U \cup T
    BY <1>6, <1>7
  <2>5. R!CardsWorth(k, U \cup T) = a + b /\ a \in Nat /\ b \in Nat
    <3> DEFINE A == V
               B == T \cup {c}
               S == U \cup T
    <3>1. IsFiniteSet(A) /\ IsFiniteSet(B) /\ S = A \cup B /\ A \cap B = {}
      BY <2>3, <2>4
    <3> HIDE DEF A, B, S, k, s, t, w, n, y, z, p
    <3>2. IsFiniteSet(S)
      BY <3>1, FS_Union
    <3>3. /\ R!CardsWorth(k, S) = R!CardsWorth(k, A) + R!CardsWorth(k, B)
          /\ R!CardsWorth(k, A) \in Nat /\ R!CardsWorth(k, B) \in Nat
      BY <3>1, <3>2, CardsSplit
    <3>4. QED
      BY <3>3 DEF A, B, S
  <2>6. R!TricksWorth(k, n..LastTrick) = y + z /\ y \in Nat /\ z \in Nat
    BY <1>2, <2>2, TricksSplit
  <2>7. Left(d) = (a + b) + (y + z)
    <3>1. Left(d) = R!Worth(k, U \cup T, n..LastTrick)
      BY DEF Left, U, T
    <3> HIDE DEF a, b, y, z
    <3>2. QED
      BY <2>5, <2>6, <3>1 DEF R!Worth
  <2>8. Left(e) = a + z
    <3>1. Range(<<>>) = {}
      BY DEF Range
    <3>2. V \cup {} = V
      OBVIOUS
    <3>3. (UNION Range(e.currentHand)) \cup Range(e.cardsOnTable) = V
      BY <2>1, <3>1, <3>2 DEF V
    <3>4. QED
      BY <1>3, <2>1, <3>3 DEF Left, R!Worth
  <2>9. Total(e) = p + (b + y)
    <3>1. R!Worth(k, Range(t), {n}) = b + y
      BY <1>4 DEF R!Worth
    <3>2. b + y \in Nat
      <4> HIDE DEF b, y
      <4> QED BY <2>5, <2>6
    <3>3. Points(d) \in [Seats -> Nat]
      BY <1>1, PointsType
    <3>4. Points(e) = [Points(d) EXCEPT ![w] = @ + (b + y)]
      BY <2>1, <3>1
    <3> DEFINE m == b + y
               P == Points(d)
               Q == Points(e)
    <3>5. P \in [Seats -> Nat] /\ m \in Nat /\ Q = [P EXCEPT ![w] = @ + m]
      BY <3>2, <3>3, <3>4
    <3> HIDE DEF m, P, Q, s, t, w, n, k, a, b, y, z, p
    <3>6. Q \in [Seats -> Nat] /\ Q[w] = P[w] + m /\ \A x \in Seats \ {w} : Q[x] = P[x]
      BY <2>1, <3>5
    <3>7. w \in Seats /\ P \in [Seats -> Nat] /\ m \in Nat
      BY <2>1, <3>5
    <3>8. SumFunction(Q) = SumFunction(P) + m
      BY <3>6, <3>7, SeatsFinite, SumChanged
    <3>9. QED
      BY <3>8 DEF Total, m, P, Q, b, y, p
  <2>10. p \in Nat
    BY <1>1, PointsType
  <2> HIDE DEF a, b, y, z, p
  <2>11. Value(e) = (p + (b + y)) + (a + z) /\ Value(d) = p + ((a + b) + (y + z))
    BY <2>7, <2>8, <2>9 DEF Value, p
  <2>12. QED
    BY <2>5, <2>6, <2>10, <2>11
<1>11. QED
  BY <1>9, <1>10
=============================================================================
