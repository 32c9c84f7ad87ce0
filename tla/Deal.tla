-------------------------------- MODULE Deal --------------------------------
(***************************************************************************)
(* One deal of Hearts: class Deal of game.hpp and game.cpp.  A deal is a   *)
(* record with the fields of the class; each method that changes the       *)
(* object is an operator from a deal to a deal, each query an operator on  *)
(* a deal.  A hand string is the set of its cards: the server only         *)
(* searches it and erases from it.  The table keeps its order.             *)
(*                                                                         *)
(* An operator whose comment begins with "Mutant of" is a plausible bug in *)
(* the definition it names, kept to show which property would catch it.    *)
(***************************************************************************)
EXTENDS Cards

\* The empty highestCard and the zero trickSuit of a table without cards.
NoSuit == "-"
NoCard == [rank |-> 0, suit |-> NoSuit]

HandsType == [Seats -> SUBSET Card]
TrickTaken == [cards : Seq(Card), seat : Seats]

\* The record has the fields of the class; scores, a map from seats to points,
\* holds only the seats already written to.
IsDeal(d) ==
  /\ d \in [type : 1..7, firstPlayer : Seats, currentPlayer : Seats,
            currentTrick : Nat, originalHand : HandsType, currentHand : HandsType,
            cardsOnTable : Seq(Card), trickSuit : Suits \cup {NoSuit},
            highestCard : Card \cup {NoCard}, highestPlayer : Seats \cup {NoSeat},
            scores : {d.scores}, tricksTaken : Seq(TrickTaken)]
  /\ DOMAIN d.scores \subseteq Seats
  /\ d.scores \in [DOMAIN d.scores -> Nat]

\* A deal as the game file describes it.
DealSpec == [type : 1..7, first : Seats, hands : HandsType]

\* A game file deals LastTrick cards to every seat and no card twice; its
\* content is assumed to be correct.
ProperDeal(f) ==
  /\ f \in DealSpec
  /\ \A s \in Seats : Cardinality(f.hands[s]) = LastTrick
  /\ \A s, t \in Seats : s # t => f.hands[s] \cap f.hands[t] = {}

\* The deal parseFile makes of it, before anyone plays.
NewDeal(f) ==
  [type |-> f.type, firstPlayer |-> f.first, currentPlayer |-> f.first,
   currentTrick |-> 1, originalHand |-> f.hands, currentHand |-> f.hands,
   cardsOnTable |-> <<>>, trickSuit |-> NoSuit,
   highestCard |-> NoCard, highestPlayer |-> NoSeat,
   scores |-> <<>>, tricksTaken |-> <<>>]
-----------------------------------------------------------------------------
NextPlayer(d) == [d EXCEPT !.currentPlayer = NextSeat(@)]

\* Mutant of IsLegal: suit need not be followed.
HoldsCard(d, trick, card) ==
  /\ trick = d.currentTrick
  /\ card \notin Range(d.cardsOnTable)
  /\ card \in d.currentHand[d.currentPlayer]

\* Mutant of IsLegal: a player without the suit may play nothing.
FollowsSuit(d, trick, card) ==
  /\ HoldsCard(d, trick, card)
  /\ d.cardsOnTable = <<>> \/ card.suit = d.trickSuit

\* May the current player answer trick number trick with this card?
IsLegal(d, trick, card) ==
  \/ FollowsSuit(d, trick, card)
  \/ /\ HoldsCard(d, trick, card)
     /\ \A c \in d.currentHand[d.currentPlayer] : c.suit # d.trickSuit

\* Mutant of CompareRanks: the comparison the wrong way round.
Outranks(c1, c2) == c1.rank > c2.rank

CompareRanks(c1, c2) == c1.rank < c2.rank

\* Mutant of LayCard: the table is tested for the first card after the card has
\* been put on it, so that no suit is led and no card is the highest.
LayCardUnled(d, card) == [d EXCEPT !.cardsOnTable = Append(@, card)]

\* playCard but for the hand.  Mutant of PlayCard: the card stays in the hand.
LayCard(d, card) ==
  LET led   == IF d.cardsOnTable = <<>> THEN card.suit ELSE d.trickSuit
      takes == /\ card.suit = led
               /\ d.highestCard = NoCard \/ CompareRanks(d.highestCard, card)
  IN  [d EXCEPT !.trickSuit = led,
                !.highestCard = IF takes THEN card ELSE @,
                !.highestPlayer = IF takes THEN d.currentPlayer ELSE @,
                !.cardsOnTable = Append(@, card)]

PlayCard(d, card) ==
  [LayCard(d, card) EXCEPT !.currentHand[d.currentPlayer] = @ \ {card}]

\* The points of the cards on the table: each type of deal counts one thing, and
\* type 7 counts them all.
GetScore(d) ==
  LET t == d.cardsOnTable
      Count(R, S) == Cardinality({i \in DOMAIN t : t[i].rank \in R /\ t[i].suit \in S})
      When(k, n) == IF d.type \in {k, 7} THEN n ELSE 0
  IN  When(1, 1)
      + When(2, Count(2..Ace, {"H"}))
      + When(3, 5 * Count({Queen}, Suits))
      + When(4, 2 * Count({Jack, King}, Suits))
      + When(5, IF Count({King}, {"H"}) > 0 THEN 18 ELSE 0)
      + When(6, IF d.currentTrick \in {SeventhTrick, LastTrick} THEN 10 ELSE 0)

\* The cards whose absence from every hand ends a deal early.
Scoring(type) ==
  CASE type = 2 -> {c \in Card : c.suit = "H"}
    [] type = 3 -> {c \in Card : c.rank = Queen}
    [] type = 4 -> {c \in Card : c.rank \in {Jack, King}}
    [] type = 5 -> {[rank |-> King, suit |-> "H"]}

\* Mutant of IsOver: one player without a scoring card ends the deal.
SomeHandBare(d) ==
  /\ d.type \in 2..5
  /\ \E s \in Seats : d.currentHand[s] \cap Scoring(d.type) = {}

IsOver(d) ==
  /\ d.type \in 2..5
  /\ \A s \in Seats : d.currentHand[s] \cap Scoring(d.type) = {}

\* Mutant of Credit: the last trick's points replace the earlier ones.
Assign(scores, s, n) ==
  [x \in DOMAIN scores \cup {s} |-> IF x = s THEN n ELSE scores[x]]

\* std::map's operator[] followed by +=: an absent key counts as zero.
Credit(scores, s, n) ==
  [x \in DOMAIN scores \cup {s} |->
     (IF x \in DOMAIN scores THEN scores[x] ELSE 0) + (IF x = s THEN n ELSE 0)]

ClearTable(d) ==
  [d EXCEPT !.cardsOnTable = <<>>, !.highestCard = NoCard,
            !.highestPlayer = NoSeat, !.trickSuit = NoSuit]

\* nextTrick but for the leader.  Mutant of NextTrick: the same seat leads again.
TakeTrick(d) ==
  ClearTable([d EXCEPT !.scores = Credit(@, d.highestPlayer, GetScore(d)),
                       !.tricksTaken = Append(@, [cards |-> d.cardsOnTable,
                                                  seat |-> d.highestPlayer]),
                       !.currentTrick = @ + 1,
                       !.currentPlayer = d.highestPlayer])

NextTrick(d) == [TakeTrick(d) EXCEPT !.firstPlayer = d.highestPlayer]
=============================================================================
