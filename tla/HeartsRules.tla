----------------------------- MODULE HeartsRules ----------------------------
(***************************************************************************)
(* What the deals of the game promise, without the bookkeeping of class     *)
(* Deal: whose turn it is follows from the leader and from how many cards  *)
(* lie on the table, the winner of a trick is computed from the whole      *)
(* trick, the points of a set of cards are the sum of their values, and a  *)
(* deal ends when no points are left to take.                              *)
(***************************************************************************)
EXTENDS Cards, FiniteSetsExt

CONSTANT Deals   \* the deals of the game: records of type, first, hands

VARIABLES
  type,     \* the type of the deal
  hand,     \* the cards each seat holds
  leader,   \* the seat that leads the trick
  table,    \* the cards of the trick, in the order they were played
  number,   \* the number of the trick
  points    \* the points each seat has taken

vars == <<type, hand, leader, table, number, points>>

Players == Len(PlayerOrder)

\* The k-th seat clockwise from s, which is the first.
Clockwise(s, k) ==
  LET first == CHOOSE i \in DOMAIN PlayerOrder : PlayerOrder[i] = s
  IN  PlayerOrder[((first + k - 2) % Players) + 1]

\* The seat that plays the k-th card of a trick.
Turn(k) == Clockwise(leader, k)

\* The place in trick t of the highest card of the suit led.
WinningPlace(t) ==
  CHOOSE i \in DOMAIN t :
    /\ t[i].suit = t[1].suit
    /\ \A j \in DOMAIN t : t[j].suit = t[1].suit => t[j].rank <= t[i].rank

\* What taking card c costs in a deal of type k.
CardValue(k, c) ==
  (IF k \in {2, 7} /\ c.suit = "H" THEN 1 ELSE 0)
  + (IF k \in {3, 7} /\ c.rank = Queen THEN 5 ELSE 0)
  + (IF k \in {4, 7} /\ c.rank \in {Jack, King} THEN 2 ELSE 0)
  + (IF k \in {5, 7} /\ c.rank = King /\ c.suit = "H" THEN 18 ELSE 0)

\* What taking trick n costs in a deal of type k, whatever its cards.
TrickValue(k, n) ==
  (IF k \in {1, 7} THEN 1 ELSE 0)
  + (IF k \in {6, 7} /\ n \in {SeventhTrick, LastTrick} THEN 10 ELSE 0)

CardsWorth(k, C) == MapThenSumSet(LAMBDA c : CardValue(k, c), C)
TricksWorth(k, T) == MapThenSumSet(LAMBDA n : TrickValue(k, n), T)

\* The points in the cards C and the tricks T.
Worth(k, C, T) == CardsWorth(k, C) + TricksWorth(k, T)

Done ==
  /\ number > 1
  /\ table = <<>>
  /\ Worth(type, UNION Range(hand), number..LastTrick) = 0

Init ==
  \E f \in Deals :
    /\ type = f.type
    /\ hand = f.hands
    /\ leader = f.first
    /\ table = <<>>
    /\ number = 1
    /\ points = [s \in Seats |-> 0]

\* The seat whose turn it is plays card c, following suit if it can.
Play(c) ==
  LET s == Turn(Len(table) + 1)
      t == Append(table, c)
      w == Turn(WinningPlace(t))
  IN  /\ ~Done
      /\ c \in hand[s]
      /\ c.suit # t[1].suit => \A x \in hand[s] : x.suit # t[1].suit
      /\ hand' = [hand EXCEPT ![s] = @ \ {c}]
      /\ IF Len(t) < Players
         THEN table' = t /\ UNCHANGED <<leader, number, points>>
         ELSE /\ table' = <<>>
              /\ leader' = w
              /\ number' = number + 1
              /\ points' = [points EXCEPT ![w] = @ + Worth(type, Range(t), {number})]
      /\ UNCHANGED type

PlayCard == \E c \in UNION Range(hand) : Play(c)

\* Another deal begins when one is done.
NextDeal == Done /\ Init'

Next == PlayCard \/ NextDeal

Safe == Init /\ [][Next]_vars

\* The players play on until the deal is done.
Spec == Safe /\ WF_vars(PlayCard)
=============================================================================
