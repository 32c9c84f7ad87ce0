-------------------------------- MODULE Cards -------------------------------
(***************************************************************************)
(* What the rules and the program both speak of: the seats around the      *)
(* table, the cards, and the number of tricks of a deal.                   *)
(*                                                                         *)
(* A card string ("10H") is a record of its rank, as rankMap orders the    *)
(* ranks, and its suit.                                                    *)
(***************************************************************************)
EXTENDS Integers, Sequences, FiniteSets, Functions

CONSTANTS
  PlayerOrder,   \* playerOrder, the seats clockwise; in the code N, E, S, W
  LastTrick,     \* the last trick of a deal; in the code 13
  SeventhTrick   \* the trick that also scores in deals 6 and 7; in the code 7

ASSUME CardsAssumption ==
  /\ PlayerOrder \in Seq(STRING)
  /\ Len(PlayerOrder) > 0
  /\ IsInjective(PlayerOrder)
  /\ "" \notin Range(PlayerOrder)
  /\ LastTrick \in Nat \ {0}
  /\ SeventhTrick \in Nat

Seats == Range(PlayerOrder)
NoSeat == ""

Jack  == 11
Queen == 12
King  == 13
Ace   == 14

Suits == {"S", "H", "D", "C"}
Card  == [rank : 2..Ace, suit : Suits]

\* Mutant of NextSeat: the turn goes the other way round.
SeatBefore(s) ==
  LET i == CHOOSE i \in DOMAIN PlayerOrder : PlayerOrder[i] = s
  IN  PlayerOrder[IF i = 1 THEN Len(PlayerOrder) ELSE i - 1]

\* The seat clockwise of s.
NextSeat(s) ==
  LET i == CHOOSE i \in DOMAIN PlayerOrder : PlayerOrder[i] = s
  IN  PlayerOrder[(i % Len(PlayerOrder)) + 1]
=============================================================================
