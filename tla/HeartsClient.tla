---------------------------- MODULE HeartsClient ----------------------------
(***************************************************************************)
(* The client: class Client of client.cpp with the parsing conditions of   *)
(* ClientProtocol.  A client is a record with the members of the class and *)
(* the status of the process; HeartsSystem joins clients and server.       *)
(*                                                                         *)
(* The hand string is the bag of its cards, since a wrong append would     *)
(* double a card.  The automatic player takes the first card of a suit or  *)
(* one drawn with a fixed seed; here it is any of them.                    *)
(***************************************************************************)
EXTENDS Deal, SequencesExt

\* A message of the server.  hand is of DEAL, cards of TRICK and TAKEN; seats are
\* those listed by BUSY, SCORE and TOTAL, and the one that TAKEN names.
Blank == [kind |-> "", trick |-> 0, hand |-> {}, cards |-> <<>>, seats |-> {}]

\* The regular expressions of the tryParse functions: how many cards and seats,
\* and which tricks, a message of each kind may have.
Parses(m) ==
  LET seats == Cardinality(m.seats) IN
  CASE m.kind = "BUSY" -> seats > 0
    [] m.kind = "DEAL" -> Cardinality(m.hand) = LastTrick
    [] m.kind = "TRICK" -> m.trick \in 1..LastTrick /\ Len(m.cards) < Len(PlayerOrder)
    [] m.kind = "WRONG" -> m.trick \in 1..LastTrick
    [] m.kind = "TAKEN" -> m.trick \in 1..LastTrick /\ Len(m.cards) = Len(PlayerOrder)
    [] m.kind \in {"SCORE", "TOTAL"} -> seats = Len(PlayerOrder)

NewClient ==
  [status |-> "playing", hand |-> EmptyBag, cardsOnTable |-> <<>>,
   lastPlayedCard |-> NoCard, lastPlayedTrick |-> 0, serverTrick |-> 0,
   tricksTaken |-> <<>>, lastTotal |-> FALSE]
-----------------------------------------------------------------------------
\* Mutant of ReadDEAL: the tricks of the last deal stay.
KeepTricks(c, m) ==
  [c EXCEPT !.hand = SetToBag(m.hand), !.lastPlayedCard = NoCard,
            !.lastPlayedTrick = 0, !.serverTrick = 0]

ReadDEAL(c, m) == [KeepTricks(c, m) EXCEPT !.tricksTaken = <<>>]

ReadTRICK(c, m) == [c EXCEPT !.serverTrick = m.trick, !.cardsOnTable = m.cards]

\* Mutant of ReadWRONG: the card is not given back.
LoseCard(c, m) ==
  [c EXCEPT !.serverTrick = m.trick, !.lastPlayedCard = NoCard,
            !.lastPlayedTrick = IF c.lastPlayedCard = NoCard THEN @ ELSE (@ + 255) % 256]

\* The card played last comes back to the hand, once.
ReadWRONG(c, m) ==
  [LoseCard(c, m) EXCEPT
     !.hand = IF c.lastPlayedCard = NoCard THEN @ ELSE @ (+) SetToBag({c.lastPlayedCard})]

\* The bag of the cards of a sequence.
CardBag(cards) ==
  [card \in Range(cards) |-> Cardinality({i \in DOMAIN cards : cards[i] = card})]

\* removeFromHand: each card of a trick is deleted once.
Without(hand, cards) == hand (-) CardBag(cards)

ReadTAKEN(c, m, seat) ==
  [c EXCEPT !.serverTrick = m.trick,
            !.tricksTaken = IF seat \in m.seats THEN Append(@, m.cards) ELSE @,
            !.hand = Without(@, m.cards)]

\* Mutant of IsTotal: a SCORE will do.
IsScore(m) == m.kind = "SCORE"

IsTotal(m) == m.kind = "TOTAL" /\ Parses(m)

\* handleServer up to the automatic answer; a message that does not parse only
\* clears lastTotal.
Read(client, m, seat) ==
  LET c == [client EXCEPT !.lastTotal = IsTotal(m)] IN
  CASE Parses(m) /\ m.kind = "DEAL" -> ReadDEAL(c, m)
    [] Parses(m) /\ m.kind = "TRICK" -> ReadTRICK(c, m)
    [] Parses(m) /\ m.kind = "WRONG" -> ReadWRONG(c, m)
    [] Parses(m) /\ m.kind = "TAKEN" -> ReadTAKEN(c, m, seat)
    [] OTHER -> c
-----------------------------------------------------------------------------
\* Mutant of MayPlay: a repeated ask is answered again.
AnyTrick(c) == TRUE

\* A card has not been played for this ask yet.
MayPlay(c) == c.serverTrick # c.lastPlayedTrick

\* Is message m one the automatic player answers?
Asks(client, m) ==
  m.kind = "TRICK" /\ Parses(m) /\ MayPlay(ReadTRICK(client, m))

\* getAutoCard: a card of the suit led, or else any card; none from an empty hand.
AutoCards(c) ==
  LET following == {x \in DOMAIN c.hand : x.suit = c.cardsOnTable[1].suit}
  IN  IF c.cardsOnTable # <<>> /\ following # {} THEN following ELSE DOMAIN c.hand

Play(c, card) ==
  [c EXCEPT !.hand = @ (-) SetToBag({card}), !.lastPlayedCard = card,
            !.lastPlayedTrick = c.serverTrick]

\* Mutant of Verdict: the end of the connection is always the end of the game.
AlwaysSuccess(c) == "success"

\* The end of the connection is a success right after TOTAL only.
Verdict(c) == IF c.lastTotal THEN "success" ELSE "failure"
=============================================================================
