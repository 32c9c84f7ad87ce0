--------------------------- MODULE DealProperties ---------------------------
(***************************************************************************)
(* What must be true of the object of class Deal at every moment of a      *)
(* deal.  Each operator compares the record of the game, which the methods *)
(* build card by card, with the hands the seats were dealt.                *)
(***************************************************************************)
EXTENDS Deal

Tricks(d) == [k \in DOMAIN d.tricksTaken |-> d.tricksTaken[k].cards]
CardsIn(d, K) == UNION {Range(d.tricksTaken[k].cards) : k \in K}
PlayedCards(d) == CardsIn(d, DOMAIN d.tricksTaken) \cup Range(d.cardsOnTable)
OwnerOf(d, card) == CHOOSE s \in Seats : card \in d.originalHand[s]

\* No card is lost and none is played twice: a seat holds what it was dealt
\* and has not been played, and no two places of the tricks and the table hold
\* the same card.  It relates deleteCard on the hands to the append on the
\* table and to the move to tricksTaken.
ConservesCards(d) ==
  /\ \A s \in Seats : d.currentHand[s] = d.originalHand[s] \ PlayedCards(d)
  /\ PlayedCards(d) \subseteq UNION {d.originalHand[s] : s \in Seats}
  /\ IsInjective(d.cardsOnTable)
  /\ \A k \in DOMAIN Tricks(d) :
       /\ IsInjective(Tricks(d)[k])
       /\ Range(Tricks(d)[k]) \cap Range(d.cardsOnTable) = {}
       /\ \A j \in DOMAIN Tricks(d) :
            j # k => Range(Tricks(d)[k]) \cap Range(Tricks(d)[j]) = {}

\* A seat that did not follow suit in a trick shows no card of that suit
\* afterwards, in its hand, on the table or in a later trick: isLegal judged it
\* by the hand it had then.
ShowsNoRevoke(d) ==
  \A k \in DOMAIN d.tricksTaken :
    LET t == Tricks(d)[k]
        later == Range(d.cardsOnTable)
                 \cup CardsIn(d, {j \in DOMAIN d.tricksTaken : j > k})
    IN  \A i \in DOMAIN t : t[i].suit # t[1].suit =>
          LET s == OwnerOf(d, t[i])
          IN  \A c \in d.currentHand[s] \cup (later \cap d.originalHand[s]) :
                c.suit # t[1].suit

\* A trick goes to the seat that was dealt its highest card of the suit led,
\* and that seat leads the next one: highestPlayer is found card by card.
GivesTricksToHighest(d) ==
  \A k \in DOMAIN d.tricksTaken :
    LET t == Tricks(d)[k]
        best == CHOOSE c \in Range(t) :
                  /\ c.suit = t[1].suit
                  /\ \A x \in Range(t) : x.suit = t[1].suit => x.rank <= c.rank
        next == IF k < Len(d.tricksTaken) THEN Tricks(d)[k + 1] ELSE d.cardsOnTable
    IN  /\ d.tricksTaken[k].seat = OwnerOf(d, best)
        /\ next # <<>> => OwnerOf(d, next[1]) = OwnerOf(d, best)

\* Every seat plays once in a trick: the table and the tricks hold no two cards
\* dealt to one seat, and a trick taken has a card of every seat.
TakesOneCardEach(d) ==
  /\ \A t \in Range(Tricks(d)) \cup {d.cardsOnTable} :
       \A i, j \in DOMAIN t : i # j => OwnerOf(d, t[i]) # OwnerOf(d, t[j])
  /\ \A k \in DOMAIN Tricks(d) : Len(Tricks(d)[k]) = Cardinality(Seats)
=============================================================================
