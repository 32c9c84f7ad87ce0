-------------------------- MODULE SystemProperties --------------------------
(***************************************************************************)
(* What server and clients keep together: each client has its own copy of  *)
(* the game, made of the messages it read, and acts on that copy.          *)
(***************************************************************************)
EXTENDS HeartsSystem

OnTheWay(fd, kind) == \E i \in DOMAIN down[fd] : down[fd][i].kind = kind

\* The client has read the DEAL of the deal that is played.
HasDeal(fd) ==
  Playing(fd) /\ di > 0 /\ seen[fd].deal = di /\ ~OnTheWay(fd, "DEAL")

\* The cards a client has let go of and the server has not accepted: those sent
\* and not handled, and the one a WRONG on its way will give back.
Unsettled(fd) ==
  LET sent == CardBag([i \in DOMAIN up[fd] |-> up[fd][i].card])
  IN  IF OnTheWay(fd, "WRONG") \/ out[fd].kind = "WRONG"
      THEN sent (+) SetToBag({client[fd].lastPlayedCard}) ELSE sent

\* While no client leaves, the hand of every client and its unsettled cards are
\* together the hand the server keeps for it, each card once: WRONG gives back
\* the card it refuses, and no other, however asks and answers cross.
HandsAgree ==
  \A fd \in Fds : pc[fd] \in {"recvTRICK", "handleTRICK", "WRONG"} /\ HasDeal(fd) =>
    client[fd].hand (+) Unsettled(fd) = SetToBag(deal.currentHand[seat[fd]])

\* While no client leaves, no automatic client is ever refused: it plays by the
\* rules, on a table that is still the server's, and answers no ask twice.
AutoNeverWrong == \A fd \in Automatic : out[fd].kind # "WRONG"

\* The tricks a client has been told of.
Told(fd) ==
  LET full == [cards |-> deal.cardsOnTable, seat |-> deal.highestPlayer]
  IN  SubSeq(Append(deal.tricksTaken, full), 1, seen[fd].taken)

\* These are, one after the other, the tricks of told at the places of own.
ShowsTricks(tricks, told, own) ==
  /\ Len(tricks) = Cardinality(own)
  /\ \A i \in own : tricks[Cardinality({j \in own : j <= i})] = told[i].cards

\* The tricks a client shows as its own are those its seat took in this deal, also
\* when it came back in the middle of the deal.
TricksAgree ==
  \A fd \in Fds : HasDeal(fd) /\ ~OnTheWay(fd, "TAKEN") =>
    ShowsTricks(client[fd].tricksTaken, Told(fd),
                {i \in DOMAIN Told(fd) : Told(fd)[i].seat = SeatOf[fd]})

\* No client is asked for a card when its hand is empty.
NeverEmptyHanded == \A fd \in DOMAIN client : client[fd].status # "crashed"

\* A client reports success only once the server has ended, never because its own
\* connection was refused or cut.
SuccessMeansEnd ==
  \A fd \in DOMAIN client : client[fd].status = "success" => gameOver \/ ~Running

\* A client reports success only for a game that was played to its end.
SuccessMeansOver == \A fd \in DOMAIN client : client[fd].status = "success" => gameOver

\* While no client leaves, only a client that was dealt no card in the whole game
\* reports failure: the last message to every seat is the TOTAL of the last deal.
PlayersSucceed ==
  \A fd \in DOMAIN client : client[fd].status = "failure" =>
    client[fd].hand = EmptyBag /\ client[fd].lastPlayedTrick = 0
-----------------------------------------------------------------------------
\* While no client leaves, the game is played to its end, and for every seat
\* there is a client that reports success.
GameSucceeds ==
  <>(\A s \in Seats : \E fd \in DOMAIN client :
       SeatOf[fd] = s /\ client[fd].status = "success")
=============================================================================
