-------------------------- MODULE ServerProperties --------------------------
(***************************************************************************)
(* What the server promises to the game and to its clients, and under      *)
(* which conditions on the clients the code keeps the promise.             *)
(***************************************************************************)
EXTENDS HeartsServer, FiniteSetsExt

Places == {"none", "recvIAM", "handleIAM", "BUSY", "catchDEAL", "catchTAKEN",
           "catchTRICK", "recvTRICK", "handleTRICK", "WRONG", "failed", "done"}
CatchingUp == {"catchDEAL", "catchTAKEN", "catchTRICK"}
\* The places of playerThread after player_fds[seat] = fd.
Seated == CatchingUp \cup {"recvTRICK", "handleTRICK", "WRONG", "failed"}

\* The types of the state: descriptors, seats and places of the threads are the
\* known ones whatever the clients do.
TypeOK ==
  /\ mainPc \in {"next", "join", "stopAccepting", "joinAccept", "joinClients", "exit"}
  /\ di \in 0..Len(GameFile) /\ gameOver \in BOOLEAN
  /\ di > 0 => IsDeal(deal)
  /\ dealPc \in {"ready", "DEAL", "turn", "suspended", "TRICK", "await", "TAKEN",
                 "SCORE", "TOTAL", "done"}
  /\ it \in 1..End
  /\ dealStarted \in BOOLEAN /\ dealSuspended \in BOOLEAN
  /\ DOMAIN playerFds \subseteq Seats /\ Range(playerFds) \subseteq Fds \cup {Stdin}
  /\ trickDone \in [Seats -> BOOLEAN]
  /\ fdExpectedTrick \in Fds \cup {Stdin, NoFd}
  /\ DOMAIN totalScores \subseteq Seats /\ Range(totalScores) \subseteq Nat
  /\ mtx \in {Unlocked} \cup Senders
  /\ listening \in BOOLEAN /\ acceptPc \in {"poll", "accept", "done"}
  /\ clients \subseteq Fds \cup {Stdin} /\ disconnected \subseteq Fds
  /\ pc \in [Fds -> Places] /\ seat \in [Fds -> Seats \cup {NoSeat}]
  /\ ti \in [Fds -> Nat]
  /\ out \in [Senders -> [kind : {"", "BUSY", "DEAL", "TRICK", "WRONG", "TAKEN",
                                  "SCORE", "TOTAL"},
                          to : Fds \cup {Stdin, NoFd}, deal : Nat, trick : Nat]]
  /\ closed \subseteq Fds
  /\ seen \in [Fds -> [deal : Nat, taken : Nat]]
  /\ drops \in 0..MaxDrops /\ blocks \in 0..MaxBlocks
  /\ aborted \in {"no", "send", "accept", "shutdown", "null"}
-----------------------------------------------------------------------------
\* The game as the rules see it.  The full table of a trick the deal thread has
\* not ended yet is a trick taken; before the first deal its cards are dealt.
Settled ==
  CASE di = 0 -> NewDeal(GameFile[1])
    [] di > 0 /\ Len(deal.cardsOnTable) = Len(PlayerOrder) -> NextTrick(deal)
    [] OTHER -> deal

Rules == INSTANCE HeartsRules WITH
  Deals <- Range(GameFile),
  type <- Settled.type,
  hand <- Settled.currentHand,
  leader <- Settled.firstPlayer,
  table <- Settled.cardsOnTable,
  number <- Settled.currentTrick,
  points <- [s \in Seats |->
               IF s \in DOMAIN Settled.scores THEN Settled.scores[s] ELSE 0]
-----------------------------------------------------------------------------
\* Whatever the clients do and however the threads interleave.

\* Two threads and two connections of one seat never lose or double a card.
CardsConserved == di > 0 => ConservesCards(deal)

\* A seat that changes hands in the middle of a trick still cannot revoke.
NoRevoke == di > 0 => ShowsNoRevoke(deal)

\* The trick goes to the seat of its highest card, even when one seat put two
\* cards into it.
HighestTakes == di > 0 => GivesTricksToHighest(deal)

\* A player thread past handleIAM owns its seat until it leaves: the seat is
\* checked and taken under the lock, and erased by the thread that took it, so
\* no two threads ever play for one seat.
SeatExclusive == \A fd \in Fds : pc[fd] \in Seated =>
  seat[fd] \in DOMAIN playerFds /\ playerFds[seat[fd]] = fd

\* A loop of dealThread over player_fds never goes on from an entry that is gone:
\* a write that blocks gives the lock away, and the thread that erases the entry
\* meanwhile shuts the connection down, so that the write fails.
IteratorValid ==
  dealPc \in {"DEAL", "TAKEN", "SCORE", "TOTAL"} /\ it # End =>
    LET fd == out[DealThread].to IN
    \/ KeyOrder[it] \in DOMAIN playerFds /\ playerFds[KeyOrder[it]] = fd
    \/ fd \in disconnected
-----------------------------------------------------------------------------
\* While no client leaves.

\* Every seat plays one card in a trick, although asks are repeated after a
\* timeout and a late answer may cross the next ask.
OneCardEach == di > 0 => TakesOneCardEach(deal)

\* The threads together play Hearts: the cards the player threads accept, the
\* turns and tricks of the deal thread and the deals the main thread begins are
\* those of the rules, with nothing played twice, out of turn or too late.
PlaysHearts == Rules!Safe

\* The cards on the table and the turn agree: the seats that have played this
\* trick are those from the leader up to the current player.
TurnInStep ==
  dealPc \in {"suspended", "TRICK", "await"} =>
    /\ deal.cardsOnTable # <<>> =>
         OwnerOf(deal, deal.cardsOnTable[1]) = deal.firstPlayer
    /\ trickDone[deal.currentPlayer] <=>
         \E c \in Range(deal.cardsOnTable) : OwnerOf(deal, c) = deal.currentPlayer

\* After each deal the totals of all seats add up to what all deals so far are
\* worth: no trick is scored twice or not at all, no seat is left out, and a
\* deal that ends early has no points left.
WorthOf(f) == Rules!Worth(f.type, UNION Range(f.hands), 1..LastTrick)
TotalsAddUp ==
  dealPc = "done" =>
    SumFunction(totalScores) =
      SumFunction([i \in 1..di |-> WorthOf(GameFile[i])])
-----------------------------------------------------------------------------
\* While at most one client leaves and no write blocks.

\* Only the thread of the seat whose turn it is can have its card accepted.
TurnOwner ==
  \A fd \in Fds : pc[fd] \in Seated /\ fdExpectedTrick = fd => seat[fd] = deal.currentPlayer

\* When a card is awaited, every client at the table has been told of the deal
\* and of every trick taken in it, in order, also one that came back.
TableInformed ==
  dealPc = "await" /\ mtx = Unlocked /\ ~dealSuspended =>
    \A fd \in Fds : pc[fd] \in {"recvTRICK", "handleTRICK"} =>
      seen[fd] = [deal |-> di, taken |-> deal.currentTrick - 1]

\* Until the game is over a suspended deal can go on: a seat is free to be taken,
\* or the client that took it is being told what it missed.
SuspensionEnds ==
  dealSuspended /\ ~gameOver =>
    \/ DOMAIN playerFds # Seats
    \/ \E fd \in Fds : pc[fd] \in CatchingUp
-----------------------------------------------------------------------------
\* Once the game is over the server stops, in whatever place the player threads
\* are and whatever was still being sent.  An accepted connection may yet end
\* the process by an Error; it never hangs.
ShutdownEnds == gameOver ~> (mainPc = "exit" \/ ~Running)
=============================================================================
