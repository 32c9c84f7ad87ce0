---------------------------- MODULE HeartsSystem ----------------------------
(***************************************************************************)
(* The server and its clients: every connection of HeartsServer has a      *)
(* client process behind it and a queue of messages in each direction.     *)
(*                                                                         *)
(* Clients are the program of client.cpp: they send their IAM as soon as   *)
(* they are connected (so the server waits for it in vain only when they   *)
(* are gone) and nothing that does not parse.  An automatic client answers *)
(* the asks it reads; the user of the other clients may type a card at any *)
(* moment.  The IAM is not queued, being the first message of all.         *)
(***************************************************************************)
EXTENDS ServerProperties, HeartsClient

CONSTANTS
  SeatOf,      \* the seat the client of each connection asks for
  Automatic,   \* the connections of automatic clients
  Leavers,     \* the connections whose clients may leave
  MaxPending   \* bound: messages a client has not read when it is asked again

\* A write that blocks would have to keep the text of its message; HeartsServer
\* is checked with such writes, the system is not.  Which cards are named is up
\* to the clients, who count tricks in a byte.
ASSUME SystemAssumption ==
  /\ SeatOf \in [Fds -> Seats] /\ Automatic \subseteq Fds /\ Leavers \subseteq Fds
  /\ MaxPending \in Nat \ {0} /\ MaxBlocks = 0
  /\ Offers = Card /\ LastTrick < 256

VARIABLES
  client,   \* the clients that have connected, by connection
  down,     \* the messages on the way to each client
  up        \* the TRICK messages on the way to the server

ends    == <<client, down, up>>
allVars == <<vars, ends>>

SystemInit ==
  /\ Init
  /\ client = <<>>
  /\ down = [fd \in Fds |-> <<>>]
  /\ up = [fd \in Fds |-> <<>>]

Playing(fd) == fd \in DOMAIN client /\ client[fd].status = "playing"
-----------------------------------------------------------------------------
\* What the message o that a thread is sending says.  It is read when the send ends,
\* where the code fixes it when it calls the send.  Between the two the sender has
\* the lock, so that only NextDeal can change what is read (server.cpp:51): the rest
\* of what a returning client is told of the last deal then shows the new one, whose
\* DEAL is still to come.  No property depends on it.
Content(o) ==
  LET m == [Blank EXCEPT !.kind = o.kind, !.trick = o.trick]
      past == o.trick <= Len(deal.tricksTaken)
  IN  CASE o.kind = "DEAL" ->
             [m EXCEPT !.hand = deal.originalHand[
                CHOOSE s \in DOMAIN playerFds : playerFds[s] = o.to]]
        [] o.kind = "TRICK" -> [m EXCEPT !.cards = deal.cardsOnTable]
        [] o.kind = "TAKEN" ->
             [m EXCEPT !.cards = IF past THEN deal.tricksTaken[o.trick].cards
                                         ELSE deal.cardsOnTable,
                       !.seats = {IF past THEN deal.tricksTaken[o.trick].seat
                                          ELSE deal.highestPlayer}]
        [] o.kind = "BUSY" -> [m EXCEPT !.seats = DOMAIN playerFds]
        [] o.kind = "SCORE" -> [m EXCEPT !.seats = DOMAIN deal.scores]
        [] o.kind = "TOTAL" -> [m EXCEPT !.seats = DOMAIN totalScores]
        [] OTHER -> m

\* The step of thread me that ends its send, if it has one, puts the message into
\* the queue of a client that is there to read it.
Carries(me) ==
  LET o == out[me] IN
  /\ down' = IF o.to \in Fds \ (closed \cup disconnected)
             THEN [down EXCEPT ![o.to] = Append(@, Content(o))]
             ELSE down
  /\ UNCHANGED <<client, up>>

\* The seat is asked again while at most MaxPending messages wait for its client.
AsksAgain ==
  /\ Timeout
  /\ fdExpectedTrick \in Fds => Len(down[fdExpectedTrick]) < MaxPending
  /\ UNCHANGED ends

ServerDeals ==
  \/ (DealReady \/ BeginTurn \/ Answered \/ Resume \/ EndTrick \/ EndDeal) /\ Carries(DealThread)
  \/ (Broadcast \/ BroadcastFails \/ AskSent) /\ Carries(DealThread)
  \/ AsksAgain

\* startAccepting makes a thread for a client that connected.
Arrives ==
  /\ Accept
  /\ LET fd == CHOOSE fd \in clients' \ clients : TRUE
     IN  client' = Insert(client, fd, NewClient)
  /\ UNCHANGED <<down, up>>

ServerAccepts ==
  \/ Arrives
  \/ (PollIn \/ PollHup \/ AcceptFails) /\ UNCHANGED ends

\* The player thread of fd reads and handles what its client has sent.
ServerPlays(fd) ==
  \/ RecvIAM(fd, SeatOf[fd]) /\ UNCHANGED ends
  \/ RecvIAMFails(fd) /\ fd \in closed \cup disconnected /\ UNCHANGED ends
  \/ (HandleIAM(fd) \/ RecvTRICKFails(fd) \/ Fail(fd)) /\ UNCHANGED ends
  \/ (CatchUp(fd) \/ CaughtUp(fd) \/ LeaveIAM(fd) \/ WrongSent(fd)) /\ Carries(fd)
  \/ RecvTRICK(fd) /\ up[fd] # <<>> /\ UNCHANGED ends
  \/ /\ up[fd] # <<>>
     /\ LET m == Head(up[fd])
        IN  HandleTRICK(fd, m.trick, m.card) \/ RefuseTRICK(fd, m.trick, m.card)
     /\ up' = [up EXCEPT ![fd] = Tail(@)]
     /\ UNCHANGED <<client, down>>
-----------------------------------------------------------------------------
\* The clients.

\* handleServer reads a message it does not answer.
Reads(fd) ==
  /\ Playing(fd) /\ down[fd] # <<>>
  /\ fd \in Automatic => ~Asks(client[fd], Head(down[fd]))
  /\ client' = [client EXCEPT ![fd] = Read(@, Head(down[fd]), SeatOf[fd])]
  /\ down' = [down EXCEPT ![fd] = Tail(@)]
  /\ UNCHANGED <<vars, up>>

\* sendTRICK of the trick the server asked for last.
SendsCard(fd, c, card) ==
  /\ client' = [client EXCEPT ![fd] = Play(c, card)]
  /\ up' = [up EXCEPT ![fd] = Append(@, [trick |-> c.serverTrick, card |-> card])]

\* The automatic player answers.
Answers(fd) ==
  /\ fd \in Automatic /\ Playing(fd) /\ down[fd] # <<>>
  /\ Asks(client[fd], Head(down[fd]))
  /\ LET c == Read(client[fd], Head(down[fd]), SeatOf[fd])
     IN  \E card \in AutoCards(c) : SendsCard(fd, c, card)
  /\ down' = [down EXCEPT ![fd] = Tail(@)]
  /\ UNCHANGED vars

\* The user types a card; while nothing new is asked, or without the card in the
\* hand, handleInput only prints a refusal.
Types(fd, card) ==
  /\ fd \notin Automatic /\ Playing(fd)
  /\ MayPlay(client[fd]) /\ card \in DOMAIN client[fd].hand
  /\ SendsCard(fd, client[fd], card)
  /\ UNCHANGED <<vars, down>>

\* The process ends, and its end of the connection is closed with it.
Ends(fd, status) ==
  /\ client' = [client EXCEPT ![fd].status = status]
  /\ UNCHANGED <<down, up>>

\* getRandomCard draws from an empty hand: the index is far outside the string,
\* and the process dies of a signal or of std::out_of_range.
DrawsFromNothing(fd) ==
  /\ fd \in Automatic /\ Playing(fd) /\ down[fd] # <<>>
  /\ Asks(client[fd], Head(down[fd])) /\ DOMAIN client[fd].hand = {}
  /\ closed' = closed \cup {fd}
  /\ Ends(fd, "crashed")
  /\ UNCHANGED <<mainVars, deal, loopVars, gameVars, mtx, acceptVars, netVars,
                 threadVars, out, seen, drops, blocks, aborted>>

\* Everything has been read and the connection is at its end.  The kernel resets
\* it, which is never a success, if the server left something unread.
ConnectionEnds(fd) ==
  /\ Playing(fd) /\ down[fd] = <<>>
  /\ fd \in disconnected \/ mainPc = "exit" \/ ~Running
  /\ \/ Ends(fd, Verdict(client[fd]))
     \/ up[fd] # <<>> /\ Ends(fd, "failure")
  /\ UNCHANGED vars

Leaves(fd) == fd \in Leavers /\ Playing(fd) /\ ClientCloses(fd) /\ Ends(fd, "left")

ClientStep(fd) == Reads(fd) \/ Answers(fd) \/ DrawsFromNothing(fd) \/ ConnectionEnds(fd)
-----------------------------------------------------------------------------
SystemNext ==
  \/ MainStep /\ UNCHANGED ends
  \/ ServerAccepts \/ ServerDeals
  \/ \E fd \in Fds :
       \/ ServerPlays(fd) \/ ClientStep(fd) \/ Leaves(fd)
       \/ \E card \in Card : Types(fd, card)

SystemSpec == SystemInit /\ [][SystemNext]_allVars

\* The server's threads and the clients run, and clients connect.  A player thread
\* that waits for the lock gets it in the end, since the deal thread gives it away
\* for seconds, and a user who may play sooner or later follows suit.
FairSystem ==
  /\ SystemSpec
  /\ WF_allVars(MainStep /\ UNCHANGED ends)
  /\ WF_allVars(ServerAccepts) /\ WF_allVars(ServerDeals)
  /\ SF_allVars(\E fd \in Fds : ServerPlays(fd))
  /\ WF_allVars(\E fd \in Fds : ClientStep(fd))
  /\ SF_allVars(\E fd \in DOMAIN client : \E card \in AutoCards(client[fd]) : Types(fd, card))
=============================================================================
