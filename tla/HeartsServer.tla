---------------------------- MODULE HeartsServer ----------------------------
(***************************************************************************)
(* The game server: class Server with the threads it starts, class         *)
(* ServerNetworker, and the sends of ServerProtocol.                       *)
(*                                                                         *)
(*   main thread      Server::start: one deal after another, then shutdown *)
(*   accept thread    startAccepting: a player thread per connection       *)
(*   deal thread      dealThread: asks the seats and ends the tricks       *)
(*   player threads   playerThread: one per connection, named by its fd    *)
(*                                                                         *)
(* The clients are arbitrary: they connect, take any seat, send any TRICK  *)
(* message or a message the server cannot parse, stay silent, stop         *)
(* reading, and close their connection.                                    *)
(*                                                                         *)
(* A critical section is one step from one send to the next.  mtx says who *)
(* holds Server::mtx between two steps.  A wait on a condition variable is *)
(* the guard of the step that follows it: the code tests it in a loop, and *)
(* every change that makes it true notifies the variable, but for the      *)
(* fourth seat taken by a client whose catching up fails, where the wait   *)
(* of the next deal ends by a spurious wake-up or the next seat taken.     *)
(***************************************************************************)
EXTENDS DealProperties

CONSTANTS
  KeyOrder,   \* the seats in the order of std::map: E, N, S, W
  GameFile,   \* the sequence of deals the game file describes
  Offers,     \* the cards the clients may name in a TRICK message
  MaxConns,   \* bound: connections the clients make
  MaxDrops,   \* bound: connections they close, reset or spoil
  MaxBlocks   \* bound: writes that find the send buffer full

ASSUME ServerAssumption ==
  /\ KeyOrder \in [1..Len(PlayerOrder) -> Seats] /\ Range(KeyOrder) = Seats
  /\ GameFile \in Seq(DealSpec) /\ \A i \in DOMAIN GameFile : ProperDeal(GameFile[i])
  /\ Offers \subseteq Card
  /\ MaxConns \in Nat /\ MaxDrops \in Nat /\ MaxBlocks \in Nat

\* Descriptors: 3 and 4 listen, accept returns the next ones in turn (none is
\* closed before the server exits), 0 is standard input.
Fds == 5..(4 + MaxConns)
Stdin == 0
NoFd == -1

\* Owners of mtx: nobody, the deal thread, or a player thread.
Unlocked == 0
DealThread == 1
Senders == {DealThread} \cup Fds

End == Len(KeyOrder) + 1

VARIABLES
  mainPc, di, gameOver,               \* start: place, deals begun, the flag
  deal,                               \* *currentDeal
  dealPc, it,                         \* dealThread: place, index into KeyOrder
  dealStarted, dealSuspended,         \* the members of Server under mtx
  playerFds, trickDone, fdExpectedTrick, totalScores,
  mtx,
  listening, acceptPc,                \* the listening sockets, startAccepting
  clients, disconnected,              \* the members of ServerNetworker
  pc, seat, ti,                       \* playerThread: place, seat, loop index
  out,                                \* the message a thread is sending
  closed,                             \* connections closed by the client
  seen,                               \* what its client knows of the game
  drops, blocks,                      \* uses of the bounds
  aborted                             \* what ended the process early

mainVars    == <<mainPc, di, gameOver>>
loopVars    == <<dealPc, it>>
gameVars    == <<dealStarted, dealSuspended, playerFds, trickDone,
                 fdExpectedTrick, totalScores>>
acceptVars  == <<listening, acceptPc>>
netVars     == <<clients, disconnected>>
threadVars  == <<pc, seat, ti>>
clientVars  == <<closed, seen, drops, blocks>>

vars == <<mainVars, deal, loopVars, gameVars, mtx, acceptVars, netVars,
          threadVars, out, clientVars, aborted>>

Ignorant == [deal |-> 0, taken |-> 0]
Nothing  == [kind |-> "", to |-> NoFd, deal |-> 0, trick |-> 0]
Message(kind, to, trick) == [kind |-> kind, to |-> to, deal |-> di, trick |-> trick]

Init ==
  /\ mainPc = "next" /\ di = 0 /\ gameOver = FALSE
  /\ deal = <<>>
  /\ dealPc = "done" /\ it = End
  /\ dealStarted = FALSE /\ dealSuspended = FALSE
  /\ playerFds = <<>> /\ trickDone = [s \in Seats |-> FALSE]
  /\ fdExpectedTrick = NoFd /\ totalScores = <<>>
  /\ mtx = Unlocked
  /\ listening = TRUE /\ acceptPc = "poll"
  /\ clients = {} /\ disconnected = {}
  /\ pc = [fd \in Fds |-> "none"] /\ seat = [fd \in Fds |-> NoSeat]
  /\ ti = [fd \in Fds |-> 0]
  /\ out = [s \in Senders |-> Nothing]
  /\ closed = {} /\ seen = [fd \in Fds |-> Ignorant]
  /\ drops = 0 /\ blocks = 0
  /\ aborted = "no"

\* The process has not been terminated by an Error or a signal.
Running == aborted = "no"

\* A thread may take a step of its critical section.
Locks(me) == Running /\ mtx \in {Unlocked, me}

Insert(f, k, v) == [x \in DOMAIN f \cup {k} |-> IF x = k THEN v ELSE f[x]]
Erase(f, k) == [x \in DOMAIN f \ {k} |-> f[x]]
-----------------------------------------------------------------------------
\* The main thread.

\* currentDeal = &deals[i] without the lock, and a thread to play it.
NextDeal ==
  /\ Running /\ mainPc = "next" /\ di < Len(GameFile)
  /\ di' = di + 1 /\ deal' = NewDeal(GameFile[di + 1])
  /\ dealPc' = "ready" /\ mainPc' = "join"
  /\ UNCHANGED <<gameOver, it, gameVars, mtx, acceptVars, netVars, threadVars,
                 out, clientVars, aborted>>

JoinDeal ==
  /\ Running /\ mainPc = "join" /\ dealPc = "done"
  /\ mainPc' = "next"
  /\ UNCHANGED <<di, gameOver, deal, loopVars, gameVars, mtx, acceptVars, netVars,
                 threadVars, out, clientVars, aborted>>

EndGame ==
  /\ Running /\ mainPc = "next" /\ di = Len(GameFile)
  /\ gameOver' = TRUE /\ mainPc' = "stopAccepting"
  /\ UNCHANGED <<di, deal, loopVars, gameVars, mtx, acceptVars, netVars,
                 threadVars, out, clientVars, aborted>>

StopAccepting ==
  /\ Running /\ mainPc = "stopAccepting"
  /\ listening' = FALSE /\ mainPc' = "joinAccept"
  /\ UNCHANGED <<di, gameOver, deal, loopVars, gameVars, mtx, acceptPc, netVars,
                 threadVars, out, clientVars, aborted>>

\* Mutant of ConnectionsToCut: the connections are left alone.
NoConnections == {}

\* disconnectAll shuts down every connection that was ever accepted.
ConnectionsToCut == clients

\* Shutting down a descriptor that is no socket throws: logMessage has put
\* the standard input among the clients.
DisconnectAll ==
  /\ Running /\ mainPc = "joinAccept" /\ acceptPc = "done"
  /\ IF Stdin \in clients
     THEN aborted' = "shutdown" /\ UNCHANGED <<mainPc, disconnected>>
     ELSE /\ disconnected' = disconnected \cup ConnectionsToCut
          /\ mainPc' = "joinClients" /\ UNCHANGED aborted
  /\ UNCHANGED <<di, gameOver, deal, loopVars, gameVars, mtx, acceptVars, clients,
                 threadVars, out, clientVars>>

JoinClients ==
  /\ Running /\ mainPc = "joinClients" /\ \A fd \in Fds : pc[fd] \in {"none", "done"}
  /\ mainPc' = "exit"
  /\ UNCHANGED <<di, gameOver, deal, loopVars, gameVars, mtx, acceptVars, netVars,
                 threadVars, out, clientVars, aborted>>
-----------------------------------------------------------------------------
\* The accept thread.

\* A client connects, and poll reports it.
PollIn ==
  /\ Running /\ acceptPc = "poll" /\ listening
  /\ Cardinality(clients \ {Stdin}) < MaxConns
  /\ acceptPc' = "accept"
  /\ UNCHANGED <<mainVars, deal, loopVars, gameVars, mtx, listening, netVars,
                 threadVars, out, clientVars, aborted>>

PollHup ==
  /\ Running /\ acceptPc = "poll" /\ ~listening
  /\ acceptPc' = "done"
  /\ UNCHANGED <<mainVars, deal, loopVars, gameVars, mtx, listening, netVars,
                 threadVars, out, clientVars, aborted>>

Accept ==
  LET fd == 5 + Cardinality(clients \ {Stdin}) IN
  /\ Running /\ acceptPc = "accept" /\ listening
  /\ clients' = clients \cup {fd} /\ pc' = [pc EXCEPT ![fd] = "recvIAM"]
  /\ acceptPc' = "poll"
  /\ UNCHANGED <<mainVars, deal, loopVars, gameVars, mtx, listening, disconnected,
                 seat, ti, out, clientVars, aborted>>

\* accept after stopAccepting, or getpeername after the client's reset: the
\* Error leaves the thread.
AcceptFails ==
  /\ Running /\ acceptPc = "accept"
  /\ \/ ~listening /\ UNCHANGED drops
     \/ drops < MaxDrops /\ drops' = drops + 1
  /\ aborted' = "accept"
  /\ UNCHANGED <<mainVars, deal, loopVars, gameVars, mtx, acceptVars, netVars,
                 threadVars, out, closed, seen, blocks>>
-----------------------------------------------------------------------------
\* Sending: writen with the lock, then logMessage.

\* logMessage looks the descriptor up with operator[], which adds it.
Logged(fd) == clients \cup {fd}

\* What a client knows once it has read message m.
Hear(know, m) ==
  CASE m.kind = "DEAL" -> [deal |-> m.deal, taken |-> 0]
    [] m.kind = "TAKEN" /\ m.trick = know.taken + 1 -> [know EXCEPT !.taken = @ + 1]
    [] OTHER -> know

\* The write succeeds; a client that has closed may still be written to.
Delivers(me) ==
  LET m == out[me] IN
  /\ out[me] # Nothing /\ Locks(me) /\ m.to \notin disconnected
  /\ clients' = Logged(m.to)
  /\ seen' = [fd \in Fds |-> IF fd = m.to THEN Hear(seen[fd], m) ELSE seen[fd]]

\* It fails: EPIPE or a reset, or standard input open for reading only.
Breaks(me) ==
  /\ out[me] # Nothing /\ Locks(me)
  /\ out[me].to \in closed \cup disconnected \cup {Stdin}
  /\ UNCHANGED <<clients, seen>>

\* The send buffer is full: wait_for releases the lock until the next try.
Blocks(me) ==
  /\ out[me] # Nothing /\ Locks(me)
  /\ out[me].to \in Fds \ disconnected /\ blocks < MaxBlocks
  /\ blocks' = blocks + 1
  /\ mtx' = Unlocked
  /\ UNCHANGED <<mainVars, deal, loopVars, gameVars, acceptVars, netVars,
                 threadVars, out, closed, seen, drops, aborted>>
-----------------------------------------------------------------------------
\* The deal thread.

\* The place in KeyOrder of the next seat of player_fds after place i.
Following(i) ==
  LET rest == {j \in DOMAIN KeyOrder : j > i /\ KeyOrder[j] \in DOMAIN playerFds}
  IN  IF rest = {} THEN End ELSE CHOOSE j \in rest : \A k \in rest : j <= k

\* The loop over player_fds that sends a message of this kind comes to place i.
SendTo(kind, i) ==
  /\ dealPc' = kind /\ it' = i
  /\ out' = [out EXCEPT ![DealThread] =
       IF i = End THEN Nothing
       ELSE Message(kind, playerFds[KeyOrder[i]],
                    IF kind = "TAKEN" THEN deal.currentTrick ELSE 0)]
  /\ mtx' = DealThread

DealReady ==
  /\ Running /\ dealPc = "ready" /\ mtx = Unlocked
  /\ Cardinality(DOMAIN playerFds) = Len(PlayerOrder)
  /\ dealStarted' = TRUE
  /\ SendTo("DEAL", Following(0))
  /\ UNCHANGED <<mainVars, deal, dealSuspended, playerFds, trickDone,
                 fdExpectedTrick, totalScores, acceptVars, netVars, threadVars,
                 clientVars, aborted>>

\* Another message of a loop over player_fds has been sent.
Broadcast ==
  /\ dealPc \in {"DEAL", "TAKEN", "SCORE", "TOTAL"} /\ Delivers(DealThread)
  /\ CASE dealPc = "SCORE" -> SendTo("TOTAL", it)
       [] dealPc = "TOTAL" -> SendTo("SCORE", Following(it))
       [] OTHER -> SendTo(dealPc, Following(it))
  /\ UNCHANGED <<mainVars, deal, gameVars, acceptVars, disconnected, threadVars,
                 closed, drops, blocks, aborted>>

\* Nothing catches the Error of a broadcast.
BroadcastFails ==
  /\ dealPc \in {"DEAL", "TAKEN", "SCORE", "TOTAL"} /\ Breaks(DealThread)
  /\ aborted' = "send"
  /\ UNCHANGED <<mainVars, deal, loopVars, gameVars, mtx, acceptVars, disconnected,
                 threadVars, out, closed, drops, blocks>>

\* player_fds[currentPlayer] inserts descriptor 0 for a seat that is not there.
Ask ==
  LET s  == deal.currentPlayer
      fd == IF s \in DOMAIN playerFds THEN playerFds[s] ELSE Stdin
  IN  /\ playerFds' = Insert(playerFds, s, fd)
      /\ fdExpectedTrick' = fd
      /\ out' = [out EXCEPT ![DealThread] = Message("TRICK", fd, deal.currentTrick)]
      /\ dealPc' = "TRICK"
      /\ mtx' = DealThread

\* Mutant of Unanswered: the answer to the last ask of the seat still counts.
StaleAnswer(s) == trickDone

\* trickDone[s] = false, before s is asked.
Unanswered(s) == [trickDone EXCEPT ![s] = FALSE]

\* The body of the do loop, up to the suspension or the send.
BeginTurn ==
  /\ Running
  /\ \/ dealPc = "DEAL" /\ it = End
     \/ dealPc = "turn"
  /\ trickDone' = Unanswered(deal.currentPlayer)
  /\ IF dealSuspended
     THEN /\ dealPc' = "suspended" /\ mtx' = Unlocked
          /\ UNCHANGED <<playerFds, fdExpectedTrick, out>>
     ELSE Ask
  /\ UNCHANGED <<mainVars, deal, it, dealStarted, dealSuspended, totalScores,
                 acceptVars, netVars, threadVars, clientVars, aborted>>

\* cvTrick.wait_for ends without the card: the turn begins again.
Timeout ==
  /\ Running /\ dealPc = "await" /\ mtx = Unlocked /\ ~trickDone[deal.currentPlayer]
  /\ dealPc' = "turn" /\ mtx' = DealThread
  /\ UNCHANGED <<mainVars, deal, it, gameVars, acceptVars, netVars, threadVars, out,
                 clientVars, aborted>>

\* The current player has played: on to the next one, or to the TAKEN messages.
TurnOver ==
  LET d == NextPlayer(deal) IN
  /\ deal' = d
  /\ IF d.currentPlayer = d.firstPlayer
     THEN SendTo("TAKEN", Following(0))
     ELSE /\ dealPc' = "turn" /\ mtx' = DealThread
          /\ out' = [out EXCEPT ![DealThread] = Nothing]
          /\ UNCHANGED it
  /\ UNCHANGED <<playerFds, fdExpectedTrick>>

\* sendTRICK with its Error caught: either way the wait begins, and it is over
\* at once if the card came while the write was blocked.
AskSent ==
  /\ dealPc = "TRICK"
  /\ Delivers(DealThread) \/ Breaks(DealThread)
  /\ IF trickDone[deal.currentPlayer]
     THEN TurnOver
     ELSE /\ dealPc' = "await" /\ mtx' = Unlocked
          /\ out' = [out EXCEPT ![DealThread] = Nothing]
          /\ UNCHANGED <<deal, it, playerFds, fdExpectedTrick>>
  /\ UNCHANGED <<mainVars, dealStarted, dealSuspended, trickDone, totalScores,
                 acceptVars, disconnected, threadVars, closed, drops, blocks, aborted>>

Answered ==
  /\ Running /\ dealPc = "await" /\ mtx = Unlocked /\ trickDone[deal.currentPlayer]
  /\ TurnOver
  /\ UNCHANGED <<mainVars, dealStarted, dealSuspended, trickDone, totalScores,
                 acceptVars, netVars, threadVars, clientVars, aborted>>

\* The suspension ends; the card may have come meanwhile.
Resume ==
  /\ Running /\ dealPc = "suspended" /\ mtx = Unlocked /\ ~dealSuspended
  /\ IF trickDone[deal.currentPlayer]
     THEN TurnOver
     ELSE Ask /\ UNCHANGED <<deal, it>>
  /\ UNCHANGED <<mainVars, dealStarted, dealSuspended, trickDone, totalScores,
                 acceptVars, netVars, threadVars, clientVars, aborted>>

\* The seats of player_fds are credited; operator[] adds them to both maps.
CreditSeats(totals, scores) ==
  [s \in DOMAIN totals \cup DOMAIN playerFds |->
     (IF s \in DOMAIN totals THEN totals[s] ELSE 0)
     + (IF s \in DOMAIN playerFds \cap DOMAIN scores THEN scores[s] ELSE 0)]

EndTrick ==
  LET d == NextTrick(deal) IN
  /\ Running /\ dealPc = "TAKEN" /\ it = End
  /\ IF IsOver(d) \/ d.currentTrick > LastTrick
     THEN /\ totalScores' = CreditSeats(totalScores, d.scores)
          /\ deal' = [d EXCEPT !.scores = CreditSeats(d.scores, <<>>)]
          /\ SendTo("SCORE", Following(0))
     ELSE deal' = d /\ dealPc' = "turn" /\ UNCHANGED <<totalScores, it, out, mtx>>
  /\ UNCHANGED <<mainVars, dealStarted, dealSuspended, playerFds, trickDone,
                 fdExpectedTrick, acceptVars, netVars, threadVars, clientVars, aborted>>

EndDeal ==
  /\ Running /\ dealPc = "SCORE" /\ it = End
  /\ dealStarted' = FALSE
  /\ dealPc' = "done" /\ mtx' = Unlocked
  /\ UNCHANGED <<mainVars, deal, it, dealSuspended, playerFds, trickDone,
                 fdExpectedTrick, totalScores, acceptVars, netVars, threadVars, out,
                 clientVars, aborted>>
-----------------------------------------------------------------------------
\* The player threads.

\* Mutant of DisconnectOne: the connection is left open.
LeaveOpen(fd) == disconnected

DisconnectOne(fd) == disconnected \cup {fd}

\* The thread disconnects its client and returns; its local variables are gone.
Returns(fd) ==
  /\ disconnected' = DisconnectOne(fd)
  /\ pc' = [pc EXCEPT ![fd] = "done"]
  /\ seat' = [seat EXCEPT ![fd] = NoSeat] /\ ti' = [ti EXCEPT ![fd] = 0]
  /\ seen' = [seen EXCEPT ![fd] = Ignorant]

GoesTo(fd, place) == pc' = [pc EXCEPT ![fd] = place]

Sends(fd, place, kind, trick) ==
  /\ GoesTo(fd, place)
  /\ out' = [out EXCEPT ![fd] = Message(kind, fd, trick)]
  /\ mtx' = fd

RecvIAM(fd, s) ==
  /\ Running /\ pc[fd] = "recvIAM"
  /\ GoesTo(fd, "handleIAM") /\ seat' = [seat EXCEPT ![fd] = s]
  /\ UNCHANGED <<mainVars, deal, loopVars, gameVars, mtx, acceptVars, netVars, ti,
                 out, clientVars, aborted>>

\* Timeout, end of file, or a message that is no IAM.
RecvIAMFails(fd) ==
  /\ Running /\ pc[fd] = "recvIAM"
  /\ Returns(fd)
  /\ UNCHANGED <<mainVars, deal, loopVars, gameVars, mtx, acceptVars, clients, out,
                 closed, drops, blocks, aborted>>

\* Mutant of SeatTaken: the newcomer always gets the seat.
SeatNeverTaken(s) == FALSE

SeatTaken(s) == s \in DOMAIN playerFds

\* The seat is taken, or it is this client's; a suspended deal is told to it.
HandleIAM(fd) ==
  /\ Running /\ pc[fd] = "handleIAM" /\ mtx = Unlocked
  /\ IF SeatTaken(seat[fd])
     THEN Sends(fd, "BUSY", "BUSY", 0) /\ UNCHANGED playerFds
     ELSE /\ playerFds' = Insert(playerFds, seat[fd], fd)
          /\ IF dealSuspended
             THEN Sends(fd, "catchDEAL", "DEAL", 0)
             ELSE GoesTo(fd, "recvTRICK") /\ UNCHANGED <<out, mtx>>
  /\ UNCHANGED <<mainVars, deal, loopVars, dealStarted, dealSuspended, trickDone,
                 fdExpectedTrick, totalScores, acceptVars, netVars, seat, ti,
                 clientVars, aborted>>

\* Mutant of NextToTell: the first trick is skipped.
SecondToTell(fd) == ti[fd] + 1

\* The index in tricksTaken of the next trick a returning client is told of.
NextToTell(fd) == IF pc[fd] = "catchDEAL" THEN 0 ELSE ti[fd] + 1

\* Mutant of AskedOnReturn: whoever returns is asked for a card.
AlwaysAsked(fd) == NextToTell(fd) >= Len(deal.tricksTaken)

\* Told of every trick, a client whose turn it is is asked for its card.
AskedOnReturn(fd) ==
  NextToTell(fd) >= Len(deal.tricksTaken) /\ seat[fd] = deal.currentPlayer

\* The client has the DEAL and ti of the tricks taken: the next one, the card
\* asked of it, or the end of the suspension.
CatchUp(fd) ==
  LET i == NextToTell(fd) IN
  /\ pc[fd] \in {"catchDEAL", "catchTAKEN"} /\ Delivers(fd)
  /\ trickDone' = IF AskedOnReturn(fd) THEN Unanswered(seat[fd]) ELSE trickDone
  /\ fdExpectedTrick' = IF AskedOnReturn(fd) THEN fd ELSE fdExpectedTrick
  /\ IF i < Len(deal.tricksTaken)
     THEN /\ Sends(fd, "catchTAKEN", "TAKEN", i + 1)
          /\ ti' = [ti EXCEPT ![fd] = i]
          /\ UNCHANGED dealSuspended
     ELSE /\ ti' = [ti EXCEPT ![fd] = 0]
          /\ IF AskedOnReturn(fd)
             THEN Sends(fd, "catchTRICK", "TRICK", deal.currentTrick)
                  /\ UNCHANGED dealSuspended
             ELSE /\ dealSuspended' = FALSE
                  /\ out' = [out EXCEPT ![fd] = Nothing]
                  /\ mtx' = Unlocked
                  /\ GoesTo(fd, "recvTRICK")
  /\ UNCHANGED <<mainVars, deal, loopVars, dealStarted, playerFds, totalScores,
                 acceptVars, disconnected, seat, closed, drops, blocks, aborted>>

CaughtUp(fd) ==
  /\ pc[fd] = "catchTRICK" /\ Delivers(fd)
  /\ dealSuspended' = FALSE
  /\ out' = [out EXCEPT ![fd] = Nothing]
  /\ mtx' = Unlocked
  /\ GoesTo(fd, "recvTRICK")
  /\ UNCHANGED <<mainVars, deal, loopVars, dealStarted, playerFds, trickDone,
                 fdExpectedTrick, totalScores, acceptVars, disconnected, seat, ti,
                 closed, drops, blocks, aborted>>

\* A refused client, and one whose catching up fails, leave handleIAM by an
\* Error: playerThread disconnects them and keeps player_fds as it is.  (Between
\* the unlocking and the shutdown nobody writes to the one, and every write to
\* the other fails already.)
LeaveIAM(fd) ==
  /\ out[fd] # Nothing /\ Locks(fd)
  /\ \/ pc[fd] = "BUSY"
        /\ out[fd].to \notin disconnected
     \/ pc[fd] \in {"BUSY", "catchDEAL", "catchTAKEN", "catchTRICK"}
        /\ fd \in closed \cup disconnected
  /\ Returns(fd)
  /\ out' = [out EXCEPT ![fd] = Nothing]
  /\ mtx' = Unlocked
  /\ UNCHANGED <<mainVars, deal, loopVars, gameVars, acceptVars, clients, closed,
                 drops, blocks, aborted>>

RecvTRICK(fd) ==
  /\ Running /\ pc[fd] = "recvTRICK"
  /\ GoesTo(fd, "handleTRICK")
  /\ UNCHANGED <<mainVars, deal, loopVars, gameVars, mtx, acceptVars, netVars, seat,
                 ti, out, clientVars, aborted>>

RecvTRICKFails(fd) ==
  /\ Running /\ pc[fd] = "recvTRICK" /\ fd \in closed \cup disconnected
  /\ GoesTo(fd, "failed")
  /\ UNCHANGED <<mainVars, deal, loopVars, gameVars, mtx, acceptVars, netVars, seat,
                 ti, out, clientVars, aborted>>

\* The lock is taken and no deal is suspended: the message can be handled.
MayHandle(fd) == Running /\ pc[fd] = "handleTRICK" /\ mtx = Unlocked /\ ~dealSuspended

\* Is this the card the server waits for?  Evaluated for the current player.
Expected(fd, trick, card) == fdExpectedTrick = fd /\ IsLegal(deal, trick, card)

\* Mutant of AfterCard: the seat may answer again.
StillExpected(fd) == fd

\* fdExpectedTrick once the card of fd has been accepted.
AfterCard(fd) == NoFd

HandleTRICK(fd, trick, card) ==
  /\ MayHandle(fd) /\ di > 0 /\ Expected(fd, trick, card)
  /\ deal' = PlayCard(deal, card)
  /\ trickDone' = [trickDone EXCEPT ![deal.currentPlayer] = TRUE]
  /\ fdExpectedTrick' = AfterCard(fd)
  /\ GoesTo(fd, "recvTRICK")
  /\ UNCHANGED <<mainVars, loopVars, dealStarted, dealSuspended, playerFds,
                 totalScores, mtx, acceptVars, netVars, seat, ti, out, clientVars,
                 aborted>>

\* WRONG quotes currentDeal->currentTrick, a null pointer before the first deal.
RefuseTRICK(fd, trick, card) ==
  /\ MayHandle(fd)
  /\ IF di = 0
     THEN aborted' = "null" /\ UNCHANGED <<pc, out, mtx>>
     ELSE /\ ~Expected(fd, trick, card)
          /\ Sends(fd, "WRONG", "WRONG", deal.currentTrick)
          /\ UNCHANGED aborted
  /\ UNCHANGED <<mainVars, deal, loopVars, gameVars, acceptVars, netVars, seat, ti,
                 clientVars>>

\* A message tryParseTRICK rejects.
SpoiltTRICK(fd) ==
  /\ MayHandle(fd) /\ drops < MaxDrops
  /\ drops' = drops + 1
  /\ GoesTo(fd, "failed")
  /\ UNCHANGED <<mainVars, deal, loopVars, gameVars, mtx, acceptVars, netVars, seat,
                 ti, out, closed, seen, blocks, aborted>>

WrongSent(fd) ==
  /\ pc[fd] = "WRONG"
  /\ \/ Delivers(fd) /\ GoesTo(fd, "recvTRICK")
     \/ Breaks(fd) /\ GoesTo(fd, "failed")
  /\ out' = [out EXCEPT ![fd] = Nothing]
  /\ mtx' = Unlocked
  /\ UNCHANGED <<mainVars, deal, loopVars, gameVars, acceptVars, disconnected, seat,
                 ti, closed, drops, blocks, aborted>>

\* Mutant of SeatsWithout: the seat of a lost client stays taken.
SeatsKept(fd) == playerFds

SeatsWithout(fd) == Erase(playerFds, seat[fd])

\* The catch of playerThread.
Fail(fd) ==
  /\ Running /\ pc[fd] = "failed" /\ mtx = Unlocked
  /\ dealSuspended' = (dealSuspended \/ (~gameOver /\ dealStarted))
  /\ playerFds' = SeatsWithout(fd)
  /\ Returns(fd)
  /\ UNCHANGED <<mainVars, deal, loopVars, dealStarted, trickDone, fdExpectedTrick,
                 totalScores, mtx, acceptVars, clients, out, closed, drops, blocks,
                 aborted>>
-----------------------------------------------------------------------------
\* A client closes its connection.
ClientCloses(fd) ==
  /\ Running /\ pc[fd] \notin {"none", "done"} /\ fd \notin closed /\ drops < MaxDrops
  /\ closed' = closed \cup {fd} /\ drops' = drops + 1
  /\ UNCHANGED <<mainVars, deal, loopVars, gameVars, mtx, acceptVars, netVars,
                 threadVars, out, seen, blocks, aborted>>

MainStep ==
  NextDeal \/ JoinDeal \/ EndGame \/ StopAccepting \/ DisconnectAll \/ JoinClients
AcceptStep == PollIn \/ PollHup \/ Accept \/ AcceptFails
DealStep ==
  \/ DealReady \/ Broadcast \/ BroadcastFails \/ Blocks(DealThread) \/ BeginTurn \/ AskSent
  \/ Timeout \/ Answered \/ Resume \/ EndTrick \/ EndDeal
PlayerStep(fd) ==
  \/ \E s \in Seats : RecvIAM(fd, s)
  \/ RecvIAMFails(fd) \/ HandleIAM(fd) \/ CatchUp(fd) \/ CaughtUp(fd) \/ LeaveIAM(fd)
  \/ RecvTRICK(fd) \/ RecvTRICKFails(fd)
  \/ \E trick \in 1..LastTrick, card \in Offers :
       HandleTRICK(fd, trick, card) \/ RefuseTRICK(fd, trick, card)
  \/ SpoiltTRICK(fd) \/ WrongSent(fd) \/ Blocks(fd) \/ Fail(fd)

Next ==
  \/ MainStep \/ AcceptStep \/ DealStep
  \/ \E fd \in Fds : PlayerStep(fd) \/ ClientCloses(fd)

Spec == Init /\ [][Next]_vars

\* Every thread that can run does, a wait with a timeout ends, and a read from
\* a connection that is shut down returns.  No client need ever act.
ServerThread(fd) ==
  \/ RecvIAMFails(fd) \/ HandleIAM(fd) \/ CatchUp(fd) \/ CaughtUp(fd) \/ LeaveIAM(fd)
  \/ RecvTRICKFails(fd) \/ WrongSent(fd) \/ Blocks(fd) \/ Fail(fd)
  \/ \E trick \in 1..LastTrick, card \in Offers :
       HandleTRICK(fd, trick, card) \/ RefuseTRICK(fd, trick, card)
FairSpec ==
  /\ Spec
  /\ WF_vars(MainStep) /\ WF_vars(PollHup \/ Accept \/ AcceptFails)
  /\ WF_vars(DealStep) /\ \A fd \in Fds : WF_vars(ServerThread(fd))
=============================================================================
