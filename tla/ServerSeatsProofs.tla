-------------------------- MODULE ServerSeatsProofs -------------------------
(***************************************************************************)
(* Proofs about clients that leave and come back: whose answer is awaited, *)
(* whether a suspended deal can go on, and what a client at the table has  *)
(* been told, and of what type the variables are, for every set of seats,  *)
(* every game file and whatever the clients send.                          *)
(***************************************************************************)
EXTENDS HeartsServerProofs

\* The groups of variables an action leaves alone.
USE DEF mainVars, loopVars, gameVars, acceptVars, netVars, threadVars, clientVars

\* Whose entry a descriptor is: a thread registers under its own seat, and its
\* descriptor stays there until it erases it or is lost while it catches up.
OwnInv ==
  /\ \A s \in DOMAIN playerFds :
       playerFds[s] \in Fds =>
         /\ pc[playerFds[s]] \in Seated \cup {"done"}
         /\ pc[playerFds[s]] \in Seated => seat[playerFds[s]] = s
  /\ fdExpectedTrick \in Fds => pc[fdExpectedTrick] \in Seated \cup {"done"}
  /\ \A fd \in Fds : pc[fd] = "none" => fd \notin closed

\* dealThread runs from NextDeal to JoinDeal, and a deal has started once it has
\* found all seats taken.  Before the first deal nobody is told or asked.
DealInv ==
  /\ mainPc \in {"next", "join"} => ~gameOver
  /\ mainPc # "join" => dealPc = "done"
  /\ dealStarted <=> dealPc \notin {"ready", "done"}
  /\ di = 0 => /\ fdExpectedTrick = NoFd /\ ~dealSuspended
               /\ \A fd \in Fds : pc[fd] \notin CatchingUp

\* The player threads that have lost their client and have not returned yet.
Lost == {fd \in Fds :
  pc[fd] \notin {"none", "done"} /\ (fd \in closed \cup disconnected \/ pc[fd] = "failed")}

AllSeated == Seats \subseteq DOMAIN playerFds

\* At most one client has left: no other is lost while a deal is suspended, so
\* that one seat is free, and only the client that takes it is told the deal.
Once ==
  /\ \A f, g \in Lost : f = g
  /\ drops = 0 => Lost = {} /\ ~dealSuspended
  /\ dealSuspended =>
       /\ Lost = {}
       /\ \E s \in Seats : Seats \ {s} \subseteq DOMAIN playerFds
       /\ ~AllSeated \/ \E fd \in Fds : pc[fd] \in CatchingUp
  /\ \A fd \in Fds : pc[fd] \in CatchingUp => dealSuspended /\ AllSeated
  /\ \A f, g \in Fds : pc[f] \in CatchingUp /\ pc[g] \in CatchingUp => f = g
  /\ dealStarted /\ ~dealSuspended => AllSeated

OnceInv == drops <= 1 /\ ~gameOver => Once

\* As long as no write has blocked, a thread has the lock wherever it sends.
DealSends == {"DEAL", "turn", "TRICK", "TAKEN", "SCORE", "TOTAL"}
PlayerSends == {"BUSY", "WRONG"} \cup CatchingUp
MtxHeld ==
  /\ dealPc \in DealSends => mtx = DealThread
  /\ \A fd \in Fds : pc[fd] \in PlayerSends => mtx = fd
MtxInv == blocks \in Nat /\ (blocks = 0 => MtxHeld)

\* A card is expected of the current player only, who has not played.
Asked ==
  fdExpectedTrick \in Fds /\ pc[fdExpectedTrick] \in Seated =>
    /\ seat[fdExpectedTrick] = deal.currentPlayer
    /\ di > 0 => ~trickDone[deal.currentPlayer]
    /\ dealPc \notin {"TAKEN", "SCORE", "TOTAL"}
OwnerInv == drops = 0 \/ (blocks = 0 /\ di <= 1) => Asked
-----------------------------------------------------------------------------
\* The descriptors are neither the standard input nor a value that means none.
LEMMA Descriptors ==
  /\ Stdin \notin Fds /\ NoFd \notin Fds /\ DealThread \notin Fds /\ Unlocked \notin Fds
  /\ DealThread # Unlocked /\ Fds \subseteq Int
BY ServerAssumption DEF Fds, Stdin, NoFd, DealThread, Unlocked

\* Which of the places are at the table.
LEMMA PlacesSeated ==
  /\ {"recvTRICK", "handleTRICK", "WRONG", "failed", "catchDEAL", "catchTAKEN",
      "catchTRICK"} \subseteq Seated
  /\ {"none", "recvIAM", "handleIAM", "BUSY", "done"} \cap Seated = {}
  /\ CatchingUp \subseteq Seated
  /\ {"recvTRICK", "handleTRICK", "WRONG", "failed", "none", "recvIAM", "handleIAM",
      "BUSY", "done"} \cap CatchingUp = {}
  /\ {"catchDEAL", "catchTAKEN", "catchTRICK"} \subseteq CatchingUp
BY DEF Seated, CatchingUp

\* A new connection is one nothing names yet.
LEMMA AcceptNew ==
  ASSUME SeatInv, ConnInv, OwnInv, Accept
  PROVE  \E fd : /\ pc' = [pc EXCEPT ![fd] = "recvIAM"]
                 /\ fd \notin disconnected
                 /\ fd \in Fds => pc[fd] = "none" /\ fd \notin closed
<1>1. PICK k \in Nat : /\ clients \ {Stdin} = 5..(4 + k)
                       /\ pc' = [pc EXCEPT ![5 + k] = "recvIAM"]
                       /\ 5 + k \notin disconnected
  BY AcceptFresh
<1>2. 5 + k \notin clients
  <2>1. 5 + k \notin 5..(4 + k) /\ 5 + k # Stdin
    BY DEF Stdin
  <2>2. QED
    BY <1>1, <2>1
<1>3. 5 + k \in Fds => pc[5 + k] = "none"
  BY <1>2 DEF ConnInv
<1>4. QED
  BY <1>1, <1>3 DEF OwnInv
-----------------------------------------------------------------------------
\* Entries and the descriptor of which a card is expected.

\* A thread moves on; it is at the table only if it was, and stays there until it
\* ends.
LEMMA MovingKeepsOwn ==
  ASSUME OwnInv, SeatInv, NEW fd \in Fds, NEW place, pc' = [pc EXCEPT ![fd] = place],
         pc[fd] \notin {"none", "done"}, place # "none",
         pc[fd] \in Seated => place \in Seated \cup {"done"},
         place \in Seated => pc[fd] \in Seated /\ seat'[fd] = seat[fd],
         \A f \in Fds \ {fd} : seat'[f] = seat[f], UNCHANGED closed,
         \A s \in DOMAIN playerFds' : s \in DOMAIN playerFds /\ playerFds'[s] = playerFds[s],
         fdExpectedTrick' \in {fdExpectedTrick, NoFd}
           \/ (fdExpectedTrick' = fd /\ place \in Seated)
  PROVE  OwnInv'
<1>1. pc \in [Fds -> Places]
  BY DEF SeatInv
<1>2. \A f \in Fds : pc'[f] = IF f = fd THEN place ELSE pc[f]
  BY <1>1
<1>3. "done" \notin Seated
  BY PlacesSeated
<1>4. ASSUME NEW s \in DOMAIN playerFds', playerFds'[s] \in Fds
      PROVE  /\ pc'[playerFds'[s]] \in Seated \cup {"done"}
             /\ pc'[playerFds'[s]] \in Seated => seat'[playerFds'[s]] = s
  <2>1. /\ s \in DOMAIN playerFds /\ playerFds'[s] = playerFds[s]
        /\ pc[playerFds[s]] \in Seated \cup {"done"}
        /\ pc[playerFds[s]] \in Seated => seat[playerFds[s]] = s
    BY <1>4 DEF OwnInv
  <2>2. QED
    BY <1>2, <1>3, <1>4, <2>1
<1>5. fdExpectedTrick' \in Fds => pc'[fdExpectedTrick'] \in Seated \cup {"done"}
  BY <1>2, Descriptors DEF OwnInv
<1>6. \A f \in Fds : pc'[f] = "none" => f \notin closed'
  BY <1>2 DEF OwnInv
<1>7. QED
  BY <1>4, <1>5, <1>6 DEF OwnInv

\* A thread returns.
LEMMA ReturningKeepsOwn ==
  ASSUME OwnInv, SeatInv, NEW fd \in Fds, Returns(fd), pc[fd] \notin {"none", "done"},
         UNCHANGED <<closed, fdExpectedTrick>>,
         \A s \in DOMAIN playerFds' : s \in DOMAIN playerFds /\ playerFds'[s] = playerFds[s]
  PROVE  OwnInv'
<1>1. pc' = [pc EXCEPT ![fd] = "done"] /\ seat' = [seat EXCEPT ![fd] = NoSeat]
  BY DEF Returns
<1>2. \A f \in Fds \ {fd} : seat'[f] = seat[f]
  BY <1>1 DEF SeatInv
<1>3. QED
  BY <1>1, <1>2, PlacesSeated, MovingKeepsOwn

\* A newcomer is refused, or registers under its own seat.
LEMMA HandleIAMKeepsOwn ==
  ASSUME OwnInv, SeatInv, NEW fd \in Fds, HandleIAM(fd)
  PROVE  OwnInv'
<1>1. /\ pc[fd] = "handleIAM" /\ UNCHANGED <<seat, closed, fdExpectedTrick>>
      /\ pc \in [Fds -> Places] /\ seat[fd] = seat'[fd]
  BY DEF HandleIAM, SeatInv
<1>2. CASE SeatTaken(seat[fd])
  <2>1. pc' = [pc EXCEPT ![fd] = "BUSY"] /\ UNCHANGED playerFds
    BY <1>2 DEF HandleIAM, Sends, GoesTo
  <2>2. QED
    BY <1>1, <2>1, PlacesSeated, MovingKeepsOwn
<1>3. CASE ~SeatTaken(seat[fd])
  <2>1. PICK place \in {"catchDEAL", "recvTRICK"} : pc' = [pc EXCEPT ![fd] = place]
    BY <1>3 DEF HandleIAM, Sends, GoesTo
  <2>2. /\ playerFds' = Insert(playerFds, seat[fd], fd)
        /\ seat[fd] \notin DOMAIN playerFds
    BY <1>3 DEF HandleIAM, SeatTaken
  <2>3. \A f \in Fds : pc'[f] = IF f = fd THEN place ELSE pc[f]
    BY <1>1, <2>1
  <2>4. place \in Seated /\ pc[fd] \notin Seated \cup {"done"} /\ place # "none"
    BY <1>1, <2>1, PlacesSeated
  <2>5. ASSUME NEW s \in DOMAIN playerFds', playerFds'[s] \in Fds
        PROVE  /\ pc'[playerFds'[s]] \in Seated \cup {"done"}
               /\ pc'[playerFds'[s]] \in Seated => seat'[playerFds'[s]] = s
    <3>1. CASE s = seat[fd]
      BY <1>1, <2>2, <2>3, <2>4, <3>1 DEF Insert
    <3>2. CASE s # seat[fd]
      <4>1. s \in DOMAIN playerFds /\ playerFds'[s] = playerFds[s]
        BY <2>2, <3>2 DEF Insert
      <4>2. /\ pc[playerFds[s]] \in Seated \cup {"done"}
            /\ pc[playerFds[s]] \in Seated => seat[playerFds[s]] = s
        BY <2>5, <4>1 DEF OwnInv
      <4>3. playerFds[s] # fd
        BY <2>4, <4>2
      <4>4. QED
        BY <1>1, <2>3, <2>5, <4>1, <4>2, <4>3
    <3>3. QED
      BY <3>1, <3>2
  <2>6. fdExpectedTrick' \in Fds => pc'[fdExpectedTrick'] \in Seated \cup {"done"}
    BY <1>1, <2>3, <2>4 DEF OwnInv
  <2>7. \A f \in Fds : pc'[f] = "none" => f \notin closed'
    BY <1>1, <2>3, <2>4 DEF OwnInv
  <2>8. QED
    BY <2>5, <2>6, <2>7 DEF OwnInv
<1>4. QED
  BY <1>2, <1>3

\* Each step of playerThread.
LEMMA OwnPlayerStep ==
  ASSUME OwnInv, SeatInv, NEW fd \in Fds, PlayerStep(fd)
  PROVE  OwnInv'
<1> DEFINE Kept == UNCHANGED <<seat, closed, playerFds>>
<1>0. /\ pc \in [Fds -> Places] /\ seat \in [Fds -> Seats \cup {NoSeat}]
  BY DEF SeatInv
<1>1. ASSUME NEW place \in Seated, Kept, GoesTo(fd, place), pc[fd] \in Seated,
             fdExpectedTrick' \in {fdExpectedTrick, NoFd, fd}
      PROVE  OwnInv'
  <2>1. place # "none" /\ pc[fd] \notin {"none", "done"} /\ pc' = [pc EXCEPT ![fd] = place]
    BY <1>1, PlacesSeated DEF GoesTo
  <2>2. \A s \in DOMAIN playerFds' : s \in DOMAIN playerFds /\ playerFds'[s] = playerFds[s]
    BY <1>1
  <2>3. QED
    BY <1>1, <2>1, <2>2, MovingKeepsOwn
<1>2. ASSUME NEW s \in Seats, RecvIAM(fd, s) PROVE OwnInv'
  <2>1. /\ pc' = [pc EXCEPT ![fd] = "handleIAM"] /\ pc[fd] = "recvIAM"
        /\ seat' = [seat EXCEPT ![fd] = s]
        /\ UNCHANGED <<closed, playerFds, fdExpectedTrick>>
    BY <1>2 DEF RecvIAM, GoesTo
  <2>2. \A f \in Fds \ {fd} : seat'[f] = seat[f]
    BY <1>0, <2>1
  <2>3. QED
    BY <2>1, <2>2, PlacesSeated, MovingKeepsOwn
<1>3. CASE RecvIAMFails(fd) \/ LeaveIAM(fd)
  <2>1. pc[fd] \notin {"none", "done"} /\ Returns(fd)
        /\ UNCHANGED <<closed, fdExpectedTrick, playerFds>>
    BY <1>3 DEF RecvIAMFails, LeaveIAM
  <2>2. QED
    BY <2>1, ReturningKeepsOwn
<1>4. CASE HandleIAM(fd)
  BY <1>4, HandleIAMKeepsOwn
<1>5. CASE CatchUp(fd)
  <2>1. Kept /\ fdExpectedTrick' \in {fdExpectedTrick, fd} /\ pc[fd] \in Seated
    BY <1>5, PlacesSeated DEF CatchUp
  <2>2. GoesTo(fd, "catchTAKEN") \/ GoesTo(fd, "catchTRICK") \/ GoesTo(fd, "recvTRICK")
    BY <1>5 DEF CatchUp, Sends
  <2>3. QED
    BY <1>1, <2>1, <2>2, PlacesSeated
<1>6. CASE CaughtUp(fd) \/ RecvTRICK(fd) \/ RecvTRICKFails(fd) \/ SpoiltTRICK(fd)
  <2>1. Kept /\ UNCHANGED fdExpectedTrick
        /\ pc[fd] \in {"catchTRICK", "recvTRICK", "handleTRICK"}
    BY <1>6 DEF CaughtUp, RecvTRICK, RecvTRICKFails, SpoiltTRICK, MayHandle
  <2>2. GoesTo(fd, "recvTRICK") \/ GoesTo(fd, "handleTRICK") \/ GoesTo(fd, "failed")
    BY <1>6 DEF CaughtUp, RecvTRICK, RecvTRICKFails, SpoiltTRICK
  <2>3. QED
    BY <1>1, <2>1, <2>2, PlacesSeated
<1>7. ASSUME NEW trick, NEW card, HandleTRICK(fd, trick, card) PROVE OwnInv'
  <2>1. Kept /\ fdExpectedTrick' = NoFd /\ pc[fd] = "handleTRICK" /\ GoesTo(fd, "recvTRICK")
    BY <1>7 DEF HandleTRICK, MayHandle, AfterCard
  <2>2. QED
    BY <1>1, <2>1, PlacesSeated
<1>8. ASSUME NEW trick, NEW card, RefuseTRICK(fd, trick, card) PROVE OwnInv'
  <2>1. Kept /\ UNCHANGED fdExpectedTrick /\ pc[fd] = "handleTRICK"
        /\ (GoesTo(fd, "WRONG") \/ UNCHANGED pc)
    BY <1>8 DEF RefuseTRICK, MayHandle, Sends
  <2>2. CASE GoesTo(fd, "WRONG")
    BY <1>1, <2>1, <2>2, PlacesSeated
  <2>3. CASE UNCHANGED pc
    BY <2>1, <2>3 DEF OwnInv
  <2>4. QED
    BY <2>1, <2>2, <2>3
<1>9. CASE WrongSent(fd)
  <2>1. Kept /\ UNCHANGED fdExpectedTrick /\ pc[fd] = "WRONG"
        /\ (GoesTo(fd, "recvTRICK") \/ GoesTo(fd, "failed"))
    BY <1>9 DEF WrongSent
  <2>2. QED
    BY <1>1, <2>1, PlacesSeated
<1>10. CASE Blocks(fd)
  BY <1>10 DEF Blocks, OwnInv
<1>11. CASE Fail(fd)
  <2>1. pc[fd] = "failed" /\ Returns(fd) /\ UNCHANGED <<closed, fdExpectedTrick>>
        /\ playerFds' = Erase(playerFds, seat[fd])
    BY <1>11 DEF Fail, SeatsWithout
  <2>2. \A s \in DOMAIN playerFds' : s \in DOMAIN playerFds /\ playerFds'[s] = playerFds[s]
    BY <2>1 DEF Erase
  <2>3. QED
    BY <2>1, <2>2, ReturningKeepsOwn
<1>12. QED
  BY <1>2, <1>3, <1>4, <1>5, <1>6, <1>7, <1>8, <1>9, <1>10, <1>11 DEF PlayerStep

\* dealThread expects a card of the entry of the current player.
LEMMA OwnDealStep == OwnInv /\ DealStep => OwnInv'
<1> SUFFICES ASSUME OwnInv, DealStep PROVE OwnInv'
  OBVIOUS
<1>1. ASSUME Ask, UNCHANGED <<pc, seat, closed>> PROVE OwnInv'
  <2>1. PICK fd : /\ fd = IF deal.currentPlayer \in DOMAIN playerFds
                           THEN playerFds[deal.currentPlayer] ELSE Stdin
                  /\ playerFds' = Insert(playerFds, deal.currentPlayer, fd)
                  /\ fdExpectedTrick' = fd
    BY <1>1 DEF Ask
  <2>2. \A s \in DOMAIN playerFds' :
          playerFds'[s] = Stdin \/ (s \in DOMAIN playerFds /\ playerFds'[s] = playerFds[s])
    BY <2>1 DEF Insert
  <2>3. fd = Stdin \/ \E s \in DOMAIN playerFds : fd = playerFds[s]
    BY <2>1
  <2>4. QED
    BY <1>1, <2>1, <2>2, <2>3, Descriptors DEF OwnInv
<1>2. CASE BeginTurn
  BY <1>1, <1>2 DEF BeginTurn, OwnInv
<1>3. CASE Resume
  BY <1>1, <1>3 DEF Resume, TurnOver, OwnInv
<1>4. CASE ~(BeginTurn \/ Resume)
  <2>1. UNCHANGED <<pc, seat, playerFds, fdExpectedTrick, closed>>
    BY <1>4 DEF DealStep, DealReady, Broadcast, BroadcastFails, Blocks, AskSent,
       Timeout, Answered, TurnOver, EndTrick, EndDeal
  <2>2. QED
    BY <2>1 DEF OwnInv
<1>5. QED
  BY <1>2, <1>3, <1>4

\* Every step of the program keeps the entries with their owners.
LEMMA OwnStep == SeatInv /\ ConnInv /\ OwnInv /\ [Next]_vars => OwnInv'
<1> SUFFICES ASSUME SeatInv, ConnInv, OwnInv, [Next]_vars PROVE OwnInv'
  OBVIOUS
<1>0. pc \in [Fds -> Places]
  BY DEF SeatInv
<1>1. CASE MainStep
  BY <1>1 DEF OwnInv, MainStep, NextDeal, JoinDeal, EndGame, StopAccepting,
     DisconnectAll, JoinClients
<1>2. CASE Accept
  <2>1. PICK fd : /\ pc' = [pc EXCEPT ![fd] = "recvIAM"]
                  /\ fd \in Fds => pc[fd] = "none"
    BY <1>2, AcceptNew
  <2>2. UNCHANGED <<seat, playerFds, fdExpectedTrick, closed>>
    BY <1>2 DEF Accept
  <2>3. \A f \in Fds : pc'[f] = IF f = fd THEN "recvIAM" ELSE pc[f]
    BY <1>0, <2>1
  <2>4. "none" \notin Seated \cup {"done"}
    BY PlacesSeated
  <2>5. QED
    BY <2>1, <2>2, <2>3, <2>4 DEF OwnInv
<1>3. CASE PollIn \/ PollHup \/ AcceptFails
  BY <1>3 DEF PollIn, PollHup, AcceptFails, OwnInv
<1>4. CASE \E fd \in Fds : ClientCloses(fd)
  BY <1>4 DEF ClientCloses, OwnInv
<1>5. CASE UNCHANGED vars
  BY <1>5 DEF vars, OwnInv
<1>6. QED
  BY <1>1, <1>2, <1>3, <1>4, <1>5, OwnDealStep, OwnPlayerStep DEF Next, AcceptStep
-----------------------------------------------------------------------------
\* The life of a deal.

\* A step of a player thread suspends a started deal only, and tells and asks
\* clients of a deal that was suspended.
LEMMA DealInvPlayerStep ==
  ASSUME DealInv, SeatInv, TableInv, NEW fd \in Fds, PlayerStep(fd)
  PROVE  DealInv'
<1>1. UNCHANGED <<mainPc, gameOver, dealPc, dealStarted, di>>
  BY DEF PlayerStep, RecvIAM, RecvIAMFails, HandleIAM, CatchUp, CaughtUp, LeaveIAM,
     RecvTRICK, RecvTRICKFails, HandleTRICK, RefuseTRICK, SpoiltTRICK, WrongSent,
     Blocks, Fail
<1>2. ASSUME di = 0
      PROVE  /\ fdExpectedTrick' = NoFd /\ ~dealSuspended'
             /\ \A f \in Fds : pc'[f] \notin CatchingUp
  <2>0. /\ fdExpectedTrick = NoFd /\ ~dealSuspended /\ dealPc = "done" /\ ~dealStarted
        /\ \A f \in Fds : pc[f] \notin CatchingUp
        /\ pc \in [Fds -> Places]
    BY <1>2 DEF DealInv, TableInv, SeatInv
  <2>1. ~CatchUp(fd) /\ ~CaughtUp(fd)
    BY <2>0, PlacesSeated DEF CatchUp, CaughtUp
  <2>2. \A trick \in 1..LastTrick, card \in Offers : ~HandleTRICK(fd, trick, card)
    BY <1>2 DEF HandleTRICK
  <2>3. ~dealSuspended' /\ UNCHANGED fdExpectedTrick
    <3>1. UNCHANGED <<dealSuspended, fdExpectedTrick>> \/ Fail(fd)
      BY <2>1, <2>2 DEF PlayerStep, RecvIAM, RecvIAMFails, HandleIAM, LeaveIAM,
         RecvTRICK, RecvTRICKFails, RefuseTRICK, SpoiltTRICK, WrongSent, Blocks
    <3>2. CASE Fail(fd)
      BY <2>0, <3>2 DEF Fail
    <3>3. QED
      BY <2>0, <3>1, <3>2
  <2>4. pc' = pc \/ \E place : pc' = [pc EXCEPT ![fd] = place] /\ place \notin CatchingUp
    <3>1. pc' = pc \/ \E place \in {"handleIAM", "BUSY", "recvTRICK", "handleTRICK",
                                    "WRONG", "failed", "done"} :
                        pc' = [pc EXCEPT ![fd] = place]
      BY <2>0, <2>1, <2>2 DEF PlayerStep, RecvIAM, RecvIAMFails, HandleIAM, LeaveIAM,
         RecvTRICK, RecvTRICKFails, RefuseTRICK, SpoiltTRICK, WrongSent, Blocks, Fail,
         Returns, GoesTo, Sends
    <3>2. QED
      BY <3>1, PlacesSeated
  <2>5. QED
    BY <2>0, <2>3, <2>4
<1>3. QED
  BY <1>1, <1>2 DEF DealInv

\* dealThread sets dealStarted when the seats are taken and resets it at its end.
LEMMA DealInvDealStep == DealInv /\ TableInv /\ DealStep => DealInv'
<1> SUFFICES ASSUME DealInv, TableInv, DealStep PROVE DealInv'
  OBVIOUS
<1>0. UNCHANGED <<mainPc, gameOver, di, pc, dealSuspended>>
  BY DEF DealStep, DealReady, Broadcast, BroadcastFails, Blocks, BeginTurn, AskSent,
     Timeout, Answered, Resume, EndTrick, EndDeal
<1>1. CASE Blocks(DealThread)
  BY <1>1 DEF Blocks, DealInv
<1>2. CASE ~Blocks(DealThread)
  <2>1. dealPc # "done"
    BY <1>2 DEF DealStep, DealReady, Broadcast, BroadcastFails, BeginTurn, AskSent,
       Timeout, Answered, Resume, EndTrick, EndDeal
  <2>2. di # 0 /\ mainPc = "join"
    BY <2>1 DEF TableInv, DealInv
  <2>3. dealStarted' <=> dealPc' \notin {"ready", "done"}
    BY <1>2 DEF DealInv, DealStep, DealReady, Broadcast, BroadcastFails, BeginTurn, Ask,
       AskSent, TurnOver, Timeout, Answered, Resume, EndTrick, EndDeal, SendTo
  <2>4. QED
    BY <1>0, <2>2, <2>3 DEF DealInv
<1>3. QED
  BY <1>1, <1>2

\* Every step of the program keeps the order of main thread and deal thread.
LEMMA DealInvStep == DealInv /\ SeatInv /\ ConnInv /\ TableInv /\ [Next]_vars => DealInv'
<1> SUFFICES ASSUME DealInv, SeatInv, ConnInv, TableInv, [Next]_vars PROVE DealInv'
  OBVIOUS
<1>1. CASE MainStep
  BY <1>1 DEF DealInv, TableInv, MainStep, NextDeal, JoinDeal, EndGame, StopAccepting,
     DisconnectAll, JoinClients
<1>2. CASE Accept
  <2>1. PICK fd : pc' = [pc EXCEPT ![fd] = "recvIAM"]
    BY <1>2 DEF Accept
  <2>2. \A f \in Fds : pc'[f] = "recvIAM" \/ pc'[f] = pc[f]
    BY <2>1 DEF SeatInv
  <2>3. UNCHANGED <<mainPc, gameOver, dealPc, dealStarted, di, fdExpectedTrick,
                    dealSuspended>>
    BY <1>2 DEF Accept
  <2>4. QED
    BY <2>2, <2>3, PlacesSeated DEF DealInv
<1>3. CASE PollIn \/ PollHup \/ AcceptFails
  BY <1>3 DEF PollIn, PollHup, AcceptFails, DealInv
<1>4. CASE \E fd \in Fds : ClientCloses(fd)
  BY <1>4 DEF ClientCloses, DealInv
<1>5. CASE UNCHANGED vars
  BY <1>5 DEF vars, DealInv
<1>6. QED
  BY <1>1, <1>2, <1>3, <1>4, <1>5, DealInvDealStep, DealInvPlayerStep DEF Next, AcceptStep
-----------------------------------------------------------------------------
\* One departure.

\* A step that moves no player thread and cuts no connection; an ask may add an
\* entry while no deal is suspended.
LEMMA ElsewhereKeepsOnce ==
  ASSUME Once, UNCHANGED <<pc, closed, disconnected, dealSuspended>>,
         drops' = 0 => drops = 0,
         DOMAIN playerFds \subseteq DOMAIN playerFds',
         dealSuspended => UNCHANGED playerFds,
         dealStarted' => dealStarted \/ AllSeated'
  PROVE  Once'
<1>1. Lost' = Lost
  BY DEF Lost
<1>2. AllSeated => AllSeated'
  BY DEF AllSeated
<1>3. dealSuspended => (AllSeated' <=> AllSeated)
  BY DEF AllSeated
<1>4. \A fd \in Fds : pc[fd] \in CatchingUp => dealSuspended
  BY DEF Once
<1>5. QED
  BY <1>1, <1>2, <1>3, <1>4 DEF Once

\* A thread that is not being told the deal moves on; it fails only if its client
\* is lost.
LEMMA MovingKeepsOnce ==
  ASSUME Once, SeatInv, NEW fd \in Fds, NEW place,
         pc' = [pc EXCEPT ![fd] = place], pc[fd] \notin CatchingUp \cup {"none", "done"},
         place \notin CatchingUp, place = "failed" => fd \in Lost,
         \/ UNCHANGED disconnected
         \/ place = "done" /\ disconnected' = disconnected \cup {fd},
         UNCHANGED <<closed, dealSuspended, playerFds, dealStarted, drops>>
  PROVE  Once'
<1>1. \A f \in Fds : pc'[f] = IF f = fd THEN place ELSE pc[f]
  BY DEF SeatInv
<1>2. Lost' \subseteq Lost
  BY <1>1 DEF Lost
<1>3. \A f \in Fds : pc'[f] \in CatchingUp <=> pc[f] \in CatchingUp
  BY <1>1
<1>4. AllSeated' <=> AllSeated
  BY DEF AllSeated
<1>5. QED
  BY <1>2, <1>3, <1>4 DEF Once

\* The client that was told the deal takes part in it: all seats are taken.
LEMMA ToldKeepsOnce ==
  ASSUME Once, SeatInv, NEW fd \in Fds, pc[fd] \in CatchingUp, ~dealSuspended',
         pc' = [pc EXCEPT ![fd] = "recvTRICK"],
         UNCHANGED <<closed, disconnected, playerFds, dealStarted, drops>>
  PROVE  Once'
<1>1. \A f \in Fds : pc'[f] = IF f = fd THEN "recvTRICK" ELSE pc[f]
  BY DEF SeatInv
<1>2. AllSeated' /\ Lost = {} /\ \A f \in Fds : pc[f] \in CatchingUp => f = fd
  BY DEF Once, AllSeated
<1>3. Lost' = {}
  BY <1>1, <1>2, PlacesSeated DEF Lost
<1>4. \A f \in Fds : pc'[f] \notin CatchingUp
  BY <1>1, <1>2, PlacesSeated
<1>5. QED
  BY <1>2, <1>3, <1>4 DEF Once

\* Whoever takes the one free seat of a suspended deal is told the deal.
LEMMA HandleIAMKeepsOnce ==
  ASSUME Once, SeatInv, EntryInv, NEW fd \in Fds, HandleIAM(fd)
  PROVE  Once'
<1>0. /\ pc[fd] = "handleIAM" /\ pc \in [Fds -> Places]
      /\ UNCHANGED <<closed, disconnected, dealSuspended, dealStarted, drops>>
  BY DEF HandleIAM, SeatInv
<1>1. pc[fd] \notin CatchingUp \cup {"none", "done"}
  BY <1>0, PlacesSeated
<1>2. CASE SeatTaken(seat[fd])
  <2>1. pc' = [pc EXCEPT ![fd] = "BUSY"] /\ UNCHANGED playerFds
    BY <1>2 DEF HandleIAM, Sends, GoesTo
  <2>2. QED
    BY <1>0, <1>1, <2>1, PlacesSeated, MovingKeepsOnce
<1>3. CASE ~SeatTaken(seat[fd])
  <2>1. /\ DOMAIN playerFds' = DOMAIN playerFds \cup {seat[fd]}
        /\ seat[fd] \notin DOMAIN playerFds /\ seat[fd] \in Seats
    BY <1>0, <1>3 DEF HandleIAM, SeatTaken, Insert, EntryInv
  <2>2. PICK place \in {"recvTRICK", "catchDEAL"} :
          /\ pc' = [pc EXCEPT ![fd] = place]
          /\ dealSuspended <=> place = "catchDEAL"
    BY <1>3 DEF HandleIAM, Sends, GoesTo
  <2>3. \A f \in Fds : pc'[f] = IF f = fd THEN place ELSE pc[f]
    BY <1>0, <2>2
  <2>4. ~AllSeated
    BY <2>1 DEF AllSeated
  <2>5. \A f \in Fds : pc[f] \notin CatchingUp
    BY <2>4 DEF Once
  <2>6. Lost' \subseteq Lost
    BY <1>0, <1>1, <2>2, <2>3 DEF Lost
  <2>7. dealSuspended => AllSeated'
    BY <2>1 DEF Once, AllSeated
  <2>8. ~dealStarted \/ dealSuspended
    BY <2>4 DEF Once
  <2>9. place \in CatchingUp <=> dealSuspended
    BY <2>2, PlacesSeated
  <2>10. \A f \in Fds : pc'[f] \in CatchingUp => f = fd /\ dealSuspended
    BY <2>3, <2>5, <2>9
  <2>11. dealSuspended => pc'[fd] \in CatchingUp /\ Lost' = {}
    BY <2>3, <2>6, <2>9 DEF Once
  <2>12. dealSuspended => \E s \in Seats : Seats \ {s} \subseteq DOMAIN playerFds'
    BY <2>1 DEF Once
  <2>13. (\A f, g \in Lost' : f = g) /\ (drops = 0 => Lost' = {} /\ ~dealSuspended)
    BY <2>6 DEF Once
  <2>14. QED
    BY <1>0, <2>7, <2>8, <2>10, <2>11, <2>12, <2>13 DEF Once
<1>4. QED
  BY <1>2, <1>3

\* The seat of the client that left is free, and the deal is suspended if it has
\* started.
LEMMA FailKeepsOnce ==
  ASSUME Once, SeatInv, EntryInv, NEW fd \in Fds, Fail(fd), ~gameOver
  PROVE  Once'
<1>1. /\ pc[fd] = "failed" /\ pc' = [pc EXCEPT ![fd] = "done"]
      /\ playerFds' = Erase(playerFds, seat[fd])
      /\ dealSuspended' = (dealSuspended \/ dealStarted)
      /\ disconnected' = disconnected \cup {fd} /\ UNCHANGED <<closed, dealStarted, drops>>
  BY DEF Fail, Returns, SeatsWithout, DisconnectOne
<1>2. fd \in Lost
  BY <1>1 DEF Lost
<1>3. drops # 0 /\ ~dealSuspended /\ (\A f \in Fds : pc[f] \notin CatchingUp)
      /\ (dealStarted => AllSeated) /\ \A f \in Lost : f = fd
  BY <1>2 DEF Once
<1>4. \A f \in Fds : pc'[f] = IF f = fd THEN "done" ELSE pc[f]
  BY <1>1 DEF SeatInv
<1>5. Lost' = {}
  BY <1>1, <1>3, <1>4 DEF Lost
<1>6. seat[fd] \in Seats
  BY <1>1, PlacesSeated DEF SeatInv, SeatExclusive, EntryInv
<1>7. /\ ~AllSeated'
      /\ dealStarted => Seats \ {seat[fd]} \subseteq DOMAIN playerFds'
  BY <1>1, <1>3, <1>6 DEF Erase, AllSeated
<1>8. \A f \in Fds : pc'[f] \notin CatchingUp
  BY <1>3, <1>4, PlacesSeated
<1>9. QED
  BY <1>1, <1>3, <1>5, <1>6, <1>7, <1>8 DEF Once

\* Each step of playerThread.
LEMMA OncePlayerStep ==
  ASSUME Once, SeatInv, EntryInv, ConnInv, drops \in Nat, drops' <= 1, ~gameOver,
         NEW fd \in Fds, PlayerStep(fd)
  PROVE  Once'
<1> DEFINE Kept == UNCHANGED <<closed, dealSuspended, playerFds, dealStarted, drops>>
<1>0. pc \in [Fds -> Places]
  BY DEF SeatInv
<1>1. ASSUME NEW place, GoesTo(fd, place), Kept, UNCHANGED disconnected,
             pc[fd] \notin CatchingUp \cup {"none", "done"}, place \notin CatchingUp,
             place = "failed" => fd \in Lost
      PROVE  Once'
  BY <1>1, MovingKeepsOnce DEF GoesTo
<1>2. CASE \E s \in Seats : RecvIAM(fd, s)
  BY <1>1, <1>2, PlacesSeated DEF RecvIAM
<1>3. CASE RecvIAMFails(fd) \/ LeaveIAM(fd)
  <2>1. Kept /\ Returns(fd) /\ pc[fd] \notin {"none", "done"}
    BY <1>3 DEF RecvIAMFails, LeaveIAM
  <2>2. pc[fd] \notin CatchingUp
    <3>1. CASE pc[fd] \in CatchingUp
      <4>1. fd \in closed \cup disconnected
        BY <1>3, <3>1, PlacesSeated DEF RecvIAMFails, LeaveIAM
      <4>2. fd \in Lost
        BY <2>1, <4>1 DEF Lost
      <4>3. QED
        BY <3>1, <4>2 DEF Once
    <3>2. QED
      BY <3>1
  <2>3. pc' = [pc EXCEPT ![fd] = "done"] /\ disconnected' = disconnected \cup {fd}
    BY <2>1 DEF Returns, DisconnectOne
  <2>4. QED
    BY <2>1, <2>2, <2>3, PlacesSeated, MovingKeepsOnce
<1>4. CASE HandleIAM(fd)
  BY <1>4, HandleIAMKeepsOnce
<1>5. CASE CatchUp(fd)
  <2>1. pc[fd] \in CatchingUp
    BY <1>5, PlacesSeated DEF CatchUp
  <2>2. UNCHANGED <<closed, disconnected, playerFds, dealStarted, drops>>
    BY <1>5 DEF CatchUp
  <2>3. CASE GoesTo(fd, "recvTRICK") /\ ~dealSuspended'
    BY <2>1, <2>2, <2>3, ToldKeepsOnce DEF GoesTo
  <2>4. ASSUME NEW place \in CatchingUp, GoesTo(fd, place), UNCHANGED dealSuspended
        PROVE  Once'
    <3>1. \A f \in Fds : pc'[f] = IF f = fd THEN place ELSE pc[f]
      BY <1>0, <2>4 DEF GoesTo
    <3>2. \A f \in Fds : pc'[f] \in CatchingUp <=> pc[f] \in CatchingUp
      BY <2>1, <3>1
    <3>3. Lost' \subseteq Lost
      BY <2>1, <2>2, <3>1, PlacesSeated DEF Lost
    <3>4. AllSeated' <=> AllSeated
      BY <2>2 DEF AllSeated
    <3>5. QED
      BY <2>2, <2>4, <3>2, <3>3, <3>4 DEF Once
  <2>5. \/ \E place \in {"catchTAKEN", "catchTRICK"} :
             GoesTo(fd, place) /\ UNCHANGED dealSuspended
        \/ GoesTo(fd, "recvTRICK") /\ ~dealSuspended'
    BY <1>5 DEF CatchUp, Sends
  <2>6. QED
    BY <2>3, <2>4, <2>5, PlacesSeated
<1>6. CASE CaughtUp(fd)
  BY <1>6, PlacesSeated, ToldKeepsOnce DEF CaughtUp, GoesTo
<1>7. CASE RecvTRICK(fd)
  BY <1>1, <1>7, PlacesSeated DEF RecvTRICK
<1>8. CASE RecvTRICKFails(fd)
  BY <1>1, <1>8, PlacesSeated DEF RecvTRICKFails, Lost
<1>9. ASSUME NEW trick, NEW card, HandleTRICK(fd, trick, card) PROVE Once'
  BY <1>1, <1>9, PlacesSeated DEF HandleTRICK, MayHandle
<1>10. ASSUME NEW trick, NEW card, RefuseTRICK(fd, trick, card) PROVE Once'
  <2>1. Kept /\ UNCHANGED disconnected /\ pc[fd] = "handleTRICK"
        /\ (GoesTo(fd, "WRONG") \/ UNCHANGED pc)
    BY <1>10 DEF RefuseTRICK, MayHandle, Sends
  <2>2. CASE UNCHANGED pc
    BY <2>1, <2>2, ElsewhereKeepsOnce
  <2>3. QED
    BY <1>1, <2>1, <2>2, PlacesSeated
<1>11. CASE SpoiltTRICK(fd)
  <2>1. /\ pc[fd] = "handleTRICK" /\ ~dealSuspended /\ drops' = drops + 1
        /\ pc' = [pc EXCEPT ![fd] = "failed"]
        /\ UNCHANGED <<closed, disconnected, dealSuspended, playerFds, dealStarted>>
    BY <1>11 DEF SpoiltTRICK, MayHandle, GoesTo
  <2>2. drops = 0 /\ Lost = {}
    BY <2>1 DEF Once
  <2>3. \A f \in Fds : pc'[f] = IF f = fd THEN "failed" ELSE pc[f]
    BY <1>0, <2>1
  <2>4. Lost' \subseteq {fd}
    BY <2>1, <2>2, <2>3 DEF Lost
  <2>5. \A f \in Fds : pc'[f] \notin CatchingUp
    BY <2>1, <2>3, PlacesSeated DEF Once
  <2>6. AllSeated' <=> AllSeated
    BY <2>1 DEF AllSeated
  <2>7. QED
    BY <2>1, <2>2, <2>4, <2>5, <2>6 DEF Once
<1>12. CASE WrongSent(fd)
  <2>1. Kept /\ UNCHANGED disconnected /\ pc[fd] = "WRONG"
    BY <1>12 DEF WrongSent
  <2>2. CASE GoesTo(fd, "recvTRICK")
    BY <1>1, <2>1, <2>2, PlacesSeated
  <2>3. CASE Breaks(fd) /\ GoesTo(fd, "failed")
    <3>1. fd \in closed \cup disconnected
      BY <2>3, Descriptors DEF Breaks, ConnInv
    <3>2. fd \in Lost
      BY <2>1, <3>1 DEF Lost
    <3>3. QED
      BY <1>1, <2>1, <2>3, <3>2, PlacesSeated
  <2>4. QED
    BY <1>12, <2>2, <2>3 DEF WrongSent
<1>13. CASE Blocks(fd)
  BY <1>13, ElsewhereKeepsOnce DEF Blocks
<1>14. CASE Fail(fd)
  BY <1>14, FailKeepsOnce
<1>15. QED
  BY <1>2, <1>3, <1>4, <1>5, <1>6, <1>7, <1>8, <1>9, <1>10, <1>11, <1>12, <1>13, <1>14
  DEF PlayerStep

\* Every seat taken is what dealThread waits for.
LEMMA FullTable ==
  ASSUME DOMAIN playerFds \subseteq Seats,
         Cardinality(DOMAIN playerFds) = Len(PlayerOrder)
  PROVE  AllSeated
<1>1. IsFiniteSet(Seats) /\ Cardinality(Seats) = Len(PlayerOrder)
  BY SeatsFinite, SeatsCounted DEF Players
<1>2. DOMAIN playerFds = Seats
  BY <1>1, FS_Subset, Zenon
<1>3. QED
  BY <1>2 DEF AllSeated

\* No step of dealThread leaves the entries short.
LEMMA OnceDealStep ==
  ASSUME Once, EntryInv, DealStep
  PROVE  Once'
<1>0. UNCHANGED <<pc, closed, disconnected, dealSuspended, drops>>
  BY DEF DealStep, DealReady, Broadcast, BroadcastFails, Blocks, BeginTurn, AskSent,
     Timeout, Answered, Resume, EndTrick, EndDeal
<1>1. CASE DealReady
  <2>1. AllSeated /\ UNCHANGED playerFds
    BY <1>1, FullTable DEF DealReady, EntryInv
  <2>2. QED
    BY <1>0, <2>1, ElsewhereKeepsOnce DEF AllSeated
<1>2. ASSUME Ask, ~dealSuspended, UNCHANGED dealStarted PROVE Once'
  <2>1. DOMAIN playerFds \subseteq DOMAIN playerFds'
    BY <1>2 DEF Ask, Insert
  <2>2. QED
    BY <1>0, <1>2, <2>1, ElsewhereKeepsOnce
<1>3. CASE BeginTurn
  BY <1>0, <1>2, <1>3, ElsewhereKeepsOnce DEF BeginTurn
<1>4. CASE Resume
  BY <1>0, <1>2, <1>4, ElsewhereKeepsOnce DEF Resume, TurnOver
<1>5. CASE ~(DealReady \/ BeginTurn \/ Resume)
  <2>1. UNCHANGED playerFds /\ (dealStarted' => dealStarted)
    BY <1>5 DEF DealStep, Broadcast, BroadcastFails, Blocks, AskSent, Timeout, Answered,
       TurnOver, EndTrick, EndDeal
  <2>2. QED
    BY <1>0, <2>1, ElsewhereKeepsOnce
<1>6. QED
  BY <1>1, <1>3, <1>4, <1>5

\* Every step of the program up to the second departure.
LEMMA OnceStep ==
  ASSUME OnceInv, SeatInv, EntryInv, ConnInv, PeaceInv, OwnInv, [Next]_vars
  PROVE  OnceInv'
<1> SUFFICES ASSUME drops' <= 1, ~gameOver' PROVE Once'
  BY DEF OnceInv
<1>1. drops \in Nat /\ (drops' = drops \/ drops' = drops + 1) /\ (drops' = 0 => drops = 0)
  BY DropsGrow DEF PeaceInv
<1>2. ~gameOver
  BY DEF Next, vars, MainStep, NextDeal, JoinDeal, EndGame, StopAccepting, DisconnectAll,
     JoinClients, AcceptStep, PollIn, PollHup, Accept, AcceptFails, DealStep,
     DealReady, Broadcast, BroadcastFails, Blocks, BeginTurn, AskSent, Timeout,
     Answered, Resume, EndTrick, EndDeal, PlayerStep, RecvIAM, RecvIAMFails,
     HandleIAM, CatchUp, CaughtUp, LeaveIAM, RecvTRICK, RecvTRICKFails,
     HandleTRICK, RefuseTRICK, SpoiltTRICK, WrongSent, Fail, ClientCloses
<1>3. Once
  BY <1>1, <1>2 DEF OnceInv
<1>4. CASE MainStep
  BY <1>2, <1>3, <1>4, ElsewhereKeepsOnce
  DEF PeaceInv, MainStep, NextDeal, JoinDeal, EndGame, StopAccepting, DisconnectAll,
      JoinClients
<1>5. CASE Accept
  <2>1. PICK fd : /\ pc' = [pc EXCEPT ![fd] = "recvIAM"] /\ fd \notin disconnected
                  /\ fd \in Fds => pc[fd] = "none" /\ fd \notin closed
    BY <1>5, AcceptNew
  <2>2. UNCHANGED <<closed, disconnected, dealSuspended, playerFds, dealStarted, drops>>
    BY <1>5 DEF Accept
  <2>3. \A f \in Fds : pc'[f] = IF f = fd THEN "recvIAM" ELSE pc[f]
    BY <2>1 DEF SeatInv
  <2>4. Lost' \subseteq Lost
    BY <2>1, <2>2, <2>3 DEF Lost
  <2>5. \A f \in Fds : pc'[f] \in CatchingUp <=> pc[f] \in CatchingUp
    BY <2>1, <2>3, PlacesSeated
  <2>6. AllSeated' <=> AllSeated
    BY <2>2 DEF AllSeated
  <2>7. QED
    BY <1>3, <2>2, <2>4, <2>5, <2>6 DEF Once
<1>6. CASE PollIn \/ PollHup \/ AcceptFails
  BY <1>1, <1>3, <1>6, ElsewhereKeepsOnce DEF PollIn, PollHup, AcceptFails
<1>7. ASSUME NEW fd \in Fds, ClientCloses(fd) PROVE Once'
  <2>1. /\ closed' = closed \cup {fd} /\ drops' = drops + 1
        /\ UNCHANGED <<pc, disconnected, dealSuspended, playerFds, dealStarted>>
    BY <1>7 DEF ClientCloses
  <2>2. drops = 0 /\ Lost = {} /\ ~dealSuspended
    BY <1>1, <1>3, <2>1 DEF Once
  <2>3. Lost' \subseteq {fd}
    BY <2>1, <2>2 DEF Lost
  <2>4. AllSeated' <=> AllSeated
    BY <2>1 DEF AllSeated
  <2>5. QED
    BY <1>3, <2>1, <2>2, <2>3, <2>4 DEF Once
<1>8. CASE UNCHANGED vars
  BY <1>3, <1>8, ElsewhereKeepsOnce DEF vars
<1>9. QED
  BY <1>1, <1>2, <1>3, <1>4, <1>5, <1>6, <1>7, <1>8, OnceDealStep, OncePlayerStep
  DEF Next, AcceptStep
-----------------------------------------------------------------------------
\* The lock while no write blocks.

\* Which of the places send.
LEMMA PlacesSending ==
  /\ {"BUSY", "WRONG", "catchDEAL", "catchTAKEN", "catchTRICK"} \subseteq PlayerSends
  /\ {"none", "recvIAM", "handleIAM", "recvTRICK", "handleTRICK", "failed", "done"}
       \cap PlayerSends = {}
  /\ CatchingUp \subseteq PlayerSends
BY DEF PlayerSends, CatchingUp

\* The count of full buffers only grows.
LEMMA BlocksGrow ==
  ASSUME blocks \in Nat, [Next]_vars
  PROVE  blocks' \in Nat /\ (blocks' = 0 => blocks = 0)
<1>1. blocks' = blocks \/ blocks' = blocks + 1
  <2>1. CASE MainStep
    BY <2>1 DEF MainStep, NextDeal, JoinDeal, EndGame, StopAccepting, DisconnectAll,
       JoinClients
  <2>2. CASE AcceptStep
    BY <2>2 DEF AcceptStep, PollIn, PollHup, Accept, AcceptFails
  <2>3. CASE DealStep
    BY <2>3 DEF DealStep, DealReady, Broadcast, BroadcastFails, Blocks, BeginTurn,
       AskSent, Timeout, Answered, Resume, EndTrick, EndDeal
  <2>4. ASSUME NEW fd \in Fds, PlayerStep(fd) PROVE blocks' = blocks \/ blocks' = blocks + 1
    BY <2>4 DEF PlayerStep, RecvIAM, RecvIAMFails, HandleIAM, CatchUp, CaughtUp,
       LeaveIAM, RecvTRICK, RecvTRICKFails, HandleTRICK, RefuseTRICK, SpoiltTRICK,
       WrongSent, Blocks, Fail
  <2>5. CASE \E fd \in Fds : ClientCloses(fd)
    BY <2>5 DEF ClientCloses
  <2>6. CASE UNCHANGED vars
    BY <2>6 DEF vars
  <2>7. QED
    BY <2>1, <2>2, <2>3, <2>4, <2>5, <2>6 DEF Next
<1>2. QED
  BY <1>1

\* A step of a player thread is one of three: it needs no lock, or it takes the
\* lock and sends, or it had the lock, and goes on sending or gives it back.
LEMMA MtxPlayerStep ==
  ASSUME MtxHeld, SeatInv, NEW fd \in Fds, PlayerStep(fd), blocks' = blocks,
         blocks \in Nat
  PROVE  MtxHeld'
<1>0. /\ pc \in [Fds -> Places] /\ UNCHANGED dealPc
  BY DEF SeatInv, PlayerStep, RecvIAM, RecvIAMFails, HandleIAM, CatchUp, CaughtUp,
     LeaveIAM, RecvTRICK, RecvTRICKFails, HandleTRICK, RefuseTRICK, SpoiltTRICK,
     WrongSent, Blocks, Fail
<1>1. ASSUME NEW place, pc' = [pc EXCEPT ![fd] = place], UNCHANGED mtx,
             place \notin PlayerSends
      PROVE  MtxHeld'
  BY <1>0, <1>1 DEF MtxHeld
<1>2. ASSUME NEW place, pc' = [pc EXCEPT ![fd] = place], mtx' = fd,
             mtx = Unlocked \/ pc[fd] \in PlayerSends
      PROVE  MtxHeld'
  <2>1. mtx # DealThread /\ \A f \in Fds \ {fd} : mtx # f
    BY <1>2, Descriptors DEF MtxHeld
  <2>2. QED
    BY <1>0, <1>2, <2>1 DEF MtxHeld
<1>3. ASSUME NEW place, pc' = [pc EXCEPT ![fd] = place], mtx' = Unlocked,
             pc[fd] \in PlayerSends, place \notin PlayerSends
      PROVE  MtxHeld'
  <2>1. mtx = fd
    BY <1>3 DEF MtxHeld
  <2>2. QED
    BY <1>0, <1>3, <2>1, Descriptors DEF MtxHeld
<1>4. CASE \E s \in Seats : RecvIAM(fd, s)
  BY <1>1, <1>4, PlacesSending DEF RecvIAM, GoesTo
<1>5. CASE RecvIAMFails(fd) \/ Fail(fd)
  <2>1. pc' = [pc EXCEPT ![fd] = "done"] /\ UNCHANGED mtx
    BY <1>5 DEF RecvIAMFails, Fail, Returns
  <2>2. QED
    BY <1>1, <2>1, PlacesSending
<1>6. CASE HandleIAM(fd)
  <2>1. mtx = Unlocked
    BY <1>6 DEF HandleIAM
  <2>2. \/ \E place : pc' = [pc EXCEPT ![fd] = place] /\ mtx' = fd
        \/ pc' = [pc EXCEPT ![fd] = "recvTRICK"] /\ UNCHANGED mtx
    BY <1>6 DEF HandleIAM, Sends, GoesTo
  <2>3. QED
    BY <1>1, <1>2, <2>1, <2>2, PlacesSending
<1>7. CASE CatchUp(fd) \/ CaughtUp(fd)
  <2>1. pc[fd] \in PlayerSends
    BY <1>7, PlacesSending DEF CatchUp, CaughtUp
  <2>2. \/ \E place : pc' = [pc EXCEPT ![fd] = place] /\ mtx' = fd
        \/ pc' = [pc EXCEPT ![fd] = "recvTRICK"] /\ mtx' = Unlocked
    BY <1>7 DEF CatchUp, CaughtUp, Sends, GoesTo
  <2>3. QED
    BY <1>2, <1>3, <2>1, <2>2, PlacesSending
<1>8. CASE LeaveIAM(fd)
  <2>1. pc[fd] \in PlayerSends /\ pc' = [pc EXCEPT ![fd] = "done"] /\ mtx' = Unlocked
    BY <1>8, PlacesSending DEF LeaveIAM, Returns
  <2>2. QED
    BY <1>3, <2>1, PlacesSending
<1>9. CASE RecvTRICK(fd) \/ RecvTRICKFails(fd) \/ SpoiltTRICK(fd)
  BY <1>1, <1>9, PlacesSending DEF RecvTRICK, RecvTRICKFails, SpoiltTRICK, GoesTo
<1>10. ASSUME NEW trick, NEW card, HandleTRICK(fd, trick, card) PROVE MtxHeld'
  BY <1>1, <1>10, PlacesSending DEF HandleTRICK, GoesTo
<1>11. ASSUME NEW trick, NEW card, RefuseTRICK(fd, trick, card) PROVE MtxHeld'
  <2>1. mtx = Unlocked
    BY <1>11 DEF RefuseTRICK, MayHandle
  <2>2. \/ pc' = [pc EXCEPT ![fd] = "WRONG"] /\ mtx' = fd
        \/ UNCHANGED <<pc, mtx>>
    BY <1>11 DEF RefuseTRICK, Sends, GoesTo
  <2>3. QED
    BY <1>0, <1>2, <2>1, <2>2 DEF MtxHeld
<1>12. CASE WrongSent(fd)
  <2>1. /\ pc[fd] \in PlayerSends /\ mtx' = Unlocked
        /\ \E place \in {"recvTRICK", "failed"} : pc' = [pc EXCEPT ![fd] = place]
    BY <1>12, PlacesSending DEF WrongSent, GoesTo
  <2>2. QED
    BY <1>3, <2>1, PlacesSending
<1>13. CASE Blocks(fd)
  BY <1>13 DEF Blocks
<1>14. QED
  BY <1>4, <1>5, <1>6, <1>7, <1>8, <1>9, <1>10, <1>11, <1>12, <1>13 DEF PlayerStep

\* dealThread takes the free lock, and gives it back to wait.
LEMMA MtxDealStep ==
  ASSUME MtxHeld, DealStep, blocks' = blocks, blocks \in Nat
  PROVE  MtxHeld'
<1>0. UNCHANGED pc
  BY DEF DealStep, DealReady, Broadcast, BroadcastFails, Blocks, BeginTurn, AskSent,
     Timeout, Answered, Resume, EndTrick, EndDeal
<1>1. ASSUME mtx \in {Unlocked, DealThread},
             mtx' = DealThread \/ (mtx' = Unlocked /\ dealPc' \notin DealSends)
      PROVE  MtxHeld'
  <2>1. \A fd \in Fds : pc[fd] \notin PlayerSends
    BY <1>1, Descriptors DEF MtxHeld
  <2>2. QED
    BY <1>0, <1>1, <2>1 DEF MtxHeld
<1>2. {"await", "suspended", "done"} \cap DealSends = {}
      /\ {"DEAL", "turn", "TRICK", "TAKEN", "SCORE", "TOTAL"} \subseteq DealSends
  BY DEF DealSends
<1>3. CASE DealReady \/ Broadcast \/ Timeout
  <2>1. mtx \in {Unlocked, DealThread} /\ mtx' = DealThread
    BY <1>3 DEF DealReady, Broadcast, Timeout, Delivers, Locks, SendTo
  <2>2. QED
    BY <1>1, <2>1
<1>4. CASE BroadcastFails
  BY <1>4 DEF BroadcastFails, MtxHeld
<1>5. CASE Blocks(DealThread)
  BY <1>5 DEF Blocks
<1>6. ASSUME TurnOver, mtx \in {Unlocked, DealThread} PROVE MtxHeld'
  <2>1. mtx' = DealThread
    BY <1>6 DEF TurnOver, SendTo
  <2>2. QED
    BY <1>1, <1>6, <2>1
<1>7. CASE BeginTurn
  <2>1. mtx = DealThread
    BY <1>2, <1>7 DEF BeginTurn, MtxHeld
  <2>2. mtx' = DealThread \/ (mtx' = Unlocked /\ dealPc' = "suspended")
    BY <1>7 DEF BeginTurn, Ask
  <2>3. QED
    BY <1>1, <1>2, <2>1, <2>2
<1>8. CASE AskSent
  <2>1. mtx = DealThread
    BY <1>2, <1>8 DEF AskSent, MtxHeld
  <2>2. TurnOver \/ (dealPc' = "await" /\ mtx' = Unlocked)
    BY <1>8 DEF AskSent
  <2>3. QED
    BY <1>1, <1>2, <1>6, <2>1, <2>2
<1>9. CASE Answered
  BY <1>6, <1>9 DEF Answered
<1>10. CASE Resume
  BY <1>1, <1>6, <1>10 DEF Resume, Ask
<1>11. CASE EndTrick
  <2>1. mtx = DealThread
    BY <1>2, <1>11 DEF EndTrick, MtxHeld
  <2>2. mtx' = DealThread
    BY <1>11, <2>1 DEF EndTrick, SendTo
  <2>3. QED
    BY <1>1, <2>1, <2>2
<1>12. CASE EndDeal
  <2>1. mtx = DealThread
    BY <1>2, <1>12 DEF EndDeal, MtxHeld
  <2>2. QED
    BY <1>1, <1>2, <1>12, <2>1 DEF EndDeal
<1>13. QED
  BY <1>3, <1>4, <1>5, <1>7, <1>8, <1>9, <1>10, <1>11, <1>12 DEF DealStep

\* Every step of the program until the first full buffer.
LEMMA MtxStep == MtxInv /\ SeatInv /\ ConnInv /\ [Next]_vars => MtxInv'
<1> SUFFICES ASSUME MtxInv, SeatInv, ConnInv, [Next]_vars PROVE MtxInv'
  OBVIOUS
<1>1. blocks \in Nat /\ blocks' \in Nat /\ (blocks' = 0 => blocks = 0)
  BY BlocksGrow DEF MtxInv
<1> SUFFICES ASSUME blocks' = 0 PROVE MtxHeld'
  BY <1>1 DEF MtxInv
<1>2. MtxHeld /\ blocks' = blocks
  BY <1>1 DEF MtxInv
<1>3. CASE MainStep
  <2>1. UNCHANGED <<pc, mtx>> /\ (UNCHANGED dealPc \/ dealPc' = "ready")
    BY <1>3 DEF MainStep, NextDeal, JoinDeal, EndGame, StopAccepting, DisconnectAll,
       JoinClients
  <2>2. "ready" \notin DealSends
    BY DEF DealSends
  <2>3. QED
    BY <1>2, <2>1, <2>2 DEF MtxHeld
<1>4. CASE Accept
  <2>1. PICK fd : pc' = [pc EXCEPT ![fd] = "recvIAM"]
    BY <1>4 DEF Accept
  <2>2. \A f \in Fds : pc'[f] = "recvIAM" \/ pc'[f] = pc[f]
    BY <2>1 DEF SeatInv
  <2>3. QED
    BY <1>2, <1>4, <2>2, PlacesSending DEF Accept, MtxHeld
<1>5. CASE PollIn \/ PollHup \/ AcceptFails
  BY <1>2, <1>5 DEF PollIn, PollHup, AcceptFails, MtxHeld
<1>6. CASE \E fd \in Fds : ClientCloses(fd)
  BY <1>2, <1>6 DEF ClientCloses, MtxHeld
<1>7. CASE UNCHANGED vars
  BY <1>2, <1>7 DEF vars, MtxHeld
<1>8. QED
  BY <1>1, <1>2, <1>3, <1>4, <1>5, <1>6, <1>7, MtxDealStep, MtxPlayerStep
  DEF Next, AcceptStep
-----------------------------------------------------------------------------
\* Whose card is expected.

\* A step after which the same card is expected, if any.
LEMMA ElsewhereKeepsAsked ==
  ASSUME Asked, UNCHANGED <<deal, di, trickDone, fdExpectedTrick>>,
         dealPc' \in {"TAKEN", "SCORE", "TOTAL"} => dealPc \in {"TAKEN", "SCORE", "TOTAL"},
         fdExpectedTrick \in Fds /\ pc'[fdExpectedTrick] \in Seated =>
           pc[fdExpectedTrick] \in Seated /\ seat'[fdExpectedTrick] = seat[fdExpectedTrick]
  PROVE  Asked'
BY DEF Asked

\* dealThread asks the entry of the current player, and passes the turn when it
\* has played, so that its card is not expected any more.
LEMMA AskedDealStep ==
  ASSUME Asked, OwnInv, TableInv, DealStep
  PROVE  Asked'
<1>0. UNCHANGED <<pc, seat, di>>
  BY DEF DealStep, DealReady, Broadcast, BroadcastFails, Blocks, BeginTurn, AskSent,
     Timeout, Answered, Resume, EndTrick, EndDeal
<1>1. ASSUME ~(fdExpectedTrick \in Fds /\ pc[fdExpectedTrick] \in Seated),
             UNCHANGED fdExpectedTrick
      PROVE  Asked'
  BY <1>0, <1>1 DEF Asked
<1>2. ASSUME Ask, UNCHANGED deal, di > 0 => ~trickDone'[deal.currentPlayer] PROVE Asked'
  <2>1. PICK fd : /\ fd = IF deal.currentPlayer \in DOMAIN playerFds
                           THEN playerFds[deal.currentPlayer] ELSE Stdin
                  /\ fdExpectedTrick' = fd
    BY <1>2 DEF Ask
  <2>2. fd \in Fds /\ pc[fd] \in Seated => seat[fd] = deal.currentPlayer
    BY <2>1, Descriptors DEF OwnInv
  <2>3. dealPc' = "TRICK"
    BY <1>2 DEF Ask
  <2>4. QED
    BY <1>0, <1>2, <2>1, <2>2, <2>3 DEF Asked
<1>3. ASSUME TurnOver, dealPc # "done", trickDone[deal.currentPlayer] PROVE Asked'
  <2>1. di > 0 /\ UNCHANGED fdExpectedTrick
    BY <1>3 DEF TableInv, TurnOver
  <2>2. QED
    BY <1>1, <1>3, <2>1 DEF Asked
<1>4. CASE DealReady
  BY <1>0, <1>4, ElsewhereKeepsAsked DEF DealReady, SendTo
<1>5. CASE Broadcast
  <2>1. /\ UNCHANGED <<deal, trickDone, fdExpectedTrick>>
        /\ dealPc' \in {"TAKEN", "SCORE", "TOTAL"} => dealPc \in {"TAKEN", "SCORE", "TOTAL"}
    BY <1>5 DEF Broadcast, SendTo
  <2>2. QED
    BY <1>0, <2>1, ElsewhereKeepsAsked
<1>6. CASE BroadcastFails \/ Blocks(DealThread) \/ Timeout
  BY <1>0, <1>6, ElsewhereKeepsAsked DEF BroadcastFails, Blocks, Timeout
<1>7. CASE BeginTurn
  <2>1. /\ trickDone' = [trickDone EXCEPT ![deal.currentPlayer] = FALSE]
        /\ UNCHANGED deal
    BY <1>7 DEF BeginTurn, Unanswered
  <2>2. di > 0 => ~trickDone'[deal.currentPlayer]
    BY <2>1 DEF TableInv, GameInv, IsDeal
  <2>3. CASE Ask
    BY <1>2, <2>1, <2>2, <2>3
  <2>4. CASE dealPc' = "suspended" /\ UNCHANGED fdExpectedTrick
    BY <1>0, <2>1, <2>2, <2>4 DEF Asked
  <2>5. QED
    BY <1>7, <2>3, <2>4 DEF BeginTurn
<1>8. CASE AskSent
  <2>1. CASE trickDone[deal.currentPlayer]
    BY <1>3, <1>8, <2>1 DEF AskSent
  <2>2. CASE ~trickDone[deal.currentPlayer]
    BY <1>0, <1>8, <2>2, ElsewhereKeepsAsked DEF AskSent
  <2>3. QED
    BY <2>1, <2>2
<1>9. CASE Answered
  BY <1>3, <1>9 DEF Answered
<1>10. CASE Resume
  <2>1. CASE trickDone[deal.currentPlayer]
    BY <1>3, <1>10, <2>1 DEF Resume
  <2>2. CASE ~trickDone[deal.currentPlayer]
    BY <1>2, <1>10, <2>2 DEF Resume
  <2>3. QED
    BY <2>1, <2>2
<1>11. CASE EndTrick \/ EndDeal
  BY <1>1, <1>11 DEF EndTrick, EndDeal, Asked
<1>12. QED
  BY <1>4, <1>5, <1>6, <1>7, <1>8, <1>9, <1>10, <1>11 DEF DealStep

\* A client that returns is asked for its card if it has the turn, while
\* dealThread waits; and no thread takes the place of the one that is asked.
LEMMA AskedPlayerStep ==
  ASSUME Asked, OwnInv, SeatInv, TableInv, DealInv, NEW fd \in Fds, PlayerStep(fd),
         (drops = 0 /\ AtPeace) \/ (blocks = 0 /\ MtxHeld)
  PROVE  Asked'
<1> DEFINE Kept == /\ UNCHANGED <<deal, di, dealPc, trickDone>>
                   /\ fdExpectedTrick' \in {fdExpectedTrick, NoFd}
           Stays == fdExpectedTrick \in Fds /\ pc'[fdExpectedTrick] \in Seated =>
                      /\ pc[fdExpectedTrick] \in Seated
                      /\ seat'[fdExpectedTrick] = seat[fdExpectedTrick]
<1>0. pc \in [Fds -> Places] /\ seat \in [Fds -> Seats \cup {NoSeat}]
  BY DEF SeatInv
<1>1. ASSUME Kept, Stays PROVE Asked'
  BY <1>1, Descriptors, ElsewhereKeepsAsked DEF Asked
<1>2. ASSUME NEW place, GoesTo(fd, place), UNCHANGED seat,
             place \in Seated => pc[fd] \in Seated
      PROVE  Stays
  BY <1>0, <1>2 DEF GoesTo
<1>3. CASE \E s \in Seats : RecvIAM(fd, s)
  <2>1. PICK s \in Seats : /\ pc' = [pc EXCEPT ![fd] = "handleIAM"]
                           /\ seat' = [seat EXCEPT ![fd] = s] /\ Kept
    BY <1>3 DEF RecvIAM, GoesTo
  <2>2. Stays
    BY <1>0, <2>1, PlacesSeated
  <2>3. QED
    BY <1>1, <2>1, <2>2
<1>4. CASE RecvIAMFails(fd) \/ LeaveIAM(fd) \/ Fail(fd)
  <2>1. /\ pc' = [pc EXCEPT ![fd] = "done"] /\ seat' = [seat EXCEPT ![fd] = NoSeat]
        /\ Kept
    BY <1>4 DEF RecvIAMFails, LeaveIAM, Fail, Returns
  <2>2. Stays
    BY <1>0, <2>1, PlacesSeated
  <2>3. QED
    BY <1>1, <2>1, <2>2
<1>5. CASE HandleIAM(fd)
  <2>1. /\ Kept /\ UNCHANGED seat /\ pc[fd] = "handleIAM"
        /\ \E place : pc' = [pc EXCEPT ![fd] = place]
    BY <1>5 DEF HandleIAM, Sends, GoesTo
  <2>2. fdExpectedTrick # fd
    BY <2>1, PlacesSeated DEF OwnInv
  <2>3. Stays
    BY <1>0, <2>1, <2>2
  <2>4. QED
    BY <1>1, <2>1, <2>3
<1>6. CASE CatchUp(fd)
  <2>1. pc[fd] \in CatchingUp
    BY <1>6, PlacesSeated DEF CatchUp
  <2>2. di > 0 /\ mtx = fd /\ MtxHeld
    BY <2>1, PlacesSending DEF AtPeace, DealInv, TableInv, MtxHeld
  <2>3. dealPc \notin {"TAKEN", "SCORE", "TOTAL"}
    BY <2>2, Descriptors DEF MtxHeld, DealSends
  <2>4. /\ UNCHANGED <<deal, di, dealPc, seat>>
        /\ \E place \in {"catchTAKEN", "catchTRICK", "recvTRICK"} :
             pc' = [pc EXCEPT ![fd] = place]
    BY <1>6 DEF CatchUp, Sends, GoesTo
  <2>5. \A f \in Fds : pc'[f] \in Seated <=> pc[f] \in Seated
    BY <1>0, <2>1, <2>4, PlacesSeated
  <2>6. CASE AskedOnReturn(fd)
    <3>1. /\ seat[fd] = deal.currentPlayer /\ fdExpectedTrick' = fd
          /\ trickDone' = [trickDone EXCEPT ![deal.currentPlayer] = FALSE]
      BY <1>6, <2>6 DEF CatchUp, AskedOnReturn, Unanswered
    <3>2. ~trickDone'[deal.currentPlayer]
      BY <2>2, <3>1 DEF TableInv, GameInv, IsDeal
    <3>3. QED
      BY <2>3, <2>4, <3>1, <3>2 DEF Asked
  <2>7. CASE ~AskedOnReturn(fd)
    <3>1. UNCHANGED <<trickDone, fdExpectedTrick>>
      BY <1>6, <2>7 DEF CatchUp
    <3>2. QED
      BY <2>4, <2>5, <3>1, ElsewhereKeepsAsked
  <2>8. QED
    BY <2>6, <2>7
<1>7. CASE CaughtUp(fd) \/ RecvTRICK(fd) \/ RecvTRICKFails(fd) \/ SpoiltTRICK(fd)
             \/ WrongSent(fd)
  <2>1. Kept /\ UNCHANGED seat /\ pc[fd] \in Seated
    BY <1>7, PlacesSeated
    DEF CaughtUp, RecvTRICK, RecvTRICKFails, SpoiltTRICK, WrongSent, MayHandle
  <2>2. \E place : GoesTo(fd, place)
    BY <1>7 DEF CaughtUp, RecvTRICK, RecvTRICKFails, SpoiltTRICK, WrongSent
  <2>3. QED
    BY <1>1, <1>2, <2>1, <2>2
<1>8. ASSUME NEW trick, NEW card, HandleTRICK(fd, trick, card) PROVE Asked'
  BY <1>8, Descriptors DEF HandleTRICK, AfterCard, Asked
<1>9. ASSUME NEW trick, NEW card, RefuseTRICK(fd, trick, card) PROVE Asked'
  <2>1. Kept /\ UNCHANGED seat /\ pc[fd] \in Seated
        /\ (GoesTo(fd, "WRONG") \/ UNCHANGED pc)
    BY <1>9, PlacesSeated DEF RefuseTRICK, MayHandle, Sends
  <2>2. QED
    BY <1>1, <1>2, <2>1
<1>10. CASE Blocks(fd)
  BY <1>1, <1>10 DEF Blocks
<1>11. QED
  BY <1>3, <1>4, <1>5, <1>6, <1>7, <1>8, <1>9, <1>10 DEF PlayerStep

\* Every step of the program, while nobody has left, or in the first deal while
\* no write has blocked.
LEMMA OwnerStep ==
  ASSUME OwnerInv, OwnInv, SeatInv, ConnInv, TableInv, DealInv, MtxInv, PeaceInv,
         drops = 0 => TurnsInv, [Next]_vars
  PROVE  OwnerInv'
<1> SUFFICES ASSUME drops' = 0 \/ (blocks' = 0 /\ di' <= 1) PROVE Asked'
  BY DEF OwnerInv
<1>1. di' = di \/ (NextDeal /\ di' = di + 1)
  BY DEF Next, vars, MainStep, JoinDeal, EndGame, StopAccepting, DisconnectAll, NextDeal,
     JoinClients, AcceptStep, PollIn, PollHup, Accept, AcceptFails, DealStep,
     DealReady, Broadcast, BroadcastFails, Blocks, BeginTurn, AskSent, Timeout,
     Answered, Resume, EndTrick, EndDeal, PlayerStep, RecvIAM, RecvIAMFails,
     HandleIAM, CatchUp, CaughtUp, LeaveIAM, RecvTRICK, RecvTRICKFails,
     HandleTRICK, RefuseTRICK, SpoiltTRICK, WrongSent, Fail, ClientCloses
<1>2. (drops' = 0 => drops = 0) /\ (blocks' = 0 => blocks = 0)
  BY DropsGrow, BlocksGrow DEF PeaceInv, MtxInv
<1>3. (drops = 0 /\ AtPeace) \/ (blocks = 0 /\ MtxHeld /\ di <= 1)
  BY <1>1, <1>2 DEF PeaceInv, MtxInv, TableInv
<1>4. Asked
  BY <1>3 DEF OwnerInv
<1>5. CASE NextDeal
  <2>1. /\ UNCHANGED fdExpectedTrick /\ di' = di + 1 /\ di \in Nat /\ dealPc = "done"
    BY <1>5 DEF NextDeal, TableInv, DealInv
  <2>2. fdExpectedTrick \notin Fds
    <3>1. CASE drops = 0
      BY <2>1, <3>1 DEF TurnsInv
    <3>2. CASE di = 0
      BY <3>2, Descriptors DEF DealInv
    <3>3. QED
      BY <1>2, <2>1, <3>1, <3>2
  <2>3. QED
    BY <2>1, <2>2 DEF Asked
<1>6. CASE MainStep /\ ~NextDeal
  BY <1>4, <1>6, ElsewhereKeepsAsked
  DEF MainStep, JoinDeal, EndGame, StopAccepting, DisconnectAll, JoinClients
<1>7. CASE Accept
  <2>1. PICK fd : pc' = [pc EXCEPT ![fd] = "recvIAM"]
    BY <1>7 DEF Accept
  <2>2. \A f \in Fds : pc'[f] = "recvIAM" \/ pc'[f] = pc[f]
    BY <2>1 DEF SeatInv
  <2>3. QED
    BY <1>4, <1>7, <2>2, PlacesSeated, ElsewhereKeepsAsked DEF Accept
<1>8. CASE PollIn \/ PollHup \/ AcceptFails
  BY <1>4, <1>8, ElsewhereKeepsAsked DEF PollIn, PollHup, AcceptFails
<1>9. CASE \E fd \in Fds : ClientCloses(fd)
  BY <1>4, <1>9, ElsewhereKeepsAsked DEF ClientCloses
<1>10. CASE UNCHANGED vars
  BY <1>4, <1>10, ElsewhereKeepsAsked DEF vars
<1>11. QED
  BY <1>3, <1>4, <1>5, <1>6, <1>7, <1>8, <1>9, <1>10, AskedDealStep, AskedPlayerStep
  DEF Next, AcceptStep
-----------------------------------------------------------------------------
\* All of it.
SeatsInv == QuietInv /\ OwnInv /\ DealInv /\ OnceInv /\ MtxInv /\ OwnerInv

\* At first nobody is at the table.
LEMMA SeatsInit == Init => SeatsInv
<1> SUFFICES ASSUME Init PROVE SeatsInv
  OBVIOUS
<1>1. OwnInv
  BY Descriptors DEF Init, OwnInv
<1>2. DealInv
  BY PlacesSeated DEF Init, DealInv
<1>3. Once
  <2>1. Lost = {}
    BY DEF Init, Lost
  <2>2. ~dealSuspended /\ ~dealStarted /\ \A fd \in Fds : pc[fd] \notin CatchingUp
    BY PlacesSeated DEF Init
  <2>3. QED
    BY <2>1, <2>2 DEF Once
<1>4. MtxInv
  BY PlacesSending DEF Init, MtxInv, MtxHeld, DealSends
<1>5. Asked
  BY Descriptors DEF Init, Asked
<1>6. QED
  BY <1>1, <1>2, <1>3, <1>4, <1>5, QuietInit DEF SeatsInv, OnceInv, OwnerInv

\* Every step of the program keeps all of it.
LEMMA SeatsStep == SeatsInv /\ [Next]_vars => SeatsInv'
<1> SUFFICES ASSUME SeatsInv, [Next]_vars PROVE SeatsInv'
  OBVIOUS
<1>1. /\ QuietInv /\ OwnInv /\ DealInv /\ OnceInv /\ MtxInv /\ OwnerInv
      /\ SeatInv /\ EntryInv /\ TableInv /\ ConnInv /\ PeaceInv /\ (drops = 0 => TurnsInv)
  BY DEF SeatsInv, QuietInv, CardInv
<1>2. QuietInv'
  BY <1>1, QuietStep
<1>3. OwnInv'
  BY <1>1, OwnStep
<1>4. DealInv'
  BY <1>1, DealInvStep
<1>5. OnceInv'
  BY <1>1, OnceStep
<1>6. MtxInv'
  BY <1>1, MtxStep
<1>7. OwnerInv'
  BY <1>1, OwnerStep
<1>8. QED
  BY <1>2, <1>3, <1>4, <1>5, <1>6, <1>7 DEF SeatsInv

\* It holds of every execution of the server.
LEMMA SeatsAlways == Spec => []SeatsInv
BY SeatsInit, SeatsStep, PTL DEF Spec

\* However many clients connect, and whoever leaves when: as long as at most one
\* has left, a suspended deal can go on, because a seat is free to be taken, or the
\* client that took it is being told what it missed.
THEOREM SuspensionCanEnd == Spec => [](drops <= 1 => SuspensionEnds)
<1>1. SeatsInv => (drops <= 1 => SuspensionEnds)
  BY DEF SeatsInv, OnceInv, Once, AllSeated, SuspensionEnds
<1>2. QED
  BY SeatsAlways, <1>1, PTL

\* While nobody has left, or in the first deal while no write has blocked, whoever
\* leaves and comes back: the only thread whose card can be accepted is that of
\* the seat whose turn it is.
THEOREM OnlyOwnerPlays ==
  Spec => [](drops = 0 \/ (blocks = 0 /\ di <= 1) => TurnOwner)
<1>1. SeatsInv => (drops = 0 \/ (blocks = 0 /\ di <= 1) => TurnOwner)
  BY DEF SeatsInv, OwnerInv, Asked, TurnOwner
<1>2. QED
  BY SeatsAlways, <1>1, PTL
-----------------------------------------------------------------------------
\* What the clients at the table have been told.

\* The number of the trick says how many have been taken.
NumberInv ==
  /\ di > 0 => Len(deal.tricksTaken) = deal.currentTrick - 1
  /\ dealPc \in {"ready", "DEAL"} => deal.currentTrick = 1

\* What a client knows that has been told of so many tricks.
Seen(taken) == [deal |-> di, taken |-> taken]

\* A thread sends what its place says.
SendHeld ==
  /\ \A fd \in Fds :
       /\ pc[fd] \in {"BUSY", "WRONG"} => out[fd].kind = pc[fd]
       /\ pc[fd] = "catchTRICK" => out[fd].kind = "TRICK"
  /\ dealPc = "TRICK" => out[DealThread].kind = "TRICK"
  /\ dealPc \in {"DEAL", "TAKEN"} =>
       out[DealThread] =
         IF it = End THEN Nothing
         ELSE Message(dealPc, playerFds[KeyOrder[it]],
                      IF dealPc = "TAKEN" THEN deal.currentTrick ELSE 0)
SendInv == blocks = 0 => SendHeld

\* The loop of dealThread has passed the seat of fd.
Passed(fd) == \E j \in DOMAIN KeyOrder : j < it /\ KeyOrder[j] = seat[fd]

\* A client at the table knows the deal and every trick taken, and of the trick
\* that is being told once the loop has passed its seat.
KnowsTable(fd) ==
  LET k == deal.currentTrick IN
  /\ dealPc = "DEAL" /\ Passed(fd) => seen[fd] = Seen(0)
  /\ dealPc \in {"turn", "suspended", "TRICK", "await"} => seen[fd] = Seen(k - 1)
  /\ dealPc = "TAKEN" => seen[fd] \in {Seen(k - 1), Seen(k)}
  /\ dealPc = "TAKEN" /\ Passed(fd) => seen[fd] = Seen(k)

\* A client that came back knows the tricks it has been told of, in order.
KnowsReturn(fd) ==
  dealPc \in {"await", "suspended"} =>
    /\ pc[fd] = "catchDEAL" => out[fd] = Message("DEAL", fd, 0)
    /\ pc[fd] = "catchTAKEN" =>
         /\ ti[fd] \in Nat /\ ti[fd] < Len(deal.tricksTaken)
         /\ seen[fd] = Seen(ti[fd]) /\ out[fd] = Message("TAKEN", fd, ti[fd] + 1)
    /\ pc[fd] = "catchTRICK" => seen[fd] = Seen(deal.currentTrick - 1)

Knows(fd) == (pc[fd] \in Seated \ CatchingUp => KnowsTable(fd)) /\ KnowsReturn(fd)
AllTold == \A fd \in Fds : Knows(fd)
ToldInv == drops <= 1 /\ blocks = 0 => AllTold

\* What the methods of a deal do to these numbers.
LEMMA DealNumbers ==
  ASSUME NEW d, IsDeal(d)
  PROVE  /\ NextPlayer(d).currentTrick = d.currentTrick
         /\ NextPlayer(d).tricksTaken = d.tricksTaken
         /\ \A card : /\ PlayCard(d, card).currentTrick = d.currentTrick
                      /\ PlayCard(d, card).tricksTaken = d.tricksTaken
         /\ NextTrick(d).currentTrick = d.currentTrick + 1
         /\ Len(NextTrick(d).tricksTaken) = Len(d.tricksTaken) + 1
         /\ d.currentTrick \in Nat /\ Len(d.tricksTaken) \in Nat
<1>1. /\ NextPlayer(d).currentTrick = d.currentTrick
      /\ NextPlayer(d).tricksTaken = d.tricksTaken
  BY DEF NextPlayer, IsDeal
<1>2. \A card : /\ PlayCard(d, card).currentTrick = d.currentTrick
                /\ PlayCard(d, card).tricksTaken = d.tricksTaken
  <2> TAKE card
  <2>1. LayCard(d, card).currentTrick = d.currentTrick
        /\ LayCard(d, card).tricksTaken = d.tricksTaken
    BY DEF LayCard, IsDeal
  <2>2. PlayCard(d, card).currentTrick = LayCard(d, card).currentTrick
        /\ PlayCard(d, card).tricksTaken = LayCard(d, card).tricksTaken
    BY DEF PlayCard, LayCard, IsDeal
  <2>3. QED
    BY <2>1, <2>2
<1>3. NextTrick(d).currentTrick = d.currentTrick + 1
  BY DEF NextTrick, TakeTrick, ClearTable, IsDeal
<1>4. d.tricksTaken \in Seq(TrickTaken) /\ d.currentTrick \in Nat
  BY DEF IsDeal
<1>5. /\ Len(NextTrick(d).tricksTaken) = Len(d.tricksTaken) + 1
      /\ Len(d.tricksTaken) \in Nat
  <2>1. NextTrick(d).tricksTaken =
          Append(d.tricksTaken, [cards |-> d.cardsOnTable, seat |-> d.highestPlayer])
    BY NextTrickFields DEF Takes
  <2>2. QED
    BY <1>4, <2>1
<1>6. QED
  BY <1>1, <1>2, <1>3, <1>4, <1>5

\* Every step of the program keeps the count of the tricks.
LEMMA NumberStep == NumberInv /\ TableInv /\ DealInv /\ [Next]_vars => NumberInv'
<1> SUFFICES ASSUME NumberInv, TableInv, DealInv, [Next]_vars PROVE NumberInv'
  OBVIOUS
<1>1. ASSUME UNCHANGED <<deal, di>>,
             dealPc' \in {"ready", "DEAL"} => dealPc \in {"ready", "DEAL"}
      PROVE  NumberInv'
  BY <1>1 DEF NumberInv
<1>2. CASE NextDeal
  <2>1. deal'.currentTrick = 1 /\ deal'.tricksTaken = <<>>
    BY <1>2 DEF NextDeal, NewDeal
  <2>2. QED
    BY <2>1 DEF NumberInv
<1>3. CASE MainStep /\ ~NextDeal
  BY <1>1, <1>3
  DEF MainStep, JoinDeal, EndGame, StopAccepting, DisconnectAll, JoinClients
<1>4. CASE AcceptStep
  BY <1>1, <1>4 DEF AcceptStep, PollIn, PollHup, Accept, AcceptFails
<1>5. ASSUME TurnOver, dealPc # "done", di' = di PROVE NumberInv'
  <2>1. deal' = NextPlayer(deal) /\ dealPc' \in {"TAKEN", "turn"} /\ di > 0
    BY <1>5 DEF TurnOver, SendTo, TableInv
  <2>2. IsDeal(deal)
    BY <2>1 DEF TableInv, GameInv
  <2>3. QED
    BY <1>5, <2>1, <2>2, DealNumbers DEF NumberInv
<1>6. CASE EndTrick
  <2>1. di' = di /\ dealPc' \in {"SCORE", "turn"} /\ IsDeal(deal) /\ di > 0
    BY <1>6 DEF EndTrick, SendTo, TableInv, GameInv
  <2> DEFINE d == NextTrick(deal)
  <2>2. deal' = d \/ deal' = [d EXCEPT !.scores = CreditSeats(d.scores, <<>>)]
    BY <1>6 DEF EndTrick
  <2>3. /\ d.currentTrick = deal.currentTrick + 1 /\ deal.currentTrick \in Nat
        /\ Len(d.tricksTaken) = Len(deal.tricksTaken) + 1
    BY <2>1, DealNumbers
  <2> HIDE DEF d
  <2>4. deal'.currentTrick = d.currentTrick /\ deal'.tricksTaken = d.tricksTaken
    <3>1. GameInv(d)
      BY <1>6, <2>1, NextTrickGame DEF EndTrick, TableInv, d
    <3>2. QED
      BY <2>2, <3>1 DEF GameInv, IsDeal
  <2>5. QED
    BY <2>1, <2>3, <2>4 DEF NumberInv
<1>7. CASE DealStep /\ ~EndTrick
  <2>1. CASE TurnOver /\ dealPc # "done" /\ di' = di
    BY <1>5, <2>1
  <2>2. CASE BeginTurn \/ EndDeal \/ DealReady \/ BroadcastFails \/ Blocks(DealThread)
    BY <1>1, <2>2
    DEF BeginTurn, EndDeal, DealReady, BroadcastFails, Blocks, SendTo, Ask
  <2>3. CASE Broadcast \/ Timeout
    BY <1>1, <2>3 DEF Broadcast, Timeout, SendTo
  <2>4. CASE AskSent \/ Answered \/ Resume
    BY <1>1, <2>1, <2>4 DEF AskSent, Answered, Resume, Ask
  <2>5. QED
    BY <1>7, <2>2, <2>3, <2>4 DEF DealStep
<1>8. ASSUME NEW fd \in Fds, PlayerStep(fd) PROVE NumberInv'
  <2>1. UNCHANGED <<di, dealPc>>
        /\ (UNCHANGED deal \/ (di > 0 /\ \E card : deal' = PlayCard(deal, card)))
    BY <1>8 DEF PlayerStep, RecvIAM, RecvIAMFails, HandleIAM, CatchUp, CaughtUp, LeaveIAM,
       RecvTRICK, RecvTRICKFails, HandleTRICK, RefuseTRICK, SpoiltTRICK, WrongSent,
       Blocks, Fail
  <2>2. di > 0 => IsDeal(deal)
    BY DEF TableInv, GameInv
  <2>3. QED
    BY <1>1, <2>1, <2>2, DealNumbers DEF NumberInv
<1>9. CASE \E fd \in Fds : ClientCloses(fd)
  BY <1>1, <1>9 DEF ClientCloses
<1>10. CASE UNCHANGED vars
  BY <1>1, <1>10 DEF vars
<1>11. QED
  BY <1>2, <1>3, <1>4, <1>6, <1>7, <1>8, <1>9, <1>10 DEF Next

\* The loop over player_fds passes no entry by.
LEMMA FollowingLeast ==
  ASSUME NEW i \in Int, NEW j \in DOMAIN KeyOrder, j > i, KeyOrder[j] \in DOMAIN playerFds
  PROVE  Following(i) \in Int /\ Following(i) <= j
<1> DEFINE rest == {m \in DOMAIN KeyOrder : m > i /\ KeyOrder[m] \in DOMAIN playerFds}
<1>1. j \in rest /\ rest \subseteq Nat
  BY KeyPlaces
<1>2. Following(i) = CHOOSE m \in rest : \A k \in rest : m <= k
  BY <1>1 DEF Following
<1> HIDE DEF rest
<1>3. PICK m \in rest : \A k \in rest : ~(<<k, m>> \in OpToRel(<, Nat))
  BY <1>1, NatLessThanWellFounded, WFMin
<1>4. \A k \in rest : m <= k
  <2>1. \A k \in rest : ~(k < m)
    BY <1>1, <1>3 DEF OpToRel
  <2>2. QED
    BY <1>1, <2>1
<1>5. \A k \in rest : Following(i) <= k
  BY <1>2, <1>4
<1>6. QED
  BY <1>1, <1>5, FollowingEntry

\* A loop that begins has passed nobody, the next entry is passed by only after
\* its message, and a loop at its end has passed everybody.
LEMMA Passing ==
  ASSUME SeatInv, EntryInv, it \in Int, NEW fd \in Fds, pc[fd] \in Seated, UNCHANGED seat
  PROVE  /\ it' = Following(0) => ~Passed(fd)'
         /\ it' = Following(it) /\ Passed(fd)' =>
              Passed(fd) \/ (it \in DOMAIN KeyOrder /\ playerFds[KeyOrder[it]] = fd)
         /\ it = End => Passed(fd)
<1>1. /\ seat[fd] \in DOMAIN playerFds /\ playerFds[seat[fd]] = fd /\ seat[fd] \in Seats
      /\ DOMAIN KeyOrder \subseteq Nat
  BY KeyPlaces DEF SeatInv, SeatExclusive, EntryInv
<1>2. \A j \in DOMAIN KeyOrder : KeyOrder[j] = seat[fd] => 0 < j /\ j < End
  BY KeyPlaces DEF End
<1>3. it' = Following(0) => ~Passed(fd)'
  <2> SUFFICES ASSUME it' = Following(0),
                      NEW j \in DOMAIN KeyOrder, j < Following(0), KeyOrder[j] = seat[fd]
               PROVE  FALSE
    BY DEF Passed
  <2>1. Following(0) \in Int /\ Following(0) <= j
    BY <1>1, <1>2, FollowingLeast
  <2>2. QED
    BY <1>1, <2>1
<1>4. it' = Following(it) /\ Passed(fd)' =>
        Passed(fd) \/ (it \in DOMAIN KeyOrder /\ playerFds[KeyOrder[it]] = fd)
  <2> SUFFICES ASSUME NEW j \in DOMAIN KeyOrder, j < Following(it), KeyOrder[j] = seat[fd]
               PROVE  Passed(fd) \/ (it \in DOMAIN KeyOrder /\ playerFds[KeyOrder[it]] = fd)
    BY DEF Passed
  <2>1. ~(j > it)
    BY <1>1, FollowingLeast
  <2>2. CASE j = it
    BY <1>1, <2>2
  <2>3. CASE j < it
    BY <2>3 DEF Passed
  <2>4. QED
    BY <1>1, <2>1, <2>2, <2>3
<1>5. it = End => Passed(fd)
  <2>1. PICK j \in DOMAIN KeyOrder : KeyOrder[j] = seat[fd]
    BY <1>1, ServerAssumption DEF Range
  <2>2. QED
    BY <1>2, <2>1 DEF Passed
<1>6. QED
  BY <1>3, <1>4, <1>5

\* What a client that knows so many tricks learns from a message.
LEMMA Hearing ==
  ASSUME NEW to, NEW n \in Nat
  PROVE  /\ \A know : Hear(know, Message("DEAL", to, 0)) = Seen(0)
         /\ Hear(Seen(n), Message("TAKEN", to, n + 1)) = Seen(n + 1)
         /\ Hear(Seen(n), Message("TAKEN", to, n)) = Seen(n)
         /\ \A know, m : m.kind \in {"BUSY", "WRONG", "TRICK"} => Hear(know, m) = know
BY DEF Hear, Message, Seen

\* What the sending places stand for is not disturbed by other threads.
LEMMA ElsewhereKeepsSend ==
  ASSUME SendHeld, DOMAIN out = Senders, UNCHANGED <<dealPc, it, di, out>>,
         \A fd \in Fds : pc'[fd] \in PlayerSends => pc'[fd] = pc[fd],
         dealPc \in {"DEAL", "TAKEN"} =>
           UNCHANGED playerFds /\ deal'.currentTrick = deal.currentTrick
  PROVE  SendHeld'
BY PlacesSending DEF SendHeld, Message

\* A player thread sends its own messages, and the entries stay as they are while
\* dealThread runs over them.
LEMMA SendPlayerStep ==
  ASSUME SendHeld, MtxHeld, SeatInv, LoopInv, ConnInv, NEW fd \in Fds, PlayerStep(fd),
         blocks' = blocks, blocks \in Nat
  PROVE  SendHeld'
<1> DEFINE Mine == /\ pc'[fd] \in {"BUSY", "WRONG"} => out'[fd].kind = pc'[fd]
                   /\ pc'[fd] = "catchTRICK" => out'[fd].kind = "TRICK"
<1>0. /\ pc \in [Fds -> Places] /\ DOMAIN out = Senders /\ fd \in Senders
      /\ DealThread \in Senders /\ fd # DealThread /\ Fds \subseteq Senders
  BY Descriptors DEF SeatInv, LoopInv, Senders
<1>1. /\ \A f \in Senders \ {fd} : out'[f] = out[f]
      /\ \A f \in Fds \ {fd} : pc'[f] = pc[f]
  BY <1>0, PlayerStepConn
<1>2. UNCHANGED <<dealPc, it, di>>
  BY DEF PlayerStep, RecvIAM, RecvIAMFails, HandleIAM, CatchUp, CaughtUp, LeaveIAM,
     RecvTRICK, RecvTRICKFails, HandleTRICK, RefuseTRICK, SpoiltTRICK, WrongSent,
     Blocks, Fail
<1>3. mtx = Unlocked \/ UNCHANGED <<playerFds, deal>>
  BY DEF PlayerStep, RecvIAM, RecvIAMFails, HandleIAM, CatchUp, CaughtUp, LeaveIAM,
     RecvTRICK, RecvTRICKFails, HandleTRICK, MayHandle, RefuseTRICK, SpoiltTRICK,
     WrongSent, Blocks, Fail
<1>4. dealPc \in {"DEAL", "TAKEN"} => UNCHANGED <<playerFds, deal>>
  BY <1>3, Descriptors DEF MtxHeld, DealSends
<1>5. ASSUME NEW place, GoesTo(fd, place), place \notin PlayerSends PROVE Mine
  BY <1>0, <1>5, PlacesSending DEF GoesTo
<1>6. ASSUME NEW place, NEW kind, NEW trick, Sends(fd, place, kind, trick),
             place \in {"BUSY", "WRONG"} => kind = place,
             place = "catchTRICK" => kind = "TRICK"
      PROVE  Mine
  <2>1. pc'[fd] = place /\ out'[fd].kind = kind
    BY <1>0, <1>6 DEF Sends, GoesTo, Message
  <2>2. QED
    BY <1>6, <2>1
<1>7. Mine
  <2>1. CASE \E s \in Seats : RecvIAM(fd, s)
    BY <1>5, <2>1, PlacesSending DEF RecvIAM
  <2>2. CASE RecvIAMFails(fd) \/ LeaveIAM(fd) \/ Fail(fd)
    BY <1>0, <2>2 DEF RecvIAMFails, LeaveIAM, Fail, Returns
  <2>3. CASE HandleIAM(fd)
    <3>1. \/ Sends(fd, "BUSY", "BUSY", 0) \/ Sends(fd, "catchDEAL", "DEAL", 0)
          \/ GoesTo(fd, "recvTRICK")
      BY <2>3 DEF HandleIAM
    <3>2. QED
      BY <1>5, <1>6, <3>1, PlacesSending
  <2>4. CASE CatchUp(fd)
    <3>1. \/ \E trick : Sends(fd, "catchTAKEN", "TAKEN", trick)
          \/ \E trick : Sends(fd, "catchTRICK", "TRICK", trick)
          \/ GoesTo(fd, "recvTRICK")
      BY <2>4 DEF CatchUp
    <3>2. QED
      BY <1>5, <1>6, <3>1, PlacesSending
  <2>5. CASE CaughtUp(fd) \/ RecvTRICK(fd) \/ RecvTRICKFails(fd) \/ SpoiltTRICK(fd)
               \/ WrongSent(fd)
    <3>1. \E place \in {"recvTRICK", "handleTRICK", "failed"} : GoesTo(fd, place)
      BY <2>5 DEF CaughtUp, RecvTRICK, RecvTRICKFails, SpoiltTRICK, WrongSent
    <3>2. QED
      BY <1>5, <3>1, PlacesSending
  <2>6. ASSUME NEW trick, NEW card, HandleTRICK(fd, trick, card) PROVE Mine
    BY <1>5, <2>6, PlacesSending DEF HandleTRICK
  <2>7. ASSUME NEW trick, NEW card, RefuseTRICK(fd, trick, card) PROVE Mine
    <3>1. \/ \E number : Sends(fd, "WRONG", "WRONG", number)
          \/ UNCHANGED <<pc, out>>
      BY <2>7 DEF RefuseTRICK
    <3>2. QED
      BY <1>6, <3>1 DEF SendHeld
  <2>8. CASE Blocks(fd)
    BY <2>8 DEF Blocks
  <2>9. QED
    BY <2>1, <2>2, <2>3, <2>4, <2>5, <2>6, <2>7, <2>8 DEF PlayerStep
<1>8. \A f \in Fds : /\ pc'[f] \in {"BUSY", "WRONG"} => out'[f].kind = pc'[f]
                     /\ pc'[f] = "catchTRICK" => out'[f].kind = "TRICK"
  BY <1>0, <1>1, <1>7 DEF SendHeld
<1>9. out'[DealThread] = out[DealThread]
  BY <1>0, <1>1
<1>10. QED
  BY <1>2, <1>4, <1>8, <1>9 DEF SendHeld, Message

\* dealThread sends what the loop it is in says.
LEMMA SendDealStep ==
  ASSUME SendHeld, LoopInv, ConnInv, TableInv, DealStep, blocks' = blocks, blocks \in Nat
  PROVE  SendHeld'
<1>0. /\ DOMAIN out = Senders /\ DealThread \in Senders
      /\ UNCHANGED <<pc, di>> /\ \A fd \in Fds : out'[fd] = out[fd]
  <2>1. UNCHANGED <<pc, di>>
    BY DEF DealStep, DealReady, Broadcast, BroadcastFails, Blocks, BeginTurn, AskSent,
       Timeout, Answered, Resume, EndTrick, EndDeal
  <2>2. QED
    BY <2>1, DealStepOut DEF LoopInv, Senders
<1>1. ASSUME dealPc' \notin {"TRICK", "DEAL", "TAKEN"} PROVE SendHeld'
  BY <1>0, <1>1 DEF SendHeld
<1>2. ASSUME NEW kind, NEW i, SendTo(kind, i), kind # "TRICK", UNCHANGED playerFds,
             deal'.currentTrick = deal.currentTrick
      PROVE  SendHeld'
  <2>1. /\ dealPc' = kind /\ it' = i
        /\ out'[DealThread] =
             IF i = End THEN Nothing
             ELSE Message(kind, playerFds[KeyOrder[i]],
                          IF kind = "TAKEN" THEN deal.currentTrick ELSE 0)
    BY <1>0, <1>2 DEF SendTo
  <2>2. QED
    BY <1>0, <1>2, <2>1 DEF SendHeld, Message
<1>3. ASSUME Ask PROVE SendHeld'
  <2>1. dealPc' = "TRICK" /\ out'[DealThread].kind = "TRICK"
    BY <1>0, <1>3 DEF Ask, Message
  <2>2. QED
    BY <1>0, <2>1 DEF SendHeld
<1>4. ASSUME TurnOver, di > 0 PROVE SendHeld'
  <2>1. NextPlayer(deal).currentTrick = deal.currentTrick
    BY <1>4, DealNumbers DEF TableInv, GameInv
  <2>2. \/ SendTo("TAKEN", Following(0)) /\ UNCHANGED playerFds /\ deal' = NextPlayer(deal)
        \/ dealPc' = "turn"
    BY <1>4 DEF TurnOver
  <2>3. QED
    BY <1>1, <1>2, <2>1, <2>2
<1>5. CASE DealReady
  BY <1>2, <1>5 DEF DealReady
<1>6. CASE Broadcast
  <2>1. \E kind \in {"DEAL", "TAKEN", "SCORE", "TOTAL"} : \E i : SendTo(kind, i)
    BY <1>6 DEF Broadcast
  <2>2. UNCHANGED <<playerFds, deal>>
    BY <1>6 DEF Broadcast
  <2>3. QED
    BY <1>2, <2>1, <2>2
<1>7. CASE BroadcastFails
  BY <1>0, <1>7 DEF BroadcastFails, SendHeld, Message
<1>8. CASE Blocks(DealThread)
  BY <1>8 DEF Blocks
<1>9. CASE BeginTurn
  BY <1>1, <1>3, <1>9 DEF BeginTurn
<1>10. CASE AskSent
  <2>1. di > 0
    BY <1>10 DEF AskSent, TableInv
  <2>2. TurnOver \/ dealPc' = "await"
    BY <1>10 DEF AskSent
  <2>3. QED
    BY <1>1, <1>4, <2>1, <2>2
<1>11. CASE Answered \/ Resume
  <2>1. di > 0
    BY <1>11 DEF Answered, Resume, TableInv
  <2>2. QED
    BY <1>3, <1>4, <1>11, <2>1 DEF Answered, Resume
<1>12. CASE Timeout \/ EndDeal
  BY <1>1, <1>12 DEF Timeout, EndDeal
<1>13. CASE EndTrick
  BY <1>1, <1>13 DEF EndTrick, SendTo
<1>14. QED
  BY <1>5, <1>6, <1>7, <1>8, <1>9, <1>10, <1>11, <1>12, <1>13 DEF DealStep

\* Every step of the program until the first full buffer.
LEMMA SendStep ==
  SendInv /\ MtxInv /\ LoopInv /\ ConnInv /\ TableInv /\ [Next]_vars => SendInv'
<1> SUFFICES ASSUME SendInv, MtxInv, LoopInv, ConnInv, TableInv, [Next]_vars PROVE SendInv'
  OBVIOUS
<1>1. blocks \in Nat /\ blocks' \in Nat /\ (blocks' = 0 => blocks = 0)
  BY BlocksGrow DEF MtxInv
<1> SUFFICES ASSUME blocks' = 0 PROVE SendHeld'
  BY DEF SendInv
<1>2. SendHeld /\ MtxHeld /\ blocks' = blocks /\ SeatInv /\ DOMAIN out = Senders
  BY <1>1 DEF SendInv, MtxInv, LoopInv
<1>3. CASE NextDeal
  BY <1>2, <1>3 DEF NextDeal, SendHeld
<1>4. CASE MainStep /\ ~NextDeal
  BY <1>2, <1>4, ElsewhereKeepsSend
  DEF MainStep, JoinDeal, EndGame, StopAccepting, DisconnectAll, JoinClients
<1>5. CASE Accept
  <2>1. PICK fd : pc' = [pc EXCEPT ![fd] = "recvIAM"]
    BY <1>5 DEF Accept
  <2>2. \A f \in Fds : pc'[f] \in PlayerSends => pc'[f] = pc[f]
    BY <1>2, <2>1, PlacesSending DEF SeatInv
  <2>3. QED
    BY <1>2, <1>5, <2>2, ElsewhereKeepsSend DEF Accept
<1>6. CASE PollIn \/ PollHup \/ AcceptFails
  BY <1>2, <1>6, ElsewhereKeepsSend DEF PollIn, PollHup, AcceptFails
<1>7. CASE \E fd \in Fds : ClientCloses(fd)
  BY <1>2, <1>7, ElsewhereKeepsSend DEF ClientCloses
<1>8. CASE UNCHANGED vars
  BY <1>2, <1>8, ElsewhereKeepsSend DEF vars
<1>9. QED
  BY <1>1, <1>2, <1>3, <1>4, <1>5, <1>6, <1>7, <1>8, SendDealStep, SendPlayerStep
  DEF Next, AcceptStep

\* The table as seen by the client of fd is the same.
SameTable ==
  /\ UNCHANGED <<dealPc, it, di>>
  /\ deal'.currentTrick = deal.currentTrick /\ deal'.tricksTaken = deal.tricksTaken

\* A client for which nothing changed.
LEMMA ElsewhereKeepsKnowing ==
  ASSUME NEW fd \in Fds, Knows(fd), SameTable, pc'[fd] = pc[fd], seat'[fd] = seat[fd],
         ti'[fd] = ti[fd], out'[fd] = out[fd], seen'[fd] = seen[fd]
  PROVE  Knows(fd)'
BY DEF Knows, KnowsTable, KnowsReturn, Passed, Seen, Message, SameTable

\* A client at the table whose thread moves on.
LEMMA MovingKeepsKnowing ==
  ASSUME NEW fd \in Fds, Knows(fd), SameTable, pc[fd] \in Seated \ CatchingUp,
         pc'[fd] \notin CatchingUp, seat'[fd] = seat[fd], seen'[fd] = seen[fd]
  PROVE  Knows(fd)'
BY PlacesSeated DEF Knows, KnowsTable, KnowsReturn, Passed, Seen, SameTable

\* A client that is not at the table.
LEMMA AbsentKnows ==
  ASSUME NEW fd \in Fds, pc'[fd] \notin Seated
  PROVE  Knows(fd)'
BY PlacesSeated DEF Knows, KnowsReturn

\* The loop index of a player thread, and what its client knows, are functions on
\* the descriptors.
FieldsInv == DOMAIN ti = Fds /\ DOMAIN seen = Fds

\* No step adds a descriptor to them or takes one away.
LEMMA FieldsStep == FieldsInv /\ [Next]_vars => FieldsInv'
<1> SUFFICES ASSUME FieldsInv, [Next]_vars PROVE FieldsInv'
  OBVIOUS
<1>1. CASE DealStep
  <2>1. UNCHANGED ti
    BY <1>1 DEF DealStep, DealReady, Broadcast, BroadcastFails, Blocks, BeginTurn, AskSent,
       Timeout, Answered, Resume, EndTrick, EndDeal
  <2>2. Delivers(DealThread) \/ UNCHANGED seen
    BY <1>1 DEF DealStep, DealReady, Broadcast, BroadcastFails, Blocks, BeginTurn, AskSent,
       Timeout, Answered, Resume, EndTrick, EndDeal, Breaks
  <2>3. QED
    BY <2>1, <2>2 DEF FieldsInv, Delivers
<1>2. ASSUME NEW fd \in Fds, PlayerStep(fd) PROVE FieldsInv'
  <2>1. Returns(fd) \/ UNCHANGED ti \/ \E i : ti' = [ti EXCEPT ![fd] = i]
    BY <1>2
    DEF PlayerStep, RecvIAM, RecvIAMFails, HandleIAM, CatchUp, CaughtUp, LeaveIAM,
       RecvTRICK, RecvTRICKFails, HandleTRICK, RefuseTRICK, SpoiltTRICK, WrongSent,
       Blocks, Fail
  <2>2. Delivers(fd) \/ Returns(fd) \/ UNCHANGED seen
    BY <1>2
    DEF PlayerStep, RecvIAM, RecvIAMFails, HandleIAM, CatchUp, CaughtUp, LeaveIAM,
       RecvTRICK, RecvTRICKFails, HandleTRICK, RefuseTRICK, SpoiltTRICK, WrongSent,
       Blocks, Fail, Breaks
  <2>3. QED
    BY <2>1, <2>2 DEF FieldsInv, Delivers, Returns
<1>3. CASE MainStep \/ AcceptStep \/ UNCHANGED vars \/ \E fd \in Fds : ClientCloses(fd)
  BY <1>3
  DEF FieldsInv, MainStep, NextDeal, JoinDeal, EndGame, StopAccepting, DisconnectAll,
     JoinClients, AcceptStep, PollIn, PollHup, Accept, AcceptFails, ClientCloses, vars
<1>4. QED
  BY <1>1, <1>2, <1>3 DEF Next

\* A thread reads on with its client told all it should be: one that takes a free
\* seat comes before the deal or to a suspended one, and one that came back has
\* been sent the tricks one after another, while the deal stood still.
LEMMA ToldPlayerStep ==
  ASSUME AllTold, Once, NumberInv, SendHeld, MtxHeld, SeatInv, LoopInv, ConnInv, EntryInv,
         TableInv, DealInv, FieldsInv, NEW fd \in Fds, PlayerStep(fd), blocks' = blocks,
         blocks \in Nat
  PROVE  AllTold'
<1>0. /\ pc \in [Fds -> Places] /\ DOMAIN out = Senders /\ Fds \subseteq Senders
      /\ DOMAIN ti = Fds /\ DOMAIN seen = Fds /\ seat \in [Fds -> Seats \cup {NoSeat}]
      /\ fd \in Senders
      /\ out[fd] # Nothing => out[fd].to = fd
  BY DEF SeatInv, LoopInv, Senders, ConnInv, FieldsInv
<1>1. SameTable
  <2>1. /\ UNCHANGED <<dealPc, it, di>>
        /\ UNCHANGED deal \/ (di > 0 /\ \E card : deal' = PlayCard(deal, card))
    BY DEF PlayerStep, RecvIAM, RecvIAMFails, HandleIAM, CatchUp, CaughtUp, LeaveIAM,
       RecvTRICK, RecvTRICKFails, HandleTRICK, RefuseTRICK, SpoiltTRICK, WrongSent,
       Blocks, Fail
  <2>2. di > 0 => IsDeal(deal)
    BY DEF TableInv, GameInv
  <2>3. QED
    BY <2>1, <2>2, DealNumbers DEF SameTable
<1>2. ASSUME NEW f \in Fds, f # fd PROVE Knows(f)'
  <2>1. pc'[f] = pc[f] /\ out'[f] = out[f]
    <3>1. f \in Senders
      BY <1>0
    <3>2. QED
      BY <1>0, <1>2, <3>1, PlayerStepConn
  <2>2. seat'[f] = seat[f] /\ ti'[f] = ti[f]
    BY <1>0, <1>2
    DEF PlayerStep, RecvIAM, RecvIAMFails, HandleIAM, CatchUp, CaughtUp, LeaveIAM,
       RecvTRICK, RecvTRICKFails, HandleTRICK, RefuseTRICK, SpoiltTRICK, WrongSent,
       Blocks, Fail, Returns
  <2>3. seen'[f] = seen[f]
    <3>1. \/ Delivers(fd) \/ Returns(fd) \/ UNCHANGED seen
      BY DEF PlayerStep, RecvIAM, RecvIAMFails, HandleIAM, CatchUp, CaughtUp, LeaveIAM,
         RecvTRICK, RecvTRICKFails, HandleTRICK, RefuseTRICK, SpoiltTRICK, WrongSent,
         Blocks, Fail, Breaks
    <3>2. QED
      BY <1>0, <1>2, <3>1 DEF Delivers, Returns
  <2>4. QED
    BY <1>1, <2>1, <2>2, <2>3, ElsewhereKeepsKnowing DEF AllTold
<1>3. Knows(fd)
  BY DEF AllTold
<1>4. pc[fd] \in CatchingUp => dealPc \notin DealSends
  BY PlacesSending, Descriptors DEF MtxHeld
<1>5. ASSUME Delivers(fd) PROVE seen'[fd] = Hear(seen[fd], out[fd])
  BY <1>0, <1>5 DEF Delivers
<1>6. ASSUME \E s \in Seats : RecvIAM(fd, s) PROVE Knows(fd)'
  BY <1>0, <1>6, AbsentKnows, PlacesSeated DEF RecvIAM, GoesTo
<1>7. ASSUME RecvIAMFails(fd) \/ LeaveIAM(fd) \/ Fail(fd) PROVE Knows(fd)'
  BY <1>0, <1>7, AbsentKnows, PlacesSeated DEF RecvIAMFails, LeaveIAM, Fail, Returns
<1>8. ASSUME HandleIAM(fd) PROVE Knows(fd)'
  <2>1. CASE SeatTaken(seat[fd])
    BY <1>0, <1>8, <2>1, AbsentKnows, PlacesSeated DEF HandleIAM, Sends, GoesTo
  <2>2. CASE ~SeatTaken(seat[fd]) /\ dealSuspended
    <3>1. pc'[fd] = "catchDEAL" /\ out'[fd] = Message("DEAL", fd, 0)
      BY <1>0, <1>8, <2>2 DEF HandleIAM, Sends, GoesTo
    <3>2. QED
      BY <1>1, <3>1, PlacesSeated DEF Knows, KnowsReturn, SameTable, Message
  <2>3. CASE ~SeatTaken(seat[fd]) /\ ~dealSuspended
    <3>1. pc'[fd] = "recvTRICK" /\ ~AllSeated
      BY <1>0, <1>8, <2>3 DEF HandleIAM, GoesTo, SeatTaken, EntryInv, AllSeated
    <3>2. dealPc \in {"ready", "done"}
      BY <2>3, <3>1 DEF Once, DealInv
    <3>3. QED
      BY <1>1, <3>1, <3>2 DEF Knows, KnowsTable, KnowsReturn, SameTable
  <2>4. QED
    BY <2>1, <2>2, <2>3
<1>9. ASSUME CatchUp(fd) PROVE Knows(fd)'
  <2>1. pc[fd] \in CatchingUp /\ pc[fd] \in {"catchDEAL", "catchTAKEN"} /\ Delivers(fd)
    BY <1>9, PlacesSeated DEF CatchUp
  <2>2. dealPc \notin DealSends
    BY <1>4, <2>1
  <2> DEFINE i == NextToTell(fd)
  <2>3. /\ \/ pc'[fd] = "catchTAKEN" /\ out'[fd] = Message("TAKEN", fd, i + 1)
              /\ ti'[fd] = i /\ i < Len(deal.tricksTaken)
           \/ pc'[fd] \in {"catchTRICK", "recvTRICK"} /\ ~(i < Len(deal.tricksTaken))
    BY <1>0, <1>9 DEF CatchUp, Sends, GoesTo
  <2>4. CASE dealPc \notin {"await", "suspended"}
    BY <1>1, <2>2, <2>4 DEF Knows, KnowsTable, KnowsReturn, SameTable, DealSends
  <2>5. CASE dealPc \in {"await", "suspended"}
    <3>1. /\ Len(deal.tricksTaken) = deal.currentTrick - 1 /\ deal.currentTrick \in Nat
          /\ Len(deal.tricksTaken) \in Nat
      <4>1. di > 0
        BY <2>5 DEF TableInv
      <4>2. QED
        BY <4>1, DealNumbers DEF NumberInv, TableInv, GameInv
    <3>2. i \in Nat /\ i <= Len(deal.tricksTaken) /\ seen'[fd] = Seen(i)
      <4>1. CASE pc[fd] = "catchDEAL"
        <5>1. i = 0 /\ out[fd] = Message("DEAL", fd, 0)
          BY <1>3, <2>5, <4>1 DEF NextToTell, Knows, KnowsReturn
        <5>2. seen'[fd] = Seen(0)
          <6>1. Hear(seen[fd], Message("DEAL", fd, 0)) = Seen(0)
            BY Hearing
          <6>2. QED
            BY <1>5, <2>1, <5>1, <6>1
        <5>3. 0 <= Len(deal.tricksTaken)
          BY <3>1
        <5>4. QED
          BY <5>1, <5>2, <5>3
      <4>2. CASE pc[fd] = "catchTAKEN"
        <5>1. /\ i = ti[fd] + 1 /\ ti[fd] \in Nat /\ ti[fd] < Len(deal.tricksTaken)
              /\ seen[fd] = Seen(ti[fd]) /\ out[fd] = Message("TAKEN", fd, ti[fd] + 1)
          BY <1>3, <2>5, <4>2 DEF NextToTell, Knows, KnowsReturn
        <5>2. seen'[fd] = Seen(ti[fd] + 1)
          <6>1. Hear(Seen(ti[fd]), Message("TAKEN", fd, ti[fd] + 1)) = Seen(ti[fd] + 1)
            BY <5>1, Hearing
          <6>2. QED
            BY <1>5, <2>1, <5>1, <6>1
        <5>3. QED
          BY <3>1, <5>1, <5>2
      <4>3. QED
        BY <2>1, <4>1, <4>2
    <3> HIDE DEF i
    <3>3. ~(i < Len(deal.tricksTaken)) => seen'[fd] = Seen(deal.currentTrick - 1)
      <4>1. ~(i < Len(deal.tricksTaken)) => i = deal.currentTrick - 1
        BY <3>1, <3>2
      <4>2. QED
        BY <3>2, <4>1
    <3>4. CASE i < Len(deal.tricksTaken)
      BY <1>1, <2>3, <3>2, <3>4, PlacesSeated
      DEF Knows, KnowsReturn, SameTable, Seen, Message
    <3>5. CASE ~(i < Len(deal.tricksTaken))
      BY <1>1, <2>3, <2>5, <3>3, <3>5 DEF Knows, KnowsTable, KnowsReturn, SameTable, Seen
    <3>6. QED
      BY <3>4, <3>5
  <2>6. QED
    BY <2>4, <2>5
<1>10. ASSUME CaughtUp(fd) PROVE Knows(fd)'
  <2>1. /\ pc[fd] \in CatchingUp /\ pc[fd] = "catchTRICK" /\ Delivers(fd)
        /\ pc'[fd] = "recvTRICK"
    BY <1>0, <1>10, PlacesSeated DEF CaughtUp, GoesTo
  <2>2. seen'[fd] = seen[fd] /\ dealPc \notin DealSends
    BY <1>4, <1>5, <2>1, Hearing DEF SendHeld
  <2>3. dealPc \in {"await", "suspended"} => seen[fd] = Seen(deal.currentTrick - 1)
    BY <1>3, <2>1 DEF Knows, KnowsReturn
  <2>4. QED
    BY <1>1, <2>1, <2>2, <2>3
    DEF Knows, KnowsTable, KnowsReturn, SameTable, Seen, DealSends
<1>11. ASSUME RecvTRICK(fd) \/ RecvTRICKFails(fd) \/ SpoiltTRICK(fd) PROVE Knows(fd)'
  BY <1>0, <1>1, <1>3, <1>11, MovingKeepsKnowing, PlacesSeated
  DEF RecvTRICK, RecvTRICKFails, SpoiltTRICK, MayHandle, GoesTo
<1>12. ASSUME NEW trick, NEW card, HandleTRICK(fd, trick, card) PROVE Knows(fd)'
  BY <1>0, <1>1, <1>3, <1>12, MovingKeepsKnowing, PlacesSeated
  DEF HandleTRICK, MayHandle, GoesTo
<1>13. ASSUME NEW trick, NEW card, RefuseTRICK(fd, trick, card) PROVE Knows(fd)'
  BY <1>0, <1>1, <1>3, <1>13, MovingKeepsKnowing, PlacesSeated
  DEF RefuseTRICK, MayHandle, Sends, GoesTo
<1>14. ASSUME WrongSent(fd) PROVE Knows(fd)'
  <2>1. /\ pc[fd] = "WRONG" /\ pc'[fd] \in {"recvTRICK", "failed"} /\ UNCHANGED seat
        /\ Delivers(fd) \/ UNCHANGED seen
    BY <1>0, <1>14 DEF WrongSent, GoesTo, Breaks
  <2>2. seen'[fd] = seen[fd]
    BY <1>5, <2>1, Hearing DEF SendHeld
  <2>3. QED
    BY <1>1, <1>3, <2>1, <2>2, MovingKeepsKnowing, PlacesSeated
<1>15. ASSUME Blocks(fd) PROVE Knows(fd)'
  BY <1>15 DEF Blocks
<1>16. Knows(fd)'
  BY <1>6, <1>7, <1>8, <1>9, <1>10, <1>11, <1>12, <1>13, <1>14, <1>15 DEF PlayerStep
<1>17. QED
  BY <1>2, <1>16 DEF AllTold

\* dealThread tells every client at the table of the deal, and of every trick it
\* ends before it asks for the next card.
LEMMA ToldDealStep ==
  ASSUME AllTold, NumberInv, SendHeld, MtxHeld, SeatInv, LoopInv, ConnInv, EntryInv,
         TableInv, DealStep, blocks' = blocks, blocks \in Nat
  PROVE  AllTold'
<1>0. /\ UNCHANGED <<pc, seat, ti, di>> /\ it \in Int
      /\ \A fd \in Fds : out'[fd] = out[fd]
  <2>1. UNCHANGED <<pc, seat, ti, di>>
    BY DEF DealStep, DealReady, Broadcast, BroadcastFails, Blocks, BeginTurn, AskSent,
       Timeout, Answered, Resume, EndTrick, EndDeal
  <2>2. QED
    BY <2>1, DealStepOut DEF LoopInv
<1> SUFFICES ASSUME NEW fd \in Fds PROVE Knows(fd)'
  BY DEF AllTold
<1>1. Knows(fd)
  BY DEF AllTold
<1>2. CASE BroadcastFails
  BY <1>0, <1>1, <1>2, ElsewhereKeepsKnowing DEF BroadcastFails, Breaks, SameTable
<1>3. CASE Blocks(DealThread)
  BY <1>3 DEF Blocks
<1>4. di > 0 => /\ Len(deal.tricksTaken) = deal.currentTrick - 1
                /\ deal.currentTrick \in Nat /\ IsDeal(deal)
  BY DealNumbers DEF NumberInv, TableInv, GameInv
<1>5. ASSUME dealPc' = "await" => pc[fd] \notin CatchingUp,
             dealPc' = "suspended" => pc[fd] \notin CatchingUp,
             pc[fd] \in Seated \ CatchingUp => KnowsTable(fd)'
      PROVE  Knows(fd)'
  BY <1>0, <1>5, PlacesSeated DEF Knows, KnowsReturn
<1>6. ASSUME dealPc' \notin {"DEAL", "turn", "suspended", "TRICK", "await", "TAKEN"}
      PROVE  Knows(fd)'
  BY <1>5, <1>6 DEF KnowsTable
<1>7. ASSUME TurnOver, dealPc \in {"suspended", "TRICK", "await"}, seen'[fd] = seen[fd]
      PROVE  Knows(fd)'
  <2>1. deal'.currentTrick = deal.currentTrick
    BY <1>4, <1>7, DealNumbers DEF TurnOver, TableInv
  <2>2. \/ dealPc' = "TAKEN" /\ it' = Following(0)
        \/ dealPc' = "turn"
    BY <1>7 DEF TurnOver, SendTo
  <2>3. ASSUME pc[fd] \in Seated \ CatchingUp PROVE KnowsTable(fd)'
    <3>1. seen[fd] = Seen(deal.currentTrick - 1)
      BY <1>1, <1>7, <2>3 DEF Knows, KnowsTable
    <3>2. it' = Following(0) => ~Passed(fd)'
      BY <1>0, <2>3, Passing
    <3>3. QED
      BY <1>0, <1>7, <2>1, <2>2, <3>1, <3>2 DEF KnowsTable, Seen
  <2>4. QED
    BY <1>5, <2>2, <2>3
<1>8. CASE DealReady
  <2>1. dealPc' = "DEAL" /\ it' = Following(0)
    BY <1>8 DEF DealReady, SendTo
  <2>2. pc[fd] \in Seated => ~Passed(fd)'
    BY <1>0, <2>1, Passing
  <2>3. QED
    BY <1>5, <2>1, <2>2 DEF KnowsTable
<1>9. CASE Broadcast
  <2>1. CASE dealPc \in {"SCORE", "TOTAL"}
    BY <1>6, <1>9, <2>1 DEF Broadcast, SendTo
  <2>2. CASE dealPc \in {"DEAL", "TAKEN"}
    <3> DEFINE m == out[DealThread]
    <3>1. dealPc' = dealPc /\ it' = Following(it) /\ UNCHANGED deal /\ it # End /\ m # Nothing
      BY <1>9, <2>2 DEF Broadcast, SendTo, Delivers, SendHeld
    <3>2. m = Message(dealPc, playerFds[KeyOrder[it]],
                      IF dealPc = "TAKEN" THEN deal.currentTrick ELSE 0)
      BY <2>2, <3>1 DEF SendHeld
    <3>3. seen'[fd] = IF m.to = fd THEN Hear(seen[fd], m) ELSE seen[fd]
      BY <1>9 DEF Broadcast, Delivers
    <3>4. m.to = playerFds[KeyOrder[it]]
      BY <3>2 DEF Message
    <3> HIDE DEF m
    <3>5. ASSUME pc[fd] \in Seated \ CatchingUp PROVE KnowsTable(fd)'
      <4>1. Passed(fd)' => Passed(fd) \/ m.to = fd
        BY <1>0, <3>1, <3>4, <3>5, Passing
      <4>2. KnowsTable(fd)
        BY <1>1, <3>5 DEF Knows
      <4>3. CASE dealPc = "DEAL"
        <5>1. Hear(seen[fd], m) = Seen(0)
          BY <3>2, <4>3, Hearing
        <5>2. QED
          BY <1>0, <3>1, <3>3, <4>1, <4>2, <4>3, <5>1 DEF KnowsTable, Seen
      <4>4. CASE dealPc = "TAKEN"
        <5> DEFINE k == deal.currentTrick
        <5>1. k \in Nat /\ k - 1 \in Nat
          <6>1. di > 0 /\ Len(deal.tricksTaken) \in Nat
            BY <1>4, <4>4, DealNumbers DEF TableInv
          <6>2. QED
            BY <1>4, <6>1
        <5>2. m = Message("TAKEN", playerFds[KeyOrder[it]], k)
          BY <3>2, <4>4
        <5>3. Hear(Seen(k), m) = Seen(k)
          BY <5>1, <5>2, Hearing
        <5>4. Hear(Seen(k - 1), m) = Seen(k)
          <6>1. (k - 1) + 1 = k
            BY <5>1
          <6>2. QED
            BY <5>1, <5>2, <6>1, Hearing
        <5>5. seen[fd] \in {Seen(k - 1), Seen(k)} /\ (Passed(fd) => seen[fd] = Seen(k))
          BY <4>2, <4>4 DEF KnowsTable
        <5>6. seen'[fd] \in {Seen(k - 1), Seen(k)} /\ (Passed(fd)' => seen'[fd] = Seen(k))
          BY <3>3, <4>1, <5>3, <5>4, <5>5
        <5>7. QED
          BY <1>0, <3>1, <4>4, <5>6 DEF KnowsTable, Seen
      <4>5. QED
        BY <2>2, <4>3, <4>4
    <3>6. QED
      BY <1>5, <2>2, <3>1, <3>5
  <2>3. QED
    BY <1>9, <2>1, <2>2 DEF Broadcast
<1>10. CASE BeginTurn
  <2>1. /\ dealPc' \in {"suspended", "TRICK"} /\ UNCHANGED <<seen, deal>>
        /\ (dealPc = "DEAL" /\ it = End) \/ dealPc = "turn"
    BY <1>10 DEF BeginTurn, Ask
  <2>2. pc[fd] \notin CatchingUp
    BY <2>1, PlacesSending, Descriptors DEF MtxHeld, DealSends
  <2>3. ASSUME pc[fd] \in Seated \ CatchingUp PROVE KnowsTable(fd)'
    <3>1. seen[fd] = Seen(deal.currentTrick - 1)
      <4>1. CASE dealPc = "DEAL" /\ it = End
        <5>1. Passed(fd)
          BY <1>0, <2>3, <4>1, Passing
        <5>2. deal.currentTrick = 1
          BY <4>1 DEF NumberInv
        <5>3. QED
          BY <1>1, <2>3, <4>1, <5>1, <5>2 DEF Knows, KnowsTable
      <4>2. CASE dealPc = "turn"
        BY <1>1, <2>3, <4>2 DEF Knows, KnowsTable
      <4>3. QED
        BY <2>1, <4>1, <4>2
    <3>2. QED
      BY <1>0, <2>1, <3>1 DEF KnowsTable, Seen
  <2>4. QED
    BY <1>5, <2>2, <2>3
<1>11. CASE AskSent
  <2>1. dealPc = "TRICK" /\ (Delivers(DealThread) \/ UNCHANGED seen)
    BY <1>11 DEF AskSent, Breaks
  <2>2. seen'[fd] = seen[fd]
    BY <2>1, Hearing DEF Delivers, SendHeld
  <2>3. CASE TurnOver
    BY <1>7, <2>1, <2>2, <2>3
  <2>4. CASE dealPc' = "await" /\ UNCHANGED deal
    <3>1. pc[fd] \notin CatchingUp
      BY <2>1, PlacesSending, Descriptors DEF MtxHeld, DealSends
    <3>2. pc[fd] \in Seated \ CatchingUp => KnowsTable(fd)'
      BY <1>0, <1>1, <2>1, <2>2, <2>4 DEF Knows, KnowsTable, Seen
    <3>3. QED
      BY <1>5, <3>1, <3>2
  <2>5. QED
    BY <1>11, <2>3, <2>4 DEF AskSent
<1>12. CASE Timeout
  <2>1. dealPc = "await" /\ dealPc' = "turn" /\ UNCHANGED <<seen, deal>>
    BY <1>12 DEF Timeout
  <2>2. QED
    BY <1>0, <1>1, <1>5, <2>1 DEF Knows, KnowsTable, Seen
<1>13. CASE Answered
  BY <1>7, <1>13 DEF Answered
<1>14. CASE Resume
  <2>1. dealPc = "suspended" /\ UNCHANGED seen
    BY <1>14 DEF Resume
  <2>2. CASE TurnOver
    BY <1>7, <2>1, <2>2
  <2>3. CASE Ask /\ UNCHANGED deal
    <3>1. dealPc' = "TRICK"
      BY <2>3 DEF Ask
    <3>2. QED
      BY <1>0, <1>1, <1>5, <2>1, <2>3, <3>1 DEF Knows, KnowsTable, Seen
  <2>4. QED
    BY <1>14, <2>2, <2>3 DEF Resume
<1>15. CASE EndTrick
  <2>1. dealPc = "TAKEN" /\ it = End /\ UNCHANGED seen /\ di > 0
    BY <1>15 DEF EndTrick, TableInv
  <2>2. CASE dealPc' = "SCORE"
    BY <1>6, <2>2
  <2>3. CASE dealPc' = "turn" /\ deal' = NextTrick(deal)
    <3>1. deal'.currentTrick - 1 = deal.currentTrick
      BY <1>4, <2>1, <2>3, DealNumbers
    <3>2. ASSUME pc[fd] \in Seated \ CatchingUp PROVE KnowsTable(fd)'
      <4>1. seen[fd] = Seen(deal.currentTrick)
        BY <1>0, <1>1, <2>1, <3>2, Passing DEF Knows, KnowsTable
      <4>2. QED
        BY <1>0, <2>1, <2>3, <3>1, <4>1 DEF KnowsTable, Seen
    <3>3. QED
      BY <1>5, <2>3, <3>2
  <2>4. QED
    BY <1>15, <2>2, <2>3 DEF EndTrick, SendTo
<1>16. CASE EndDeal
  BY <1>6, <1>16 DEF EndDeal
<1>17. QED
  BY <1>2, <1>3, <1>8, <1>9, <1>10, <1>11, <1>12, <1>13, <1>14, <1>15, <1>16 DEF DealStep

\* Every step of the program, while at most one client has left and no write has
\* blocked.
LEMMA ToldStep ==
  ASSUME ToldInv, SendInv, NumberInv, OnceInv, MtxInv, DealInv, ConnInv, LoopInv, EntryInv,
         TableInv, PeaceInv, FieldsInv, [Next]_vars
  PROVE  ToldInv'
<1> SUFFICES ASSUME drops' <= 1, blocks' = 0 PROVE AllTold'
  BY DEF ToldInv
<1>1. /\ blocks \in Nat /\ blocks = 0 /\ blocks' = blocks
      /\ drops \in Nat /\ drops' \in {drops, drops + 1}
  BY BlocksGrow, DropsGrow DEF MtxInv, PeaceInv
<1>2. AllTold /\ SendHeld /\ MtxHeld /\ SeatInv
  BY <1>1 DEF ToldInv, SendInv, MtxInv, LoopInv
<1>3. ASSUME SameTable, UNCHANGED <<seat, ti, out, seen>>,
             \A fd \in Fds : pc'[fd] = pc[fd] \/ pc'[fd] \notin Seated
      PROVE  AllTold'
  BY <1>2, <1>3, ElsewhereKeepsKnowing, AbsentKnows DEF AllTold
<1>4. CASE NextDeal
  <2>1. dealPc' = "ready"
    BY <1>4 DEF NextDeal
  <2>2. QED
    BY <2>1 DEF AllTold, Knows, KnowsTable, KnowsReturn
<1>5. CASE MainStep /\ ~NextDeal
  BY <1>3, <1>5
  DEF MainStep, JoinDeal, EndGame, StopAccepting, DisconnectAll, JoinClients, SameTable
<1>6. CASE Accept
  <2>1. PICK fd : pc' = [pc EXCEPT ![fd] = "recvIAM"]
    BY <1>6 DEF Accept
  <2>2. \A f \in Fds : pc'[f] = pc[f] \/ pc'[f] \notin Seated
    BY <1>2, <2>1, PlacesSeated DEF SeatInv
  <2>3. SameTable /\ UNCHANGED <<seat, ti, out, seen>>
    BY <1>6 DEF Accept, SameTable
  <2>4. QED
    BY <1>3, <2>2, <2>3
<1>7. CASE PollIn \/ PollHup \/ AcceptFails
  BY <1>3, <1>7 DEF PollIn, PollHup, AcceptFails, SameTable
<1>8. CASE \E fd \in Fds : ClientCloses(fd)
  BY <1>3, <1>8 DEF ClientCloses, SameTable
<1>9. CASE UNCHANGED vars
  BY <1>3, <1>9 DEF vars, SameTable
<1>10. CASE DealStep
  BY <1>1, <1>2, <1>10, ToldDealStep
<1>11. ASSUME NEW fd \in Fds, PlayerStep(fd) PROVE AllTold'
  <2>1. drops <= 1
    BY <1>1
  <2>2. CASE gameOver
    <3>1. dealPc = "done"
      BY <2>2 DEF DealInv
    <3>2. UNCHANGED dealPc
      BY <1>11 DEF PlayerStep, RecvIAM, RecvIAMFails, HandleIAM, CatchUp, CaughtUp,
         LeaveIAM, RecvTRICK, RecvTRICKFails, HandleTRICK, RefuseTRICK, SpoiltTRICK,
         WrongSent, Blocks, Fail
    <3>3. QED
      BY <3>1, <3>2 DEF AllTold, Knows, KnowsTable, KnowsReturn
  <2>3. CASE ~gameOver
    BY <1>1, <1>2, <1>11, <2>1, <2>3, ToldPlayerStep DEF OnceInv
  <2>4. QED
    BY <2>2, <2>3
<1>12. QED
  BY <1>4, <1>5, <1>6, <1>7, <1>8, <1>9, <1>10, <1>11 DEF Next, AcceptStep

\* All of it, at first and after every step.
InformedInv == SeatsInv /\ NumberInv /\ SendInv /\ FieldsInv /\ ToldInv

\* At first nobody is at the table and no deal has begun.
LEMMA InformedInit == Init => InformedInv
<1> SUFFICES ASSUME Init PROVE InformedInv
  OBVIOUS
<1>1. di = 0 /\ dealPc = "done" /\ \A fd \in Fds : pc[fd] = "none"
  BY DEF Init
<1>2. NumberInv /\ SendInv /\ ToldInv
  BY <1>1
  DEF NumberInv, SendInv, SendHeld, ToldInv, AllTold, Knows, KnowsTable, KnowsReturn
<1>3. FieldsInv
  BY DEF Init, FieldsInv
<1>4. QED
  BY <1>2, <1>3, SeatsInit DEF InformedInv

\* Every step of the program keeps all of it.
LEMMA InformedStep == InformedInv /\ [Next]_vars => InformedInv'
<1> SUFFICES ASSUME InformedInv, [Next]_vars PROVE InformedInv'
  OBVIOUS
<1>1. /\ SeatsInv /\ NumberInv /\ SendInv /\ FieldsInv /\ ToldInv
      /\ DealInv /\ OnceInv /\ MtxInv /\ LoopInv /\ EntryInv /\ TableInv /\ ConnInv
      /\ PeaceInv
  BY DEF InformedInv, SeatsInv, QuietInv, CardInv
<1>2. QED
  BY <1>1, SeatsStep, NumberStep, SendStep, FieldsStep, ToldStep DEF InformedInv

\* Whoever leaves and comes back: as long as at most one client has left and no
\* write has blocked, every client at the table has been told of the deal and of
\* every trick taken in it when a card is awaited.
THEOREM TableAlwaysInformed == Spec => [](drops <= 1 /\ blocks = 0 => TableInformed)
<1>1. InformedInv => (drops <= 1 /\ blocks = 0 => TableInformed)
  <2> SUFFICES ASSUME InformedInv, drops <= 1, blocks = 0, dealPc = "await",
                      NEW fd \in Fds, pc[fd] \in {"recvTRICK", "handleTRICK"}
               PROVE  seen[fd] = [deal |-> di, taken |-> deal.currentTrick - 1]
    BY DEF TableInformed
  <2>1. AllTold /\ pc[fd] \in Seated \ CatchingUp
    BY PlacesSeated DEF InformedInv, ToldInv
  <2>2. QED
    BY <2>1 DEF AllTold, Knows, KnowsTable, Seen
<1>2. QED
  BY InformedInit, InformedStep, <1>1, PTL DEF Spec
-----------------------------------------------------------------------------
\* The types.

\* The descriptors of the connections are those of Fds: poll reports a client
\* only while there is one left.
RoomInv ==
  /\ clients \ {Stdin} \subseteq Fds
  /\ acceptPc = "accept" => Cardinality(clients \ {Stdin}) < MaxConns

\* The places of the threads, the flags and the lock, and the bounds.
PlaceType ==
  /\ mainPc \in {"next", "join", "stopAccepting", "joinAccept", "joinClients", "exit"}
  /\ dealPc \in {"ready", "DEAL", "turn", "suspended", "TRICK", "await", "TAKEN",
                 "SCORE", "TOTAL", "done"}
  /\ acceptPc \in {"poll", "accept", "done"}
  /\ aborted \in {"no", "send", "accept", "shutdown", "null"}
FlagType ==
  /\ gameOver \in BOOLEAN /\ dealStarted \in BOOLEAN /\ dealSuspended \in BOOLEAN
  /\ listening \in BOOLEAN /\ mtx \in {Unlocked} \cup Senders
BoundType ==
  /\ di <= Len(GameFile) /\ it \in 1..End
  /\ drops \in 0..MaxDrops /\ blocks \in 0..MaxBlocks

\* Whose card is expected, and the totals.
ScoreType ==
  /\ fdExpectedTrick \in Fds \cup {Stdin, NoFd}
  /\ DOMAIN totalScores \subseteq Seats
  /\ totalScores \in [DOMAIN totalScores -> Nat]

\* The messages the threads send and what the clients have of them.
MessageType == [kind : {"", "BUSY", "DEAL", "TRICK", "WRONG", "TAKEN", "SCORE", "TOTAL"},
                to : Fds \cup {Stdin, NoFd}, deal : Nat, trick : Nat]
KnowledgeType == [deal : Nat, taken : Nat]
ClientType ==
  /\ ti \in [Fds -> Nat] /\ closed \subseteq Fds
  /\ out \in [Senders -> MessageType]
  /\ seen \in [Fds -> KnowledgeType]

TypesInv ==
  /\ SeatsInv /\ RoomInv
  /\ PlaceType /\ FlagType /\ BoundType /\ ScoreType /\ ClientType

\* They make up TypeOK.
LEMMA TypesAreTypeOK == TypesInv => TypeOK
<1> SUFFICES ASSUME TypesInv PROVE TypeOK
  OBVIOUS
<1>1. /\ SeatInv /\ EntryInv /\ TableInv /\ ConnInv /\ RoomInv
      /\ PlaceType /\ FlagType /\ BoundType /\ ScoreType /\ ClientType
  BY DEF TypesInv, SeatsInv, QuietInv, CardInv
<1>2. di \in 0..Len(GameFile) /\ (di > 0 => IsDeal(deal))
  <2>1. di \in Nat /\ Len(GameFile) \in Nat
    BY <1>1, ServerAssumption, LenProperties DEF TableInv
  <2>2. QED
    BY <1>1, <2>1 DEF TableInv, GameInv, BoundType
<1>3. clients \subseteq Fds \cup {Stdin} /\ disconnected \subseteq Fds
  BY <1>1 DEF RoomInv, ConnInv
<1>4. DOMAIN playerFds \subseteq Seats /\ Range(playerFds) \subseteq Fds \cup {Stdin}
  BY <1>1, <1>3 DEF EntryInv, ConnInv, Range
<1>5. DOMAIN totalScores \subseteq Seats /\ Range(totalScores) \subseteq Nat
  BY <1>1 DEF ScoreType, Range
<1>6. pc \in [Fds -> Places] /\ seat \in [Fds -> Seats \cup {NoSeat}]
      /\ trickDone \in [Seats -> BOOLEAN]
  BY <1>1 DEF SeatInv, TableInv
<1>7. QED
  BY <1>1, <1>2, <1>3, <1>4, <1>5, <1>6
  DEF TypeOK, PlaceType, FlagType, BoundType, ScoreType, ClientType, MessageType, KnowledgeType

\* No connection is accepted beyond the last descriptor.
LEMMA RoomStep ==
  ASSUME LoopInv, ConnInv, RoomInv, [Next]_vars
  PROVE  RoomInv'
<1>1. CASE Accept
  <2>1. PICK k \in Nat : /\ clients \ {Stdin} = 5..(4 + k)
                         /\ clients' = clients \cup {5 + k}
    BY <1>1, AcceptFresh
  <2>2. Cardinality(clients \ {Stdin}) = k /\ k < MaxConns
    <3>1. 5 \in Int /\ 4 + k \in Int
      OBVIOUS
    <3>2. Cardinality(5..(4 + k)) = IF 5 > 4 + k THEN 0 ELSE (4 + k) - 5 + 1
      BY <3>1, FS_Interval
    <3>3. (IF 5 > 4 + k THEN 0 ELSE (4 + k) - 5 + 1) = k
      OBVIOUS
    <3>4. Cardinality(clients \ {Stdin}) = k
      BY <2>1, <3>2, <3>3, Zenon
    <3>5. QED
      BY <1>1, <3>4 DEF Accept, RoomInv
  <2>3. 5 + k \in Fds
    BY <2>2, ServerAssumption DEF Fds
  <2>4. acceptPc' = "poll"
    BY <1>1 DEF Accept
  <2>5. QED
    BY <2>1, <2>3, <2>4 DEF RoomInv
<1>2. ASSUME UNCHANGED acceptPc, clients' \ {Stdin} = clients \ {Stdin} PROVE RoomInv'
  BY <1>2 DEF RoomInv
<1>3. CASE DealStep
  <2>1. clients' \ {Stdin} = clients \ {Stdin}
    <3>1. Delivers(DealThread) \/ clients' = clients
      BY <1>3 DEF DealStep, DealReady, Broadcast, BroadcastFails, Blocks, BeginTurn, AskSent,
         Timeout, Answered, Resume, EndTrick, EndDeal, Breaks
    <3>2. QED
      BY <3>1 DEF Delivers, Logged, ConnInv
  <2>2. UNCHANGED acceptPc
    BY <1>3 DEF DealStep, DealReady, Broadcast, BroadcastFails, Blocks, BeginTurn, AskSent,
       Timeout, Answered, Resume, EndTrick, EndDeal
  <2>3. QED
    BY <1>2, <2>1, <2>2
<1>4. CASE \E fd \in Fds : PlayerStep(fd)
  <2>1. UNCHANGED clients
    BY <1>4, PlayerStepConn
  <2>2. UNCHANGED acceptPc
    BY <1>4 DEF PlayerStep, RecvIAM, RecvIAMFails, HandleIAM, CatchUp, CaughtUp, LeaveIAM,
       RecvTRICK, RecvTRICKFails, HandleTRICK, RefuseTRICK, SpoiltTRICK, WrongSent, Blocks,
       Fail
  <2>3. QED
    BY <1>2, <2>1, <2>2
<1>5. CASE MainStep \/ AcceptFails \/ UNCHANGED vars \/ \E fd \in Fds : ClientCloses(fd)
  BY <1>2, <1>5 DEF MainStep, NextDeal, JoinDeal, EndGame, StopAccepting, DisconnectAll,
     JoinClients, AcceptFails, ClientCloses, vars
<1>6. CASE PollIn \/ PollHup
  BY <1>6 DEF PollIn, PollHup, RoomInv
<1>7. QED
  BY <1>1, <1>3, <1>4, <1>5, <1>6 DEF Next, AcceptStep

\* A loop over player_fds stays among its seats, and goes on to a later place.
LEMMA FollowingType ==
  ASSUME NEW i \in Int, i >= 0
  PROVE  Following(i) \in 1..End /\ (i < End => Following(i) > i)
<1> DEFINE rest == {j \in DOMAIN KeyOrder : j > i /\ KeyOrder[j] \in DOMAIN playerFds}
<1>1. KeyOrder \in Seq(Seats) /\ End = Len(KeyOrder) + 1
  BY KeyPlaces DEF End
<1>2. Len(KeyOrder) \in Nat /\ DOMAIN KeyOrder = 1..Len(KeyOrder)
  BY <1>1, LenProperties
<1>3. CASE rest = {}
  <2>1. Following(i) = End
    BY <1>3 DEF Following
  <2>2. QED
    BY <1>1, <1>2, <2>1
<1>4. CASE rest # {}
  <2>1. rest \subseteq Nat /\ rest \subseteq 1..End
    BY <1>1, <1>2
  <2> HIDE DEF rest
  <2>2. PICK j \in rest : \A k \in rest : ~(<<k, j>> \in OpToRel(<, Nat))
    BY <1>4, <2>1, NatLessThanWellFounded, WFMin
  <2>3. \A k \in rest : ~(k < j)
    BY <2>1, <2>2 DEF OpToRel
  <2>4. \A k \in rest : j <= k
    BY <2>1, <2>3
  <2>5. (CHOOSE m \in rest : \A k \in rest : m <= k) \in rest
    BY <2>4
  <2>6. QED
    BY <1>4, <2>1, <2>5 DEF Following, rest
<1>5. QED
  BY <1>3, <1>4

\* The threads go from one of their places to another.
LEMMA PlaceStep == PlaceType /\ [Next]_vars => PlaceType'
<1> SUFFICES ASSUME PlaceType, [Next]_vars PROVE PlaceType'
  OBVIOUS
<1>1. CASE MainStep
  BY <1>1 DEF PlaceType, MainStep, NextDeal, JoinDeal, EndGame, StopAccepting,
     DisconnectAll, JoinClients
<1>2. CASE AcceptStep
  BY <1>2 DEF PlaceType, AcceptStep, PollIn, PollHup, Accept, AcceptFails
<1>3. CASE DealStep
  <2>1. UNCHANGED <<mainPc, acceptPc>> /\ aborted' \in {aborted, "send"}
    BY <1>3 DEF DealStep, DealReady, Broadcast, BroadcastFails, Blocks, BeginTurn, AskSent,
       Timeout, Answered, Resume, EndTrick, EndDeal
  <2>2. dealPc' \in {dealPc, "DEAL", "turn", "suspended", "TRICK", "await", "TAKEN", "SCORE",
                     "TOTAL", "done"}
    BY <1>3 DEF DealStep, DealReady, Broadcast, BroadcastFails, Blocks, BeginTurn, Ask,
       AskSent, TurnOver, Timeout, Answered, Resume, EndTrick, EndDeal, SendTo
  <2>3. QED
    BY <2>1, <2>2 DEF PlaceType
<1>4. ASSUME NEW fd \in Fds, PlayerStep(fd) PROVE PlaceType'
  <2>1. UNCHANGED <<mainPc, dealPc, acceptPc>> /\ aborted' \in {aborted, "null"}
    BY <1>4 DEF PlayerStep, RecvIAM, RecvIAMFails, HandleIAM, CatchUp, CaughtUp, LeaveIAM,
       RecvTRICK, RecvTRICKFails, HandleTRICK, RefuseTRICK, SpoiltTRICK, WrongSent, Blocks,
       Fail
  <2>2. QED
    BY <2>1 DEF PlaceType
<1>5. CASE UNCHANGED vars \/ \E fd \in Fds : ClientCloses(fd)
  BY <1>5 DEF PlaceType, ClientCloses, vars
<1>6. QED
  BY <1>1, <1>2, <1>3, <1>4, <1>5 DEF Next

\* The flags are flags, and the lock is held by a thread that sends.
LEMMA FlagStep == FlagType /\ [Next]_vars => FlagType'
<1> SUFFICES ASSUME FlagType, [Next]_vars PROVE FlagType'
  OBVIOUS
<1>1. DealThread \in Senders /\ Fds \subseteq Senders
  BY DEF Senders
<1>2. CASE MainStep \/ AcceptStep \/ UNCHANGED vars \/ \E fd \in Fds : ClientCloses(fd)
  BY <1>2 DEF FlagType, MainStep, NextDeal, JoinDeal, EndGame, StopAccepting,
     DisconnectAll, JoinClients, AcceptStep, PollIn, PollHup, Accept, AcceptFails,
     ClientCloses, vars
<1>3. CASE DealStep
  <2>1. /\ UNCHANGED <<gameOver, dealSuspended, listening>>
        /\ dealStarted' = dealStarted \/ dealStarted' = TRUE \/ dealStarted' = FALSE
    BY <1>3 DEF DealStep, DealReady, Broadcast, BroadcastFails, Blocks, BeginTurn, AskSent,
       Timeout, Answered, Resume, EndTrick, EndDeal
  <2>2. mtx' \in {mtx, DealThread, Unlocked}
    BY <1>3 DEF DealStep, DealReady, Broadcast, BroadcastFails, Blocks, BeginTurn, Ask,
       AskSent, TurnOver, Timeout, Answered, Resume, EndTrick, EndDeal, SendTo
  <2>3. QED
    BY <1>1, <2>1, <2>2 DEF FlagType
<1>4. ASSUME NEW fd \in Fds, PlayerStep(fd) PROVE FlagType'
  <2>1. /\ UNCHANGED <<gameOver, dealStarted, listening>>
        /\ dealSuspended' = dealSuspended \/ dealSuspended' = FALSE
             \/ dealSuspended' = (dealSuspended \/ (~gameOver /\ dealStarted))
    BY <1>4 DEF PlayerStep, RecvIAM, RecvIAMFails, HandleIAM, CatchUp, CaughtUp, LeaveIAM,
       RecvTRICK, RecvTRICKFails, HandleTRICK, RefuseTRICK, SpoiltTRICK, WrongSent, Blocks,
       Fail
  <2>2. mtx' \in {mtx, fd, Unlocked}
    BY <1>4 DEF PlayerStep, RecvIAM, RecvIAMFails, HandleIAM, CatchUp, CaughtUp, LeaveIAM,
       RecvTRICK, RecvTRICKFails, HandleTRICK, RefuseTRICK, SpoiltTRICK, WrongSent, Blocks,
       Fail, Sends
  <2>3. QED
    BY <1>1, <2>1, <2>2 DEF FlagType
<1>5. QED
  BY <1>2, <1>3, <1>4 DEF Next

\* The bounds are kept, and a loop stays among its seats.
LEMMA BoundStep == TableInv /\ BoundType /\ [Next]_vars => BoundType'
<1> SUFFICES ASSUME TableInv, BoundType, [Next]_vars PROVE BoundType'
  OBVIOUS
<1>1. /\ MaxDrops \in Nat /\ MaxBlocks \in Nat /\ Len(GameFile) \in Nat /\ di \in Nat
  BY ServerAssumption, LenProperties DEF TableInv
<1>2. di' <= Len(GameFile)
  <2>1. CASE NextDeal
    BY <1>1, <2>1 DEF NextDeal
  <2>2. CASE ~NextDeal
    <3>1. UNCHANGED di
      BY <2>2 DEF Next, MainStep, JoinDeal, EndGame, StopAccepting, DisconnectAll,
         JoinClients, AcceptStep, PollIn, PollHup, Accept, AcceptFails, ClientCloses, vars,
         DealStep, DealReady, Broadcast, BroadcastFails, Blocks, BeginTurn, AskSent,
         Timeout, Answered, Resume, EndTrick, EndDeal, PlayerStep, RecvIAM, RecvIAMFails,
         HandleIAM, CatchUp, CaughtUp, LeaveIAM, RecvTRICK, RecvTRICKFails, HandleTRICK,
         RefuseTRICK, SpoiltTRICK, WrongSent, Fail
    <3>2. QED
      BY <3>1 DEF BoundType
  <2>3. QED
    BY <2>1, <2>2
<1>3. it' \in 1..End
  <2>1. End \in Int /\ it \in Int /\ it >= 0 /\ 0 \in Int
    BY KeyPlaces DEF BoundType
  <2>2. Following(0) \in 1..End /\ Following(it) \in 1..End
    BY <2>1, FollowingType
  <2>3. it' \in {it, Following(0), Following(it)}
    <3>1. CASE DealStep
      BY <3>1 DEF DealStep, DealReady, Broadcast, BroadcastFails, Blocks, BeginTurn, Ask,
         AskSent, TurnOver, Timeout, Answered, Resume, EndTrick, EndDeal, SendTo
    <3>2. CASE ~DealStep
      BY <3>2 DEF Next, MainStep, NextDeal, JoinDeal, EndGame, StopAccepting, DisconnectAll,
         JoinClients, AcceptStep, PollIn, PollHup, Accept, AcceptFails, ClientCloses, vars,
         PlayerStep, RecvIAM, RecvIAMFails, Blocks, HandleIAM, CatchUp, CaughtUp, LeaveIAM,
         RecvTRICK, RecvTRICKFails, HandleTRICK, RefuseTRICK, SpoiltTRICK, WrongSent, Fail
    <3>3. QED
      BY <3>1, <3>2
  <2>4. QED
    BY <2>2, <2>3 DEF BoundType
<1>4. /\ drops' = drops \/ (drops < MaxDrops /\ drops' = drops + 1)
      /\ blocks' = blocks \/ (blocks < MaxBlocks /\ blocks' = blocks + 1)
  BY DEF Next, MainStep, NextDeal, JoinDeal, EndGame, StopAccepting, DisconnectAll,
     JoinClients, AcceptStep, PollIn, PollHup, Accept, AcceptFails, ClientCloses, vars,
     DealStep, DealReady, Broadcast, BroadcastFails, Blocks, BeginTurn, AskSent,
     Timeout, Answered, Resume, EndTrick, EndDeal, PlayerStep, RecvIAM, RecvIAMFails,
     HandleIAM, CatchUp, CaughtUp, LeaveIAM, RecvTRICK, RecvTRICKFails, HandleTRICK,
     RefuseTRICK, SpoiltTRICK, WrongSent, Fail
<1>5. QED
  BY <1>1, <1>2, <1>3, <1>4 DEF BoundType

\* A card is expected of a client or of nobody, and the totals are numbers.
LEMMA ScoreStep ==
  ASSUME TableInv, EntryInv, ConnInv, RoomInv, ScoreType, [Next]_vars
  PROVE  ScoreType'
<1>1. ASSUME Ask PROVE fdExpectedTrick' \in Fds \cup {Stdin, NoFd}
  BY <1>1 DEF Ask, ConnInv, RoomInv
<1>2. fdExpectedTrick' \in Fds \cup {Stdin, NoFd}
  <2>1. CASE DealStep
    BY <1>1, <2>1 DEF ScoreType, DealStep, DealReady, Broadcast, BroadcastFails, Blocks,
       BeginTurn, AskSent, Timeout, Answered, Resume, TurnOver, EndTrick, EndDeal
  <2>2. ASSUME NEW fd \in Fds, PlayerStep(fd) PROVE fdExpectedTrick' \in {fdExpectedTrick, fd, NoFd}
    BY <2>2 DEF PlayerStep, RecvIAM, RecvIAMFails, HandleIAM, CatchUp, CaughtUp, LeaveIAM,
       RecvTRICK, RecvTRICKFails, HandleTRICK, AfterCard, RefuseTRICK, SpoiltTRICK, WrongSent,
       Blocks, Fail
  <2>3. CASE MainStep \/ AcceptStep \/ UNCHANGED vars \/ \E fd \in Fds : ClientCloses(fd)
    BY <2>3 DEF ScoreType, MainStep, NextDeal, JoinDeal, EndGame, StopAccepting,
       DisconnectAll, JoinClients, AcceptStep, PollIn, PollHup, Accept, AcceptFails,
       ClientCloses, vars
  <2>4. QED
    BY <2>1, <2>2, <2>3 DEF Next, ScoreType
<1>3. CASE EndTrick
  <2> DEFINE d == NextTrick(deal)
             c == CreditSeats(totalScores, d.scores)
  <2>1. GameInv(deal) /\ deal.cardsOnTable # <<>>
    BY <1>3 DEF EndTrick, TableInv
  <2>2. d.scores \in [DOMAIN d.scores -> Nat]
    BY <2>1, NextTrickGame DEF GameInv, IsDeal
  <2>3. totalScores' \in {totalScores, c}
    BY <1>3 DEF EndTrick
  <2> HIDE DEF d
  <2>4. DOMAIN c \subseteq Seats /\ c \in [DOMAIN c -> Nat]
    BY <2>2 DEF CreditSeats, ScoreType, EntryInv
  <2> HIDE DEF c
  <2>5. QED
    BY <1>2, <2>3, <2>4 DEF ScoreType
<1>4. CASE ~EndTrick
  <2>1. UNCHANGED totalScores
    BY <1>4 DEF Next, MainStep, NextDeal, JoinDeal, EndGame, StopAccepting, DisconnectAll,
       JoinClients, AcceptStep, PollIn, PollHup, Accept, AcceptFails, ClientCloses, vars,
       DealStep, DealReady, Broadcast, BroadcastFails, Blocks, BeginTurn, AskSent,
       Timeout, Answered, Resume, TurnOver, EndDeal, PlayerStep, RecvIAM, RecvIAMFails,
       HandleIAM, CatchUp, CaughtUp, LeaveIAM, RecvTRICK, RecvTRICKFails, HandleTRICK,
       RefuseTRICK, SpoiltTRICK, WrongSent, Fail
  <2>2. QED
    BY <1>2, <2>1 DEF ScoreType
<1>5. QED
  BY <1>3, <1>4

\* What a client hears leaves it with numbers of a deal and a trick.
LEMMA DeliversType ==
  ASSUME ClientType, NEW me \in Senders, Delivers(me)
  PROVE  seen' \in [Fds -> KnowledgeType]
<1>1. out[me] \in MessageType
  BY DEF ClientType
<1>2. \A know \in KnowledgeType : Hear(know, out[me]) \in KnowledgeType
  BY <1>1 DEF Hear, KnowledgeType, MessageType
<1>3. QED
  BY <1>2 DEF Delivers, ClientType

\* A message for a client or for standard input.
LEMMA MessageIsOne ==
  ASSUME di \in Nat, NEW to \in Fds \cup {Stdin}, NEW trick \in Nat,
         NEW kind \in {"BUSY", "DEAL", "TRICK", "WRONG", "TAKEN", "SCORE", "TOTAL"}
  PROVE  Message(kind, to, trick) \in MessageType
BY DEF Message, MessageType

\* The messages of dealThread.
LEMMA ClientDealStep ==
  ASSUME LoopInv, TableInv, ConnInv, RoomInv, ClientType, DealStep
  PROVE  ClientType'
<1>1. DealThread \in Senders /\ di \in Nat /\ it \in Int /\ 0 \in Int /\ Nothing \in MessageType
  BY DEF Senders, TableInv, LoopInv, Nothing, MessageType
<1>2. UNCHANGED <<ti, closed>> /\ (Delivers(DealThread) \/ UNCHANGED seen)
  BY DEF DealStep, DealReady, Broadcast, BroadcastFails, Blocks, BeginTurn, AskSent,
     Timeout, Answered, Resume, EndTrick, EndDeal, Breaks
<1>3. seen' \in [Fds -> KnowledgeType]
  BY <1>1, <1>2, DeliversType DEF ClientType
<1> DEFINE Typed == out' \in [Senders -> MessageType]
<1>4. ASSUME NEW kind \in {"DEAL", "TAKEN", "SCORE", "TOTAL"}, NEW i, SendTo(kind, i), di > 0,
             i = End \/ KeyOrder[i] \in DOMAIN playerFds
      PROVE  Typed
  <2>1. deal.currentTrick \in Nat
    BY <1>4 DEF TableInv, GameInv, IsDeal
  <2> DEFINE k == IF kind = "TAKEN" THEN deal.currentTrick ELSE 0
             m == Message(kind, playerFds[KeyOrder[i]], k)
  <2>2. k \in Nat
    BY <2>1
  <2>3. out' = [out EXCEPT ![DealThread] = IF i = End THEN Nothing ELSE m]
    BY <1>4 DEF SendTo
  <2> HIDE DEF k
  <2>4. i # End => m \in MessageType
    <3>1. i # End => playerFds[KeyOrder[i]] \in Fds \cup {Stdin}
      BY <1>4 DEF ConnInv, RoomInv
    <3>2. QED
      BY <1>1, <2>2, <3>1, MessageIsOne
  <2> HIDE DEF m
  <2>5. QED
    BY <1>1, <2>3, <2>4 DEF ClientType
<1>5. ASSUME Ask, di > 0 PROVE Typed
  <2>1. PICK fd \in Fds \cup {Stdin} :
          out' = [out EXCEPT ![DealThread] = Message("TRICK", fd, deal.currentTrick)]
    BY <1>5 DEF Ask, ConnInv, RoomInv
  <2>2. deal.currentTrick \in Nat
    BY <1>5 DEF TableInv, GameInv, IsDeal
  <2>3. Message("TRICK", fd, deal.currentTrick) \in MessageType
    BY <1>1, <2>2, MessageIsOne
  <2>4. QED
    BY <2>1, <2>3 DEF ClientType
<1>6. ASSUME out' = out \/ out' = [out EXCEPT ![DealThread] = Nothing] PROVE Typed
  BY <1>1, <1>6 DEF ClientType
<1>7. ASSUME TurnOver, di > 0 PROVE Typed
  <2>1. Following(0) = End \/ KeyOrder[Following(0)] \in DOMAIN playerFds
    BY <1>1, FollowingEntry
  <2>2. QED
    BY <1>4, <1>6, <1>7, <2>1 DEF TurnOver
<1>8. ASSUME BroadcastFails \/ Blocks(DealThread) \/ Timeout \/ EndDeal PROVE Typed
  BY <1>6, <1>8 DEF BroadcastFails, Blocks, Timeout, EndDeal
<1>9. ASSUME ~(BroadcastFails \/ Blocks(DealThread) \/ Timeout \/ EndDeal) PROVE Typed
  <2>1. di > 0
    BY <1>9 DEF DealStep, DealReady, Broadcast, BeginTurn, AskSent, Answered, Resume,
       EndTrick, TableInv
  <2>2. \A i \in Int : Following(i) = End \/ KeyOrder[Following(i)] \in DOMAIN playerFds
    BY FollowingEntry
  <2>3. CASE DealReady
    BY <1>1, <1>4, <2>1, <2>2, <2>3 DEF DealReady
  <2>4. CASE Broadcast
    <3>1. it = End \/ KeyOrder[it] \in DOMAIN playerFds
      BY <2>4 DEF Broadcast, Delivers, LoopInv, IteratorValid
    <3>2. dealPc \in {"DEAL", "TAKEN", "SCORE", "TOTAL"}
      BY <2>4 DEF Broadcast
    <3>3. \/ SendTo("TOTAL", it) \/ SendTo("SCORE", Following(it))
          \/ SendTo(dealPc, Following(it))
      BY <2>4 DEF Broadcast
    <3>4. QED
      BY <1>1, <1>4, <2>1, <2>2, <3>1, <3>2, <3>3
  <2>5. CASE BeginTurn
    BY <1>5, <1>6, <2>1, <2>5 DEF BeginTurn
  <2>6. CASE AskSent
    BY <1>6, <1>7, <2>1, <2>6 DEF AskSent
  <2>7. CASE Answered
    BY <1>7, <2>1, <2>7 DEF Answered
  <2>8. CASE Resume
    BY <1>5, <1>7, <2>1, <2>8 DEF Resume
  <2>9. CASE EndTrick
    BY <1>1, <1>4, <1>6, <2>1, <2>2, <2>9 DEF EndTrick
  <2>10. QED
    BY <1>9, <2>3, <2>4, <2>5, <2>6, <2>7, <2>8, <2>9 DEF DealStep
<1>10. Typed
  BY <1>8, <1>9
<1> HIDE DEF Typed
<1>11. QED
  BY <1>2, <1>3, <1>10 DEF ClientType, Typed

\* Those of the player threads.
LEMMA ClientPlayerStep ==
  ASSUME TableInv, DealInv, ClientType, NEW fd \in Fds, PlayerStep(fd)
  PROVE  ClientType'
<1>1. fd \in Senders /\ di \in Nat /\ Nothing \in MessageType
  BY DEF Senders, TableInv, Nothing, MessageType
<1>2. ti' \in [Fds -> Nat] /\ closed' = closed
  <2>1. CASE CatchUp(fd)
    <3>1. NextToTell(fd) \in Nat
      BY DEF ClientType, NextToTell
    <3>2. QED
      BY <2>1, <3>1 DEF CatchUp, ClientType
  <2>2. CASE ~CatchUp(fd)
    <3>1. (ti' = ti \/ ti' = [ti EXCEPT ![fd] = 0]) /\ closed' = closed
      BY <2>2 DEF PlayerStep, RecvIAM, RecvIAMFails, HandleIAM, CaughtUp, LeaveIAM,
         RecvTRICK, RecvTRICKFails, HandleTRICK, RefuseTRICK, SpoiltTRICK, WrongSent, Blocks,
         Fail, Returns
    <3>2. QED
      BY <3>1 DEF ClientType
  <2>3. QED
    BY <2>1, <2>2
<1>3. seen' \in [Fds -> KnowledgeType]
  <2>1. \/ UNCHANGED seen \/ Delivers(fd) \/ seen' = [seen EXCEPT ![fd] = Ignorant]
    BY DEF PlayerStep, RecvIAM, RecvIAMFails, HandleIAM, CatchUp, CaughtUp, LeaveIAM,
       RecvTRICK, RecvTRICKFails, HandleTRICK, RefuseTRICK, SpoiltTRICK, WrongSent, Blocks,
       Fail, Returns, Breaks
  <2>2. Ignorant \in KnowledgeType
    BY DEF Ignorant, KnowledgeType
  <2>3. QED
    BY <1>1, <2>1, <2>2, DeliversType DEF ClientType
<1> DEFINE Typed == out' \in [Senders -> MessageType]
<1>4. ASSUME out' = out \/ out' = [out EXCEPT ![fd] = Nothing] PROVE Typed
  BY <1>1, <1>4 DEF ClientType
<1>5. ASSUME NEW place, NEW kind \in {"BUSY", "DEAL", "TRICK", "WRONG", "TAKEN"},
             NEW k \in Nat, Sends(fd, place, kind, k)
      PROVE  Typed
  <2>1. Message(kind, fd, k) \in MessageType
    BY <1>1, MessageIsOne
  <2>2. QED
    BY <1>5, <2>1 DEF ClientType, Sends
<1>6. di > 0 => deal.currentTrick \in Nat
  BY DEF TableInv, GameInv, IsDeal
<1>7. ASSUME HandleIAM(fd) PROVE Typed
  BY <1>4, <1>5, <1>7 DEF HandleIAM
<1>8. ASSUME CatchUp(fd) PROVE Typed
  <2>1. NextToTell(fd) + 1 \in Nat
    BY DEF ClientType, NextToTell
  <2>2. ASSUME Sends(fd, "catchTRICK", "TRICK", deal.currentTrick) PROVE Typed
    <3>1. pc[fd] \in CatchingUp
      BY <1>8, PlacesSeated DEF CatchUp
    <3>2. di > 0
      BY <3>1 DEF DealInv, TableInv
    <3>3. QED
      BY <1>5, <1>6, <2>2, <3>2
  <2>3. QED
    BY <1>4, <1>5, <1>8, <2>1, <2>2 DEF CatchUp
<1>9. ASSUME NEW trick, NEW card, RefuseTRICK(fd, trick, card) PROVE Typed
  BY <1>1, <1>4, <1>5, <1>6, <1>9 DEF RefuseTRICK
<1>10. ASSUME ~HandleIAM(fd), ~CatchUp(fd), \A trick, card : ~RefuseTRICK(fd, trick, card)
       PROVE  Typed
  BY <1>4, <1>10 DEF PlayerStep, RecvIAM, RecvIAMFails, CaughtUp, LeaveIAM,
     RecvTRICK, RecvTRICKFails, HandleTRICK, SpoiltTRICK, WrongSent, Blocks, Fail
<1>11. Typed
  BY <1>7, <1>8, <1>9, <1>10
<1> HIDE DEF Typed
<1>12. QED
  BY <1>2, <1>3, <1>11 DEF ClientType, Typed

\* At first nobody is connected and nothing has been sent.
LEMMA TypesInit == Init => TypesInv
<1> SUFFICES ASSUME Init PROVE TypesInv
  OBVIOUS
<1>1. SeatsInv
  BY SeatsInit
<1>2. RoomInv
  BY DEF Init, RoomInv
<1>3. PlaceType /\ FlagType
  BY DEF Init, PlaceType, FlagType
<1>4. BoundType
  <2>1. Len(GameFile) \in Nat /\ MaxDrops \in Nat /\ MaxBlocks \in Nat
    BY ServerAssumption, LenProperties
  <2>2. End \in 1..End
    <3>1. Len(KeyOrder) \in Nat
      BY KeyPlaces, LenProperties
    <3>2. QED
      BY <3>1 DEF End
  <2>3. QED
    BY <2>1, <2>2 DEF Init, BoundType
<1>5. ScoreType
  BY DEF Init, ScoreType
<1>6. ClientType
  BY DEF Init, ClientType, MessageType, KnowledgeType, Nothing, Ignorant
<1>7. QED
  BY <1>1, <1>2, <1>3, <1>4, <1>5, <1>6 DEF TypesInv

\* Every step of the program keeps the types.
LEMMA TypesStep == TypesInv /\ [Next]_vars => TypesInv'
<1> SUFFICES ASSUME TypesInv, [Next]_vars PROVE TypesInv'
  OBVIOUS
<1>1. /\ SeatsInv /\ RoomInv /\ PlaceType /\ FlagType /\ BoundType /\ ScoreType
      /\ ClientType
      /\ DealInv /\ LoopInv /\ EntryInv /\ TableInv /\ ConnInv
  BY DEF TypesInv, SeatsInv, QuietInv, CardInv
<1>2. SeatsInv' /\ RoomInv' /\ PlaceType' /\ FlagType' /\ BoundType' /\ ScoreType'
  BY <1>1, SeatsStep, RoomStep, PlaceStep, FlagStep, BoundStep, ScoreStep
<1>3. ClientType'
  <2>1. CASE DealStep
    BY <1>1, <2>1, ClientDealStep
  <2>2. ASSUME NEW fd \in Fds, PlayerStep(fd) PROVE ClientType'
    BY <1>1, <2>2, ClientPlayerStep
  <2>3. CASE MainStep \/ AcceptStep \/ UNCHANGED vars \/ \E fd \in Fds : ClientCloses(fd)
    <3>1. UNCHANGED <<ti, out, seen>> /\ closed' \subseteq closed \cup Fds
      BY <2>3 DEF MainStep, NextDeal, JoinDeal, EndGame, StopAccepting, DisconnectAll,
         JoinClients, AcceptStep, PollIn, PollHup, Accept, AcceptFails, ClientCloses, vars
    <3>2. QED
      BY <1>1, <3>1 DEF ClientType
  <2>4. QED
    BY <2>1, <2>2, <2>3 DEF Next
<1>4. QED
  BY <1>2, <1>3 DEF TypesInv

\* Whatever the clients do, every variable of the server has its type: the
\* threads are at known places, the loop over player_fds stays among its seats,
\* every descriptor is one that was accepted, and every message is one of the
\* protocol about a deal and a trick that exist.
THEOREM ServerTypeCorrect == Spec => []TypeOK
<1>1. TypesInv => TypeOK
  BY TypesAreTypeOK
<1>2. QED
  BY TypesInit, TypesStep, <1>1, PTL DEF Spec
=============================================================================
