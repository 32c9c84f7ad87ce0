------------------------- MODULE HeartsServerProofs -------------------------
(***************************************************************************)
(* Proofs about the threads of the server, for every set of seats, every   *)
(* game file, any number of clients and failures, and whatever the clients *)
(* send: the threads keep their seats and loops, and the accepted cards    *)
(* keep the game of DealLemmas, although they come from other threads than *)
(* the one that ends the tricks.  As long as no client has left nothing    *)
(* suspends a deal, and the threads pass the turn round the table.         *)
(***************************************************************************)
EXTENDS ServerProperties, DealLemmas

\* The groups of variables an action leaves alone.
USE DEF mainVars, loopVars, gameVars, acceptVars, netVars, threadVars, clientVars

\* What SeatExclusive rests on: the map is written by the thread that owns the
\* entry, or for a seat nobody has.
SeatInv ==
  /\ pc \in [Fds -> Places]
  /\ seat \in [Fds -> Seats \cup {NoSeat}]
  /\ SeatExclusive

\* At first no player thread has a seat.
LEMMA SeatInit == Init => SeatInv
<1> SUFFICES ASSUME Init PROVE SeatInv
  OBVIOUS
<1>1. pc = [fd \in Fds |-> "none"] /\ seat = [fd \in Fds |-> NoSeat]
  BY DEF Init
<1>2. QED
  BY <1>1 DEF SeatInv, SeatExclusive, Places, Seated, CatchingUp

\* A step that neither moves a player thread nor writes player_fds.
LEMMA ElsewhereKeepsSeats ==
  SeatInv /\ UNCHANGED <<pc, seat, playerFds>> => SeatInv'
BY DEF SeatInv, SeatExclusive

\* A player thread moves on, and is past handleIAM only if it was.
LEMMA MovingKeepsSeats ==
  ASSUME SeatInv, NEW fd \in Fds, NEW place \in Places,
         place \in Seated => pc[fd] \in Seated,
         GoesTo(fd, place), UNCHANGED <<seat, playerFds>>
  PROVE  SeatInv'
BY DEF SeatInv, SeatExclusive, GoesTo

\* A player thread ends.
LEMMA ReturningKeepsSeats ==
  ASSUME SeatInv, NEW fd \in Fds, Returns(fd), UNCHANGED playerFds
  PROVE  SeatInv'
<1>1. "done" \in Places /\ "done" \notin Seated
  BY DEF Places, Seated, CatchingUp
<1>2. QED
  BY <1>1 DEF SeatInv, SeatExclusive, Returns

\* dealThread may give an absent seat a descriptor; a seat that is there keeps
\* its own.
LEMMA AskKeepsSeats ==
  ASSUME SeatInv, Ask, UNCHANGED <<pc, seat>>
  PROVE  SeatInv'
<1>1. \A s \in DOMAIN playerFds : s \in DOMAIN playerFds' /\ playerFds'[s] = playerFds[s]
  BY DEF Ask, Insert
<1>2. QED
  BY <1>1 DEF SeatInv, SeatExclusive

\* No step of dealThread takes a seat from its thread.
LEMMA DealStepKeepsSeats == SeatInv /\ DealStep => SeatInv'
<1> SUFFICES ASSUME SeatInv, DealStep PROVE SeatInv'
  OBVIOUS
<1>1. CASE DealReady
  BY <1>1, ElsewhereKeepsSeats DEF DealReady
<1>2. CASE Broadcast
  BY <1>2, ElsewhereKeepsSeats DEF Broadcast
<1>3. CASE BroadcastFails
  BY <1>3, ElsewhereKeepsSeats DEF BroadcastFails
<1>4. CASE Blocks(DealThread)
  BY <1>4, ElsewhereKeepsSeats DEF Blocks
<1>5. CASE BeginTurn
  BY <1>5, ElsewhereKeepsSeats, AskKeepsSeats DEF BeginTurn
<1>6. CASE AskSent
  BY <1>6, ElsewhereKeepsSeats DEF AskSent, TurnOver
<1>7. CASE Timeout
  BY <1>7, ElsewhereKeepsSeats DEF Timeout
<1>8. CASE Answered
  BY <1>8, ElsewhereKeepsSeats DEF Answered, TurnOver
<1>9. CASE Resume
  BY <1>9, ElsewhereKeepsSeats, AskKeepsSeats DEF Resume, TurnOver
<1>10. CASE EndTrick
  BY <1>10, ElsewhereKeepsSeats DEF EndTrick
<1>11. CASE EndDeal
  BY <1>11, ElsewhereKeepsSeats DEF EndDeal
<1>12. QED
  BY <1>1, <1>2, <1>3, <1>4, <1>5, <1>6, <1>7, <1>8, <1>9, <1>10, <1>11 DEF DealStep

\* The main thread leaves the seats alone.
LEMMA MainStepKeepsSeats == SeatInv /\ MainStep => SeatInv'
<1> SUFFICES ASSUME SeatInv, MainStep PROVE SeatInv'
  OBVIOUS
<1>1. UNCHANGED <<pc, seat, playerFds>>
  BY DEF MainStep, NextDeal, JoinDeal, EndGame, StopAccepting, DisconnectAll,
         JoinClients
<1>2. QED
  BY <1>1, ElsewhereKeepsSeats

\* A new connection has no seat yet.
LEMMA AcceptStepKeepsSeats == SeatInv /\ AcceptStep => SeatInv'
<1> SUFFICES ASSUME SeatInv, AcceptStep PROVE SeatInv'
  OBVIOUS
<1>1. CASE PollIn \/ PollHup \/ AcceptFails
  BY <1>1, ElsewhereKeepsSeats DEF PollIn, PollHup, AcceptFails
<1>2. CASE Accept
  <2>1. "recvIAM" \in Places /\ "recvIAM" \notin Seated
    BY DEF Places, Seated, CatchingUp
  <2>2. PICK fd : pc' = [pc EXCEPT ![fd] = "recvIAM"] /\ UNCHANGED <<seat, playerFds>>
    BY <1>2 DEF Accept
  <2>3. QED
    BY <2>1, <2>2 DEF SeatInv, SeatExclusive
<1>3. QED
  BY <1>1, <1>2 DEF AcceptStep

\* The seat is tested and taken in one critical section.
LEMMA HandleIAMKeepsSeats ==
  ASSUME SeatInv, NEW fd \in Fds, HandleIAM(fd)
  PROVE  SeatInv'
<1>1. CASE SeatTaken(seat[fd])
  <2>1. "BUSY" \in Places /\ "BUSY" \notin Seated
    BY DEF Places, Seated, CatchingUp
  <2>2. GoesTo(fd, "BUSY") /\ UNCHANGED <<seat, playerFds>>
    BY <1>1 DEF HandleIAM, Sends
  <2>3. QED
    BY <2>1, <2>2, MovingKeepsSeats
<1>2. CASE ~SeatTaken(seat[fd])
  <2>1. /\ seat[fd] \notin DOMAIN playerFds
        /\ playerFds' = Insert(playerFds, seat[fd], fd)
        /\ UNCHANGED seat
    BY <1>2 DEF HandleIAM, SeatTaken
  <2>2. PICK place \in {"catchDEAL", "recvTRICK"} : GoesTo(fd, place)
    BY <1>2 DEF HandleIAM, Sends
  <2>3. place \in Places
    BY <2>2 DEF Places
  <2>4. \A other \in Fds \ {fd} : pc'[other] = pc[other]
    BY <2>2 DEF GoesTo, SeatInv
  <2>5. ASSUME NEW other \in Fds, pc'[other] \in Seated
        PROVE  seat[other] \in DOMAIN playerFds' /\ playerFds'[seat[other]] = other
    <3>1. CASE other = fd
      BY <2>1, <3>1 DEF Insert
    <3>2. CASE other # fd
      BY <2>1, <2>4, <2>5, <3>2 DEF Insert, SeatInv, SeatExclusive
    <3>3. QED
      BY <3>1, <3>2
  <2>6. pc' \in [Fds -> Places]
    BY <2>2, <2>3 DEF GoesTo, SeatInv
  <2>7. QED
    BY <2>1, <2>5, <2>6 DEF SeatInv, SeatExclusive
<1>3. QED
  BY <1>1, <1>2

\* The thread that leaves erases the seat it owns, which is nobody else's.
LEMMA FailKeepsSeats ==
  ASSUME SeatInv, NEW fd \in Fds, Fail(fd)
  PROVE  SeatInv'
<1>1. /\ playerFds' = Erase(playerFds, seat[fd])
      /\ pc' = [pc EXCEPT ![fd] = "done"]
      /\ seat' = [seat EXCEPT ![fd] = NoSeat]
      /\ pc[fd] = "failed"
  BY DEF Fail, SeatsWithout, Returns
<1>2. "done" \in Places /\ "done" \notin Seated /\ "failed" \in Seated
  BY DEF Places, Seated, CatchingUp
<1>3. playerFds[seat[fd]] = fd
  BY <1>1, <1>2 DEF SeatInv, SeatExclusive
<1>4. ASSUME NEW other \in Fds, pc'[other] \in Seated
      PROVE  seat'[other] \in DOMAIN playerFds' /\ playerFds'[seat'[other]] = other
  <2>1. other # fd
    BY <1>1, <1>2, <1>4 DEF SeatInv
  <2>2. pc'[other] = pc[other] /\ seat'[other] = seat[other]
    BY <1>1, <2>1 DEF SeatInv
  <2>3. seat[other] \in DOMAIN playerFds /\ playerFds[seat[other]] = other
    BY <1>4, <2>2 DEF SeatInv, SeatExclusive
  <2>4. seat[other] # seat[fd]
    BY <1>3, <2>1, <2>3
  <2>5. QED
    BY <1>1, <2>2, <2>3, <2>4 DEF Erase
<1>5. QED
  BY <1>1, <1>2, <1>4 DEF SeatInv, SeatExclusive

\* Each step of playerThread keeps the seats exclusive.
LEMMA PlayerStepKeepsSeats ==
  ASSUME SeatInv, NEW fd \in Fds, PlayerStep(fd)
  PROVE  SeatInv'
<1>1. /\ {"handleIAM", "recvTRICK", "handleTRICK", "WRONG", "failed", "catchTAKEN",
          "catchTRICK"} \subseteq Places
      /\ {"recvTRICK", "handleTRICK", "WRONG", "failed", "catchDEAL", "catchTAKEN",
          "catchTRICK"} \subseteq Seated
      /\ "handleIAM" \notin Seated
  BY DEF Places, Seated, CatchingUp
<1>2. ASSUME NEW s \in Seats, RecvIAM(fd, s) PROVE SeatInv'
  <2>1. /\ pc' = [pc EXCEPT ![fd] = "handleIAM"]
        /\ seat' = [seat EXCEPT ![fd] = s]
        /\ UNCHANGED playerFds
    BY <1>2 DEF RecvIAM, GoesTo
  <2>2. QED
    BY <1>1, <2>1 DEF SeatInv, SeatExclusive
<1>3. CASE RecvIAMFails(fd)
  BY <1>3, ReturningKeepsSeats DEF RecvIAMFails
<1>4. CASE HandleIAM(fd)
  BY <1>4, HandleIAMKeepsSeats
<1>5. CASE CatchUp(fd)
  <2>1. UNCHANGED <<seat, playerFds>> /\ pc[fd] \in Seated
    BY <1>1, <1>5 DEF CatchUp
  <2>2. GoesTo(fd, "catchTAKEN") \/ GoesTo(fd, "catchTRICK") \/ GoesTo(fd, "recvTRICK")
    BY <1>5 DEF CatchUp, Sends
  <2>3. QED
    BY <1>1, <2>1, <2>2, MovingKeepsSeats
<1>6. CASE CaughtUp(fd)
  BY <1>1, <1>6, MovingKeepsSeats DEF CaughtUp
<1>7. CASE LeaveIAM(fd)
  BY <1>7, ReturningKeepsSeats DEF LeaveIAM
<1>8. CASE RecvTRICK(fd)
  BY <1>1, <1>8, MovingKeepsSeats DEF RecvTRICK
<1>9. CASE RecvTRICKFails(fd)
  BY <1>1, <1>9, MovingKeepsSeats DEF RecvTRICKFails
<1>10. ASSUME NEW trick \in 1..LastTrick, NEW card \in Offers,
              HandleTRICK(fd, trick, card)
       PROVE  SeatInv'
  BY <1>1, <1>10, MovingKeepsSeats DEF HandleTRICK, MayHandle
<1>11. ASSUME NEW trick \in 1..LastTrick, NEW card \in Offers,
              RefuseTRICK(fd, trick, card)
       PROVE  SeatInv'
  <2>1. UNCHANGED <<seat, playerFds>> /\ pc[fd] \in Seated
    BY <1>1, <1>11 DEF RefuseTRICK, MayHandle
  <2>2. GoesTo(fd, "WRONG") \/ UNCHANGED pc
    BY <1>11 DEF RefuseTRICK, Sends
  <2>3. QED
    BY <1>1, <2>1, <2>2, MovingKeepsSeats, ElsewhereKeepsSeats
<1>12. CASE SpoiltTRICK(fd)
  BY <1>1, <1>12, MovingKeepsSeats DEF SpoiltTRICK, MayHandle
<1>13. CASE WrongSent(fd)
  BY <1>1, <1>13, MovingKeepsSeats DEF WrongSent
<1>14. CASE Blocks(fd)
  BY <1>14, ElsewhereKeepsSeats DEF Blocks
<1>15. CASE Fail(fd)
  BY <1>15, FailKeepsSeats
<1>16. QED
  BY <1>2, <1>3, <1>4, <1>5, <1>6, <1>7, <1>8, <1>9, <1>10, <1>11, <1>12, <1>13,
     <1>14, <1>15 DEF PlayerStep

\* So does every step of the program.
LEMMA SeatStep == SeatInv /\ [Next]_vars => SeatInv'
<1> SUFFICES ASSUME SeatInv, [Next]_vars PROVE SeatInv'
  OBVIOUS
<1>1. ASSUME NEW fd \in Fds, ClientCloses(fd) PROVE SeatInv'
  BY <1>1, ElsewhereKeepsSeats DEF ClientCloses
<1>2. CASE UNCHANGED vars
  BY <1>2, ElsewhereKeepsSeats DEF vars
<1>3. QED
  BY <1>1, <1>2, MainStepKeepsSeats, AcceptStepKeepsSeats, DealStepKeepsSeats,
     PlayerStepKeepsSeats DEF Next

\* However many clients connect, take seats, return and leave, in whatever
\* order the threads run, no two threads play for one seat and none loses the
\* seat it plays for.
THEOREM SeatsAlwaysExclusive == Spec => []SeatExclusive
<1>1. SeatInv => SeatExclusive
  BY DEF SeatInv
<1>2. QED
  BY SeatInit, SeatStep, <1>1, PTL DEF Spec
-----------------------------------------------------------------------------
\* The places in KeyOrder and the end of it are numbers.
LEMMA KeyPlaces == KeyOrder \in Seq(Seats) /\ End \in Int
<1>1. Len(PlayerOrder) \in Nat
  BY CardsAssumption, LenProperties
<1>2. KeyOrder \in Seq(Seats)
  BY <1>1, ServerAssumption
<1>3. QED
  BY <1>2, LenProperties DEF End

\* Following finds an entry of player_fds, or the end.
LEMMA FollowingEntry ==
  ASSUME NEW i \in Int
  PROVE  /\ Following(i) \in Int
         /\ Following(i) = End \/ KeyOrder[Following(i)] \in DOMAIN playerFds
<1> DEFINE rest == {j \in DOMAIN KeyOrder : j > i /\ KeyOrder[j] \in DOMAIN playerFds}
<1>1. KeyOrder \in Seq(Seats) /\ End \in Int
  BY KeyPlaces
<1>2. CASE rest = {}
  BY <1>1, <1>2 DEF Following
<1>3. CASE rest # {}
  <2>1. rest \subseteq Nat
    BY <1>1
  <2> HIDE DEF rest
  <2>2. PICK j \in rest : \A k \in rest : ~(<<k, j>> \in OpToRel(<, Nat))
    BY <1>3, <2>1, NatLessThanWellFounded, WFMin
  <2>3. \A k \in rest : ~(k < j)
    BY <2>1, <2>2 DEF OpToRel
  <2>4. \A k \in rest : j <= k
    BY <2>1, <2>3
  <2>5. (CHOOSE m \in rest : \A k \in rest : m <= k) \in rest
    BY <2>4
  <2>6. QED
    BY <1>3, <2>1, <2>5 DEF Following, rest
<1>4. QED
  BY <1>2, <1>3

\* The strengthening: every thread has its own outgoing message.
LoopInv ==
  /\ SeatInv
  /\ DOMAIN out = Senders
  /\ it \in Int
  /\ IteratorValid

\* A step that touches neither the loop, its message nor the entries.
LEMMA ElsewhereKeepsLoop ==
  ASSUME LoopInv, UNCHANGED <<dealPc, it, playerFds>>, DOMAIN out' = Senders,
         out'[DealThread] = out[DealThread], disconnected \subseteq disconnected'
  PROVE  DOMAIN out' = Senders /\ it' \in Int /\ IteratorValid'
BY DEF LoopInv, IteratorValid

\* The loop has come to an entry that is there.
LEMMA SendingKeepsLoop ==
  ASSUME DOMAIN out = Senders, NEW kind, NEW i \in Int, SendTo(kind, i),
         i = End \/ KeyOrder[i] \in DOMAIN playerFds, UNCHANGED playerFds
  PROVE  DOMAIN out' = Senders /\ it' \in Int /\ IteratorValid'
<1>1. /\ it' = i /\ dealPc' = kind
      /\ i # End => out'[DealThread].to = playerFds[KeyOrder[i]]
      /\ DOMAIN out' = Senders
  BY DEF SendTo, Message, Senders
<1>2. QED
  BY <1>1 DEF IteratorValid

\* What LoopInv adds to SeatInv.
LoopValid == DOMAIN out = Senders /\ it \in Int /\ IteratorValid

\* dealThread goes from one entry that is there to the next.
LEMMA DealStepKeepsLoop == LoopInv /\ DealStep => LoopValid'
<1> SUFFICES ASSUME LoopInv, DealStep PROVE LoopValid'
  OBVIOUS
<1> USE DEF LoopValid
<1>0. DOMAIN out = Senders /\ it \in Int /\ IteratorValid /\ DealThread \in Senders
  BY DEF LoopInv, Senders
<1>1. CASE DealReady
  BY <1>0, <1>1, FollowingEntry, SendingKeepsLoop DEF DealReady
<1>2. CASE Broadcast
  <2>1. it # End => KeyOrder[it] \in DOMAIN playerFds
    BY <1>0, <1>2 DEF Broadcast, Delivers, IteratorValid
  <2>2. UNCHANGED playerFds
    BY <1>2 DEF Broadcast
  <2>3. CASE dealPc = "SCORE"
    <3>1. SendTo("TOTAL", it)
      BY <1>2, <2>3 DEF Broadcast
    <3>2. QED
      BY <1>0, <2>1, <2>2, <3>1, SendingKeepsLoop
  <2>4. CASE dealPc = "TOTAL"
    <3>1. SendTo("SCORE", Following(it))
      BY <1>2, <2>4 DEF Broadcast
    <3>2. QED
      BY <1>0, <2>2, <3>1, FollowingEntry, SendingKeepsLoop
  <2>5. CASE dealPc \in {"DEAL", "TAKEN"}
    <3>1. SendTo(dealPc, Following(it))
      BY <1>2, <2>5 DEF Broadcast
    <3>2. QED
      BY <1>0, <2>2, <3>1, FollowingEntry, SendingKeepsLoop
  <2>6. QED
    BY <1>2, <2>3, <2>4, <2>5 DEF Broadcast
<1>3. CASE BroadcastFails \/ Blocks(DealThread)
  BY <1>0, <1>3, ElsewhereKeepsLoop DEF BroadcastFails, Blocks
<1>4. ASSUME TurnOver PROVE LoopValid'
  <2>1. CASE SendTo("TAKEN", Following(0)) /\ UNCHANGED playerFds
    BY <1>0, <2>1, FollowingEntry, SendingKeepsLoop
  <2>2. CASE dealPc' = "turn" /\ it' = it /\ DOMAIN out' = DOMAIN out
    BY <1>0, <2>2 DEF IteratorValid
  <2>3. QED
    BY <1>4, <2>1, <2>2 DEF TurnOver
<1>5. CASE BeginTurn
  <2>1. dealPc' \in {"suspended", "TRICK"} /\ it' = it /\ DOMAIN out' = DOMAIN out
    BY <1>5 DEF BeginTurn, Ask
  <2>2. QED
    BY <1>0, <2>1 DEF IteratorValid
<1>6. CASE AskSent
  <2>1. TurnOver \/ (dealPc' = "await" /\ it' = it /\ DOMAIN out' = DOMAIN out)
    BY <1>6 DEF AskSent
  <2>2. QED
    BY <1>0, <1>4, <2>1 DEF IteratorValid
<1>7. CASE Timeout
  BY <1>0, <1>7 DEF Timeout, IteratorValid
<1>8. CASE Answered
  BY <1>4, <1>8 DEF Answered
<1>9. CASE Resume
  <2>1. TurnOver \/ (dealPc' = "TRICK" /\ it' = it /\ DOMAIN out' = DOMAIN out)
    BY <1>9 DEF Resume, Ask
  <2>2. QED
    BY <1>0, <1>4, <2>1 DEF IteratorValid
<1>10. CASE EndTrick
  <2>1. UNCHANGED playerFds
    BY <1>10 DEF EndTrick
  <2>2. CASE SendTo("SCORE", Following(0))
    BY <1>0, <2>1, <2>2, FollowingEntry, SendingKeepsLoop
  <2>3. CASE dealPc' = "turn" /\ UNCHANGED <<it, out>>
    BY <1>0, <2>3 DEF IteratorValid
  <2>4. QED
    BY <1>10, <2>2, <2>3 DEF EndTrick
<1>11. CASE EndDeal
  BY <1>0, <1>11 DEF EndDeal, IteratorValid
<1>12. QED
  BY <1>1, <1>2, <1>3, <1>5, <1>6, <1>7, <1>8, <1>9, <1>10, <1>11 DEF DealStep

\* A player thread writes its own message, and shuts down the connection whose
\* entry it erases.
LEMMA PlayerStepKeepsLoop ==
  ASSUME LoopInv, NEW fd \in Fds, PlayerStep(fd)
  PROVE  LoopValid'
<1> USE DEF LoopValid
<1>0. /\ DOMAIN out = Senders /\ it \in Int /\ IteratorValid /\ SeatInv
      /\ DealThread \in Senders /\ fd \in Senders /\ fd # DealThread
  BY DEF LoopInv, Senders, Fds, DealThread
<1>1. /\ UNCHANGED <<dealPc, it>> /\ DOMAIN out' = Senders
      /\ out'[DealThread] = out[DealThread] /\ disconnected \subseteq disconnected'
  BY <1>0 DEF PlayerStep, RecvIAM, RecvIAMFails, HandleIAM, CatchUp, CaughtUp,
     LeaveIAM, RecvTRICK, RecvTRICKFails, HandleTRICK, RefuseTRICK, SpoiltTRICK,
     WrongSent, Blocks, Fail, Returns, DisconnectOne, Sends
<1>2. CASE HandleIAM(fd)
  <2>1. \A s \in DOMAIN playerFds : s \in DOMAIN playerFds' /\ playerFds'[s] = playerFds[s]
    BY <1>2 DEF HandleIAM, SeatTaken, Insert
  <2>2. QED
    BY <1>0, <1>1, <2>1 DEF IteratorValid
<1>3. CASE Fail(fd)
  <2>1. playerFds' = Erase(playerFds, seat[fd]) /\ disconnected' = disconnected \cup {fd}
    BY <1>3 DEF Fail, SeatsWithout, Returns, DisconnectOne
  <2>2. playerFds[seat[fd]] = fd
    BY <1>0, <1>3 DEF Fail, SeatInv, SeatExclusive, Seated
  <2>3. \A s \in DOMAIN playerFds \ {seat[fd]} :
          s \in DOMAIN playerFds' /\ playerFds'[s] = playerFds[s]
    BY <2>1 DEF Erase
  <2>4. QED
    BY <1>0, <1>1, <2>1, <2>2, <2>3 DEF IteratorValid
<1>4. CASE UNCHANGED playerFds
  BY <1>0, <1>1, <1>4, ElsewhereKeepsLoop DEF LoopInv
<1>5. QED
  BY <1>2, <1>3, <1>4 DEF PlayerStep, RecvIAM, RecvIAMFails, CatchUp, CaughtUp,
     LeaveIAM, RecvTRICK, RecvTRICKFails, HandleTRICK, RefuseTRICK, SpoiltTRICK,
     WrongSent, Blocks

\* Every step of the program keeps the loop valid.
LEMMA LoopStep == LoopInv /\ [Next]_vars => LoopInv'
<1> SUFFICES ASSUME LoopInv, [Next]_vars PROVE LoopInv'
  OBVIOUS
<1>1. SeatInv'
  BY SeatStep DEF LoopInv
<1>2. LoopValid'
  <2> USE DEF LoopValid
  <2>1. CASE MainStep
    <3>1. CASE NextDeal
      BY <3>1 DEF NextDeal, LoopInv, IteratorValid
    <3>2. CASE ~NextDeal
      <4>1. /\ UNCHANGED <<dealPc, it, out, playerFds>>
            /\ disconnected \subseteq disconnected'
        BY <2>1, <3>2 DEF MainStep, JoinDeal, EndGame, StopAccepting, DisconnectAll,
           JoinClients
      <4>2. QED
        BY <4>1, ElsewhereKeepsLoop DEF LoopInv
    <3>3. QED
      BY <3>1, <3>2
  <2>2. CASE AcceptStep
    BY <2>2, ElsewhereKeepsLoop
    DEF AcceptStep, PollIn, PollHup, Accept, AcceptFails, LoopInv
  <2>3. CASE \E fd \in Fds : ClientCloses(fd)
    BY <2>3, ElsewhereKeepsLoop DEF ClientCloses, LoopInv
  <2>4. CASE UNCHANGED vars
    BY <2>4, ElsewhereKeepsLoop DEF vars, LoopInv
  <2>5. QED
    BY <2>1, <2>2, <2>3, <2>4, DealStepKeepsLoop, PlayerStepKeepsLoop DEF Next
<1>3. QED
  BY <1>1, <1>2 DEF LoopInv, LoopValid

\* No loop runs at first.
LEMMA LoopInit == Init => LoopInv
<1> SUFFICES ASSUME Init PROVE LoopInv
  OBVIOUS
<1>1. it = End /\ dealPc = "done" /\ DOMAIN out = Senders
  BY DEF Init
<1>2. End \in Int
  BY KeyPlaces
<1>3. QED
  BY <1>1, <1>2, SeatInit DEF LoopInv, IteratorValid

\* Whoever leaves while a write to another client blocks, the entry of player_fds
\* at which a loop of dealThread stands is there when the loop goes on.
THEOREM IteratorAlwaysValid == Spec => []IteratorValid
<1>1. LoopInv => IteratorValid
  BY DEF LoopInv
<1>2. QED
  BY LoopInit, LoopStep, <1>1, PTL DEF Spec
-----------------------------------------------------------------------------
\* The game the threads play together.

\* The keys of player_fds are seats: handleIAM inserts the seat that was parsed,
\* dealThread the one in turn.
EntryInv ==
  /\ DOMAIN playerFds \subseteq Seats
  /\ \A fd \in Fds : pc[fd] = "handleIAM" => seat[fd] \in Seats

\* There is a deal whenever a thread plays it, and dealThread passes a turn or
\* ends a trick only with a card on the table: trickDone was reset before the
\* card came.
TableInv ==
  /\ di \in Nat
  /\ di > 0 => GameInv(deal)
  /\ dealPc # "done" => di > 0
  /\ trickDone \in [Seats -> BOOLEAN]
  /\ dealPc \in {"suspended", "TRICK", "await"} /\ trickDone[deal.currentPlayer] =>
       deal.cardsOnTable # <<>>
  /\ dealPc = "TAKEN" => deal.cardsOnTable # <<>>

CardInv == SeatInv /\ EntryInv /\ TableInv

\* Nothing is played at first.
LEMMA CardInit == Init => CardInv
<1> SUFFICES ASSUME Init PROVE CardInv
  OBVIOUS
<1>1. EntryInv
  BY DEF Init, EntryInv
<1>2. TableInv
  BY DEF Init, TableInv
<1>3. QED
  BY <1>1, <1>2, SeatInit DEF CardInv
-----------------------------------------------------------------------------
\* A step that touches neither the entries nor the places.
LEMMA ElsewhereKeepsEntries ==
  EntryInv /\ UNCHANGED <<pc, seat, playerFds>> => EntryInv'
BY DEF EntryInv

\* A thread moves on, and an entry may go.
LEMMA MovingKeepsEntries ==
  ASSUME SeatInv, EntryInv, NEW fd \in Fds, NEW place, place # "handleIAM",
         GoesTo(fd, place), UNCHANGED seat, DOMAIN playerFds' \subseteq Seats
  PROVE  EntryInv'
BY DEF SeatInv, EntryInv, GoesTo

\* A thread ends, and an entry may go.
LEMMA ReturningKeepsEntries ==
  ASSUME SeatInv, EntryInv, NEW fd \in Fds, Returns(fd),
         DOMAIN playerFds' \subseteq Seats
  PROVE  EntryInv'
BY DEF SeatInv, EntryInv, Returns

\* player_fds[currentPlayer] adds a seat of the table.
LEMMA AskKeepsEntries ==
  ASSUME EntryInv, TableInv, di > 0, Ask, UNCHANGED <<pc, seat>>
  PROVE  EntryInv'
<1>1. deal.currentPlayer \in Seats
  BY DEF TableInv, GameInv, IsDeal
<1>2. DOMAIN playerFds' = DOMAIN playerFds \cup {deal.currentPlayer}
  BY DEF Ask, Insert
<1>3. QED
  BY <1>1, <1>2 DEF EntryInv

\* The threads of the server keep the keys.
LEMMA EntryDealStep == CardInv /\ DealStep => EntryInv'
<1> SUFFICES ASSUME SeatInv, EntryInv, TableInv, DealStep PROVE EntryInv'
  BY DEF CardInv
<1>1. CASE BeginTurn
  BY <1>1, ElsewhereKeepsEntries, AskKeepsEntries DEF BeginTurn, TableInv
<1>2. CASE Resume
  BY <1>2, ElsewhereKeepsEntries, AskKeepsEntries DEF Resume, TurnOver, TableInv
<1>3. CASE ~(BeginTurn \/ Resume)
  <2>1. UNCHANGED <<pc, seat, playerFds>>
    BY <1>3 DEF DealStep, DealReady, Broadcast, BroadcastFails, Blocks, AskSent,
       Timeout, Answered, TurnOver, EndTrick, EndDeal
  <2>2. QED
    BY <2>1, ElsewhereKeepsEntries
<1>4. QED
  BY <1>1, <1>2, <1>3

\* A player thread erases no entry but its own, and registers under its own seat.
LEMMA EntryPlayerStep ==
  ASSUME CardInv, NEW fd \in Fds, PlayerStep(fd)
  PROVE  EntryInv'
<1>0. SeatInv /\ EntryInv /\ DOMAIN playerFds \subseteq Seats
  BY DEF CardInv, EntryInv
<1>1. ASSUME NEW s \in Seats, RecvIAM(fd, s) PROVE EntryInv'
  <2>1. /\ pc' = [pc EXCEPT ![fd] = "handleIAM"]
        /\ seat' = [seat EXCEPT ![fd] = s]
        /\ UNCHANGED playerFds
    BY <1>1 DEF RecvIAM, GoesTo
  <2>2. QED
    BY <1>0, <2>1 DEF SeatInv, EntryInv
<1>2. CASE RecvIAMFails(fd) \/ LeaveIAM(fd)
  BY <1>0, <1>2, ReturningKeepsEntries DEF RecvIAMFails, LeaveIAM
<1>3. CASE HandleIAM(fd)
  <2>1. seat[fd] \in Seats
    BY <1>0, <1>3 DEF EntryInv, HandleIAM
  <2>2. DOMAIN playerFds' \subseteq Seats /\ UNCHANGED seat
    BY <1>0, <1>3, <2>1 DEF HandleIAM, Insert
  <2>3. PICK place \in {"BUSY", "catchDEAL", "recvTRICK"} : GoesTo(fd, place)
    BY <1>3 DEF HandleIAM, Sends
  <2>4. QED
    BY <1>0, <2>2, <2>3, MovingKeepsEntries
<1>4. CASE CatchUp(fd)
  <2>1. UNCHANGED <<seat, playerFds>>
    BY <1>4 DEF CatchUp
  <2>2. PICK place \in {"catchTAKEN", "catchTRICK", "recvTRICK"} : GoesTo(fd, place)
    BY <1>4 DEF CatchUp, Sends
  <2>3. QED
    BY <1>0, <2>1, <2>2, MovingKeepsEntries
<1>5. CASE CaughtUp(fd) \/ RecvTRICK(fd) \/ RecvTRICKFails(fd) \/ SpoiltTRICK(fd)
  BY <1>0, <1>5, MovingKeepsEntries
  DEF CaughtUp, RecvTRICK, RecvTRICKFails, SpoiltTRICK
<1>6. ASSUME NEW trick \in 1..LastTrick, NEW card \in Offers,
             HandleTRICK(fd, trick, card) \/ RefuseTRICK(fd, trick, card)
      PROVE  EntryInv'
  <2>1. UNCHANGED <<seat, playerFds>>
    BY <1>6 DEF HandleTRICK, RefuseTRICK
  <2>2. GoesTo(fd, "recvTRICK") \/ GoesTo(fd, "WRONG") \/ UNCHANGED pc
    BY <1>6 DEF HandleTRICK, RefuseTRICK, Sends
  <2>3. QED
    BY <1>0, <2>1, <2>2, MovingKeepsEntries, ElsewhereKeepsEntries
<1>7. CASE WrongSent(fd)
  BY <1>0, <1>7, MovingKeepsEntries DEF WrongSent
<1>8. CASE Blocks(fd)
  BY <1>0, <1>8, ElsewhereKeepsEntries DEF Blocks
<1>9. CASE Fail(fd)
  <2>1. Returns(fd) /\ playerFds' = Erase(playerFds, seat[fd])
    BY <1>9 DEF Fail, SeatsWithout
  <2>2. DOMAIN playerFds' \subseteq Seats
    BY <1>0, <2>1 DEF Erase
  <2>3. QED
    BY <1>0, <2>1, <2>2, ReturningKeepsEntries
<1>10. QED
  BY <1>1, <1>2, <1>3, <1>4, <1>5, <1>6, <1>7, <1>8, <1>9 DEF PlayerStep
-----------------------------------------------------------------------------
\* A step that touches neither the deal nor the thread that plays it.
LEMMA ElsewhereKeepsTable ==
  TableInv /\ UNCHANGED <<di, deal, dealPc, trickDone>> => TableInv'
BY DEF TableInv

\* The next deal of the game file.
LEMMA TableMainStep == TableInv /\ MainStep => TableInv'
<1> SUFFICES ASSUME TableInv, MainStep PROVE TableInv'
  OBVIOUS
<1>1. CASE NextDeal
  <2>1. /\ di' = di + 1 /\ deal' = NewDeal(GameFile[di + 1])
        /\ dealPc' = "ready" /\ trickDone' = trickDone
    BY <1>1 DEF NextDeal
  <2>2. di + 1 \in DOMAIN GameFile
    BY <1>1, ServerAssumption, LenProperties DEF NextDeal, TableInv
  <2>3. GameInv(NewDeal(GameFile[di + 1]))
    BY <2>2, ServerAssumption, NewDealGame
  <2>4. QED
    BY <2>1, <2>3 DEF TableInv
<1>2. CASE ~NextDeal
  BY <1>2, ElsewhereKeepsTable
  DEF MainStep, JoinDeal, EndGame, StopAccepting, DisconnectAll, JoinClients
<1>3. QED
  BY <1>1, <1>2

\* The turn is passed when the seat has played.
LEMMA TurnOverKeepsTable ==
  ASSUME TableInv, TurnOver, dealPc \in {"suspended", "TRICK", "await"},
         trickDone[deal.currentPlayer], UNCHANGED <<di, trickDone>>
  PROVE  TableInv'
<1>1. /\ di > 0 /\ GameInv(deal) /\ deal.cardsOnTable # <<>>
      /\ di \in Nat /\ trickDone \in [Seats -> BOOLEAN]
  BY DEF TableInv
<1>2. deal' = NextPlayer(deal) /\ dealPc' \in {"TAKEN", "turn"}
  BY DEF TurnOver, SendTo
<1>3. GameInv(deal') /\ deal'.cardsOnTable # <<>>
  BY <1>1, <1>2, NextPlayerGame
<1>4. QED
  BY <1>1, <1>2, <1>3 DEF TableInv

\* The trick is taken, and after the last one every seat has a score.
LEMMA EndTrickKeepsTable ==
  ASSUME TableInv, EntryInv, EndTrick
  PROVE  TableInv'
<1> DEFINE d == NextTrick(deal)
           scores == CreditSeats(d.scores, <<>>)
<1>1. di > 0 /\ GameInv(deal) /\ deal.cardsOnTable # <<>>
  BY DEF TableInv, EndTrick
<1>2. GameInv(d)
  BY <1>1, NextTrickGame
<1>3. \/ deal' = d /\ dealPc' = "turn"
      \/ deal' = [d EXCEPT !.scores = scores] /\ dealPc' = "SCORE"
  BY DEF EndTrick, SendTo
<1>4. UNCHANGED <<di, trickDone>>
  BY DEF EndTrick
<1> HIDE DEF d
<1>5. DOMAIN scores \subseteq Seats /\ scores \in [DOMAIN scores -> Nat]
  <2>1. DOMAIN d.scores \subseteq Seats /\ d.scores \in [DOMAIN d.scores -> Nat]
    BY <1>2 DEF GameInv, IsDeal
  <2>2. DOMAIN playerFds \subseteq Seats /\ DOMAIN <<>> = {}
    BY DEF EntryInv
  <2>3. scores = [s \in DOMAIN d.scores \cup DOMAIN playerFds |->
                    (IF s \in DOMAIN d.scores THEN d.scores[s] ELSE 0) + 0]
    BY <2>2 DEF CreditSeats
  <2> HIDE DEF scores
  <2>4. QED
    BY <2>1, <2>2, <2>3
<1> HIDE DEF scores
<1>6. GameInv([d EXCEPT !.scores = scores])
  BY <1>2, <1>5, ScoresGame
<1>7. GameInv(deal')
  BY <1>2, <1>3, <1>6
<1>8. QED
  BY <1>1, <1>3, <1>4, <1>7 DEF TableInv

\* Each step of dealThread.
LEMMA TableDealStep == CardInv /\ DealStep => TableInv'
<1> SUFFICES ASSUME TableInv, EntryInv, DealStep PROVE TableInv'
  BY DEF CardInv
<1>1. CASE DealReady
  BY <1>1 DEF DealReady, SendTo, TableInv
<1>2. CASE Broadcast
  <2>1. UNCHANGED <<di, deal, trickDone>>
    BY <1>2 DEF Broadcast
  <2>2. dealPc # "done" /\ dealPc' \in {"DEAL", "TAKEN", "SCORE", "TOTAL"}
        /\ (dealPc' = "TAKEN" => dealPc = "TAKEN")
    BY <1>2 DEF Broadcast, SendTo
  <2>3. QED
    BY <2>1, <2>2 DEF TableInv
<1>3. CASE BroadcastFails \/ Blocks(DealThread)
  BY <1>3, ElsewhereKeepsTable DEF BroadcastFails, Blocks
<1>4. CASE BeginTurn
  <2>1. UNCHANGED <<di, deal>> /\ dealPc' \in {"suspended", "TRICK"} /\ dealPc # "done"
    BY <1>4 DEF BeginTurn, Ask
  <2>2. trickDone' = [trickDone EXCEPT ![deal.currentPlayer] = FALSE]
    BY <1>4 DEF BeginTurn, Unanswered
  <2>3. deal.currentPlayer \in Seats
    BY <2>1 DEF TableInv, GameInv, IsDeal
  <2>4. QED
    BY <2>1, <2>2, <2>3 DEF TableInv
<1>5. CASE AskSent
  <2>1. UNCHANGED <<di, trickDone>> /\ dealPc = "TRICK"
    BY <1>5 DEF AskSent
  <2>2. CASE trickDone[deal.currentPlayer]
    BY <1>5, <2>1, <2>2, TurnOverKeepsTable DEF AskSent
  <2>3. CASE ~trickDone[deal.currentPlayer]
    BY <1>5, <2>1, <2>3 DEF AskSent, TableInv
  <2>4. QED
    BY <2>2, <2>3
<1>6. CASE Timeout
  BY <1>6 DEF Timeout, TableInv
<1>7. CASE Answered
  BY <1>7, TurnOverKeepsTable DEF Answered
<1>8. CASE Resume
  <2>1. UNCHANGED <<di, trickDone>> /\ dealPc = "suspended"
    BY <1>8 DEF Resume
  <2>2. CASE trickDone[deal.currentPlayer]
    BY <1>8, <2>1, <2>2, TurnOverKeepsTable DEF Resume
  <2>3. CASE ~trickDone[deal.currentPlayer]
    <3>1. dealPc' = "TRICK" /\ UNCHANGED deal
      BY <1>8, <2>3 DEF Resume, Ask
    <3>2. QED
      BY <2>1, <2>3, <3>1 DEF TableInv
  <2>4. QED
    BY <2>2, <2>3
<1>9. CASE EndTrick
  BY <1>9, EndTrickKeepsTable
<1>10. CASE EndDeal
  BY <1>10 DEF EndDeal, TableInv
<1>11. QED
  BY <1>1, <1>2, <1>3, <1>4, <1>5, <1>6, <1>7, <1>8, <1>9, <1>10 DEF DealStep

\* A player thread changes the game by a legal card, and takes back trickDone
\* only of a seat it asks.
LEMMA TablePlayerStep ==
  ASSUME TableInv, NEW fd \in Fds, PlayerStep(fd)
  PROVE  TableInv'
<1>1. ASSUME NEW trick \in 1..LastTrick, NEW card \in Offers,
             HandleTRICK(fd, trick, card)
      PROVE  TableInv'
  <2>1. /\ di > 0 /\ GameInv(deal) /\ card \in Card
        /\ IsLegal(deal, trick, card)
    BY <1>1, ServerAssumption DEF HandleTRICK, Expected, TableInv
  <2>2. /\ deal' = PlayCard(deal, card) /\ UNCHANGED <<di, dealPc>>
        /\ trickDone' = [trickDone EXCEPT ![deal.currentPlayer] = TRUE]
    BY <1>1 DEF HandleTRICK
  <2>3. GameInv(deal') /\ deal'.cardsOnTable # <<>>
    BY <2>1, <2>2, PlayCardGame
  <2>4. QED
    BY <2>1, <2>2, <2>3 DEF TableInv
<1>2. CASE CatchUp(fd)
  <2>1. UNCHANGED <<di, deal, dealPc>>
    BY <1>2 DEF CatchUp
  <2>2. trickDone' = trickDone \/ trickDone' = [trickDone EXCEPT ![seat[fd]] = FALSE]
    BY <1>2 DEF CatchUp, Unanswered
  <2>3. /\ trickDone' \in [Seats -> BOOLEAN]
        /\ \A s \in Seats : trickDone'[s] => trickDone[s]
    BY <2>2 DEF TableInv
  <2>4. di > 0 => deal.currentPlayer \in Seats
    BY DEF TableInv, GameInv, IsDeal
  <2>5. QED
    BY <2>1, <2>3, <2>4 DEF TableInv
<1>3. CASE UNCHANGED <<di, deal, dealPc, trickDone>>
  BY <1>3, ElsewhereKeepsTable
<1>4. QED
  BY <1>1, <1>2, <1>3 DEF PlayerStep, RecvIAM, RecvIAMFails, HandleIAM, CaughtUp,
     LeaveIAM, RecvTRICK, RecvTRICKFails, RefuseTRICK, SpoiltTRICK, WrongSent, Blocks,
     Fail
-----------------------------------------------------------------------------
\* Every step of the program keeps the game.
LEMMA CardStep == CardInv /\ [Next]_vars => CardInv'
<1> SUFFICES ASSUME CardInv, [Next]_vars PROVE CardInv'
  OBVIOUS
<1>0. SeatInv /\ EntryInv /\ TableInv
  BY DEF CardInv
<1>1. SeatInv'
  BY <1>0, SeatStep
<1>2. CASE MainStep
  <2>1. UNCHANGED <<pc, seat, playerFds>>
    BY <1>2 DEF MainStep, NextDeal, JoinDeal, EndGame, StopAccepting, DisconnectAll,
       JoinClients
  <2>2. QED
    BY <1>0, <1>1, <1>2, <2>1, ElsewhereKeepsEntries, TableMainStep DEF CardInv
<1>3. CASE AcceptStep
  <2>1. TableInv'
    BY <1>0, <1>3, ElsewhereKeepsTable
    DEF AcceptStep, PollIn, PollHup, Accept, AcceptFails
  <2>2. EntryInv'
    <3>1. CASE Accept
      <4>1. PICK fd : pc' = [pc EXCEPT ![fd] = "recvIAM"] /\ UNCHANGED <<seat, playerFds>>
        BY <3>1 DEF Accept
      <4>2. QED
        BY <1>0, <4>1 DEF SeatInv, EntryInv
    <3>2. CASE ~Accept
      BY <1>0, <1>3, <3>2, ElsewhereKeepsEntries
      DEF AcceptStep, PollIn, PollHup, AcceptFails
    <3>3. QED
      BY <3>1, <3>2
  <2>3. QED
    BY <1>1, <2>1, <2>2 DEF CardInv
<1>4. CASE DealStep
  BY <1>1, <1>4, EntryDealStep, TableDealStep DEF CardInv
<1>5. ASSUME NEW fd \in Fds, PlayerStep(fd) PROVE CardInv'
  BY <1>0, <1>1, <1>5, EntryPlayerStep, TablePlayerStep DEF CardInv
<1>6. ASSUME NEW fd \in Fds, ClientCloses(fd) PROVE CardInv'
  BY <1>0, <1>1, <1>6, ElsewhereKeepsEntries, ElsewhereKeepsTable
  DEF ClientCloses, CardInv
<1>7. CASE UNCHANGED vars
  BY <1>0, <1>1, <1>7, ElsewhereKeepsEntries, ElsewhereKeepsTable DEF vars, CardInv
<1>8. QED
  BY <1>2, <1>3, <1>4, <1>5, <1>6, <1>7 DEF Next

\* It holds of every execution of the server.
LEMMA CardAlways == Spec => []CardInv
BY CardInit, CardStep, PTL DEF Spec

\* Two threads, two connections of one seat, repeated asks and lost clients never
\* make the server lose or double a card.
THEOREM ServerConservesCards == Spec => []CardsConserved
<1>1. CardInv => CardsConserved
  BY DEF CardInv, TableInv, GameInv, CardsConserved
<1>2. QED
  BY CardAlways, <1>1, PTL

\* A seat cannot revoke, not even by leaving and coming back in the middle of a
\* trick.
THEOREM ServerNeverRevokes == Spec => []NoRevoke
<1>1. CardInv => NoRevoke
  BY GameShowsNoRevoke DEF CardInv, TableInv, NoRevoke
<1>2. QED
  BY CardAlways, <1>1, PTL

\* The trick and the lead go to the seat of the highest card of the suit led,
\* whoever was connected when, and even when a seat put two cards into it.
THEOREM ServerHighestTakes == Spec => []HighestTakes
<1>1. CardInv => HighestTakes
  BY GameGivesTricks DEF CardInv, TableInv, HighestTakes
<1>2. QED
  BY CardAlways, <1>1, PTL
-----------------------------------------------------------------------------
\* Descriptors are handed out in turn, so that a new connection is one that was
\* never shut down, and a thread writes to connections that were accepted.
ConnInv ==
  /\ \E k \in Nat : clients \ {Stdin} = 5..(4 + k)
  /\ disconnected \subseteq clients \ {Stdin}
  /\ \A s \in DOMAIN playerFds : playerFds[s] \in clients \cup {Stdin}
  /\ \A fd \in Fds : pc[fd] # "none" => fd \in clients
  /\ \A fd \in Fds : out[fd] # Nothing => out[fd].to = fd /\ fd \in clients
  /\ out[DealThread] # Nothing => out[DealThread].to \in clients \cup {Stdin}

\* As long as no client has left, only the end of the game ends a player thread,
\* and no deal is suspended.
AtPeace ==
  /\ closed = {} /\ dealSuspended = FALSE /\ dealPc # "suspended"
  /\ \A fd \in Fds :
       /\ pc[fd] \notin CatchingUp
       /\ pc[fd] = "failed" => gameOver
       /\ fd \in disconnected /\ pc[fd] # "done" => gameOver

PeaceInv ==
  /\ drops \in Nat
  /\ mainPc \notin {"next", "join"} => gameOver
  /\ drops = 0 => AtPeace

\* dealThread keeps the lock from the end of one turn to the next ask.
LockInv ==
  /\ dealPc = "turn" \/ (dealPc = "TAKEN" /\ it = End) =>
       mtx = DealThread /\ out[DealThread] = Nothing
  /\ dealPc = "await" => out[DealThread] = Nothing

\* The seat in turn has played, and dealThread has not gone on yet.
Played == dealPc \in {"TRICK", "await"} /\ trickDone[deal.currentPlayer]

\* A card is expected only of a seat that has not played; the turn is with the
\* last seat that played until dealThread passes it.
TurnsInv ==
  /\ fdExpectedTrick \in Fds =>
       /\ di > 0 /\ dealPc \in {"TRICK", "await", "turn"}
       /\ ~trickDone[deal.currentPlayer]
  /\ mainPc # "join" => dealPc = "done"
  /\ di > 0 => WentRound(deal)
  /\ di > 0 => \E f \in 1..Players :
       /\ Played => Turned(deal, f, Len(deal.cardsOnTable))
                    /\ Len(deal.cardsOnTable) \in 1..Players
       /\ ~Played => Rotates(deal, f)
       /\ dealPc = "TAKEN" => Len(deal.cardsOnTable) = Players
       /\ ~Played /\ dealPc # "TAKEN" => Len(deal.cardsOnTable) < Players

QuietInv ==
  LoopInv /\ CardInv /\ ConnInv /\ PeaceInv /\ LockInv /\ (drops = 0 => TurnsInv)

\* The server starts without connections and deals.
LEMMA QuietInit == Init => QuietInv
<1> SUFFICES ASSUME Init PROVE QuietInv
  OBVIOUS
<1>1. LoopInv
  BY LoopInit
<1>2. CardInv
  BY CardInit
<1>3. ConnInv
  <2>1. clients \ {Stdin} = 5..(4 + 0) /\ 0 \in Nat
    BY DEF Init
  <2>2. /\ disconnected = {} /\ DOMAIN playerFds = {}
        /\ \A fd \in Fds : pc[fd] = "none" /\ out[fd] = Nothing
        /\ out[DealThread] = Nothing
    BY DEF Init, Senders
  <2>3. QED
    BY <2>1, <2>2 DEF ConnInv
<1>4. PeaceInv
  BY DEF Init, PeaceInv, AtPeace, CatchingUp
<1>5. LockInv
  BY DEF Init, LockInv
<1>6. TurnsInv
  <2>1. NoFd \notin Fds
    BY ServerAssumption DEF NoFd, Fds
  <2>2. QED
    BY <2>1 DEF Init, TurnsInv
<1>7. QED
  BY <1>1, <1>2, <1>3, <1>4, <1>5, <1>6 DEF QuietInv
-----------------------------------------------------------------------------
\* Connections.

\* A step after which the threads write to the same connections, and which adds
\* nothing but the standard input to the clients.
LEMMA ConnKept ==
  ASSUME ConnInv, clients' \in {clients, clients \cup {Stdin}},
         disconnected' \subseteq clients \ {Stdin},
         \A s \in DOMAIN playerFds' : playerFds'[s] \in clients \cup {Stdin},
         \A fd \in Fds : pc'[fd] # "none" => fd \in clients,
         \A fd \in Fds : out'[fd] # Nothing => out'[fd].to = fd /\ fd \in clients,
         out'[DealThread] # Nothing => out'[DealThread].to \in clients \cup {Stdin}
  PROVE  ConnInv'
<1>1. clients' \ {Stdin} = clients \ {Stdin} /\ clients \subseteq clients'
  OBVIOUS
<1>2. QED
  BY <1>1 DEF ConnInv

\* A loop of dealThread has come to an entry.
LEMMA SendToConn ==
  ASSUME ConnInv, DOMAIN out = Senders, NEW kind, NEW i, SendTo(kind, i),
         i = End \/ KeyOrder[i] \in DOMAIN playerFds
  PROVE  /\ \A fd \in Fds : out'[fd] = out[fd]
         /\ out'[DealThread] # Nothing => out'[DealThread].to \in clients \cup {Stdin}
<1>1. DealThread \in Senders /\ Fds \subseteq Senders /\ DealThread \notin Fds
  BY ServerAssumption DEF Senders, DealThread, Fds
<1>2. out' = [out EXCEPT ![DealThread] =
         IF i = End THEN Nothing
         ELSE Message(kind, playerFds[KeyOrder[i]],
                      IF kind = "TAKEN" THEN deal.currentTrick ELSE 0)]
  BY DEF SendTo
<1>3. \A fd \in Fds : out'[fd] = out[fd]
  BY <1>1, <1>2
<1>4. CASE i = End
  BY <1>1, <1>2, <1>3, <1>4
<1>5. CASE i # End
  <2>1. out'[DealThread].to = playerFds[KeyOrder[i]]
    BY <1>1, <1>2, <1>5 DEF Message
  <2>2. QED
    BY <1>3, <1>5, <2>1 DEF ConnInv
<1>6. QED
  BY <1>4, <1>5

\* dealThread writes to the descriptors of player_fds, or to standard input.
LEMMA DealStepOut ==
  ASSUME LoopInv, ConnInv, DealStep
  PROVE  /\ \A fd \in Fds : out'[fd] = out[fd]
         /\ out'[DealThread] # Nothing => out'[DealThread].to \in clients \cup {Stdin}
<1> DEFINE Kept == /\ \A fd \in Fds : out'[fd] = out[fd]
                   /\ out'[DealThread] # Nothing =>
                        out'[DealThread].to \in clients \cup {Stdin}
<1>0. /\ DOMAIN out = Senders /\ it \in Int /\ IteratorValid /\ DealThread \in Senders
      /\ Fds \subseteq Senders /\ DealThread \notin Fds
      /\ out[DealThread] # Nothing => out[DealThread].to \in clients \cup {Stdin}
  BY ServerAssumption DEF LoopInv, Senders, DealThread, Fds, ConnInv
<1>1. ASSUME out' = out \/ out' = [out EXCEPT ![DealThread] = Nothing] PROVE Kept
  BY <1>0, <1>1
<1>2. ASSUME TurnOver PROVE Kept
  <2>1. CASE SendTo("TAKEN", Following(0))
    BY <1>0, <2>1, FollowingEntry, SendToConn
  <2>2. CASE out' = [out EXCEPT ![DealThread] = Nothing]
    BY <1>1, <2>2
  <2>3. QED
    BY <1>2, <2>1, <2>2 DEF TurnOver
<1>3. ASSUME Ask PROVE Kept
  <2>1. PICK fd \in clients \cup {Stdin} :
          out' = [out EXCEPT ![DealThread] = Message("TRICK", fd, deal.currentTrick)]
    BY <1>3 DEF Ask, ConnInv
  <2>2. out'[DealThread].to = fd
    BY <1>0, <2>1 DEF Message
  <2>3. QED
    BY <1>0, <2>1, <2>2
<1>4. CASE DealReady
  BY <1>0, <1>4, FollowingEntry, SendToConn DEF DealReady
<1>5. CASE Broadcast
  <2>1. it = End \/ KeyOrder[it] \in DOMAIN playerFds
    BY <1>0, <1>5 DEF Broadcast, Delivers, IteratorValid
  <2>2. Following(it) = End \/ KeyOrder[Following(it)] \in DOMAIN playerFds
    BY <1>0, FollowingEntry
  <2>3. \/ SendTo("TOTAL", it) \/ SendTo("SCORE", Following(it))
        \/ SendTo(dealPc, Following(it))
    BY <1>5 DEF Broadcast
  <2>4. QED
    BY <1>0, <2>1, <2>2, <2>3, SendToConn
<1>6. CASE BeginTurn
  BY <1>1, <1>3, <1>6 DEF BeginTurn
<1>7. CASE AskSent
  BY <1>1, <1>2, <1>7 DEF AskSent
<1>8. CASE Answered
  BY <1>2, <1>8 DEF Answered
<1>9. CASE Resume
  BY <1>2, <1>3, <1>9 DEF Resume
<1>10. CASE EndTrick
  <2>1. CASE SendTo("SCORE", Following(0))
    BY <1>0, <2>1, FollowingEntry, SendToConn
  <2>2. CASE UNCHANGED out
    BY <1>1, <2>2
  <2>3. QED
    BY <1>10, <2>1, <2>2 DEF EndTrick
<1>11. CASE BroadcastFails \/ Blocks(DealThread) \/ Timeout \/ EndDeal
  BY <1>1, <1>11 DEF BroadcastFails, Blocks, Timeout, EndDeal
<1>12. QED
  BY <1>4, <1>5, <1>6, <1>7, <1>8, <1>9, <1>10, <1>11 DEF DealStep

\* Its writes log no new client but standard input.
LEMMA ConnDealStep == LoopInv /\ ConnInv /\ DealStep => ConnInv'
<1> SUFFICES ASSUME LoopInv, ConnInv, DealStep PROVE ConnInv'
  OBVIOUS
<1>1. clients' \in {clients, clients \cup {Stdin}}
  <2>1. ASSUME Delivers(DealThread) PROVE clients' \in {clients, clients \cup {Stdin}}
    BY <2>1 DEF Delivers, Logged, ConnInv
  <2>2. Delivers(DealThread) \/ clients' = clients
    BY DEF DealStep, DealReady, Broadcast, BroadcastFails, Blocks, BeginTurn, AskSent,
       Timeout, Answered, Resume, EndTrick, EndDeal, Breaks
  <2>3. QED
    BY <2>1, <2>2
<1>2. UNCHANGED <<disconnected, pc>>
  BY DEF DealStep, DealReady, Broadcast, BroadcastFails, Blocks, BeginTurn, AskSent,
     Timeout, Answered, Resume, EndTrick, EndDeal
<1>3. \A s \in DOMAIN playerFds' : playerFds'[s] \in clients \cup {Stdin}
  <2>1. Ask \/ UNCHANGED playerFds
    BY DEF DealStep, DealReady, Broadcast, BroadcastFails, Blocks, BeginTurn, AskSent,
       Timeout, Answered, Resume, EndTrick, EndDeal, TurnOver
  <2>2. CASE Ask
    BY <2>2 DEF Ask, Insert, ConnInv
  <2>3. QED
    BY <2>1, <2>2 DEF ConnInv
<1>4. QED
  BY <1>1, <1>2, <1>3, DealStepOut, ConnKept DEF ConnInv

\* What a step of a player thread does to the connections and the entries.
LEMMA PlayerStepConn ==
  ASSUME LoopInv, ConnInv, NEW fd \in Fds, PlayerStep(fd)
  PROVE  /\ fd \in clients /\ UNCHANGED clients
         /\ pc' = pc \/ \E place : pc' = [pc EXCEPT ![fd] = place]
         /\ disconnected' \in {disconnected, disconnected \cup {fd}}
         /\ \/ out' = out \/ out' = [out EXCEPT ![fd] = Nothing]
            \/ \E kind, trick : out' = [out EXCEPT ![fd] = Message(kind, fd, trick)]
         /\ playerFds' \in {playerFds, Insert(playerFds, seat[fd], fd),
                            Erase(playerFds, seat[fd])}
<1> DEFINE Moves == pc' = pc \/ \E place : pc' = [pc EXCEPT ![fd] = place]
           Cuts == disconnected' \in {disconnected, disconnected \cup {fd}}
           Writes == \/ out' = out \/ out' = [out EXCEPT ![fd] = Nothing]
                     \/ \E kind, trick :
                          out' = [out EXCEPT ![fd] = Message(kind, fd, trick)]
           Seats2 == playerFds' \in {playerFds, Insert(playerFds, seat[fd], fd),
                                     Erase(playerFds, seat[fd])}
<1>1. fd \in clients
  BY DEF ConnInv, PlayerStep, RecvIAM, RecvIAMFails, HandleIAM, CatchUp, CaughtUp,
     LeaveIAM, RecvTRICK, RecvTRICKFails, HandleTRICK, RefuseTRICK, MayHandle,
     SpoiltTRICK, WrongSent, Blocks, Fail
<1>2. UNCHANGED clients
  <2>1. ASSUME Delivers(fd) PROVE UNCHANGED clients
    BY <1>1, <2>1 DEF Delivers, Logged, ConnInv
  <2>2. Delivers(fd) \/ UNCHANGED clients
    BY DEF PlayerStep, RecvIAM, RecvIAMFails, HandleIAM, CatchUp, CaughtUp, LeaveIAM,
       RecvTRICK, RecvTRICKFails, HandleTRICK, RefuseTRICK, SpoiltTRICK, WrongSent,
       Blocks, Fail, Breaks
  <2>3. QED
    BY <2>1, <2>2
<1>3. Moves
  BY DEF PlayerStep, RecvIAM, RecvIAMFails, HandleIAM, CatchUp, CaughtUp, LeaveIAM,
     RecvTRICK, RecvTRICKFails, HandleTRICK, RefuseTRICK, SpoiltTRICK, WrongSent,
     Blocks, Fail, Sends, GoesTo, Returns
<1>4. Cuts
  BY DEF PlayerStep, RecvIAM, RecvIAMFails, HandleIAM, CatchUp, CaughtUp, LeaveIAM,
     RecvTRICK, RecvTRICKFails, HandleTRICK, RefuseTRICK, SpoiltTRICK, WrongSent,
     Blocks, Fail, Returns, DisconnectOne
<1>5. Writes
  BY DEF PlayerStep, RecvIAM, RecvIAMFails, HandleIAM, CatchUp, CaughtUp, LeaveIAM,
     RecvTRICK, RecvTRICKFails, HandleTRICK, RefuseTRICK, SpoiltTRICK, WrongSent,
     Blocks, Fail, Sends
<1>6. Seats2
  BY DEF PlayerStep, RecvIAM, RecvIAMFails, HandleIAM, CatchUp, CaughtUp, LeaveIAM,
     RecvTRICK, RecvTRICKFails, HandleTRICK, RefuseTRICK, SpoiltTRICK, WrongSent,
     Blocks, Fail, SeatsWithout
<1>7. QED
  BY <1>1, <1>2, <1>3, <1>4, <1>5, <1>6

\* A player thread writes to its own connection.
LEMMA ConnPlayerStep ==
  ASSUME LoopInv, ConnInv, NEW fd \in Fds, PlayerStep(fd)
  PROVE  ConnInv'
<1>1. /\ fd \in clients /\ UNCHANGED clients /\ fd # Stdin /\ fd # DealThread
      /\ DOMAIN out = Senders /\ fd \in Senders /\ Fds \subseteq Senders
  BY PlayerStepConn, ServerAssumption DEF Fds, Stdin, DealThread, LoopInv, Senders
<1>2. disconnected' \subseteq clients \ {Stdin}
  BY <1>1, PlayerStepConn DEF ConnInv
<1>3. \A s \in DOMAIN playerFds' : playerFds'[s] \in clients \cup {Stdin}
  <2>1. \A s \in DOMAIN playerFds : playerFds[s] \in clients \cup {Stdin}
    BY DEF ConnInv
  <2>2. CASE playerFds' = Insert(playerFds, seat[fd], fd)
    BY <1>1, <2>1, <2>2 DEF Insert
  <2>3. CASE playerFds' = Erase(playerFds, seat[fd])
    BY <2>1, <2>3 DEF Erase
  <2>4. QED
    BY <2>1, <2>2, <2>3, PlayerStepConn
<1>4. \A f \in Fds : pc'[f] # "none" => f \in clients
  <2>1. DOMAIN pc = Fds /\ \A f \in Fds : pc[f] # "none" => f \in clients
    BY DEF ConnInv, LoopInv, SeatInv
  <2>2. CASE UNCHANGED pc
    BY <2>1, <2>2
  <2>3. ASSUME NEW place, pc' = [pc EXCEPT ![fd] = place]
        PROVE  \A f \in Fds : pc'[f] # "none" => f \in clients
    BY <1>1, <2>1, <2>3
  <2>4. QED
    BY <2>2, <2>3, PlayerStepConn
<1>5. \A f \in Fds : out'[f] # Nothing => out'[f].to = f /\ f \in clients
  BY <1>1, PlayerStepConn DEF ConnInv, Message
<1>6. out'[DealThread] = out[DealThread]
  BY <1>1, PlayerStepConn DEF Senders
<1>7. QED
  BY <1>1, <1>2, <1>3, <1>4, <1>5, <1>6, ConnKept DEF ConnInv

\* A new connection gets a descriptor that was never used.
LEMMA AcceptFresh ==
  ASSUME ConnInv, Accept
  PROVE  \E k \in Nat : /\ clients \ {Stdin} = 5..(4 + k)
                        /\ clients' = clients \cup {5 + k}
                        /\ pc' = [pc EXCEPT ![5 + k] = "recvIAM"]
                        /\ 5 + k \notin disconnected
<1>1. PICK k \in Nat : clients \ {Stdin} = 5..(4 + k)
  BY DEF ConnInv
<1>2. Cardinality(clients \ {Stdin}) = k
  <2>1. 5 \in Int /\ 4 + k \in Int
    OBVIOUS
  <2>2. Cardinality(5..(4 + k)) = IF 5 > 4 + k THEN 0 ELSE (4 + k) - 5 + 1
    BY <2>1, FS_Interval
  <2>3. (IF 5 > 4 + k THEN 0 ELSE (4 + k) - 5 + 1) = k
    <3>1. CASE k = 0
      BY <3>1
    <3>2. CASE k # 0
      BY <3>2
    <3>3. QED
      BY <3>1, <3>2
  <2>4. QED
    BY <1>1, <2>2, <2>3, Zenon
<1>3. 5 + k \notin disconnected
  <2>1. 5 + k \notin 5..(4 + k)
    OBVIOUS
  <2>2. QED
    BY <1>1, <2>1 DEF ConnInv
<1>4. clients' = clients \cup {5 + k} /\ pc' = [pc EXCEPT ![5 + k] = "recvIAM"]
  BY <1>2 DEF Accept
<1>5. QED
  BY <1>1, <1>3, <1>4

\* The accept thread adds the next descriptor, which nothing names yet.
LEMMA ConnAcceptStep == LoopInv /\ ConnInv /\ AcceptStep => ConnInv'
<1> SUFFICES ASSUME LoopInv, ConnInv, AcceptStep PROVE ConnInv'
  OBVIOUS
<1>1. CASE Accept
  <2>1. PICK k \in Nat : /\ clients \ {Stdin} = 5..(4 + k)
                         /\ clients' = clients \cup {5 + k}
                         /\ pc' = [pc EXCEPT ![5 + k] = "recvIAM"]
    BY <1>1, AcceptFresh
  <2>2. k + 1 \in Nat /\ clients' \ {Stdin} = 5..(4 + (k + 1))
    BY <2>1 DEF Stdin
  <2>3. clients \subseteq clients' /\ UNCHANGED <<disconnected, playerFds, out>>
    BY <1>1, <2>1 DEF Accept
  <2>4. \A fd \in Fds : pc'[fd] # "none" => fd \in clients'
    BY <2>1 DEF ConnInv, LoopInv, SeatInv
  <2>5. QED
    BY <2>2, <2>3, <2>4 DEF ConnInv
<1>2. CASE ~Accept
  BY <1>2 DEF AcceptStep, PollIn, PollHup, AcceptFails, ConnInv
<1>3. QED
  BY <1>1, <1>2

\* Every step of the server keeps its connections apart.
LEMMA ConnStep == LoopInv /\ ConnInv /\ [Next]_vars => ConnInv'
<1> SUFFICES ASSUME LoopInv, ConnInv, [Next]_vars PROVE ConnInv'
  OBVIOUS
<1>1. CASE MainStep
  <2>1. UNCHANGED <<clients, playerFds, pc, out>>
    BY <1>1 DEF MainStep, NextDeal, JoinDeal, EndGame, StopAccepting, DisconnectAll,
       JoinClients
  <2>2. disconnected' \subseteq clients \ {Stdin}
    BY <1>1 DEF MainStep, NextDeal, JoinDeal, EndGame, StopAccepting, DisconnectAll,
       JoinClients, ConnectionsToCut, ConnInv
  <2>3. QED
    BY <2>1, <2>2 DEF ConnInv
<1>2. CASE \E fd \in Fds : ClientCloses(fd)
  BY <1>2 DEF ClientCloses, ConnInv
<1>3. CASE UNCHANGED vars
  BY <1>3 DEF vars, ConnInv
<1>4. QED
  BY <1>1, <1>2, <1>3, ConnAcceptStep, ConnDealStep, ConnPlayerStep DEF Next
-----------------------------------------------------------------------------
\* Nobody leaves.

\* The count of departures only grows.
LEMMA DropsGrow ==
  ASSUME drops \in Nat, [Next]_vars
  PROVE  drops' \in Nat /\ (drops' = 0 => drops = 0) /\ drops' \in {drops, drops + 1}
<1>1. drops' = drops \/ drops' = drops + 1
  <2>1. CASE MainStep
    BY <2>1 DEF MainStep, NextDeal, JoinDeal, EndGame, StopAccepting, DisconnectAll,
       JoinClients
  <2>2. CASE AcceptStep
    BY <2>2 DEF AcceptStep, PollIn, PollHup, Accept, AcceptFails
  <2>3. CASE DealStep
    BY <2>3 DEF DealStep, DealReady, Broadcast, BroadcastFails, Blocks, BeginTurn,
       AskSent, Timeout, Answered, Resume, EndTrick, EndDeal
  <2>4. ASSUME NEW fd \in Fds, PlayerStep(fd) PROVE drops' = drops \/ drops' = drops + 1
    BY <2>4 DEF PlayerStep, RecvIAM, RecvIAMFails, HandleIAM, CatchUp, CaughtUp,
       LeaveIAM, RecvTRICK, RecvTRICKFails, HandleTRICK, RefuseTRICK, SpoiltTRICK,
       WrongSent, Blocks, Fail
  <2>5. CASE \E fd \in Fds : ClientCloses(fd)
    BY <2>5 DEF ClientCloses
  <2>6. CASE UNCHANGED vars
    BY <2>6 DEF vars
  <2>7. QED
    BY <2>1, <2>2, <2>3, <2>4, <2>5, <2>6 DEF Next
<1>2. QED
  BY <1>1

\* A step that moves no player thread and suspends nothing.
LEMMA ElsewhereKeepsPeace ==
  ASSUME AtPeace, UNCHANGED <<closed, dealSuspended, pc, disconnected>>,
         dealPc' # "suspended", gameOver => gameOver'
  PROVE  AtPeace'
BY DEF AtPeace

\* A player thread that does not fail: a deal is suspended by a lost client only,
\* and none is lost.
LEMMA PlayerStepAtPeace ==
  ASSUME SeatInv, ConnInv, AtPeace, drops' = drops, NEW fd \in Fds, PlayerStep(fd),
         drops \in Nat
  PROVE  AtPeace'
<1> DEFINE Moved(place) == /\ pc' = [pc EXCEPT ![fd] = place]
                           /\ UNCHANGED <<disconnected, dealSuspended>>
<1>0. /\ pc \in [Fds -> Places] /\ closed = {} /\ dealSuspended = FALSE
      /\ UNCHANGED <<closed, gameOver, dealPc>> /\ fd # Stdin
  BY ServerAssumption DEF SeatInv, AtPeace, Fds, Stdin, PlayerStep, RecvIAM, RecvIAMFails,
     HandleIAM, CatchUp, CaughtUp, LeaveIAM, RecvTRICK, RecvTRICKFails, HandleTRICK,
     RefuseTRICK, SpoiltTRICK, WrongSent, Blocks, Fail
<1>1. ASSUME NEW place, Moved(place), place \notin CatchingUp, pc[fd] # "done",
             place = "failed" => gameOver
      PROVE  AtPeace'
  BY <1>0, <1>1 DEF AtPeace
<1>2. ASSUME Returns(fd), UNCHANGED dealSuspended PROVE AtPeace'
  <2>1. pc' = [pc EXCEPT ![fd] = "done"] /\ disconnected' = disconnected \cup {fd}
    BY <1>2 DEF Returns, DisconnectOne
  <2>2. "done" \notin CatchingUp
    BY DEF CatchingUp
  <2>3. QED
    BY <1>0, <1>2, <2>1, <2>2 DEF AtPeace
<1>3. {"handleIAM", "BUSY", "recvTRICK", "handleTRICK", "WRONG", "failed"} \cap CatchingUp = {}
  BY DEF CatchingUp
<1>4. CASE \E s \in Seats : RecvIAM(fd, s)
  BY <1>1, <1>3, <1>4 DEF RecvIAM, GoesTo
<1>5. CASE RecvIAMFails(fd) \/ LeaveIAM(fd)
  BY <1>2, <1>5 DEF RecvIAMFails, LeaveIAM
<1>6. CASE HandleIAM(fd)
  <2>1. Moved("BUSY") \/ Moved("recvTRICK")
    BY <1>0, <1>6 DEF HandleIAM, Sends, GoesTo
  <2>2. QED
    BY <1>1, <1>3, <1>6, <2>1 DEF HandleIAM
<1>7. CASE CatchUp(fd) \/ CaughtUp(fd)
  BY <1>7 DEF CatchUp, CaughtUp, AtPeace, CatchingUp
<1>8. CASE RecvTRICK(fd)
  BY <1>1, <1>3, <1>8 DEF RecvTRICK, GoesTo
<1>9. CASE RecvTRICKFails(fd)
  <2>1. gameOver
    BY <1>0, <1>9 DEF RecvTRICKFails, AtPeace
  <2>2. QED
    BY <1>1, <1>3, <1>9, <2>1 DEF RecvTRICKFails, GoesTo
<1>10. ASSUME NEW trick, NEW card, HandleTRICK(fd, trick, card) PROVE AtPeace'
  BY <1>1, <1>3, <1>10 DEF HandleTRICK, MayHandle, GoesTo
<1>11. ASSUME NEW trick, NEW card, RefuseTRICK(fd, trick, card) PROVE AtPeace'
  <2>1. Moved("WRONG") \/ UNCHANGED <<pc, disconnected, dealSuspended>>
    BY <1>11 DEF RefuseTRICK, Sends, GoesTo
  <2>2. pc[fd] # "done"
    BY <1>11 DEF RefuseTRICK, MayHandle
  <2>3. QED
    BY <1>0, <1>1, <1>3, <2>1, <2>2 DEF AtPeace
<1>12. CASE SpoiltTRICK(fd)
  BY <1>12 DEF SpoiltTRICK
<1>13. CASE WrongSent(fd)
  <2>1. pc[fd] = "WRONG" /\ UNCHANGED <<disconnected, dealSuspended>>
    BY <1>13 DEF WrongSent
  <2>2. CASE GoesTo(fd, "recvTRICK")
    BY <1>1, <1>3, <2>1, <2>2 DEF GoesTo
  <2>3. CASE Breaks(fd) /\ GoesTo(fd, "failed")
    <3>1. fd \in disconnected
      BY <1>0, <2>3 DEF Breaks, ConnInv
    <3>2. gameOver
      BY <2>1, <3>1 DEF AtPeace
    <3>3. QED
      BY <1>1, <1>3, <2>1, <2>3, <3>2 DEF GoesTo
  <2>4. QED
    BY <1>13, <2>2, <2>3 DEF WrongSent
<1>14. CASE Blocks(fd)
  BY <1>0, <1>14 DEF Blocks, AtPeace
<1>15. CASE Fail(fd)
  <2>1. gameOver
    BY <1>15 DEF Fail, AtPeace
  <2>2. UNCHANGED dealSuspended
    BY <1>0, <1>15, <2>1 DEF Fail
  <2>3. QED
    BY <1>2, <1>15, <2>2 DEF Fail
<1>16. QED
  BY <1>4, <1>5, <1>6, <1>7, <1>8, <1>9, <1>10, <1>11, <1>12, <1>13, <1>14, <1>15
  DEF PlayerStep

\* As long as nobody has left, the threads are at peace.
LEMMA PeaceStep == SeatInv /\ ConnInv /\ PeaceInv /\ [Next]_vars => PeaceInv'
<1> SUFFICES ASSUME SeatInv, ConnInv, PeaceInv, [Next]_vars PROVE PeaceInv'
  OBVIOUS
<1>1. drops' \in Nat /\ (drops' = 0 => drops = 0)
  BY DropsGrow DEF PeaceInv
<1>2. (mainPc' \notin {"next", "join"} => gameOver') /\ (gameOver => gameOver')
  <2>1. CASE MainStep
    BY <2>1 DEF PeaceInv, MainStep, NextDeal, JoinDeal, EndGame, StopAccepting,
       DisconnectAll, JoinClients
  <2>2. CASE ~MainStep
    <3>1. UNCHANGED <<mainPc, gameOver>>
      BY <2>2 DEF Next, vars, AcceptStep, PollIn, PollHup, Accept, AcceptFails, DealStep,
         DealReady, Broadcast, BroadcastFails, Blocks, BeginTurn, AskSent, Timeout,
         Answered, Resume, EndTrick, EndDeal, PlayerStep, RecvIAM, RecvIAMFails,
         HandleIAM, CatchUp, CaughtUp, LeaveIAM, RecvTRICK, RecvTRICKFails,
         HandleTRICK, RefuseTRICK, SpoiltTRICK, WrongSent, Fail, ClientCloses
    <3>2. QED
      BY <3>1 DEF PeaceInv
  <2>3. QED
    BY <2>1, <2>2
<1>3. ASSUME drops' = 0 PROVE AtPeace'
  <2>0. drops = 0 /\ AtPeace
    BY <1>1, <1>3 DEF PeaceInv
  <2>1. CASE MainStep
    <3>1. UNCHANGED <<closed, dealSuspended, pc>> /\ dealPc' # "suspended"
      BY <2>0, <2>1 DEF AtPeace, MainStep, NextDeal, JoinDeal, EndGame, StopAccepting,
         DisconnectAll, JoinClients
    <3>2. UNCHANGED disconnected \/ gameOver
      BY <2>1 DEF PeaceInv, MainStep, NextDeal, JoinDeal, EndGame, StopAccepting,
         DisconnectAll, JoinClients
    <3>3. QED
      BY <1>2, <2>0, <3>1, <3>2 DEF AtPeace
  <2>2. CASE Accept
    <3>1. PICK k \in Nat : /\ pc' = [pc EXCEPT ![5 + k] = "recvIAM"]
                           /\ 5 + k \notin disconnected
      BY <2>2, AcceptFresh
    <3>2. UNCHANGED <<closed, dealSuspended, dealPc, gameOver, disconnected>>
      BY <2>2 DEF Accept
    <3>3. "recvIAM" \notin CatchingUp
      BY DEF CatchingUp
    <3>4. QED
      BY <2>0, <3>1, <3>2, <3>3 DEF AtPeace, SeatInv
  <2>3. CASE PollIn \/ PollHup \/ AcceptFails
    BY <2>0, <2>3, ElsewhereKeepsPeace DEF PollIn, PollHup, AcceptFails, AtPeace
  <2>4. CASE DealStep
    <3>1. UNCHANGED <<closed, dealSuspended, pc, disconnected, gameOver>>
      BY <2>4 DEF DealStep, DealReady, Broadcast, BroadcastFails, Blocks, BeginTurn,
         AskSent, Timeout, Answered, Resume, EndTrick, EndDeal
    <3>2. dealPc' # "suspended"
      BY <2>0, <2>4 DEF AtPeace, DealStep, DealReady, Broadcast, BroadcastFails, Blocks,
         BeginTurn, Ask, AskSent, Timeout, Answered, Resume, EndTrick, EndDeal, SendTo,
         TurnOver
    <3>3. QED
      BY <2>0, <3>1, <3>2, ElsewhereKeepsPeace
  <2>5. ASSUME NEW fd \in Fds, PlayerStep(fd) PROVE AtPeace'
    BY <1>3, <2>0, <2>5, PlayerStepAtPeace
  <2>6. CASE \E fd \in Fds : ClientCloses(fd)
    BY <1>3, <2>0, <2>6 DEF ClientCloses
  <2>7. CASE UNCHANGED vars
    BY <2>0, <2>7, ElsewhereKeepsPeace DEF vars, AtPeace
  <2>8. QED
    BY <2>1, <2>2, <2>3, <2>4, <2>5, <2>6, <2>7 DEF Next, AcceptStep
<1>4. QED
  BY <1>1, <1>2, <1>3 DEF PeaceInv
-----------------------------------------------------------------------------
\* The lock between two turns.

\* dealThread takes the lock for itself whenever it comes to a turn.
LEMMA LockDealStep == LockInv /\ DOMAIN out = Senders /\ DealStep => LockInv'
<1> SUFFICES ASSUME LockInv, DOMAIN out = Senders, DealStep PROVE LockInv'
  OBVIOUS
<1>0. DealThread \in Senders
  BY DEF Senders
<1>1. ASSUME NEW kind \in {"DEAL", "TAKEN", "SCORE", "TOTAL"}, NEW i, SendTo(kind, i)
      PROVE  LockInv'
  BY <1>0, <1>1 DEF SendTo, LockInv
<1>2. ASSUME TurnOver PROVE LockInv'
  <2>1. CASE SendTo("TAKEN", Following(0))
    BY <1>1, <2>1
  <2>2. CASE mtx' = DealThread /\ out' = [out EXCEPT ![DealThread] = Nothing]
    BY <1>0, <2>2 DEF LockInv
  <2>3. QED
    BY <1>2, <2>1, <2>2 DEF TurnOver
<1>3. CASE DealReady
  BY <1>1, <1>3 DEF DealReady
<1>4. CASE Broadcast
  BY <1>1, <1>4 DEF Broadcast
<1>5. CASE BroadcastFails
  BY <1>5 DEF BroadcastFails, LockInv
<1>6. CASE Blocks(DealThread)
  BY <1>6 DEF Blocks, LockInv
<1>7. CASE BeginTurn
  BY <1>7 DEF BeginTurn, Ask, LockInv
<1>8. CASE AskSent
  <2>1. CASE dealPc' = "await" /\ out' = [out EXCEPT ![DealThread] = Nothing]
    BY <1>0, <2>1 DEF LockInv
  <2>2. QED
    BY <1>2, <1>8, <2>1 DEF AskSent
<1>9. CASE Timeout
  BY <1>9 DEF Timeout, LockInv
<1>10. CASE Answered
  BY <1>2, <1>10 DEF Answered
<1>11. CASE Resume
  BY <1>2, <1>11 DEF Resume, Ask, LockInv
<1>12. CASE EndTrick
  <2>1. CASE SendTo("SCORE", Following(0))
    BY <1>1, <2>1
  <2>2. CASE dealPc' = "turn" /\ UNCHANGED <<it, out, mtx>>
    BY <1>12, <2>2 DEF EndTrick, LockInv
  <2>3. QED
    BY <1>12, <2>1, <2>2 DEF EndTrick
<1>13. CASE EndDeal
  BY <1>13 DEF EndDeal, LockInv
<1>14. QED
  BY <1>3, <1>4, <1>5, <1>6, <1>7, <1>8, <1>9, <1>10, <1>11, <1>12, <1>13 DEF DealStep

\* No player thread goes on while dealThread has the lock.
LEMMA LockPlayerStep ==
  ASSUME LoopInv, ConnInv, LockInv, NEW fd \in Fds, PlayerStep(fd)
  PROVE  LockInv'
<1>1. UNCHANGED <<dealPc, it>>
  BY DEF PlayerStep, RecvIAM, RecvIAMFails, HandleIAM, CatchUp, CaughtUp, LeaveIAM,
     RecvTRICK, RecvTRICKFails, HandleTRICK, RefuseTRICK, SpoiltTRICK, WrongSent,
     Blocks, Fail
<1>2. fd # DealThread /\ DealThread # Unlocked
  BY ServerAssumption DEF Fds, DealThread, Unlocked
<1>3. mtx = DealThread => mtx' = DealThread
  BY <1>2 DEF PlayerStep, RecvIAM, RecvIAMFails, HandleIAM, CatchUp, CaughtUp, LeaveIAM,
     RecvTRICK, RecvTRICKFails, HandleTRICK, RefuseTRICK, MayHandle, SpoiltTRICK,
     WrongSent, Blocks, Fail, Delivers, Breaks, Locks
<1>4. out'[DealThread] = out[DealThread]
  <2>1. DOMAIN out = Senders /\ DealThread \in Senders
    BY DEF LoopInv, Senders
  <2>2. QED
    BY <1>2, <2>1, PlayerStepConn
<1>5. QED
  BY <1>1, <1>3, <1>4 DEF LockInv

\* Nobody else takes the lock from it.
LEMMA LockStep == LoopInv /\ ConnInv /\ LockInv /\ [Next]_vars => LockInv'
<1> SUFFICES ASSUME LoopInv, ConnInv, LockInv, [Next]_vars PROVE LockInv'
  OBVIOUS
<1>1. CASE MainStep
  BY <1>1 DEF LockInv, MainStep, NextDeal, JoinDeal, EndGame, StopAccepting,
     DisconnectAll, JoinClients
<1>2. CASE AcceptStep
  BY <1>2 DEF LockInv, AcceptStep, PollIn, PollHup, Accept, AcceptFails
<1>3. CASE DealStep
  BY <1>3, LockDealStep DEF LoopInv
<1>4. CASE \E fd \in Fds : ClientCloses(fd)
  BY <1>4 DEF ClientCloses, LockInv
<1>5. CASE UNCHANGED vars
  BY <1>5 DEF vars, LockInv
<1>6. QED
  BY <1>1, <1>2, <1>3, <1>4, <1>5, LockPlayerStep DEF Next
-----------------------------------------------------------------------------
\* The turn.

\* A step that touches neither the deal, its thread nor the answers.
LEMMA ElsewhereKeepsTurns ==
  ASSUME TurnsInv, UNCHANGED <<di, deal, dealPc, trickDone, fdExpectedTrick>>,
         mainPc' # "join" => dealPc = "done"
  PROVE  TurnsInv'
BY DEF TurnsInv, Played

\* The next deal begins with its leader, and no card is expected yet.
LEMMA TurnsMainStep == TurnsInv /\ TableInv /\ MainStep => TurnsInv'
<1> SUFFICES ASSUME TurnsInv, TableInv, MainStep PROVE TurnsInv'
  OBVIOUS
<1>1. CASE NextDeal
  <2>1. /\ mainPc = "next" /\ di' = di + 1 /\ deal' = NewDeal(GameFile[di + 1])
        /\ dealPc' = "ready" /\ mainPc' = "join" /\ UNCHANGED fdExpectedTrick
    BY <1>1 DEF NextDeal
  <2>2. di + 1 \in DOMAIN GameFile
    BY <1>1, ServerAssumption, LenProperties DEF NextDeal, TableInv
  <2>3. ProperDeal(GameFile[di + 1])
    BY <2>2, ServerAssumption
  <2>4. /\ WentRound(deal') /\ \E f \in 1..Players : Rotates(deal', f)
        /\ Len(deal'.cardsOnTable) = 0
    BY <2>1, <2>3, NewDealRotates
  <2>5. fdExpectedTrick \notin Fds
    BY <2>1 DEF TurnsInv
  <2>6. QED
    BY <2>1, <2>4, <2>5, TablePlaces DEF TurnsInv, Played
<1>2. CASE ~NextDeal
  BY <1>2, ElsewhereKeepsTurns
  DEF MainStep, JoinDeal, EndGame, StopAccepting, DisconnectAll, JoinClients, TurnsInv
<1>3. QED
  BY <1>1, <1>2

\* The turn is passed by the seat that has played, and comes back to the leader
\* when all have.
LEMMA TurnOverKeepsTurns ==
  ASSUME TurnsInv, TableInv, TurnOver, Played, UNCHANGED <<di, trickDone, mainPc>>
  PROVE  TurnsInv'
<1>1. di > 0 /\ IsDeal(deal) /\ WentRound(deal) /\ mainPc = "join"
  BY DEF Played, TableInv, GameInv, TurnsInv
<1>2. PICK f \in 1..Players : /\ Turned(deal, f, Len(deal.cardsOnTable))
                              /\ Len(deal.cardsOnTable) \in 1..Players
  BY <1>1 DEF TurnsInv
<1>3. fdExpectedTrick \notin Fds
  BY DEF TurnsInv, Played
<1> DEFINE d == NextPlayer(deal)
<1>4. d.cardsOnTable = deal.cardsOnTable /\ Rotates(d, f)
  BY <1>1, <1>2, PassPlaces
<1>5. Passes(deal, d)
  BY <1>1, NextPlayerFields
<1>6. /\ deal' = d /\ UNCHANGED fdExpectedTrick
      /\ dealPc' = IF d.currentPlayer = d.firstPlayer THEN "TAKEN" ELSE "turn"
  BY DEF TurnOver, SendTo
<1> HIDE DEF d
<1>7. WentRound(d)
  BY <1>1, <1>5 DEF Passes, WentRound
<1>8. d.currentPlayer = d.firstPlayer <=> Len(d.cardsOnTable) = Players
  BY <1>2, <1>4, BackAtLeader
<1>9. /\ dealPc' = "TAKEN" => Len(d.cardsOnTable) = Players
      /\ dealPc' # "TAKEN" => Len(d.cardsOnTable) < Players
  <2>1. Len(d.cardsOnTable) \in 1..Players /\ Players \in Nat
    BY <1>2, <1>4, TablePlaces
  <2>2. CASE d.currentPlayer = d.firstPlayer
    <3>1. dealPc' = "TAKEN" /\ Len(d.cardsOnTable) = Players
      BY <1>6, <1>8, <2>2
    <3>2. QED
      BY <3>1
  <2>3. CASE d.currentPlayer # d.firstPlayer
    <3>1. dealPc' = "turn" /\ Len(d.cardsOnTable) # Players
      BY <1>6, <1>8, <2>3
    <3>2. QED
      BY <2>1, <3>1
  <2>4. QED
    BY <2>2, <2>3
<1>10. QED
  BY <1>1, <1>3, <1>4, <1>6, <1>7, <1>9 DEF TurnsInv, Played

\* The winner of a full trick leads the next one.
LEMMA EndTrickKeepsTurns ==
  ASSUME TurnsInv, TableInv, EndTrick
  PROVE  TurnsInv'
<1> DEFINE d == NextTrick(deal)
<1>1. /\ dealPc = "TAKEN" /\ di > 0 /\ GameInv(deal) /\ deal.cardsOnTable # <<>>
      /\ WentRound(deal) /\ mainPc = "join" /\ UNCHANGED <<di, mainPc, fdExpectedTrick>>
  BY DEF EndTrick, TableInv, TurnsInv
<1>2. PICK f \in 1..Players : Rotates(deal, f) /\ Len(deal.cardsOnTable) = Players
  BY <1>1 DEF TurnsInv, Played
<1>3. /\ WentRound(d) /\ \E g \in 1..Players : Rotates(d, g)
      /\ Len(d.cardsOnTable) = 0
  BY <1>1, <1>2, TakesRound
<1>4. IsDeal(d)
  BY <1>1, NextTrickGame DEF GameInv
<1>5. \/ deal' = d /\ dealPc' = "turn"
      \/ dealPc' = "SCORE" /\ \E scores : deal' = [d EXCEPT !.scores = scores]
  BY DEF EndTrick, SendTo
<1> HIDE DEF d
<1>6. /\ WentRound(deal') /\ \E g \in 1..Players : Rotates(deal', g)
      /\ Len(deal'.cardsOnTable) = 0
  <2>1. CASE deal' = d
    BY <1>3, <2>1
  <2>2. ASSUME NEW scores, deal' = [d EXCEPT !.scores = scores]
        PROVE  /\ WentRound(deal') /\ \E g \in 1..Players : Rotates(deal', g)
               /\ Len(deal'.cardsOnTable) = 0
    <3>1. /\ deal'.cardsOnTable = d.cardsOnTable /\ deal'.tricksTaken = d.tricksTaken
          /\ deal'.originalHand = d.originalHand /\ deal'.firstPlayer = d.firstPlayer
          /\ deal'.currentPlayer = d.currentPlayer
      BY <1>4, <2>2 DEF IsDeal
    <3>2. QED
      BY <1>3, <3>1 DEF WentRound, Rotates, Turned
  <2>3. QED
    BY <1>5, <2>1, <2>2
<1>7. fdExpectedTrick \notin Fds
  BY <1>1 DEF TurnsInv
<1>8. QED
  BY <1>1, <1>5, <1>6, <1>7, TablePlaces DEF TurnsInv, Played

\* Each step of dealThread, when no deal is suspended.
LEMMA TurnsDealStep ==
  ASSUME TurnsInv, TableInv, AtPeace, DealStep
  PROVE  TurnsInv'
<1>0. UNCHANGED <<di, mainPc>>
  BY DEF DealStep, DealReady, Broadcast, BroadcastFails, Blocks, BeginTurn, AskSent,
     Timeout, Answered, Resume, EndTrick, EndDeal
<1>1. CASE DealReady
  BY <1>0, <1>1 DEF DealReady, SendTo, TurnsInv, Played
<1>2. CASE Broadcast
  <2>1. /\ UNCHANGED <<deal, trickDone, fdExpectedTrick>>
        /\ dealPc \in {"DEAL", "TAKEN", "SCORE", "TOTAL"}
        /\ dealPc' \in {"DEAL", "TAKEN", "SCORE", "TOTAL"}
        /\ dealPc' = "TAKEN" <=> dealPc = "TAKEN"
    BY <1>2 DEF Broadcast, SendTo
  <2>2. QED
    BY <1>0, <2>1 DEF TurnsInv, Played
<1>3. CASE BroadcastFails \/ Blocks(DealThread)
  BY <1>3, ElsewhereKeepsTurns DEF BroadcastFails, Blocks, TurnsInv
<1>4. CASE BeginTurn
  <2>1. /\ UNCHANGED deal /\ dealPc \in {"DEAL", "turn"} /\ dealPc' = "TRICK"
        /\ trickDone' = [trickDone EXCEPT ![deal.currentPlayer] = FALSE]
    BY <1>4 DEF BeginTurn, Ask, Unanswered, AtPeace
  <2>2. di > 0 /\ ~trickDone'[deal.currentPlayer]
    BY <2>1 DEF TableInv, GameInv, IsDeal
  <2>3. QED
    BY <1>0, <2>1, <2>2 DEF TurnsInv, Played
<1>5. CASE AskSent
  <2>1. UNCHANGED trickDone /\ dealPc = "TRICK"
    BY <1>5 DEF AskSent
  <2>2. CASE trickDone[deal.currentPlayer]
    BY <1>0, <1>5, <2>1, <2>2, TurnOverKeepsTurns DEF AskSent, Played
  <2>3. CASE ~trickDone[deal.currentPlayer]
    BY <1>0, <1>5, <2>1, <2>3 DEF AskSent, TurnsInv, Played
  <2>4. QED
    BY <2>2, <2>3
<1>6. CASE Timeout
  BY <1>0, <1>6 DEF Timeout, TurnsInv, Played
<1>7. CASE Answered
  BY <1>0, <1>7, TurnOverKeepsTurns DEF Answered, Played
<1>8. CASE Resume
  BY <1>8 DEF Resume, AtPeace
<1>9. CASE EndTrick
  BY <1>9, EndTrickKeepsTurns
<1>10. CASE EndDeal
  BY <1>0, <1>10 DEF EndDeal, TurnsInv, Played
<1>11. QED
  BY <1>1, <1>2, <1>3, <1>4, <1>5, <1>6, <1>7, <1>8, <1>9, <1>10 DEF DealStep

\* The card that is accepted is one of the seat in turn, which has not played.
LEMMA AcceptsInTurn ==
  ASSUME TurnsInv, TableInv, LockInv, NEW fd \in Fds, NEW trick, NEW card \in Offers,
         HandleTRICK(fd, trick, card)
  PROVE  /\ di > 0 /\ GameInv(deal) /\ card \in Card /\ IsLegal(deal, trick, card)
         /\ dealPc \in {"TRICK", "await"} /\ ~Played /\ mainPc = "join"
         /\ \E f \in 1..Players : Rotates(deal, f)
         /\ Len(deal.cardsOnTable) < Players
<1>1. /\ di > 0 /\ GameInv(deal) /\ card \in Card /\ IsLegal(deal, trick, card)
      /\ fdExpectedTrick = fd /\ mtx = Unlocked
  BY ServerAssumption DEF HandleTRICK, MayHandle, Expected, TableInv
<1>2. dealPc \in {"TRICK", "await", "turn"} /\ ~trickDone[deal.currentPlayer]
  BY <1>1 DEF TurnsInv
<1>3. dealPc # "turn"
  BY <1>1 DEF LockInv, Unlocked, DealThread
<1>4. mainPc = "join"
  BY <1>2 DEF TurnsInv
<1>5. ~Played
  BY <1>2, Zenon DEF Played
<1>6. dealPc \in {"TRICK", "await"}
  BY <1>2, <1>3
<1>7. \E f \in 1..Players : Rotates(deal, f) /\ Len(deal.cardsOnTable) < Players
  BY <1>1, <1>5, <1>6 DEF TurnsInv
<1>8. QED
  BY <1>1, <1>4, <1>5, <1>6, <1>7

\* A card is accepted only while the seat in turn has not played.
LEMMA TurnsPlayerStep ==
  ASSUME TurnsInv, TableInv, AtPeace, LockInv, NEW fd \in Fds, PlayerStep(fd)
  PROVE  TurnsInv'
<1>1. ASSUME NEW trick \in 1..LastTrick, NEW card \in Offers,
             HandleTRICK(fd, trick, card)
      PROVE  TurnsInv'
  <2> DEFINE e == PlayCard(deal, card)
  <2>1. /\ di > 0 /\ GameInv(deal) /\ card \in Card /\ IsLegal(deal, trick, card)
        /\ dealPc \in {"TRICK", "await"} /\ ~Played /\ mainPc = "join"
        /\ Len(deal.cardsOnTable) < Players
    BY <1>1, AcceptsInTurn
  <2>2. /\ deal' = e /\ UNCHANGED <<di, dealPc, mainPc>> /\ fdExpectedTrick' = NoFd
        /\ trickDone' = [trickDone EXCEPT ![deal.currentPlayer] = TRUE]
    BY <1>1 DEF HandleTRICK, AfterCard
  <2>4. PICK f \in 1..Players : Rotates(deal, f)
    BY <1>1, AcceptsInTurn
  <2>5. /\ Len(e.cardsOnTable) = Len(deal.cardsOnTable) + 1
        /\ Turned(e, f, Len(e.cardsOnTable))
    BY <2>1, <2>4, PlayPlaces
  <2>6. Len(e.cardsOnTable) \in 1..Players
    <3>1. Len(deal.cardsOnTable) \in Nat /\ Players \in Nat
      BY <2>1, TablePlaces, LenProperties DEF GameInv, IsDeal
    <3>2. QED
      BY <2>1, <2>5, <3>1
  <2>7. Plays(deal, card, e)
    BY <2>1, PlayCardFields DEF GameInv
  <2> HIDE DEF e
  <2>8. /\ e.currentPlayer = deal.currentPlayer /\ e.tricksTaken = deal.tricksTaken
        /\ e.originalHand = deal.originalHand
    BY <2>7 DEF Plays
  <2>9. WentRound(e)
    BY <2>1, <2>8 DEF TurnsInv, WentRound
  <2>10. trickDone'[deal'.currentPlayer] = TRUE
    BY <2>1, <2>2, <2>8 DEF TableInv, GameInv, IsDeal
  <2>11. NoFd \notin Fds
    BY ServerAssumption DEF NoFd, Fds
  <2>12. QED
    BY <2>1, <2>2, <2>5, <2>6, <2>9, <2>10, <2>11 DEF TurnsInv, Played
<1>2. CASE CatchUp(fd)
  BY <1>2 DEF CatchUp, AtPeace, CatchingUp
<1>3. CASE UNCHANGED <<mainPc, di, deal, dealPc, trickDone, fdExpectedTrick>>
  BY <1>3, ElsewhereKeepsTurns DEF TurnsInv
<1>4. QED
  BY <1>1, <1>2, <1>3 DEF PlayerStep, RecvIAM, RecvIAMFails, HandleIAM, CaughtUp,
     LeaveIAM, RecvTRICK, RecvTRICKFails, RefuseTRICK, SpoiltTRICK, WrongSent, Blocks,
     Fail

\* Every step of the program keeps all of it.
LEMMA QuietStep == QuietInv /\ [Next]_vars => QuietInv'
<1> SUFFICES ASSUME QuietInv, [Next]_vars PROVE QuietInv'
  OBVIOUS
<1>0. /\ LoopInv /\ CardInv /\ SeatInv /\ TableInv /\ ConnInv /\ PeaceInv /\ LockInv
      /\ drops = 0 => TurnsInv /\ AtPeace
  BY DEF QuietInv, CardInv, PeaceInv
<1>1. LoopInv' /\ CardInv' /\ ConnInv' /\ PeaceInv' /\ LockInv'
  BY <1>0, LoopStep, CardStep, ConnStep, PeaceStep, LockStep
<1>2. ASSUME drops' = 0 PROVE TurnsInv'
  <2>1. TurnsInv /\ AtPeace
    BY <1>0, <1>2, DropsGrow DEF PeaceInv
  <2>2. CASE AcceptStep \/ UNCHANGED vars \/ \E fd \in Fds : ClientCloses(fd)
    BY <2>1, <2>2, ElsewhereKeepsTurns
    DEF AcceptStep, PollIn, PollHup, Accept, AcceptFails, ClientCloses, vars, TurnsInv
  <2>3. QED
    BY <1>0, <2>1, <2>2, TurnsMainStep, TurnsDealStep, TurnsPlayerStep DEF Next
<1>3. QED
  BY <1>1, <1>2 DEF QuietInv

\* It holds of every execution of the server.
LEMMA QuietAlways == Spec => []QuietInv
BY QuietInit, QuietStep, PTL DEF Spec

\* As long as no client has left, every seat plays one card in a trick, however
\* often it is asked, whatever it sends and wherever a write waits.
THEOREM ServerOneCardEach == Spec => [](drops = 0 => OneCardEach)
<1>1. ASSUME QuietInv, drops = 0, di > 0 PROVE TakesOneCardEach(deal)
  <2>1. GameInv(deal) /\ TurnsInv
    BY <1>1 DEF QuietInv, CardInv, TableInv
  <2>2. PICK f \in 1..Players :
          /\ InTurn(deal.originalHand, deal.cardsOnTable, f)
          /\ Len(deal.cardsOnTable) \in 1..Players \/ Len(deal.cardsOnTable) < Players
             \/ Len(deal.cardsOnTable) = Players
    BY <1>1, <2>1 DEF TurnsInv, Rotates, Turned
  <2>3. Len(deal.cardsOnTable) \in 0..Players
    <3>1. Len(deal.cardsOnTable) \in Nat /\ Players \in Nat
      BY <2>1, TablePlaces, LenProperties DEF GameInv, IsDeal
    <3>2. QED
      BY <2>2, <3>1
  <2>4. QED
    BY <1>1, <2>1, <2>2, <2>3, RoundsAreTricks DEF TurnsInv, GameInv
<1>2. QuietInv => (drops = 0 => OneCardEach)
  BY <1>1 DEF OneCardEach
<1>3. QED
  BY QuietAlways, <1>2, PTL

\* As long as no client has left, dealThread waits for the seat that the table
\* says, and goes on exactly when this seat has played.
THEOREM ServerTurnInStep == Spec => [](drops = 0 => TurnInStep)
<1>1. ASSUME QuietInv, drops = 0, dealPc \in {"suspended", "TRICK", "await"}
      PROVE  /\ deal.cardsOnTable # <<>> =>
                  OwnerOf(deal, deal.cardsOnTable[1]) = deal.firstPlayer
             /\ trickDone[deal.currentPlayer] <=>
                  \E c \in Range(deal.cardsOnTable) : OwnerOf(deal, c) = deal.currentPlayer
  <2> DEFINE t == deal.cardsOnTable
             m == Len(t)
             n == IF Played THEN m ELSE m + 1
  <2>1. di > 0 /\ GameInv(deal) /\ TurnsInv /\ dealPc \in {"TRICK", "await"}
    BY <1>1 DEF QuietInv, CardInv, TableInv, PeaceInv, AtPeace
  <2>2. Dealt(deal) /\ m \in Nat /\ DOMAIN t = 1..m /\ Players \in Nat /\ Range(t) = {t[i] : i \in 1..m}
        /\ (t # <<>> => m # 0)
    <3>1. Dealt(deal) /\ IsDeal(deal)
      BY <2>1 DEF GameInv
    <3>2. t \in Seq(Card)
      BY <3>1 DEF IsDeal
    <3>3. m \in Nat /\ DOMAIN t = 1..m /\ Players \in Nat
      BY <3>2, TablePlaces, LenProperties
    <3>4. Range(t) = {t[i] : i \in 1..m}
      BY <3>3 DEF Range
    <3>5. t # <<>> => m # 0
      BY <3>2, EmptySeq
    <3>6. QED
      BY <3>1, <3>3, <3>4, <3>5
  <2>3. PICK f \in 1..Players : Turned(deal, f, n) /\ n \in 1..Players /\ m <= n
    BY <2>1, <2>2 DEF TurnsInv, Rotates
  <2> HIDE DEF t, m, n
  <2>4. \A i \in 1..m : i \in 1..Players /\ i \in 1..(Players + 1)
    BY <2>2, <2>3
  <2>5. ASSUME NEW i \in 1..m PROVE OwnerOf(deal, t[i]) = PlayerOrder[Place(f, i)]
    <3>1. t[i] \in deal.originalHand[PlayerOrder[Place(f, i)]]
      BY <2>2, <2>3 DEF Turned, InTurn, t
    <3>2. PlayerOrder[Place(f, i)] \in Seats
      BY <2>4, TablePlaces
    <3>3. QED
      BY <2>2, <3>1, <3>2, OwnerUnique
  <2>6. /\ deal.firstPlayer = PlayerOrder[Place(f, 1)]
        /\ deal.currentPlayer = PlayerOrder[Place(f, n)]
    BY <2>3, TablePlaces DEF Turned
  <2>7. t # <<>> => OwnerOf(deal, t[1]) = deal.firstPlayer
    <3>1. t # <<>> => 1 \in 1..m
      BY <2>2
    <3>2. QED
      BY <2>5, <2>6, <3>1
  <2>8. \A i \in 1..m : OwnerOf(deal, t[i]) = deal.currentPlayer <=> i = n
    <3>1. TAKE i \in 1..m
    <3>2. i \in 1..Players /\ i \in 1..(Players + 1) /\ n \in 1..(Players + 1)
      BY <2>2, <2>3, <2>4
    <3>3. Place(f, i) \in 1..Players /\ Place(f, n) \in 1..Players
      BY <3>2, TablePlaces
    <3>4. Place(f, i) = Place(f, n) <=> i = n
      BY <2>3, <3>2, TablePlaces
    <3>5. PlayerOrder[Place(f, i)] = PlayerOrder[Place(f, n)] <=> i = n
      BY <3>3, <3>4, TablePlaces
    <3>6. QED
      BY <2>5, <2>6, <3>5
  <2>9. (\E c \in Range(t) : OwnerOf(deal, c) = deal.currentPlayer) <=> n \in 1..m
    BY <2>2, <2>8
  <2>10. n \in 1..m <=> Played
    BY <2>2, <2>3 DEF n
  <2>11. QED
    BY <2>1, <2>7, <2>9, <2>10 DEF Played, t
<1>2. QuietInv => (drops = 0 => TurnInStep)
  BY <1>1 DEF TurnInStep
<1>3. QED
  BY QuietAlways, <1>2, PTL
=============================================================================
