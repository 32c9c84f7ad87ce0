---------------------------- MODULE SystemProofs ----------------------------
(***************************************************************************)
(* Proofs about the server with its clients: that the clients do nothing   *)
(* HeartsServer does not allow them, and what they keep together with the  *)
(* server: when a client reports success, and which tricks it shows.       *)
(***************************************************************************)
EXTENDS SystemProperties, ServerRulesProofs, FunctionTheorems

\* The groups of variables an action leaves alone.
USE DEF mainVars, loopVars, gameVars, acceptVars, netVars, threadVars, clientVars

\* What a thread is sending fits its place, and the loops of dealThread send to
\* clients at the table, or to such as were there.
OutInv ==
  /\ \A fd \in Fds : out[fd] # Nothing =>
       \/ pc[fd] \in {"BUSY", "WRONG"} /\ out[fd].kind = pc[fd]
       \/ pc[fd] \in CatchingUp /\ out[fd].kind \in {"DEAL", "TAKEN", "TRICK"}
  /\ out[DealThread] # Nothing =>
       /\ dealPc \in {"DEAL", "TRICK", "TAKEN", "SCORE", "TOTAL"}
       /\ out[DealThread].kind = dealPc
       /\ dealPc # "TRICK" => it # End
  /\ out[DealThread].to \in Fds => pc[out[DealThread].to] \in Seated \cup {"done"}

\* No message goes nowhere.
LEMMA NothingNowhere == Nothing.to \notin Fds
BY Descriptors DEF Nothing

\* Nothing is sent at first.
LEMMA OutInit == Init => OutInv
<1> SUFFICES ASSUME Init PROVE OutInv
  OBVIOUS
<1>1. /\ \A sender \in Senders : out[sender] = Nothing
      /\ DealThread \in Senders /\ Fds \subseteq Senders
  BY DEF Init, Senders
<1>2. QED
  BY <1>1, NothingNowhere DEF OutInv

\* A thread at the table stays there until it returns, and none goes back.
LEMMA SeatedStays ==
  ASSUME SeatInv, NEW fd \in Fds, PlayerStep(fd)
  PROVE  /\ pc[fd] \in Seated \cup {"done"} => pc'[fd] \in Seated \cup {"done"}
         /\ pc[fd] # "none" => pc'[fd] # "none"
<1> DEFINE Goes == /\ pc[fd] \in Seated \cup {"done"} => pc'[fd] \in Seated \cup {"done"}
                   /\ pc[fd] # "none" => pc'[fd] # "none"
<1>1. pc \in [Fds -> Places]
  BY DEF SeatInv
<1>2. ASSUME NEW place, GoesTo(fd, place), place \in Seated \cup {"done"} PROVE Goes
  BY <1>1, <1>2, PlacesSeated DEF GoesTo
<1>3. ASSUME NEW place, GoesTo(fd, place), place # "none", pc[fd] \in {"recvIAM", "handleIAM"}
      PROVE  Goes
  BY <1>1, <1>3, PlacesSeated DEF GoesTo
<1> SUFFICES Goes
  OBVIOUS
<1> HIDE DEF Goes
<1>4. CASE RecvIAMFails(fd) \/ LeaveIAM(fd) \/ Fail(fd)
  <2>1. GoesTo(fd, "done")
    BY <1>4 DEF RecvIAMFails, LeaveIAM, Fail, Returns, GoesTo
  <2>2. QED
    BY <1>2, <2>1
<1>5. CASE \E s \in Seats : RecvIAM(fd, s)
  BY <1>3, <1>5 DEF RecvIAM
<1>6. CASE HandleIAM(fd)
  <2>1. pc[fd] = "handleIAM"
        /\ \E place \in {"BUSY", "catchDEAL", "recvTRICK"} : GoesTo(fd, place)
    BY <1>6 DEF HandleIAM, Sends
  <2>2. QED
    BY <1>3, <2>1
<1>7. CASE CatchUp(fd)
  BY <1>2, <1>7, PlacesSeated DEF CatchUp, Sends
<1>8. CASE CaughtUp(fd) \/ RecvTRICK(fd) \/ RecvTRICKFails(fd) \/ SpoiltTRICK(fd)
           \/ WrongSent(fd)
  BY <1>2, <1>8, PlacesSeated
  DEF CaughtUp, RecvTRICK, RecvTRICKFails, SpoiltTRICK, WrongSent
<1>9. ASSUME NEW trick, NEW card, HandleTRICK(fd, trick, card) PROVE Goes
  BY <1>2, <1>9, PlacesSeated DEF HandleTRICK
<1>10. ASSUME NEW trick, NEW card, RefuseTRICK(fd, trick, card) PROVE Goes
  <2>1. UNCHANGED pc \/ GoesTo(fd, "WRONG")
    BY <1>10 DEF RefuseTRICK, Sends
  <2>2. QED
    BY <1>2, <2>1, PlacesSeated DEF Goes
<1>11. CASE Blocks(fd)
  BY <1>11 DEF Blocks, Goes
<1>12. QED
  BY <1>4, <1>5, <1>6, <1>7, <1>8, <1>9, <1>10, <1>11 DEF PlayerStep, Goes

\* A player thread sends what its place says.
LEMMA OutPlayerStep ==
  ASSUME OutInv, LoopInv, ConnInv, NEW fd \in Fds, PlayerStep(fd)
  PROVE  OutInv'
<1> DEFINE Mine == out'[fd] # Nothing =>
             \/ pc'[fd] \in {"BUSY", "WRONG"} /\ out'[fd].kind = pc'[fd]
             \/ pc'[fd] \in CatchingUp /\ out'[fd].kind \in {"DEAL", "TAKEN", "TRICK"}
<1>0. /\ pc \in [Fds -> Places] /\ DOMAIN out = Senders /\ fd \in Senders /\ SeatInv
      /\ DealThread \in Senders /\ fd # DealThread /\ Fds \subseteq Senders
  BY Descriptors DEF SeatInv, LoopInv, Senders
<1>1. /\ \A f \in Senders \ {fd} : out'[f] = out[f]
      /\ \A f \in Fds \ {fd} : pc'[f] = pc[f]
  BY <1>0, PlayerStepConn
<1>2. UNCHANGED <<dealPc, it>>
  BY DEF PlayerStep, RecvIAM, RecvIAMFails, HandleIAM, CatchUp, CaughtUp, LeaveIAM,
     RecvTRICK, RecvTRICKFails, HandleTRICK, RefuseTRICK, SpoiltTRICK, WrongSent,
     Blocks, Fail
<1>3. pc[fd] \notin {"BUSY", "WRONG"} \cup CatchingUp => out[fd] = Nothing
  BY DEF OutInv
<1>4. ASSUME pc[fd] \notin {"BUSY", "WRONG"} \cup CatchingUp, out'[fd] = out[fd] PROVE Mine
  BY <1>3, <1>4
<1>5. ASSUME out' = [out EXCEPT ![fd] = Nothing] PROVE Mine
  BY <1>0, <1>5
<1>6. ASSUME NEW place, NEW kind, NEW trick, Sends(fd, place, kind, trick),
             \/ place \in {"BUSY", "WRONG"} /\ kind = place
             \/ place \in CatchingUp /\ kind \in {"DEAL", "TAKEN", "TRICK"}
      PROVE  Mine
  <2>1. pc'[fd] = place /\ out'[fd].kind = kind
    BY <1>0, <1>6 DEF Sends, GoesTo, Message
  <2>2. QED
    BY <1>6, <2>1
<1> HIDE DEF Mine
<1>7. Mine
  <2>1. CASE \E s \in Seats : RecvIAM(fd, s)
    BY <1>4, <2>1, PlacesSeated DEF RecvIAM
  <2>2. CASE RecvIAMFails(fd) \/ RecvTRICK(fd) \/ RecvTRICKFails(fd) \/ SpoiltTRICK(fd)
             \/ Fail(fd)
    BY <1>4, <2>2, PlacesSeated
    DEF RecvIAMFails, RecvTRICK, RecvTRICKFails, SpoiltTRICK, MayHandle, Fail
  <2>3. CASE HandleIAM(fd)
    <3>1. pc[fd] = "handleIAM"
          /\ \/ Sends(fd, "BUSY", "BUSY", 0) \/ Sends(fd, "catchDEAL", "DEAL", 0)
             \/ UNCHANGED out
      BY <2>3 DEF HandleIAM
    <3>2. QED
      BY <1>4, <1>6, <3>1, PlacesSeated
  <2>4. CASE CatchUp(fd)
    <3>1. \/ \E trick : Sends(fd, "catchTAKEN", "TAKEN", trick)
          \/ \E trick : Sends(fd, "catchTRICK", "TRICK", trick)
          \/ out' = [out EXCEPT ![fd] = Nothing]
      BY <2>4 DEF CatchUp
    <3>2. QED
      BY <1>5, <1>6, <3>1, PlacesSeated
  <2>5. CASE CaughtUp(fd) \/ LeaveIAM(fd) \/ WrongSent(fd)
    BY <1>5, <2>5 DEF CaughtUp, LeaveIAM, WrongSent
  <2>6. ASSUME NEW trick, NEW card, HandleTRICK(fd, trick, card) PROVE Mine
    BY <1>4, <2>6, PlacesSeated DEF HandleTRICK, MayHandle
  <2>7. ASSUME NEW trick, NEW card, RefuseTRICK(fd, trick, card) PROVE Mine
    <3>1. pc[fd] = "handleTRICK"
          /\ (UNCHANGED out \/ \E number : Sends(fd, "WRONG", "WRONG", number))
      BY <2>7 DEF RefuseTRICK, MayHandle
    <3>2. QED
      BY <1>4, <1>6, <3>1, PlacesSeated
  <2>8. CASE Blocks(fd)
    BY <2>8 DEF Blocks, OutInv, Mine
  <2>9. QED
    BY <2>1, <2>2, <2>3, <2>4, <2>5, <2>6, <2>7, <2>8 DEF PlayerStep
<1>8. out'[DealThread] = out[DealThread]
  BY <1>0, <1>1
<1>9. out[DealThread].to \in Fds => pc'[out[DealThread].to] \in Seated \cup {"done"}
  BY <1>0, <1>1, SeatedStays DEF OutInv
<1>10. \A f \in Fds \ {fd} : out'[f] = out[f] /\ pc'[f] = pc[f]
  BY <1>0, <1>1
<1>11. QED
  BY <1>2, <1>7, <1>8, <1>9, <1>10 DEF OutInv, Mine

\* A loop of dealThread over player_fds sends to an entry.
LEMMA SendToOut ==
  ASSUME DOMAIN out = Senders, OwnInv, NEW kind \in {"DEAL", "TAKEN", "SCORE", "TOTAL"},
         NEW i, SendTo(kind, i), i = End \/ KeyOrder[i] \in DOMAIN playerFds
  PROVE  /\ out'[DealThread] # Nothing => /\ dealPc' = kind /\ it' # End
                                          /\ out'[DealThread].kind = kind
         /\ out'[DealThread].to \in Fds => pc[out'[DealThread].to] \in Seated \cup {"done"}
<1>1. /\ dealPc' = kind /\ it' = i /\ DealThread \in DOMAIN out
      /\ i = End => out'[DealThread] = Nothing
      /\ i # End => /\ out'[DealThread].to = playerFds[KeyOrder[i]]
                    /\ out'[DealThread].kind = kind
  BY DEF SendTo, Message, Senders
<1>2. QED
  BY <1>1, NothingNowhere DEF OwnInv

\* dealThread sends what its loops say.
LEMMA OutDealStep ==
  ASSUME OutInv, LoopInv, ConnInv, OwnInv, DealStep
  PROVE  OutInv'
<1> DEFINE Mine ==
      /\ out'[DealThread] # Nothing =>
           /\ dealPc' \in {"DEAL", "TRICK", "TAKEN", "SCORE", "TOTAL"}
           /\ out'[DealThread].kind = dealPc'
           /\ dealPc' # "TRICK" => it' # End
      /\ out'[DealThread].to \in Fds => pc[out'[DealThread].to] \in Seated \cup {"done"}
<1>0. /\ DOMAIN out = Senders /\ DealThread \in Senders /\ it \in Int /\ IteratorValid
      /\ UNCHANGED pc /\ \A fd \in Fds : out'[fd] = out[fd]
  <2>1. UNCHANGED pc
    BY DEF DealStep, DealReady, Broadcast, BroadcastFails, Blocks, BeginTurn, AskSent,
       Timeout, Answered, Resume, EndTrick, EndDeal
  <2>2. QED
    BY <2>1, DealStepOut DEF LoopInv, Senders
<1> SUFFICES Mine
  BY <1>0 DEF OutInv
<1>1. ASSUME out'[DealThread] = Nothing PROVE Mine
  BY <1>1, NothingNowhere
<1>2. ASSUME UNCHANGED out, dealPc \notin {"DEAL", "TRICK", "TAKEN", "SCORE", "TOTAL"}
      PROVE  Mine
  BY <1>1, <1>2 DEF OutInv
<1>3. ASSUME NEW kind \in {"DEAL", "TAKEN", "SCORE", "TOTAL"}, NEW i, SendTo(kind, i),
             i = End \/ KeyOrder[i] \in DOMAIN playerFds
      PROVE  Mine
  BY <1>0, <1>3, SendToOut, Zenon
<1>4. ASSUME Ask PROVE Mine
  <2> DEFINE s == deal.currentPlayer
  <2>1. /\ dealPc' = "TRICK" /\ out'[DealThread].kind = "TRICK"
        /\ out'[DealThread].to = IF s \in DOMAIN playerFds THEN playerFds[s] ELSE Stdin
    BY <1>0, <1>4 DEF Ask, Message
  <2>2. QED
    BY <2>1, Descriptors DEF OwnInv
<1>5. ASSUME TurnOver PROVE Mine
  <2>1. SendTo("TAKEN", Following(0)) \/ out' = [out EXCEPT ![DealThread] = Nothing]
    BY <1>5 DEF TurnOver
  <2>2. QED
    BY <1>0, <1>1, <1>3, <2>1, FollowingEntry
<1>6. CASE DealReady
  BY <1>3, <1>6, FollowingEntry DEF DealReady
<1>7. CASE Broadcast
  <2>1. KeyOrder[it] \in DOMAIN playerFds
    BY <1>7 DEF Broadcast, Delivers, OutInv, IteratorValid, LoopInv
  <2>2. \/ SendTo("TOTAL", it) \/ SendTo("SCORE", Following(it))
        \/ dealPc \in {"DEAL", "TAKEN"} /\ SendTo(dealPc, Following(it))
    BY <1>7 DEF Broadcast
  <2>3. QED
    BY <1>0, <1>3, <2>1, <2>2, FollowingEntry
<1>8. CASE BroadcastFails \/ Blocks(DealThread)
  BY <1>0, <1>8 DEF BroadcastFails, Blocks, OutInv
<1>9. CASE BeginTurn
  <2>1. CASE Ask
    BY <1>4, <2>1
  <2>2. CASE UNCHANGED out
    BY <1>1, <1>9, <2>2 DEF BeginTurn, OutInv
  <2>3. QED
    BY <1>9, <2>1, <2>2 DEF BeginTurn
<1>10. CASE AskSent
  <2>1. TurnOver \/ out' = [out EXCEPT ![DealThread] = Nothing]
    BY <1>10 DEF AskSent
  <2>2. QED
    BY <1>0, <1>1, <1>5, <2>1
<1>11. CASE Timeout
  BY <1>2, <1>11 DEF Timeout
<1>12. CASE Answered
  BY <1>5, <1>12 DEF Answered
<1>13. CASE Resume
  BY <1>4, <1>5, <1>13 DEF Resume
<1>14. CASE EndTrick
  <2>1. CASE SendTo("SCORE", Following(0))
    BY <1>3, <2>1, FollowingEntry
  <2>2. CASE UNCHANGED out
    BY <1>1, <1>14, <2>2 DEF EndTrick, OutInv
  <2>3. QED
    BY <1>14, <2>1, <2>2 DEF EndTrick
<1>15. CASE EndDeal
  BY <1>1, <1>15 DEF EndDeal, OutInv
<1>16. QED
  BY <1>6, <1>7, <1>8, <1>9, <1>10, <1>11, <1>12, <1>13, <1>14, <1>15 DEF DealStep

\* Every step of the server.
LEMMA OutStep ==
  OutInv /\ LoopInv /\ ConnInv /\ OwnInv /\ DealInv /\ [Next]_vars => OutInv'
<1> SUFFICES ASSUME OutInv, LoopInv, ConnInv, OwnInv, DealInv, [Next]_vars PROVE OutInv'
  OBVIOUS
<1>1. CASE NextDeal
  <2>1. out[DealThread] = Nothing
    BY <1>1 DEF NextDeal, DealInv, OutInv
  <2>2. UNCHANGED <<out, pc>>
    BY <1>1 DEF NextDeal
  <2>3. QED
    BY <2>1, <2>2 DEF OutInv
<1>2. ASSUME UNCHANGED <<out, pc, dealPc, it>> PROVE OutInv'
  BY <1>2 DEF OutInv
<1>3. CASE MainStep /\ ~NextDeal
  BY <1>2, <1>3
  DEF MainStep, JoinDeal, EndGame, StopAccepting, DisconnectAll, JoinClients
<1>4. CASE Accept
  <2>1. PICK fd : /\ pc' = [pc EXCEPT ![fd] = "recvIAM"]
                  /\ fd \in Fds => pc[fd] = "none"
    BY <1>4, AcceptNew DEF LoopInv
  <2>2. UNCHANGED <<out, dealPc, it>>
    BY <1>4 DEF Accept
  <2>3. \A f \in Fds : pc'[f] = pc[f] \/ pc[f] = "none"
    BY <2>1 DEF LoopInv, SeatInv
  <2>4. "none" \notin Seated \cup {"done", "BUSY", "WRONG"} \cup CatchingUp
    BY PlacesSeated
  <2>5. QED
    BY <2>2, <2>3, <2>4 DEF OutInv
<1>5. CASE PollIn \/ PollHup \/ AcceptFails
  BY <1>2, <1>5 DEF PollIn, PollHup, AcceptFails
<1>6. CASE \E fd \in Fds : ClientCloses(fd)
  BY <1>2, <1>6 DEF ClientCloses
<1>7. CASE UNCHANGED vars
  BY <1>2, <1>7 DEF vars
<1>8. QED
  BY <1>1, <1>3, <1>4, <1>5, <1>6, <1>7, OutDealStep, OutPlayerStep DEF Next, AcceptStep
-----------------------------------------------------------------------------
\* The types of what goes between server and clients.

\* What a client is, as far as the server can tell: it has the cards it plays,
\* and plays only once it has read of a trick.
IsClient(c) ==
  /\ DOMAIN c = {"status", "hand", "cardsOnTable", "lastPlayedCard", "lastPlayedTrick",
                 "serverTrick", "tricksTaken", "lastTotal"}
  /\ DOMAIN c.hand \subseteq Card
  /\ c.lastPlayedCard \in Card \cup {NoCard}
  /\ c.serverTrick \in 0..LastTrick
  /\ c.serverTrick = 0 => c.lastPlayedTrick = 0

\* A queue of messages in which a hand is made of cards.
IsQueue(q) == \E M : q \in Seq(M) /\ \A m \in M : m.hand \subseteq Card

\* A TRICK message as a client may send it.
Answer == [trick : 1..LastTrick, card : Card]

EndsInv ==
  /\ DOMAIN down = Fds /\ \A fd \in Fds : IsQueue(down[fd])
  /\ up \in [Fds -> Seq(Answer)]
  /\ DOMAIN client = clients \ {Stdin}
  /\ \A fd \in DOMAIN client : IsClient(client[fd]) /\ pc[fd] # "none"

\* What the server alone keeps, whatever the clients do.
ServerInv ==
  LoopInv /\ CardInv /\ ConnInv /\ OwnInv /\ DealInv /\ RoomInv /\ OutInv

\* A queue grows at its end and shrinks at its head.
LEMMA QueueMoves ==
  ASSUME NEW q, IsQueue(q)
  PROVE  /\ \A m : m.hand \subseteq Card => IsQueue(Append(q, m))
         /\ q # <<>> => IsQueue(Tail(q)) /\ Head(q).hand \subseteq Card
<1>1. PICK M : q \in Seq(M) /\ \A m \in M : m.hand \subseteq Card
  BY DEF IsQueue
<1>2. ASSUME NEW m, m.hand \subseteq Card PROVE IsQueue(Append(q, m))
  <2>1. q \in Seq(M \cup {m})
    BY <1>1, SeqMonotonic
  <2>2. Append(q, m) \in Seq(M \cup {m})
    BY <2>1, AppendProperties
  <2>3. \A x \in M \cup {m} : x.hand \subseteq Card
    BY <1>1, <1>2
  <2>4. QED
    BY <2>2, <2>3 DEF IsQueue
<1>3. ASSUME q # <<>> PROVE IsQueue(Tail(q)) /\ Head(q).hand \subseteq Card
  <2>1. Tail(q) \in Seq(M) /\ Head(q) \in M
    BY <1>1, <1>3, HeadTailProperties
  <2>2. QED
    BY <1>1, <2>1 DEF IsQueue
<1>4. QED
  BY <1>2, <1>3

\* What a client is after it has read a message.
LEMMA ReadKeeps ==
  ASSUME NEW c, IsClient(c), NEW m, m.hand \subseteq Card, NEW s
  PROVE  /\ IsClient(Read(c, m, s))
         /\ Read(c, m, s).status = c.status
         /\ Read(c, m, s).lastTotal = IsTotal(m)
<1> DEFINE b == [c EXCEPT !.lastTotal = IsTotal(m)]
<1>1. IsClient(b) /\ b.status = c.status /\ b.lastTotal = IsTotal(m)
  BY DEF IsClient
<1> DEFINE Same(d) == IsClient(d) /\ d.status = b.status /\ d.lastTotal = b.lastTotal
<1>2. /\ Read(c, m, s) = CASE Parses(m) /\ m.kind = "DEAL" -> ReadDEAL(b, m)
                           [] Parses(m) /\ m.kind = "TRICK" -> ReadTRICK(b, m)
                           [] Parses(m) /\ m.kind = "WRONG" -> ReadWRONG(b, m)
                           [] Parses(m) /\ m.kind = "TAKEN" -> ReadTAKEN(b, m, s)
                           [] OTHER -> b
      /\ Parses(m) /\ m.kind \in {"TRICK", "WRONG", "TAKEN"} => m.trick \in 1..LastTrick
  BY DEF Read, Parses
<1>3. LastTrick \in Nat
  BY CardsAssumption
<1> HIDE DEF b
<1>4. Same(ReadDEAL(b, m))
  <2>1. DOMAIN SetToBag(m.hand) \subseteq Card
    BY DEF SetToBag
  <2>2. QED
    BY <1>1, <1>3, <2>1 DEF ReadDEAL, KeepTricks, IsClient
<1>5. ASSUME m.trick \in 1..LastTrick PROVE Same(ReadTRICK(b, m))
  BY <1>1, <1>3, <1>5 DEF ReadTRICK, IsClient
<1>6. ASSUME m.trick \in 1..LastTrick PROVE Same(ReadWRONG(b, m))
  <2> DEFINE h == IF b.lastPlayedCard = NoCard THEN b.hand
                  ELSE b.hand (+) SetToBag({b.lastPlayedCard})
  <2>1. DOMAIN h \subseteq Card
    BY <1>1 DEF (+), SetToBag, IsClient
  <2>2. LoseCard(b, m).hand = b.hand /\ "hand" \in DOMAIN LoseCard(b, m)
    BY <1>1 DEF LoseCard, IsClient
  <2>3. ReadWRONG(b, m) = [LoseCard(b, m) EXCEPT !.hand = h]
    BY <2>2 DEF ReadWRONG
  <2> HIDE DEF h
  <2>4. QED
    BY <1>1, <1>3, <1>6, <2>1, <2>3 DEF LoseCard, IsClient
<1>7. ASSUME m.trick \in 1..LastTrick PROVE Same(ReadTAKEN(b, m, s))
  <2>1. DOMAIN Without(b.hand, m.cards) \subseteq Card
    BY <1>1 DEF Without, (-), IsClient
  <2>2. QED
    BY <1>1, <1>3, <1>7, <2>1 DEF ReadTAKEN, IsClient
<1> HIDE DEF Same
<1>8. Same(b)
  BY <1>1 DEF Same
<1>9. Same(Read(c, m, s))
  BY <1>2, <1>4, <1>5, <1>6, <1>7, <1>8
<1>10. QED
  BY <1>1, <1>9 DEF Same

\* The client that answers has read of a trick.
LEMMA AskRead ==
  ASSUME NEW c, IsClient(c), NEW m, m.kind = "TRICK", Parses(m), NEW s
  PROVE  /\ Read(c, m, s).serverTrick \in 1..LastTrick
         /\ Read(c, m, s).serverTrick # 0
<1> DEFINE b == [c EXCEPT !.lastTotal = IsTotal(m)]
<1>1. "serverTrick" \in DOMAIN b
  BY DEF IsClient
<1>2. m.trick \in 1..LastTrick
  BY DEF Parses
<1>3. Read(c, m, s) = ReadTRICK(b, m)
  BY DEF Read
<1> HIDE DEF b
<1>4. Read(c, m, s).serverTrick = m.trick
  BY <1>1, <1>3 DEF ReadTRICK
<1>5. LastTrick \in Nat
  BY CardsAssumption
<1>6. QED
  BY <1>2, <1>4, <1>5

\* A card that is played was in the hand.
LEMMA PlayKeeps ==
  ASSUME NEW c, IsClient(c), NEW card \in Card, c.serverTrick # 0
  PROVE  /\ IsClient(Play(c, card))
         /\ Play(c, card).status = c.status /\ Play(c, card).lastTotal = c.lastTotal
<1>1. DOMAIN (c.hand (-) SetToBag({card})) \subseteq Card
  BY DEF (-), SetToBag, IsClient
<1>2. QED
  BY <1>1 DEF Play, IsClient

\* A DEAL is sent while a deal is played, to the client of a seat.
LEMMA DealAddress ==
  ASSUME ServerInv, NEW me \in Senders, out[me].to \in Fds \ disconnected,
         out[me].kind = "DEAL"
  PROVE  di > 0 /\ \E s \in DOMAIN playerFds : playerFds[s] = out[me].to
<1> DEFINE o == out[me]
<1>1. o # Nothing
  BY NothingNowhere
<1>2. CASE me = DealThread
  <2>1. dealPc = "DEAL" /\ it # End
    BY <1>1, <1>2 DEF ServerInv, OutInv
  <2>2. QED
    BY <1>2, <2>1 DEF ServerInv, LoopInv, IteratorValid, CardInv, TableInv
<1>3. CASE me \in Fds
  <2>1. pc[me] \in CatchingUp /\ o.to = me
    BY <1>1, <1>3 DEF ServerInv, OutInv, ConnInv
  <2>2. di > 0
    BY <1>3, <2>1 DEF ServerInv, DealInv, CardInv, TableInv
  <2>3. QED
    BY <1>3, <2>1, <2>2, PlacesSeated DEF ServerInv, CardInv, SeatInv, SeatExclusive
<1>4. QED
  BY <1>2, <1>3 DEF Senders

\* The hand in a message is made of cards: a DEAL is sent to a seat.
LEMMA ContentHand ==
  ASSUME ServerInv, NEW me \in Senders, out[me].to \in Fds \ disconnected
  PROVE  Content(out[me]).hand \subseteq Card
<1> DEFINE o == out[me]
<1>1. CASE o.kind # "DEAL"
  BY <1>1 DEF Content, Blank
<1>2. CASE o.kind = "DEAL"
  <2>1. di > 0 /\ \E s \in DOMAIN playerFds : playerFds[s] = o.to
    BY <1>2, DealAddress
  <2> DEFINE s == CHOOSE s \in DOMAIN playerFds : playerFds[s] = o.to
  <2>2. s \in Seats
    BY <2>1 DEF ServerInv, CardInv, EntryInv
  <2>3. deal.originalHand[s] \subseteq Card
    BY <2>1, <2>2 DEF ServerInv, CardInv, TableInv, GameInv, IsDeal, HandsType
  <2>4. Content(o).hand = deal.originalHand[s]
    BY <1>2 DEF Content, Blank
  <2>5. QED
    BY <2>3, <2>4
<1>3. QED
  BY <1>1, <1>2
-----------------------------------------------------------------------------
\* The steps of the system and those of the server.

\* A client process that was asked with an empty hand dies.
Crash == \E fd \in Fds : DrawsFromNothing(fd)

\* What a player thread reads from its client is something HeartsServer knows.
LEMMA ServerPlayerStep ==
  ASSUME EndsInv, NEW fd \in Fds, ServerPlays(fd)
  PROVE  PlayerStep(fd)
<1>1. CASE RecvIAM(fd, SeatOf[fd])
  BY <1>1, SystemAssumption DEF PlayerStep
<1>2. ASSUME up[fd] # <<>>, HandleTRICK(fd, Head(up[fd]).trick, Head(up[fd]).card)
                             \/ RefuseTRICK(fd, Head(up[fd]).trick, Head(up[fd]).card)
      PROVE  PlayerStep(fd)
  <2>1. Head(up[fd]) \in Answer
    BY <1>2, HeadTailProperties DEF EndsInv
  <2>2. Head(up[fd]).trick \in 1..LastTrick /\ Head(up[fd]).card \in Offers
    BY <2>1, SystemAssumption DEF Answer
  <2>3. QED
    BY <1>2, <2>2 DEF PlayerStep
<1>3. QED
  BY <1>1, <1>2 DEF ServerPlays, PlayerStep

\* The clients do nothing HeartsServer does not allow them, but for the crash.
LEMMA SystemStep == EndsInv /\ [SystemNext]_allVars => [Next]_vars \/ Crash
<1> SUFFICES ASSUME EndsInv, [SystemNext]_allVars PROVE [Next]_vars \/ Crash
  OBVIOUS
<1>1. CASE MainStep
  BY <1>1 DEF Next
<1>2. CASE ServerAccepts
  BY <1>2 DEF ServerAccepts, Arrives, AcceptStep, Next
<1>3. CASE ServerDeals
  BY <1>3 DEF ServerDeals, AsksAgain, DealStep, Next
<1>4. ASSUME NEW fd \in Fds, ServerPlays(fd) PROVE Next
  BY <1>4, ServerPlayerStep DEF Next
<1>5. ASSUME NEW fd \in Fds, ClientStep(fd) PROVE UNCHANGED vars \/ Crash
  BY <1>5 DEF ClientStep, Reads, Answers, ConnectionEnds, Crash
<1>6. ASSUME NEW fd \in Fds, Leaves(fd) PROVE Next
  BY <1>6 DEF Leaves, Next
<1>7. ASSUME NEW fd \in Fds, NEW card \in Card, Types(fd, card) PROVE UNCHANGED vars
  BY <1>7 DEF Types
<1>8. CASE UNCHANGED allVars
  BY <1>8 DEF allVars
<1>9. QED
  BY <1>1, <1>2, <1>3, <1>4, <1>5, <1>6, <1>7, <1>8 DEF SystemNext

\* The server keeps its invariant with these clients.
LEMMA ServerInvStep == ServerInv /\ EndsInv /\ [SystemNext]_allVars => ServerInv'
<1> SUFFICES ASSUME ServerInv, EndsInv, [SystemNext]_allVars PROVE ServerInv'
  OBVIOUS
<1>1. ASSUME [Next]_vars PROVE ServerInv'
  BY <1>1, LoopStep, CardStep, ConnStep, OwnStep, DealInvStep, RoomStep, OutStep
  DEF ServerInv, CardInv, LoopInv
<1>2. ASSUME Crash PROVE ServerInv'
  <2>1. PICK fd \in Fds : DrawsFromNothing(fd)
    BY <1>2 DEF Crash
  <2>2. pc[fd] # "none"
    BY <2>1 DEF DrawsFromNothing, Playing, EndsInv
  <2>3. /\ UNCHANGED <<mainVars, deal, loopVars, gameVars, mtx, acceptVars, netVars,
                       threadVars, out, seen, drops, blocks, aborted>>
        /\ closed' = closed \cup {fd}
    BY <2>1 DEF DrawsFromNothing
  <2>4. OwnInv'
    BY <2>2, <2>3 DEF ServerInv, OwnInv
  <2>5. LoopInv' /\ ConnInv' /\ DealInv' /\ RoomInv' /\ OutInv'
    BY <2>3 DEF ServerInv, LoopInv, IteratorValid, SeatInv, SeatExclusive, ConnInv, DealInv,
       RoomInv, OutInv
  <2>6. CardInv'
    BY <2>3 DEF ServerInv, CardInv, EntryInv, TableInv, SeatInv, SeatExclusive
  <2>7. QED
    BY <2>4, <2>5, <2>6 DEF ServerInv
<1>3. QED
  BY <1>1, <1>2, SystemStep

\* Sending a message keeps the queues.
LEMMA CarriesKeeps ==
  ASSUME ServerInv, EndsInv, NEW me \in Senders, Carries(me)
  PROVE  DOMAIN down' = Fds /\ \A fd \in Fds : IsQueue(down'[fd])
<1>1. CASE out[me].to \in Fds \ (closed \cup disconnected)
  <2>1. Content(out[me]).hand \subseteq Card
    BY <1>1, ContentHand
  <2>2. down' = [down EXCEPT ![out[me].to] = Append(@, Content(out[me]))]
    BY <1>1 DEF Carries
  <2>3. IsQueue(Append(down[out[me].to], Content(out[me])))
    BY <1>1, <2>1, QueueMoves DEF EndsInv
  <2>4. QED
    BY <2>2, <2>3 DEF EndsInv
<1>2. CASE out[me].to \notin Fds \ (closed \cup disconnected)
  BY <1>2 DEF Carries, EndsInv
<1>3. QED
  BY <1>1, <1>2

\* A new client.
LEMMA NewIsClient == IsClient(NewClient)
<1>1. DOMAIN EmptyBag = {}
  BY DEF EmptyBag, SetToBag
<1>2. LastTrick \in Nat
  BY CardsAssumption
<1>3. QED
  BY <1>1, <1>2 DEF NewClient, IsClient

\* What one client does to its ends.
LEMMA ClientKeeps ==
  ASSUME EndsInv, NEW fd \in Fds,
         ClientStep(fd) \/ Leaves(fd) \/ \E card \in Card : Types(fd, card)
  PROVE  /\ DOMAIN down' = Fds /\ \A f \in Fds : IsQueue(down'[f])
         /\ up' \in [Fds -> Seq(Answer)]
         /\ fd \in DOMAIN client /\ DOMAIN client' = DOMAIN client
         /\ \A f \in DOMAIN client : IsClient(client'[f])
         /\ UNCHANGED <<clients, pc>>
<1> DEFINE ClientKept ==
             /\ DOMAIN down' = Fds /\ \A f \in Fds : IsQueue(down'[f])
             /\ up' \in [Fds -> Seq(Answer)]
             /\ fd \in DOMAIN client /\ DOMAIN client' = DOMAIN client
             /\ \A f \in DOMAIN client : IsClient(client'[f])
             /\ UNCHANGED <<clients, pc>>
<1>1. IsQueue(down[fd]) /\ up[fd] \in Seq(Answer) /\ LastTrick \in Nat
  BY CardsAssumption DEF EndsInv
<1>2. fd \in DOMAIN client /\ IsClient(client[fd])
  BY DEF ClientStep, Reads, Answers, DrawsFromNothing, ConnectionEnds, Leaves, Types,
     Playing, EndsInv
<1>3. UNCHANGED <<clients, pc>>
  BY DEF ClientStep, Reads, Answers, DrawsFromNothing, ConnectionEnds, Leaves, Types,
     ClientCloses, vars
<1>4. ASSUME NEW c, IsClient(c), client' = [client EXCEPT ![fd] = c]
      PROVE  DOMAIN client' = DOMAIN client /\ \A f \in DOMAIN client : IsClient(client'[f])
  BY <1>4 DEF EndsInv
<1>5. ASSUME down[fd] # <<>>, down' = [down EXCEPT ![fd] = Tail(@)]
      PROVE  DOMAIN down' = Fds /\ \A f \in Fds : IsQueue(down'[f])
  <2>1. IsQueue(Tail(down[fd]))
    BY <1>1, <1>5, QueueMoves
  <2>2. QED
    BY <1>5, <2>1 DEF EndsInv
<1>6. ASSUME NEW trick \in 1..LastTrick, NEW card \in Card,
             up' = [up EXCEPT ![fd] = Append(@, [trick |-> trick, card |-> card])]
      PROVE  up' \in [Fds -> Seq(Answer)]
  <2>1. Append(up[fd], [trick |-> trick, card |-> card]) \in Seq(Answer)
    BY <1>1, AppendProperties DEF Answer
  <2>2. QED
    BY <1>6, <2>1 DEF EndsInv
<1>7. CASE Reads(fd)
  <2>1. IsClient(Read(client[fd], Head(down[fd]), SeatOf[fd]))
    BY <1>1, <1>2, <1>7, QueueMoves, ReadKeeps DEF Reads
  <2>2. client' = [client EXCEPT ![fd] = Read(client[fd], Head(down[fd]), SeatOf[fd])]
    BY <1>7 DEF Reads
  <2>3. QED
    BY <1>2, <1>3, <1>4, <1>5, <1>7, <2>1, <2>2 DEF Reads, EndsInv
<1>8. CASE Answers(fd)
  <2> DEFINE m == Head(down[fd])
             c == Read(client[fd], m, SeatOf[fd])
  <2>1. IsClient(c) /\ m.kind = "TRICK" /\ Parses(m)
    BY <1>1, <1>2, <1>8, QueueMoves, ReadKeeps DEF Answers, Asks
  <2>2. c.serverTrick \in 1..LastTrick
    BY <1>2, <2>1, AskRead
  <2>3. PICK card \in AutoCards(c) : SendsCard(fd, c, card)
    BY <1>8 DEF Answers
  <2>4. card \in Card
    BY <2>1, <2>3 DEF AutoCards, IsClient
  <2>5. IsClient(Play(c, card))
    BY <2>1, <2>2, <2>4, PlayKeeps
  <2>6. client' = [client EXCEPT ![fd] = Play(c, card)]
        /\ up' = [up EXCEPT ![fd] = Append(@, [trick |-> c.serverTrick, card |-> card])]
    BY <2>3 DEF SendsCard
  <2> HIDE DEF c, m
  <2>7. QED
    BY <1>2, <1>3, <1>4, <1>5, <1>6, <1>8, <2>2, <2>4, <2>5, <2>6 DEF Answers
<1>9. ASSUME NEW card \in Card, Types(fd, card) PROVE ClientKept
  <2> DEFINE c == client[fd]
  <2>1. c.serverTrick \in 1..LastTrick
    BY <1>1, <1>2, <1>9 DEF Types, MayPlay, IsClient
  <2>2. IsClient(Play(c, card))
    BY <1>2, <2>1, PlayKeeps
  <2>3. client' = [client EXCEPT ![fd] = Play(c, card)]
        /\ up' = [up EXCEPT ![fd] = Append(@, [trick |-> c.serverTrick, card |-> card])]
    BY <1>9 DEF Types, SendsCard
  <2>4. UNCHANGED down
    BY <1>9 DEF Types
  <2> HIDE DEF c
  <2>5. QED
    BY <1>2, <1>3, <1>4, <1>6, <2>1, <2>2, <2>3, <2>4 DEF EndsInv
<1>10. ASSUME NEW status, Ends(fd, status) PROVE ClientKept
  <2> DEFINE c == [client[fd] EXCEPT !.status = status]
  <2>1. IsClient(c)
    BY <1>2 DEF IsClient
  <2>2. client' = [client EXCEPT ![fd] = c] /\ UNCHANGED <<down, up>>
    BY <1>10 DEF Ends
  <2> HIDE DEF c
  <2>3. QED
    BY <1>2, <1>3, <1>4, <2>1, <2>2 DEF EndsInv
<1>11. CASE DrawsFromNothing(fd) \/ ConnectionEnds(fd) \/ Leaves(fd)
  BY <1>10, <1>11 DEF DrawsFromNothing, ConnectionEnds, Leaves
<1>12. QED
  BY <1>7, <1>8, <1>9, <1>11 DEF ClientStep

\* The types of what goes between server and clients stay as they are.
LEMMA EndsStep == ServerInv /\ EndsInv /\ [SystemNext]_allVars => EndsInv'
<1> SUFFICES ASSUME ServerInv, EndsInv, [SystemNext]_allVars PROVE EndsInv'
  OBVIOUS
<1>0. /\ pc \in [Fds -> Places] /\ LoopInv /\ ConnInv /\ SeatInv /\ DOMAIN client \subseteq Fds
  BY DEF ServerInv, LoopInv, SeatInv, EndsInv, RoomInv
<1>1. ASSUME UNCHANGED ends, clients' \ {Stdin} = clients \ {Stdin},
             \A fd \in Fds : pc[fd] # "none" => pc'[fd] # "none"
      PROVE  EndsInv'
  BY <1>0, <1>1 DEF EndsInv, ends
<1>2. ASSUME NEW me \in Senders, Carries(me), clients' \ {Stdin} = clients \ {Stdin},
             \A fd \in Fds : pc[fd] # "none" => pc'[fd] # "none"
      PROVE  EndsInv'
  <2>1. UNCHANGED <<client, up>>
    BY <1>2 DEF Carries
  <2>2. QED
    BY <1>0, <1>2, <2>1, CarriesKeeps DEF EndsInv
<1>3. CASE MainStep /\ UNCHANGED ends
  BY <1>1, <1>3 DEF MainStep, NextDeal, JoinDeal, EndGame, StopAccepting, DisconnectAll,
     JoinClients
<1>4. CASE Arrives
  <2>1. Accept /\ UNCHANGED <<down, up>>
    BY <1>4 DEF Arrives
  <2>2. PICK k \in Nat : /\ clients \ {Stdin} = 5..(4 + k)
                         /\ clients' = clients \cup {5 + k}
                         /\ pc' = [pc EXCEPT ![5 + k] = "recvIAM"]
    BY <1>0, <2>1, AcceptFresh
  <2>3. 5 + k \notin clients /\ 5 + k # Stdin
    <3>1. 5 + k \notin 5..(4 + k) /\ 5 + k # Stdin
      BY DEF Stdin
    <3>2. QED
      BY <2>2, <3>1
  <2>4. (CHOOSE fd \in clients' \ clients : TRUE) = 5 + k
    BY <2>2, <2>3
  <2>5. client' = Insert(client, 5 + k, NewClient)
    BY <1>4, <2>4 DEF Arrives
  <2>6. \A fd \in Fds : pc'[fd] = pc[fd] \/ pc'[fd] = "recvIAM"
    BY <1>0, <2>2
  <2>7. 5 + k \in Fds => pc'[5 + k] = "recvIAM"
    BY <1>0, <2>2
  <2>8. 5 + k \in Fds
    <3>1. RoomInv'
      BY <2>1, RoomStep DEF ServerInv, AcceptStep, Next
    <3>2. QED
      BY <2>2, <2>3, <3>1 DEF RoomInv
  <2>9. DOMAIN client' = clients' \ {Stdin}
    BY <2>2, <2>3, <2>5 DEF Insert, EndsInv
  <2>10. \A fd \in DOMAIN client' : IsClient(client'[fd]) /\ pc'[fd] # "none"
    BY <1>0, <2>5, <2>6, <2>7, <2>8, NewIsClient DEF Insert, EndsInv
  <2>11. QED
    BY <2>1, <2>9, <2>10 DEF EndsInv
<1>5. CASE (PollIn \/ PollHup \/ AcceptFails) /\ UNCHANGED ends
  BY <1>1, <1>5 DEF PollIn, PollHup, AcceptFails
<1>6. ASSUME ServerDeals PROVE EndsInv'
  <2>1. DealStep
    BY <1>6 DEF ServerDeals, AsksAgain, DealStep
  <2>2. UNCHANGED pc
    BY <2>1 DEF DealStep, DealReady, Broadcast, BroadcastFails, Blocks, BeginTurn, AskSent,
       Timeout, Answered, Resume, EndTrick, EndDeal
  <2>3. clients' \ {Stdin} = clients \ {Stdin}
    <3>1. Delivers(DealThread) \/ clients' = clients
      BY <2>1 DEF DealStep, DealReady, Broadcast, BroadcastFails, Blocks, BeginTurn, AskSent,
         Timeout, Answered, Resume, EndTrick, EndDeal, Breaks
    <3>2. QED
      BY <1>0, <3>1 DEF Delivers, Logged, ConnInv
  <2>4. Carries(DealThread) \/ UNCHANGED ends
    BY <1>6 DEF ServerDeals, AsksAgain
  <2>5. QED
    BY <1>1, <1>2, <2>2, <2>3, <2>4 DEF Senders
<1>7. ASSUME NEW fd \in Fds, ServerPlays(fd) PROVE EndsInv'
  <2>1. PlayerStep(fd)
    BY <1>7, ServerPlayerStep
  <2>2. UNCHANGED clients /\ \A f \in Fds : pc[f] # "none" => pc'[f] # "none"
    <3>1. \A f \in Fds \ {fd} : pc'[f] = pc[f]
      BY <1>0, <2>1, PlayerStepConn
    <3>2. QED
      BY <1>0, <2>1, <3>1, SeatedStays, PlayerStepConn
  <2>3. CASE Carries(fd)
    BY <1>2, <2>2, <2>3 DEF Senders
  <2>4. CASE UNCHANGED ends
    BY <1>1, <2>2, <2>4
  <2>5. CASE up[fd] # <<>> /\ up' = [up EXCEPT ![fd] = Tail(@)] /\ UNCHANGED <<client, down>>
    <3>1. Tail(up[fd]) \in Seq(Answer)
      BY <2>5, HeadTailProperties DEF EndsInv
    <3>2. up' \in [Fds -> Seq(Answer)]
      BY <2>5, <3>1 DEF EndsInv
    <3>3. QED
      BY <1>0, <2>2, <2>5, <3>2 DEF EndsInv
  <2>6. QED
    BY <1>7, <2>3, <2>4, <2>5 DEF ServerPlays
<1>8. ASSUME NEW fd \in Fds,
             ClientStep(fd) \/ Leaves(fd) \/ \E card \in Card : Types(fd, card)
      PROVE  EndsInv'
  BY <1>8, ClientKeeps DEF EndsInv
<1>9. CASE UNCHANGED allVars
  BY <1>1, <1>9 DEF allVars, vars
<1>10. QED
  BY <1>3, <1>4, <1>5, <1>6, <1>7, <1>8, <1>9 DEF SystemNext, ServerAccepts
-----------------------------------------------------------------------------
\* When a client reports success.

\* Until the game is over only a player thread shuts a connection down, when it
\* returns; the client that lost it has closed it, or was never seated.
CutInv ==
  /\ mainPc \notin {"next", "join"} => gameOver
  /\ \A fd \in Fds :
       /\ pc[fd] = "failed" => fd \in closed \cup disconnected
       /\ ~gameOver /\ fd \in disconnected => pc[fd] = "done"

\* No TOTAL is on its way to the client, nor was one its last message.
NoTotal(fd) ==
  ~OnTheWay(fd, "TOTAL") /\ (fd \in DOMAIN client => ~client[fd].lastTotal)

\* A client that has not been seated, and one that was cut off before the end.
Unseated == {"none", "recvIAM", "handleIAM", "BUSY"}
Outside(fd) == pc[fd] \in Unseated \/ (~gameOver /\ fd \in disconnected \ closed)

SuccessInv ==
  /\ CutInv
  /\ \A fd \in Fds : Outside(fd) => NoTotal(fd)
  /\ \A fd \in DOMAIN client :
       /\ client[fd].status = "playing" => fd \notin closed
       /\ client[fd].status = "success" => gameOver \/ ~Running

\* The messages of a queue that grew or shrank.
LEMMA QueueItems ==
  ASSUME NEW q, IsQueue(q)
  PROVE  /\ \A m : \A i \in DOMAIN Append(q, m) :
              Append(q, m)[i] = m \/ \E j \in DOMAIN q : Append(q, m)[i] = q[j]
         /\ q # <<>> => /\ 1 \in DOMAIN q /\ Head(q) = q[1]
                        /\ \A i \in DOMAIN Tail(q) : i + 1 \in DOMAIN q /\ Tail(q)[i] = q[i + 1]
<1>1. PICK M : q \in Seq(M)
  BY DEF IsQueue
<1>2. /\ Len(q) \in Nat /\ DOMAIN q = 1..Len(q)
  BY <1>1, LenProperties
<1>3. ASSUME NEW m, NEW i \in DOMAIN Append(q, m)
      PROVE  Append(q, m)[i] = m \/ \E j \in DOMAIN q : Append(q, m)[i] = q[j]
  <2>1. q \in Seq(M \cup {m})
    BY <1>1, SeqMonotonic
  <2>2. /\ Append(q, m) \in Seq(M \cup {m}) /\ Len(Append(q, m)) = Len(q) + 1
        /\ \A k \in 1..Len(q) : Append(q, m)[k] = q[k]
        /\ Append(q, m)[Len(q) + 1] = m
    BY <2>1, AppendProperties
  <2>3. i \in 1..(Len(q) + 1)
    BY <2>2, LenProperties
  <2>4. QED
    BY <1>2, <2>2, <2>3
<1>4. ASSUME q # <<>>
      PROVE  /\ 1 \in DOMAIN q /\ Head(q) = q[1]
             /\ \A i \in DOMAIN Tail(q) : i + 1 \in DOMAIN q /\ Tail(q)[i] = q[i + 1]
  <2>1. /\ Head(q) = q[1] /\ Len(Tail(q)) = Len(q) - 1 /\ Tail(q) \in Seq(M)
        /\ \A i \in 1..Len(Tail(q)) : Tail(q)[i] = q[i + 1]
    BY <1>1, <1>4, HeadTailProperties
  <2>2. Len(q) # 0
    BY <1>1, <1>4, EmptySeq
  <2>3. DOMAIN Tail(q) = 1..Len(Tail(q))
    BY <2>1, LenProperties
  <2>4. QED
    BY <1>2, <2>1, <2>2, <2>3
<1>5. QED
  BY <1>3, <1>4

\* A message sent says what its kind is; only dealThread sends TOTAL, and not to a
\* client outside.
LEMMA TotalSent ==
  ASSUME ServerInv, NEW me \in Senders, out[me].to \in Fds \ (closed \cup disconnected),
         Content(out[me]).kind = "TOTAL"
  PROVE  ~Outside(out[me].to)
<1>1. out[me].kind = "TOTAL"
  BY DEF Content, Blank
<1>2. out[me] # Nothing
  BY NothingNowhere
<1>3. me \notin Fds
  BY <1>1, <1>2 DEF ServerInv, OutInv
<1>4. pc[out[me].to] \in Seated \cup {"done"}
  BY <1>3 DEF ServerInv, OutInv, Senders
<1>5. QED
  BY <1>4, PlacesSeated DEF Outside, Unseated

\* A message to a client outside is no TOTAL.
LEMMA CarriesNoTotal ==
  ASSUME ServerInv, EndsInv, NEW me \in Senders, Carries(me), NEW fd \in Fds, Outside(fd),
         NoTotal(fd)
  PROVE  NoTotal(fd)'
<1>1. UNCHANGED client
  BY DEF Carries
<1> DEFINE m == Content(out[me])
<1>2. CASE out[me].to = fd /\ fd \notin closed \cup disconnected
  <2>1. m.kind # "TOTAL"
    BY <1>2, TotalSent
  <2>2. down'[fd] = Append(down[fd], m)
    BY <1>2 DEF Carries, EndsInv
  <2> HIDE DEF m
  <2>3. IsQueue(down[fd])
    BY DEF EndsInv
  <2>4. \A i \in DOMAIN down'[fd] :
          down'[fd][i] = m \/ \E j \in DOMAIN down[fd] : down'[fd][i] = down[fd][j]
    BY <2>2, <2>3, QueueItems
  <2>5. QED
    BY <1>1, <2>1, <2>4 DEF NoTotal, OnTheWay
<1>3. CASE ~(out[me].to = fd /\ fd \notin closed \cup disconnected)
  <2>1. down'[fd] = down[fd]
    BY <1>3 DEF Carries, EndsInv
  <2>2. QED
    BY <1>1, <2>1 DEF NoTotal, OnTheWay
<1>4. QED
  BY <1>2, <1>3

\* What a player thread does to the connection.
LEMMA PlaysCut ==
  ASSUME ServerInv, NEW fd \in Fds, ServerPlays(fd)
  PROVE  /\ pc[fd] \notin {"none", "done"} /\ UNCHANGED <<mainPc, gameOver, closed>>
         /\ pc'[fd] = "failed" => fd \in closed \cup disconnected
         /\ disconnected' = disconnected
            \/ /\ pc'[fd] = "done"
               /\ pc[fd] \in {"BUSY", "recvIAM", "failed"} \/ fd \in closed \cup disconnected
<1>1. pc \in [Fds -> Places] /\ (out[fd] # Nothing => out[fd].to = fd) /\ Stdin \notin Fds
  BY Descriptors DEF ServerInv, LoopInv, SeatInv, ConnInv
<1>2. pc[fd] \notin {"none", "done"} /\ UNCHANGED <<mainPc, gameOver, closed>>
  BY DEF ServerPlays, RecvIAM, RecvIAMFails, HandleIAM, CatchUp, CaughtUp, LeaveIAM,
     RecvTRICK, RecvTRICKFails, HandleTRICK, MayHandle, RefuseTRICK, WrongSent, Fail
<1>3. CASE RecvIAMFails(fd) \/ LeaveIAM(fd) \/ Fail(fd)
  BY <1>1, <1>2, <1>3 DEF RecvIAMFails, LeaveIAM, Fail, Returns
<1>4. ASSUME NEW place, GoesTo(fd, place), place # "failed", disconnected' = disconnected
      PROVE  pc'[fd] # "failed" /\ disconnected' = disconnected
  BY <1>1, <1>4 DEF GoesTo
<1>5. CASE RecvIAM(fd, SeatOf[fd]) \/ HandleIAM(fd)
  BY <1>2, <1>4, <1>5 DEF RecvIAM, HandleIAM, Sends
<1>6. CASE CatchUp(fd) \/ CaughtUp(fd)
  BY <1>2, <1>4, <1>6 DEF CatchUp, CaughtUp, Sends
<1>7. CASE RecvTRICK(fd)
  BY <1>2, <1>4, <1>7 DEF RecvTRICK
<1>8. CASE RecvTRICKFails(fd)
  BY <1>2, <1>8 DEF RecvTRICKFails
<1>9. CASE WrongSent(fd)
  <2>1. disconnected' = disconnected
    BY <1>9 DEF WrongSent
  <2>2. CASE GoesTo(fd, "recvTRICK")
    BY <1>2, <1>4, <2>1, <2>2
  <2>3. CASE Breaks(fd)
    BY <1>1, <1>2, <2>1, <2>3 DEF Breaks
  <2>4. QED
    BY <1>9, <2>2, <2>3 DEF WrongSent
<1>10. ASSUME NEW trick, NEW card,
              HandleTRICK(fd, trick, card) \/ RefuseTRICK(fd, trick, card)
       PROVE  pc'[fd] # "failed" /\ disconnected' = disconnected
  BY <1>1, <1>4, <1>10 DEF HandleTRICK, RefuseTRICK, MayHandle, Sends
<1>11. QED
  BY <1>2, <1>3, <1>5, <1>6, <1>7, <1>8, <1>9, <1>10 DEF ServerPlays

\* The steps that are not of a player thread leave the threads where they are, but
\* for the one that begins, and cut nobody off before the end.
LEMMA OthersCut ==
  ASSUME ServerInv, EndsInv, CutInv, [SystemNext]_allVars,
         \A fd \in Fds : ~ServerPlays(fd)
  PROVE  /\ \A fd \in Fds : pc'[fd] = pc[fd] \/ (pc[fd] = "none" /\ pc'[fd] = "recvIAM")
         /\ (gameOver => gameOver') /\ closed \subseteq closed'
         /\ mainPc' \notin {"next", "join"} => gameOver'
         /\ ~gameOver' => disconnected' = disconnected
         /\ (gameOver \/ ~Running => gameOver' \/ ~Running')
<1>1. CASE MainStep
  BY <1>1 DEF MainStep, NextDeal, JoinDeal, EndGame, StopAccepting, DisconnectAll,
     JoinClients, CutInv, Running
<1>2. ASSUME UNCHANGED <<pc, gameOver, mainPc, disconnected, closed>>,
             UNCHANGED aborted \/ ~Running'
      PROVE  /\ UNCHANGED pc
             /\ (gameOver => gameOver') /\ closed \subseteq closed'
             /\ mainPc' \notin {"next", "join"} => gameOver'
             /\ ~gameOver' => disconnected' = disconnected
             /\ (gameOver \/ ~Running => gameOver' \/ ~Running')
  BY <1>2 DEF CutInv, Running
<1>3. CASE Arrives
  <2>1. Accept
    BY <1>3 DEF Arrives
  <2>2. PICK fd : /\ pc' = [pc EXCEPT ![fd] = "recvIAM"] /\ (fd \in Fds => pc[fd] = "none")
    BY <2>1, AcceptNew DEF ServerInv, LoopInv
  <2>3. UNCHANGED <<gameOver, mainPc, disconnected, closed, aborted>>
    BY <2>1 DEF Accept
  <2>4. \A f \in Fds : pc'[f] = pc[f] \/ (pc[f] = "none" /\ pc'[f] = "recvIAM")
    BY <2>2 DEF ServerInv, LoopInv, SeatInv
  <2>5. QED
    BY <2>3, <2>4 DEF CutInv, Running
<1>4. CASE PollIn \/ PollHup \/ AcceptFails
  BY <1>2, <1>4 DEF PollIn, PollHup, AcceptFails, Running
<1>5. CASE ServerDeals
  <2>1. UNCHANGED <<pc, gameOver, mainPc, disconnected, closed>>
    BY <1>5 DEF ServerDeals, AsksAgain, DealReady, Broadcast, BroadcastFails, BeginTurn, AskSent,
       Timeout, Answered, Resume, EndTrick, EndDeal
  <2>2. UNCHANGED aborted \/ ~Running'
    BY <1>5 DEF ServerDeals, AsksAgain, DealReady, Broadcast, BroadcastFails, BeginTurn, AskSent,
       Timeout, Answered, Resume, EndTrick, EndDeal, Running
  <2>3. QED
    BY <1>2, <2>1, <2>2
<1>6. ASSUME NEW fd \in Fds,
             ClientStep(fd) \/ Leaves(fd) \/ \E card \in Card : Types(fd, card)
      PROVE  /\ UNCHANGED <<pc, gameOver, mainPc, disconnected, aborted>>
             /\ closed \subseteq closed'
  BY <1>6 DEF ClientStep, Reads, Answers, DrawsFromNothing, ConnectionEnds, Leaves, Types,
     ClientCloses, vars
<1>7. CASE UNCHANGED allVars
  BY <1>2, <1>7 DEF allVars, vars
<1>8. CASE \E fd \in Fds : ClientStep(fd) \/ Leaves(fd) \/ \E card \in Card : Types(fd, card)
  BY <1>6, <1>8 DEF CutInv, Running
<1>9. QED
  BY <1>1, <1>2, <1>3, <1>4, <1>5, <1>7, <1>8 DEF SystemNext, ServerAccepts

\* Connections are cut as they were.
LEMMA CutStep == ServerInv /\ EndsInv /\ CutInv /\ [SystemNext]_allVars => CutInv'
<1> SUFFICES ASSUME ServerInv, EndsInv, CutInv, [SystemNext]_allVars PROVE CutInv'
  OBVIOUS
<1>1. ASSUME NEW fd \in Fds, ServerPlays(fd) PROVE CutInv'
  <2>1. PlayerStep(fd) /\ LoopInv /\ ConnInv
    BY <1>1, ServerPlayerStep DEF ServerInv
  <2>2. /\ \A f \in Fds \ {fd} : pc'[f] = pc[f]
        /\ disconnected' \in {disconnected, disconnected \cup {fd}}
    BY <2>1, PlayerStepConn DEF LoopInv, SeatInv
  <2>3. /\ pc[fd] \notin {"none", "done"} /\ UNCHANGED <<mainPc, gameOver, closed>>
        /\ pc'[fd] = "failed" => fd \in closed \cup disconnected
        /\ disconnected' = disconnected \/ pc'[fd] = "done"
    BY <1>1, PlaysCut
  <2>4. QED
    BY <2>2, <2>3 DEF CutInv
<1>2. CASE \A fd \in Fds : ~ServerPlays(fd)
  <2>1. /\ \A fd \in Fds : pc'[fd] = pc[fd] \/ (pc[fd] = "none" /\ pc'[fd] = "recvIAM")
        /\ (gameOver => gameOver') /\ closed \subseteq closed'
        /\ mainPc' \notin {"next", "join"} => gameOver'
        /\ ~gameOver' => disconnected' = disconnected
    BY <1>2, OthersCut
  <2>2. disconnected \subseteq disconnected'
    <3>1. CASE DisconnectAll
      BY <3>1 DEF DisconnectAll
    <3>2. CASE ~DisconnectAll
      BY <1>2, <3>2
      DEF SystemNext, MainStep, NextDeal, JoinDeal, EndGame, StopAccepting, JoinClients,
         ServerAccepts, Arrives, PollIn, PollHup, Accept, AcceptFails,
         ServerDeals, AsksAgain, DealReady, Broadcast, BroadcastFails, BeginTurn, AskSent,
         Timeout, Answered, Resume, EndTrick, EndDeal,
         ClientStep, Reads, Answers, DrawsFromNothing, ConnectionEnds, Leaves, Types,
         ClientCloses, vars, allVars
    <3>3. QED
      BY <3>1, <3>2
  <2>3. \A fd \in Fds : ~gameOver' /\ fd \in disconnected' => pc'[fd] = "done"
    BY <2>1 DEF CutInv
  <2>4. QED
    BY <2>1, <2>2, <2>3 DEF CutInv
<1>3. QED
  BY <1>1, <1>2

\* A client that is outside was outside before.
LEMMA OutsideBefore ==
  ASSUME ServerInv, EndsInv, CutInv, [SystemNext]_allVars, NEW fd \in Fds, Outside(fd)'
  PROVE  Outside(fd)
<1>0. pc \in [Fds -> Places] /\ Places = Unseated \cup Seated \cup {"done"}
      /\ Unseated \cap (Seated \cup {"done"}) = {} /\ "failed" \in Seated
  BY DEF ServerInv, LoopInv, SeatInv, Places, Unseated, Seated, CatchingUp
<1>1. ASSUME NEW f \in Fds, ServerPlays(f) PROVE Outside(fd)
  <2>1. PlayerStep(f) /\ LoopInv /\ ConnInv /\ SeatInv
    BY <1>1, ServerPlayerStep DEF ServerInv, LoopInv
  <2>2. /\ f # fd => pc'[fd] = pc[fd]
        /\ disconnected' \in {disconnected, disconnected \cup {f}}
    BY <1>0, <2>1, PlayerStepConn
  <2>3. /\ pc[f] \notin {"none", "done"} /\ UNCHANGED <<gameOver, closed>>
        /\ disconnected' = disconnected
           \/ pc[f] \in {"BUSY", "recvIAM", "failed"} \/ f \in closed \cup disconnected
    BY <1>1, PlaysCut
  <2>4. CASE pc'[fd] \in Unseated
    <3>1. f = fd => pc[fd] \notin Seated \cup {"done"}
      BY <1>0, <2>1, <2>4, SeatedStays
    <3>2. QED
      BY <1>0, <2>2, <2>4, <3>1 DEF Outside
  <2>5. CASE ~gameOver' /\ fd \in disconnected' \ closed'
    <3>1. CASE fd \in disconnected
      BY <2>3, <2>5, <3>1 DEF Outside
    <3>2. CASE fd \notin disconnected
      <4>1. f = fd /\ pc[fd] \in {"BUSY", "recvIAM", "failed"}
        BY <2>2, <2>3, <2>5, <3>2
      <4>2. pc[fd] # "failed"
        BY <2>3, <2>5, <3>2 DEF CutInv
      <4>3. QED
        BY <4>1, <4>2 DEF Outside, Unseated
    <3>3. QED
      BY <3>1, <3>2
  <2>6. QED
    BY <2>4, <2>5 DEF Outside
<1>2. CASE \A f \in Fds : ~ServerPlays(f)
  <2>1. /\ \A f \in Fds : pc'[f] = pc[f] \/ (pc[f] = "none" /\ pc'[f] = "recvIAM")
        /\ (gameOver => gameOver') /\ closed \subseteq closed'
        /\ ~gameOver' => disconnected' = disconnected
    BY <1>2, OthersCut
  <2>2. QED
    BY <2>1 DEF Outside, Unseated
<1>3. QED
  BY <1>1, <1>2

\* The client of another connection is left alone.
LEMMA ClientElsewhere ==
  ASSUME EndsInv, NEW fd \in Fds, NEW f \in Fds \ {fd},
         ClientStep(fd) \/ Leaves(fd) \/ \E card \in Card : Types(fd, card)
  PROVE  /\ down'[f] = down[f] /\ up'[f] = up[f]
         /\ f \in DOMAIN client => client'[f] = client[f]
<1>1. /\ down' = down \/ \E q : down' = [down EXCEPT ![fd] = q]
      /\ up' = up \/ \E q : up' = [up EXCEPT ![fd] = q]
      /\ \E c : client' = [client EXCEPT ![fd] = c]
  BY DEF ClientStep, Reads, Answers, DrawsFromNothing, ConnectionEnds, Leaves, Types, Ends,
     SendsCard
<1>2. QED
  BY <1>1 DEF EndsInv

\* What a client does when no TOTAL is on its way.
LEMMA ClientNoTotal ==
  ASSUME EndsInv, NEW fd \in Fds,
         ClientStep(fd) \/ Leaves(fd) \/ \E card \in Card : Types(fd, card), NoTotal(fd)
  PROVE  NoTotal(fd)'
<1>0. IsQueue(down[fd]) /\ DOMAIN down = Fds
  BY DEF EndsInv
<1>1. fd \in DOMAIN client /\ DOMAIN client' = DOMAIN client /\ IsClient(client[fd])
  BY ClientKeeps DEF EndsInv
<1>2. ~client[fd].lastTotal
  BY <1>1 DEF NoTotal
<1>3. ASSUME down[fd] # <<>>, down' = [down EXCEPT ![fd] = Tail(@)]
      PROVE  ~OnTheWay(fd, "TOTAL")' /\ ~IsTotal(Head(down[fd]))
  <2>1. down'[fd] = Tail(down[fd])
    BY <1>0, <1>3
  <2>2. QED
    BY <1>0, <1>3, <2>1, QueueItems DEF NoTotal, OnTheWay, IsTotal
<1>4. ASSUME NEW c, client' = [client EXCEPT ![fd] = c], ~c.lastTotal, ~OnTheWay(fd, "TOTAL")'
      PROVE  NoTotal(fd)'
  BY <1>1, <1>4 DEF NoTotal
<1>5. ASSUME UNCHANGED down PROVE ~OnTheWay(fd, "TOTAL")'
  BY <1>5 DEF NoTotal, OnTheWay
<1>6. CASE Reads(fd)
  <2> DEFINE c == Read(client[fd], Head(down[fd]), SeatOf[fd])
  <2>1. client' = [client EXCEPT ![fd] = c] /\ down[fd] # <<>>
        /\ down' = [down EXCEPT ![fd] = Tail(@)]
    BY <1>6 DEF Reads
  <2>2. c.lastTotal = IsTotal(Head(down[fd]))
    BY <1>0, <1>1, <2>1, QueueMoves, ReadKeeps
  <2> HIDE DEF c
  <2>3. QED
    BY <1>3, <1>4, <2>1, <2>2
<1>7. CASE Answers(fd)
  <2> DEFINE m == Head(down[fd])
             c == Read(client[fd], m, SeatOf[fd])
  <2>1. /\ down[fd] # <<>> /\ down' = [down EXCEPT ![fd] = Tail(@)]
        /\ m.kind = "TRICK" /\ Parses(m)
    BY <1>7 DEF Answers, Asks
  <2>2. IsClient(c) /\ c.lastTotal = IsTotal(m)
    BY <1>0, <1>1, <2>1, QueueMoves, ReadKeeps
  <2>3. c.serverTrick # 0
    BY <1>1, <2>1, AskRead
  <2>4. PICK card \in AutoCards(c) : client' = [client EXCEPT ![fd] = Play(c, card)]
    BY <1>7 DEF Answers, SendsCard
  <2>5. card \in Card
    BY <2>2, <2>4 DEF AutoCards, IsClient
  <2>6. Play(c, card).lastTotal = c.lastTotal
    BY <2>2, <2>3, <2>5, PlayKeeps
  <2> HIDE DEF c, m
  <2>7. QED
    BY <1>3, <1>4, <2>1, <2>2, <2>4, <2>6 DEF m
<1>8. ASSUME NEW card \in Card, Types(fd, card) PROVE NoTotal(fd)'
  <2>1. /\ client' = [client EXCEPT ![fd] = Play(client[fd], card)] /\ UNCHANGED down
        /\ client[fd].serverTrick # 0
    BY <1>1, <1>8 DEF Types, SendsCard, MayPlay, IsClient
  <2>2. Play(client[fd], card).lastTotal = client[fd].lastTotal
    BY <1>1, <2>1, PlayKeeps
  <2>3. QED
    BY <1>2, <1>4, <1>5, <2>1, <2>2
<1>9. ASSUME NEW status, Ends(fd, status) PROVE NoTotal(fd)'
  <2>1. client' = [client EXCEPT ![fd] = [client[fd] EXCEPT !.status = status]]
        /\ UNCHANGED down
    BY <1>9 DEF Ends
  <2>2. [client[fd] EXCEPT !.status = status].lastTotal = client[fd].lastTotal
    BY <1>1 DEF IsClient
  <2>3. QED
    BY <1>2, <1>4, <1>5, <2>1, <2>2
<1>10. CASE DrawsFromNothing(fd) \/ ConnectionEnds(fd) \/ Leaves(fd)
  BY <1>9, <1>10 DEF DrawsFromNothing, ConnectionEnds, Leaves
<1>11. QED
  BY <1>6, <1>7, <1>8, <1>10 DEF ClientStep

\* No TOTAL comes to a client that is outside.
LEMMA OutsideStep ==
  ASSUME ServerInv, EndsInv, [SystemNext]_allVars, NEW fd \in Fds, Outside(fd), NoTotal(fd)
  PROVE  NoTotal(fd)'
<1>1. ASSUME UNCHANGED <<client, down>> PROVE NoTotal(fd)'
  BY <1>1 DEF NoTotal, OnTheWay
<1>2. CASE UNCHANGED ends \/ UNCHANGED allVars
  BY <1>1, <1>2 DEF ends, allVars
<1>3. CASE Arrives
  <2>1. UNCHANGED down /\ \E f : client' = Insert(client, f, NewClient)
    BY <1>3 DEF Arrives
  <2>2. \A f \in DOMAIN client' :
          client'[f] = NewClient \/ (f \in DOMAIN client /\ client'[f] = client[f])
    BY <2>1 DEF Insert
  <2>3. ~NewClient.lastTotal
    BY DEF NewClient
  <2>4. QED
    BY <2>1, <2>2, <2>3 DEF NoTotal, OnTheWay
<1>4. CASE ServerDeals
  <2>1. Carries(DealThread) \/ UNCHANGED ends
    BY <1>4 DEF ServerDeals, AsksAgain
  <2>2. QED
    BY <1>2, <2>1, CarriesNoTotal DEF Senders
<1>5. ASSUME NEW f \in Fds, ServerPlays(f) PROVE NoTotal(fd)'
  <2>1. Carries(f) \/ UNCHANGED <<client, down>>
    BY <1>5 DEF ServerPlays, ends
  <2>2. QED
    BY <1>1, <2>1, CarriesNoTotal DEF Senders
<1>6. ASSUME NEW f \in Fds,
             ClientStep(f) \/ Leaves(f) \/ \E card \in Card : Types(f, card)
      PROVE  NoTotal(fd)'
  <2>1. CASE f = fd
    BY <1>6, <2>1, ClientNoTotal
  <2>2. CASE f # fd
    <3>1. /\ down'[fd] = down[fd] /\ DOMAIN client' = DOMAIN client
          /\ fd \in DOMAIN client => client'[fd] = client[fd]
      BY <1>6, <2>2, ClientElsewhere, ClientKeeps
    <3>2. QED
      BY <3>1 DEF NoTotal, OnTheWay
  <2>3. QED
    BY <2>1, <2>2
<1>7. QED
  BY <1>2, <1>3, <1>4, <1>5, <1>6 DEF SystemNext, ServerAccepts

\* A client that reads or plays goes on.
LEMMA PlayingOn ==
  ASSUME EndsInv, NEW fd \in Fds, Reads(fd) \/ Answers(fd) \/ \E card \in Card : Types(fd, card)
  PROVE  client'[fd].status = client[fd].status
<1>0. IsQueue(down[fd]) /\ fd \in DOMAIN client /\ IsClient(client[fd])
  BY DEF EndsInv, Reads, Answers, Types, Playing
<1>1. CASE Reads(fd)
  BY <1>0, <1>1, QueueMoves, ReadKeeps DEF Reads
<1>2. CASE Answers(fd)
  <2> DEFINE m == Head(down[fd])
             c == Read(client[fd], m, SeatOf[fd])
  <2>1. down[fd] # <<>> /\ m.kind = "TRICK" /\ Parses(m)
    BY <1>2 DEF Answers, Asks
  <2>2. IsClient(c) /\ c.status = client[fd].status
    BY <1>0, <2>1, QueueMoves, ReadKeeps
  <2>3. c.serverTrick # 0
    BY <1>0, <2>1, AskRead
  <2>4. PICK card \in AutoCards(c) : client' = [client EXCEPT ![fd] = Play(c, card)]
    BY <1>2 DEF Answers, SendsCard
  <2>5. card \in Card
    BY <2>2, <2>4 DEF AutoCards, IsClient
  <2>6. Play(c, card).status = c.status
    BY <2>2, <2>3, <2>5, PlayKeeps
  <2> HIDE DEF c, m
  <2>7. QED
    BY <1>0, <2>2, <2>4, <2>6
<1>3. ASSUME NEW card \in Card, Types(fd, card)
      PROVE  client'[fd].status = client[fd].status
  <2>1. /\ client' = [client EXCEPT ![fd] = Play(client[fd], card)]
        /\ client[fd].serverTrick # 0
    BY <1>0, <1>3 DEF Types, SendsCard, MayPlay, IsClient
  <2>2. QED
    BY <1>0, <2>1, PlayKeeps
<1>4. QED
  BY <1>1, <1>2, <1>3

\* What a client process that ends reports.
LEMMA StatusStep ==
  ASSUME ServerInv, EndsInv, SuccessInv, [SystemNext]_allVars, NEW fd \in DOMAIN client'
  PROVE  /\ client'[fd].status = "playing" => fd \notin closed'
         /\ client'[fd].status = "success" => gameOver' \/ ~Running'
<1> DEFINE Kept == /\ client'[fd].status = "playing" => fd \notin closed'
                   /\ client'[fd].status = "success" => gameOver' \/ ~Running'
<1>0. gameOver \/ ~Running => gameOver' \/ ~Running'
  <2>1. CASE \A f \in Fds : ~ServerPlays(f)
    BY <2>1, OthersCut DEF SuccessInv
  <2>2. ASSUME NEW f \in Fds, ServerPlays(f)
        PROVE  gameOver \/ ~Running => gameOver' \/ ~Running'
    <3>1. UNCHANGED gameOver
      BY <2>2, PlaysCut
    <3>2. UNCHANGED aborted \/ ~Running'
      BY <2>2 DEF ServerPlays, RecvIAM, RecvIAMFails, HandleIAM, CatchUp, CaughtUp, LeaveIAM,
         RecvTRICK, RecvTRICKFails, HandleTRICK, RefuseTRICK, WrongSent, Fail, Running
    <3>3. QED
      BY <3>1, <3>2 DEF Running
  <2>3. QED
    BY <2>1, <2>2
<1>1. ASSUME UNCHANGED closed, fd \in DOMAIN client, client'[fd].status = client[fd].status
      PROVE  Kept
  BY <1>0, <1>1 DEF SuccessInv
<1>2. ASSUME client'[fd].status \notin {"playing", "success"} PROVE Kept
  BY <1>2
<1>3. CASE MainStep /\ UNCHANGED ends
  BY <1>1, <1>3 DEF ends, MainStep, NextDeal, JoinDeal, EndGame, StopAccepting, DisconnectAll,
     JoinClients
<1>4. CASE Arrives
  <2> DEFINE f == CHOOSE g \in clients' \ clients : TRUE
  <2>1. client' = Insert(client, f, NewClient)
    BY <1>4 DEF Arrives
  <2>2. Accept
    BY <1>4 DEF Arrives
  <2>3. f \notin clients
    <3>1. PICK k \in Nat : clients' = clients \cup {5 + k} /\ clients \ {Stdin} = 5..(4 + k)
      BY <2>2, AcceptFresh DEF ServerInv
    <3>2. 5 + k \notin 5..(4 + k) /\ 5 + k # Stdin
      BY DEF Stdin
    <3>3. QED
      BY <3>1, <3>2
  <2> HIDE DEF f
  <2>4. UNCHANGED closed
    BY <2>2 DEF Accept
  <2>5. CASE fd \in DOMAIN client /\ client'[fd] = client[fd]
    BY <1>1, <2>4, <2>5
  <2>6. CASE client'[fd] = NewClient /\ fd \notin DOMAIN client
    <3>1. fd \in Fds /\ pc[fd] = "none"
      <4>1. EndsInv'
        BY EndsStep
      <4>2. RoomInv'
        BY ServerInvStep DEF ServerInv
      <4>3. fd \in Fds /\ fd \notin clients \ {Stdin} /\ fd # Stdin
        BY <2>6, <4>1, <4>2 DEF EndsInv, RoomInv
      <4>4. QED
        BY <4>3 DEF ServerInv, ConnInv
    <3>2. fd \notin closed
      BY <3>1 DEF ServerInv, OwnInv
    <3>3. NewClient.status = "playing"
      BY DEF NewClient
    <3>4. QED
      BY <2>4, <2>6, <3>2, <3>3
  <2>7. QED
    <3>1. fd # f => fd \in DOMAIN client /\ client'[fd] = client[fd]
      BY <2>1 DEF Insert
    <3>2. fd = f => client'[fd] = NewClient
      BY <2>1 DEF Insert
    <3>3. f \notin DOMAIN client
      BY <2>1, <2>3 DEF EndsInv
    <3>4. QED
      BY <2>5, <2>6, <3>1, <3>2, <3>3
<1>5. CASE (PollIn \/ PollHup \/ AcceptFails) /\ UNCHANGED ends
  BY <1>1, <1>5 DEF ends, PollIn, PollHup, AcceptFails
<1>6. CASE ServerDeals
  BY <1>1, <1>6 DEF ServerDeals, AsksAgain, Carries, ends, DealReady, Broadcast,
     BroadcastFails, BeginTurn, AskSent, Timeout, Answered, Resume, EndTrick, EndDeal
<1>7. ASSUME NEW f \in Fds, ServerPlays(f) PROVE Kept
  <2>1. UNCHANGED closed
    BY <1>7, PlaysCut
  <2>2. UNCHANGED client
    BY <1>7 DEF ServerPlays, Carries, ends
  <2>3. QED
    BY <1>1, <2>1, <2>2
<1>8. ASSUME NEW f \in Fds,
             ClientStep(f) \/ Leaves(f) \/ \E card \in Card : Types(f, card)
      PROVE  Kept
  <2>1. /\ f \in DOMAIN client /\ DOMAIN client' = DOMAIN client /\ IsClient(client[f])
        /\ f # fd => client'[fd] = client[fd]
        /\ IsQueue(down[f])
    <3>1. f \in DOMAIN client /\ DOMAIN client' = DOMAIN client
      BY <1>8, ClientKeeps
    <3>2. f # fd => client'[fd] = client[fd]
      <4>1. fd \in Fds
        BY <3>1 DEF EndsInv, ServerInv, RoomInv
      <4>2. QED
        BY <1>8, <3>1, <4>1, ClientElsewhere
    <3>3. QED
      BY <3>1, <3>2 DEF EndsInv
  <2>2. CASE DrawsFromNothing(f) \/ Leaves(f)
    <3>1. \E status \in {"crashed", "left"} : Ends(f, status)
      BY <2>2 DEF DrawsFromNothing, Leaves
    <3>2. client'[f].status \in {"crashed", "left"} /\ closed' = closed \cup {f}
      BY <2>1, <2>2, <3>1 DEF Ends, IsClient, DrawsFromNothing, Leaves, ClientCloses
    <3>3. CASE f = fd
      BY <1>2, <3>2, <3>3
    <3>4. CASE f # fd
      BY <1>0, <2>1, <3>2, <3>4 DEF SuccessInv
    <3>5. QED
      BY <3>3, <3>4
  <2>3. CASE ConnectionEnds(f)
    <3>1. UNCHANGED vars /\ f \in Fds
      BY <2>3 DEF ConnectionEnds
    <3>2. CASE f = fd
      <4>1. PICK status \in {"failure", "success"} :
              Ends(f, status) /\ (status = "success" => client[f].lastTotal)
        BY <2>3 DEF ConnectionEnds, Verdict
      <4>2. client'[f].status = status
        BY <2>1, <4>1 DEF Ends, IsClient
      <4>3. ASSUME status = "success", ~gameOver, Running PROVE FALSE
        <5>1. mainPc # "exit"
          BY <4>3 DEF SuccessInv, CutInv
        <5>2. f \in disconnected \ closed
          BY <2>1, <2>3, <4>3, <5>1 DEF ConnectionEnds, Playing, SuccessInv
        <5>3. NoTotal(f)
          BY <4>3, <5>2 DEF SuccessInv, Outside
        <5>4. QED
          BY <2>1, <4>1, <4>3, <5>3 DEF NoTotal
      <4>4. QED
        BY <1>2, <3>1, <3>2, <4>2, <4>3 DEF vars, Running
    <3>3. CASE f # fd
      BY <1>1, <2>1, <3>1, <3>3 DEF vars
    <3>4. QED
      BY <3>2, <3>3
  <2>4. CASE Reads(f) \/ Answers(f) \/ \E card \in Card : Types(f, card)
    <3>1. UNCHANGED closed
      BY <2>4 DEF Reads, Answers, Types, vars
    <3>2. client'[f].status = client[f].status
      BY <2>4, PlayingOn
    <3>3. QED
      BY <1>1, <2>1, <3>1, <3>2
  <2>5. QED
    BY <1>8, <2>2, <2>3, <2>4 DEF ClientStep
<1>9. CASE UNCHANGED allVars
  BY <1>1, <1>9 DEF allVars, vars, ends
<1>10. QED
  BY <1>3, <1>4, <1>5, <1>6, <1>7, <1>8, <1>9 DEF SystemNext, ServerAccepts

\* All of it, at first and after every step.
SystemInv == ServerInv /\ EndsInv /\ SuccessInv

\* At first there are no clients.
LEMMA SystemStart == SystemInit => SystemInv
<1> SUFFICES ASSUME SystemInit PROVE SystemInv
  OBVIOUS
<1>1. Init /\ client = <<>> /\ down = [fd \in Fds |-> <<>>] /\ up = [fd \in Fds |-> <<>>]
  BY DEF SystemInit
<1>2. ServerInv
  BY <1>1, SeatsInit, OutInit, TypesInit DEF SeatsInv, QuietInv, TypesInv, ServerInv
<1>3. EndsInv
  <2>1. IsQueue(<<>>)
    BY EmptySeq DEF IsQueue
  <2>2. clients = {}
    BY <1>1 DEF Init
  <2>3. QED
    BY <1>1, <2>1, <2>2, EmptySeq DEF EndsInv
<1>4. SuccessInv
  <2>1. closed = {} /\ disconnected = {} /\ mainPc = "next" /\ pc = [fd \in Fds |-> "none"]
    BY <1>1 DEF Init
  <2>2. \A fd \in Fds : NoTotal(fd)
    BY <1>1 DEF NoTotal, OnTheWay
  <2>3. QED
    BY <1>1, <2>1, <2>2 DEF SuccessInv, CutInv
<1>5. QED
  BY <1>2, <1>3, <1>4 DEF SystemInv

\* Every step of server and clients keeps it.
LEMMA SystemKeeps == SystemInv /\ [SystemNext]_allVars => SystemInv'
<1> SUFFICES ASSUME SystemInv, [SystemNext]_allVars PROVE SystemInv'
  OBVIOUS
<1>1. ServerInv /\ EndsInv /\ SuccessInv /\ CutInv
  BY DEF SystemInv, SuccessInv
<1>2. ServerInv' /\ EndsInv' /\ CutInv'
  BY <1>1, ServerInvStep, EndsStep, CutStep
<1>3. \A fd \in Fds : Outside(fd)' => NoTotal(fd)'
  <2> SUFFICES ASSUME NEW fd \in Fds, Outside(fd)' PROVE NoTotal(fd)'
    OBVIOUS
  <2>1. Outside(fd) /\ NoTotal(fd)
    BY <1>1, OutsideBefore DEF SuccessInv
  <2>2. QED
    BY <1>1, <2>1, OutsideStep
<1>4. QED
  BY <1>1, <1>2, <1>3, StatusStep DEF SystemInv, SuccessInv

\* A client reports success only when the server has ended: TOTAL comes to no
\* client that was refused or lost, and no connection is cut before the end but
\* theirs, whatever the clients play and whenever they leave.
THEOREM SuccessAlwaysMeansEnd == SystemSpec => []SuccessMeansEnd
<1>1. SystemInv => SuccessMeansEnd
  BY DEF SystemInv, SuccessInv, SuccessMeansEnd
<1>2. QED
  BY SystemStart, SystemKeeps, <1>1, PTL DEF SystemSpec

\* The server in the system is the server of HeartsServer: its clients connect,
\* answer and leave as the clients there do, but for the crash of one that is
\* asked for a card with an empty hand, which is no step of HeartsServer.
THEOREM SystemRunsServer == SystemSpec => Init /\ [][Next \/ Crash]_vars
<1>1. SystemInit => Init
  BY DEF SystemInit
<1>2. SystemInv /\ [SystemNext]_allVars => [Next \/ Crash]_vars
  BY SystemStep DEF SystemInv
<1>3. QED
  BY SystemStart, SystemKeeps, <1>1, <1>2, PTL DEF SystemSpec

\* What the server keeps whatever its clients do, it keeps among the clients of the
\* program too, also once one of them has crashed: no two threads play for a seat, no
\* loop goes on from an entry that is gone, no card is lost or doubled, no seat
\* revokes, and the highest card takes the trick.
THEOREM SystemKeepsGame ==
  SystemSpec => [](/\ SeatExclusive /\ IteratorValid
                   /\ CardsConserved /\ NoRevoke /\ HighestTakes)
<1>1. ASSUME SystemInv
      PROVE  /\ SeatExclusive /\ IteratorValid
             /\ CardsConserved /\ NoRevoke /\ HighestTakes
  <2>1. LoopInv /\ CardInv
    BY <1>1 DEF SystemInv, ServerInv
  <2>2. SeatExclusive /\ IteratorValid
    BY <2>1 DEF LoopInv, SeatInv
  <2>3. CardsConserved
    BY <2>1 DEF CardInv, TableInv, GameInv, CardsConserved
  <2>4. NoRevoke
    BY <2>1, GameShowsNoRevoke DEF CardInv, TableInv, NoRevoke
  <2>5. HighestTakes
    BY <2>1, GameGivesTricks DEF CardInv, TableInv, HighestTakes
  <2>6. QED
    BY <2>2, <2>3, <2>4, <2>5
<1>2. QED
  BY SystemStart, SystemKeeps, <1>1, PTL DEF SystemSpec
-----------------------------------------------------------------------------
\* The tricks a client shows.

\* The places in told, up to b, of the tricks that seat s took and that a client
\* knows for a trick: the parser refuses a TAKEN of more or fewer cards.
OwnTricks(told, b, s) ==
  {i \in 1..b : told[i].seat = s /\ Len(told[i].cards) = Len(PlayerOrder)}

\* What a TAKEN message says of the tricks told.
Tells(m, told) ==
  /\ m.trick \in 1..Len(told)
  /\ m.cards = told[m.trick].cards /\ m.seats = {told[m.trick].seat}

\* A client that has read the first b tricks told, or has yet to read the DEAL at
\* place d of its queue, will read the others in order.
ReadsOn(d, b, tricks, q, told, s) ==
  /\ d \in 0..Len(q) /\ b \in 0..Len(told)
  /\ d = 0 => /\ tricks \in Seq(Seq(Card))
              /\ ShowsTricks(tricks, told, OwnTricks(told, b, s))
  /\ d > 0 => b = 0 /\ q[d].kind = "DEAL" /\ Parses(q[d])
  /\ \A i \in d + 1..Len(q) :
       /\ q[i].kind # "DEAL"
       /\ q[i].kind = "TAKEN" => Tells(q[i], told) /\ q[i].trick > b
  /\ \A t \in b + 1..Len(told) : \E i \in d + 1..Len(q) : q[i].kind = "TAKEN" /\ q[i].trick = t
  /\ \A i, j \in d + 1..Len(q) :
       i < j /\ q[i].kind = "TAKEN" /\ q[j].kind = "TAKEN" => q[i].trick < q[j].trick
UpToDate(tricks, q, told, s) == \E d, b \in Nat : ReadsOn(d, b, tricks, q, told, s)

\* The tricks told, as the clients read them.
IsTold(told) == told \in Seq([cards : Seq(Card), seat : Seats \cup {NoSeat}])

\* The places of a queue that grew or shrank.
LEMMA QueueEnds ==
  ASSUME NEW q, IsQueue(q)
  PROVE  /\ Len(q) \in Nat
         /\ \A m : /\ Len(Append(q, m)) = Len(q) + 1
                   /\ \A i \in 1..Len(q) : Append(q, m)[i] = q[i]
                   /\ Append(q, m)[Len(q) + 1] = m
         /\ q # <<>> => /\ Len(q) > 0 /\ Head(q) = q[1] /\ Len(Tail(q)) = Len(q) - 1
                        /\ \A i \in 1..(Len(q) - 1) : Tail(q)[i] = q[i + 1]
<1>1. PICK M : q \in Seq(M)
  BY DEF IsQueue
<1>2. \A m : /\ Len(Append(q, m)) = Len(q) + 1
             /\ \A i \in 1..Len(q) : Append(q, m)[i] = q[i]
             /\ Append(q, m)[Len(q) + 1] = m
  <2> SUFFICES ASSUME NEW m
               PROVE  /\ Len(Append(q, m)) = Len(q) + 1
                      /\ \A i \in 1..Len(q) : Append(q, m)[i] = q[i]
                      /\ Append(q, m)[Len(q) + 1] = m
    OBVIOUS
  <2>1. q \in Seq(M \cup {m}) /\ m \in M \cup {m}
    BY <1>1
  <2>2. QED
    BY <2>1, AppendProperties
<1>3. QED
  BY <1>1, <1>2

\* The tricks of a seat are counted.
LEMMA OwnCounted ==
  ASSUME NEW told, NEW b \in Nat, NEW s
  PROVE  LET own == OwnTricks(told, b, s) IN
         /\ IsFiniteSet(own) /\ Cardinality(own) \in Nat
         /\ \A i \in own : Cardinality({j \in own : j <= i}) \in 1..Cardinality(own)
<1> DEFINE own == OwnTricks(told, b, s)
<1>1. own \subseteq 1..b /\ IsFiniteSet(1..b)
  BY FS_Interval DEF OwnTricks
<1>2. IsFiniteSet(own) /\ Cardinality(own) \in Nat
  BY <1>1, FS_Subset, FS_CardinalityType
<1>3. ASSUME NEW i \in own
      PROVE  Cardinality({j \in own : j <= i}) \in 1..Cardinality(own)
  <2> DEFINE low == {j \in own : j <= i}
  <2>1. low \subseteq own /\ i \in low
    BY <1>1
  <2>2. IsFiniteSet(low) /\ Cardinality(low) \in Nat /\ Cardinality(low) <= Cardinality(own)
    BY <1>2, <2>1, FS_Subset, FS_CardinalityType
  <2>3. Cardinality(low) # 0
    BY <2>1, <2>2, FS_EmptySet
  <2>4. QED
    BY <1>2, <2>2, <2>3
<1>4. QED
  BY <1>2, <1>3

\* The next trick told is appended if it is one of the seat's, and passed over if
\* it is not.
LEMMA ShowsNext ==
  ASSUME NEW told, NEW b \in Nat, NEW s, NEW tricks \in Seq(Seq(Card)),
         ShowsTricks(tricks, told, OwnTricks(told, b, s)),
         told[b + 1].cards \in Seq(Card)
  PROVE  LET next == b + 1 \in OwnTricks(told, b + 1, s)
             t == IF next THEN Append(tricks, told[b + 1].cards) ELSE tricks
         IN  t \in Seq(Seq(Card)) /\ ShowsTricks(t, told, OwnTricks(told, b + 1, s))
<1> DEFINE own == OwnTricks(told, b, s)
           more == OwnTricks(told, b + 1, s)
           cards == told[b + 1].cards
           C(i) == Cardinality({j \in own : j <= i})
<1>1. CASE b + 1 \notin more
  <2>1. more = own
    BY <1>1 DEF OwnTricks
  <2>2. QED
    BY <1>1, <2>1
<1>2. CASE b + 1 \in more
  <2>1. more = own \cup {b + 1} /\ b + 1 \notin own /\ own \subseteq 1..b
    BY <1>2 DEF OwnTricks
  <2>2. /\ IsFiniteSet(own) /\ Cardinality(own) \in Nat
        /\ \A i \in own : C(i) \in 1..Cardinality(own)
    BY OwnCounted
  <2>3. Cardinality(more) = Cardinality(own) + 1
    BY <2>1, <2>2, FS_AddElement
  <2>4. Len(tricks) = Cardinality(own) /\ \A i \in own : tricks[C(i)] = told[i].cards
    BY DEF ShowsTricks
  <2> DEFINE t == Append(tricks, cards)
  <2>5. /\ t \in Seq(Seq(Card)) /\ Len(t) = Len(tricks) + 1 /\ t[Len(tricks) + 1] = cards
        /\ \A i \in 1..Len(tricks) : t[i] = tricks[i]
    BY AppendProperties
  <2> HIDE DEF t
  <2>6. ASSUME NEW i \in more
        PROVE  t[Cardinality({j \in more : j <= i})] = told[i].cards
    <3>1. CASE i = b + 1
      <4>1. {j \in more : j <= i} = more
        BY <2>1, <3>1
      <4>2. QED
        BY <2>3, <2>4, <2>5, <3>1, <4>1
    <3>2. CASE i \in own
      <4>1. {j \in more : j <= i} = {j \in own : j <= i}
        BY <2>1, <3>2
      <4>2. t[C(i)] = tricks[C(i)]
        BY <2>2, <2>4, <2>5, <3>2
      <4>3. QED
        BY <2>4, <3>2, <4>1, <4>2
    <3>3. QED
      BY <2>1, <3>1, <3>2
  <2>7. ShowsTricks(t, told, more)
    BY <2>3, <2>4, <2>5, <2>6 DEF ShowsTricks
  <2>8. QED
    BY <1>2, <2>5, <2>7 DEF t
<1>3. QED
  BY <1>1, <1>2

\* Nothing is shown of no trick.
LEMMA ShowsNothing ==
  ASSUME NEW told, NEW s
  PROVE  <<>> \in Seq(Seq(Card)) /\ ShowsTricks(<<>>, told, OwnTricks(told, 0, s))
<1>1. OwnTricks(told, 0, s) = {}
  BY DEF OwnTricks
<1>2. QED
  BY <1>1, FS_EmptySet DEF ShowsTricks

-----------------------------------------------------------------------------
\* Messages that come.

\* One that is about no trick.
LEMMA OtherComes ==
  ASSUME NEW tricks, NEW q, IsQueue(q), NEW told, NEW s, UpToDate(tricks, q, told, s),
         Len(told) \in Nat, NEW m, m.kind \notin {"DEAL", "TAKEN"}
  PROVE  UpToDate(tricks, Append(q, m), told, s)
<1>1. PICK d \in Nat, b \in Nat : ReadsOn(d, b, tricks, q, told, s)
  BY DEF UpToDate
<1> DEFINE r == Append(q, m)
<1>2. /\ Len(q) \in Nat /\ Len(r) = Len(q) + 1 /\ r[Len(q) + 1] = m
      /\ \A i \in 1..Len(q) : r[i] = q[i]
  BY QueueEnds
<1> HIDE DEF r
<1>3. ReadsOn(d, b, tricks, r, told, s)
  <2>1. d \in 0..Len(r) /\ b \in 0..Len(told)
    BY <1>1, <1>2 DEF ReadsOn
  <2>2. \A i \in d + 1..Len(r) : (i \in d + 1..Len(q) /\ r[i] = q[i]) \/ r[i] = m
    BY <1>1, <1>2
  <2>3. \A i \in d + 1..Len(q) : i \in d + 1..Len(r) /\ r[i] = q[i]
    BY <1>1, <1>2
  <2>4. d > 0 => r[d] = q[d]
    BY <1>1, <1>2 DEF ReadsOn
  <2>5. \A i \in d + 1..Len(r) :
          /\ r[i].kind # "DEAL"
          /\ r[i].kind = "TAKEN" => Tells(r[i], told) /\ r[i].trick > b
    BY <1>1, <2>2 DEF ReadsOn
  <2>6. \A t \in b + 1..Len(told) :
          \E i \in d + 1..Len(r) : r[i].kind = "TAKEN" /\ r[i].trick = t
    BY <1>1, <2>3 DEF ReadsOn
  <2>7. \A i, j \in d + 1..Len(r) :
          i < j /\ r[i].kind = "TAKEN" /\ r[j].kind = "TAKEN" => r[i].trick < r[j].trick
    BY <1>1, <2>2 DEF ReadsOn
  <2>8. QED
    BY <1>1, <2>1, <2>4, <2>5, <2>6, <2>7 DEF ReadsOn
<1>4. QED
  BY <1>3 DEF r, UpToDate

\* The cards of a deal: no trick of it has been told.
LEMMA DealComes ==
  ASSUME NEW tricks, NEW q, IsQueue(q), NEW told, NEW s, Len(told) = 0,
         NEW m, m.kind = "DEAL", Parses(m)
  PROVE  UpToDate(tricks, Append(q, m), told, s)
<1> DEFINE r == Append(q, m)
<1>1. Len(q) \in Nat /\ Len(r) = Len(q) + 1 /\ r[Len(q) + 1] = m
  BY QueueEnds
<1> HIDE DEF r
<1>2. ReadsOn(Len(q) + 1, 0, tricks, r, told, s)
  BY <1>1 DEF ReadsOn
<1>3. QED
  BY <1>1, <1>2 DEF r, UpToDate

\* The next trick.
LEMMA TrickComes ==
  ASSUME NEW tricks, NEW q, IsQueue(q), NEW told, IsTold(told), NEW s,
         UpToDate(tricks, q, told, s),
         NEW m, m.kind = "TAKEN", m.trick = Len(told) + 1,
         NEW x \in [cards : Seq(Card), seat : Seats \cup {NoSeat}],
         m.cards = x.cards, m.seats = {x.seat}
  PROVE  UpToDate(tricks, Append(q, m), Append(told, x), s)
<1>1. PICK d \in Nat, b \in Nat : ReadsOn(d, b, tricks, q, told, s)
  BY DEF UpToDate
<1> DEFINE r == Append(q, m)
           more == Append(told, x)
<1>2. /\ Len(q) \in Nat /\ Len(r) = Len(q) + 1 /\ r[Len(q) + 1] = m
      /\ \A i \in 1..Len(q) : r[i] = q[i]
  BY QueueEnds
<1>3. /\ Len(told) \in Nat /\ Len(more) = Len(told) + 1 /\ more[Len(told) + 1] = x
      /\ \A i \in 1..Len(told) : more[i] = told[i]
  BY AppendProperties DEF IsTold
<1> HIDE DEF r, more
<1>4. ReadsOn(d, b, tricks, r, more, s)
  <2>1. d \in 0..Len(r) /\ b \in 0..Len(more) /\ b <= Len(told)
    BY <1>1, <1>2, <1>3 DEF ReadsOn
  <2>2. \A i \in d + 1..Len(r) :
          (i \in d + 1..Len(q) /\ r[i] = q[i]) \/ (i = Len(q) + 1 /\ r[i] = m)
    BY <1>1, <1>2
  <2>3. /\ \A i \in d + 1..Len(q) : i \in d + 1..Len(r) /\ r[i] = q[i]
        /\ Len(q) + 1 \in d + 1..Len(r)
    BY <1>1, <1>2 DEF ReadsOn
  <2>4. d > 0 => r[d] = q[d]
    BY <1>1, <1>2 DEF ReadsOn
  <2>5. d = 0 => ShowsTricks(tricks, more, OwnTricks(more, b, s))
    <3>1. OwnTricks(more, b, s) = OwnTricks(told, b, s)
      BY <1>3, <2>1 DEF OwnTricks
    <3>2. OwnTricks(told, b, s) \subseteq 1..Len(told)
      BY <1>3, <2>1 DEF OwnTricks
    <3>3. QED
      BY <1>1, <1>3, <3>1, <3>2 DEF ReadsOn, ShowsTricks
  <2>6. \A n : Tells(n, told) => Tells(n, more) /\ n.trick <= Len(told)
    BY <1>3 DEF Tells
  <2>7. Tells(m, more) /\ m.trick > b
    BY <1>3, <2>1 DEF Tells
  <2>8. \A i \in d + 1..Len(r) :
          /\ r[i].kind # "DEAL"
          /\ r[i].kind = "TAKEN" => Tells(r[i], more) /\ r[i].trick > b
    <3> SUFFICES ASSUME NEW i \in d + 1..Len(r)
                 PROVE  /\ r[i].kind # "DEAL"
                        /\ r[i].kind = "TAKEN" => Tells(r[i], more) /\ r[i].trick > b
      OBVIOUS
    <3>1. CASE i \in d + 1..Len(q) /\ r[i] = q[i]
      <4>1. /\ q[i].kind # "DEAL"
            /\ q[i].kind = "TAKEN" => Tells(q[i], told) /\ q[i].trick > b
        BY <1>1, <3>1 DEF ReadsOn
      <4>2. QED
        BY <2>6, <3>1, <4>1
    <3>2. CASE r[i] = m
      BY <2>7, <3>2
    <3>3. QED
      BY <2>2, <3>1, <3>2
  <2>9. \A t \in b + 1..Len(more) :
          \E i \in d + 1..Len(r) : r[i].kind = "TAKEN" /\ r[i].trick = t
    <3> SUFFICES ASSUME NEW t \in b + 1..Len(more)
                 PROVE  \E i \in d + 1..Len(r) : r[i].kind = "TAKEN" /\ r[i].trick = t
      OBVIOUS
    <3>1. CASE t = Len(told) + 1
      <4> DEFINE last == Len(q) + 1
      <4>1. last \in d + 1..Len(r) /\ r[last] = m
        BY <1>2, <2>3
      <4> HIDE DEF last
      <4>2. r[last].kind = "TAKEN" /\ r[last].trick = t
        BY <3>1, <4>1
      <4>3. QED
        BY <4>1, <4>2
    <3>2. CASE t # Len(told) + 1
      <4>1. t \in b + 1..Len(told)
        BY <1>3, <2>1, <3>2
      <4>2. PICK i \in d + 1..Len(q) : q[i].kind = "TAKEN" /\ q[i].trick = t
        BY <1>1, <4>1 DEF ReadsOn
      <4>3. i \in d + 1..Len(r) /\ r[i] = q[i]
        BY <2>3
      <4>4. QED
        BY <4>2, <4>3
    <3>3. QED
      BY <3>1, <3>2
  <2>10. \A i, j \in d + 1..Len(r) :
           i < j /\ r[i].kind = "TAKEN" /\ r[j].kind = "TAKEN" => r[i].trick < r[j].trick
    <3> SUFFICES ASSUME NEW i \in d + 1..Len(r), NEW j \in d + 1..Len(r), i < j,
                        r[i].kind = "TAKEN", r[j].kind = "TAKEN"
                 PROVE  r[i].trick < r[j].trick
      OBVIOUS
    <3>1. i \in d + 1..Len(q) /\ r[i] = q[i]
      BY <1>1, <1>2
    <3>2. CASE j \in d + 1..Len(q) /\ r[j] = q[j]
      BY <1>1, <3>1, <3>2 DEF ReadsOn
    <3>3. CASE r[j] = m
      <4>1. q[i].trick \in 1..Len(told)
        BY <1>1, <3>1 DEF ReadsOn, Tells
      <4>2. QED
        BY <1>3, <3>1, <3>3, <4>1
    <3>4. QED
      BY <2>2, <3>2, <3>3
  <2>11. QED
    BY <1>1, <2>1, <2>4, <2>5, <2>8, <2>9, <2>10 DEF ReadsOn
<1>5. QED
  BY <1>4 DEF r, more, UpToDate

-----------------------------------------------------------------------------
\* Messages that are read.

\* The places after the head move up by one.
LEMMA HeadRead ==
  ASSUME NEW q, IsQueue(q), q # <<>>, NEW d \in Nat, NEW b \in Nat, NEW tricks, NEW told,
         Len(told) \in Nat, NEW s, ReadsOn(d, b, tricks, q, told, s),
         NEW e \in Nat, NEW c \in Nat, NEW shown,
         \/ d > 0 /\ e = d - 1 /\ c = b
         \/ d = 0 /\ e = 0 /\ c = b /\ q[1].kind # "TAKEN"
         \/ d = 0 /\ e = 0 /\ c = b + 1 /\ q[1].kind = "TAKEN" /\ q[1].trick = b + 1,
         e = 0 => /\ shown \in Seq(Seq(Card))
                  /\ ShowsTricks(shown, told, OwnTricks(told, c, s))
  PROVE  ReadsOn(e, c, shown, Tail(q), told, s)
<1> DEFINE r == Tail(q)
<1>1. /\ Len(q) \in Nat /\ Len(q) > 0 /\ Len(r) = Len(q) - 1
      /\ \A i \in 1..(Len(q) - 1) : r[i] = q[i + 1]
  BY QueueEnds
<1> HIDE DEF r
<1>2. \A i \in e + 1..Len(r) : i + 1 \in d + 1..Len(q) /\ i + 1 > 1 /\ r[i] = q[i + 1]
  BY <1>1
<1>3. \A i \in d + 1..Len(q) : i # 1 => i - 1 \in e + 1..Len(r) /\ r[i - 1] = q[i]
  BY <1>1
<1>4. e > 0 => c = b /\ d > 0 /\ r[e] = q[d]
  BY <1>1 DEF ReadsOn
<1>5. e \in 0..Len(r) /\ c \in 0..Len(told)
  <2>1. CASE c = b
    BY <1>1, <2>1 DEF ReadsOn
  <2>2. CASE d = 0 /\ c = b + 1 /\ q[1].kind = "TAKEN" /\ q[1].trick = b + 1
    BY <1>1, <2>2 DEF ReadsOn, Tells
  <2>3. QED
    BY <2>1, <2>2
<1>6. \A i \in e + 1..Len(r) :
        /\ r[i].kind # "DEAL"
        /\ r[i].kind = "TAKEN" => Tells(r[i], told) /\ r[i].trick > c
  <2> SUFFICES ASSUME NEW i \in e + 1..Len(r)
               PROVE  /\ r[i].kind # "DEAL"
                      /\ r[i].kind = "TAKEN" => Tells(r[i], told) /\ r[i].trick > c
    OBVIOUS
  <2>1. /\ i + 1 \in d + 1..Len(q) /\ i + 1 > 1 /\ r[i] = q[i + 1]
        /\ r[i].kind # "DEAL"
        /\ r[i].kind = "TAKEN" => Tells(r[i], told) /\ r[i].trick > b
    BY <1>2 DEF ReadsOn
  <2>2. CASE c = b
    BY <2>1, <2>2
  <2>3. CASE d = 0 /\ c = b + 1 /\ q[1].kind = "TAKEN" /\ q[1].trick = b + 1
    <3>1. 1 \in d + 1..Len(q)
      BY <1>1, <2>3
    <3>2. r[i].kind = "TAKEN" => r[i].trick > b + 1
      BY <2>1, <2>3, <3>1 DEF ReadsOn
    <3>3. QED
      BY <2>1, <2>3, <3>2
  <2>4. QED
    BY <2>2, <2>3
<1>7. \A t \in c + 1..Len(told) : \E i \in e + 1..Len(r) : r[i].kind = "TAKEN" /\ r[i].trick = t
  <2> SUFFICES ASSUME NEW t \in c + 1..Len(told)
               PROVE  \E i \in e + 1..Len(r) : r[i].kind = "TAKEN" /\ r[i].trick = t
    OBVIOUS
  <2>1. t \in b + 1..Len(told) /\ (c = b \/ t # b + 1)
    OBVIOUS
  <2>2. PICK i \in d + 1..Len(q) : q[i].kind = "TAKEN" /\ q[i].trick = t
    BY <2>1 DEF ReadsOn
  <2>3. i # 1
    BY <2>1, <2>2
  <2>4. QED
    BY <1>3, <2>2, <2>3
<1>8. \A i, j \in e + 1..Len(r) :
        i < j /\ r[i].kind = "TAKEN" /\ r[j].kind = "TAKEN" => r[i].trick < r[j].trick
  <2> SUFFICES ASSUME NEW i \in e + 1..Len(r), NEW j \in e + 1..Len(r), i < j,
                      r[i].kind = "TAKEN", r[j].kind = "TAKEN"
               PROVE  r[i].trick < r[j].trick
    OBVIOUS
  <2>1. /\ i + 1 \in d + 1..Len(q) /\ r[i] = q[i + 1]
        /\ j + 1 \in d + 1..Len(q) /\ r[j] = q[j + 1] /\ i + 1 < j + 1
    BY <1>2
  <2>2. QED
    BY <2>1 DEF ReadsOn
<1>9. QED
  BY <1>4, <1>5, <1>6, <1>7, <1>8 DEF ReadsOn, r

\* What the client makes of the message at the head.
Shown(tricks, m, s) ==
  CASE m.kind = "DEAL" /\ Parses(m) -> <<>>
    [] m.kind = "TAKEN" /\ Parses(m) /\ s \in m.seats -> Append(tricks, m.cards)
    [] OTHER -> tricks

\* A client reads on.
LEMMA HeadShown ==
  ASSUME NEW q, IsQueue(q), q # <<>>, NEW tricks, NEW told, IsTold(told),
         Len(told) <= LastTrick, NEW s, UpToDate(tricks, q, told, s)
  PROVE  UpToDate(Shown(tricks, Head(q), s), Tail(q), told, s)
<1>1. PICK d \in Nat, b \in Nat : ReadsOn(d, b, tricks, q, told, s)
  BY DEF UpToDate
<1>2. Len(told) \in Nat /\ Len(q) \in Nat /\ Len(q) > 0 /\ Head(q) = q[1]
  BY QueueEnds DEF IsTold
<1> DEFINE m == q[1]
           t == Shown(tricks, Head(q), s)
<1>3. CASE d > 0
  <2>1. /\ d - 1 \in Nat /\ b = 0
        /\ d - 1 = 0 => t = <<>>
    BY <1>1, <1>2, <1>3 DEF ReadsOn, Shown
  <2>2. ReadsOn(d - 1, b, t, Tail(q), told, s)
    <3>1. d - 1 = 0 => t \in Seq(Seq(Card)) /\ ShowsTricks(t, told, OwnTricks(told, b, s))
      BY <2>1, ShowsNothing
    <3> HIDE DEF t
    <3>2. QED
      BY <1>1, <1>2, <1>3, <2>1, <3>1, HeadRead
  <2>3. QED
    BY <2>1, <2>2 DEF UpToDate
<1>4. CASE d = 0 /\ m.kind # "TAKEN"
  <2>1. m.kind # "DEAL"
    BY <1>1, <1>2, <1>4 DEF ReadsOn
  <2>2. t = tricks
    BY <1>2, <1>4, <2>1 DEF Shown
  <2>3. ReadsOn(0, b, tricks, Tail(q), told, s)
    <3>1. tricks \in Seq(Seq(Card)) /\ ShowsTricks(tricks, told, OwnTricks(told, b, s))
      BY <1>1, <1>4 DEF ReadsOn
    <3>2. QED
      BY <1>1, <1>2, <1>4, <3>1, HeadRead
  <2>4. QED
    BY <2>2, <2>3 DEF UpToDate
<1>5. CASE d = 0 /\ m.kind = "TAKEN"
  <2>1. 1 \in d + 1..Len(q) /\ Tells(m, told) /\ m.trick > b
    BY <1>1, <1>2, <1>5 DEF ReadsOn
  <2>2. m.trick = b + 1
    <3>1. b + 1 \in b + 1..Len(told)
      BY <1>1, <1>2, <2>1 DEF Tells
    <3>2. PICK i \in d + 1..Len(q) : q[i].kind = "TAKEN" /\ q[i].trick = b + 1
      BY <1>1, <3>1 DEF ReadsOn
    <3>3. CASE i = 1
      BY <3>2, <3>3
    <3>4. CASE i # 1
      <4>1. 1 < i /\ m.trick < b + 1
        BY <1>1, <1>5, <2>1, <3>2, <3>4 DEF ReadsOn
      <4>2. QED
        BY <1>2, <2>1, <4>1 DEF Tells
    <3>5. QED
      BY <3>3, <3>4
  <2> DEFINE next == b + 1 \in OwnTricks(told, b + 1, s)
             u == IF next THEN Append(tricks, told[b + 1].cards) ELSE tricks
  <2>3. /\ b + 1 \in 1..Len(told) /\ told[b + 1].cards \in Seq(Card)
        /\ m.cards = told[b + 1].cards /\ m.seats = {told[b + 1].seat}
    <3>1. b + 1 \in 1..Len(told)
      BY <2>1, <2>2 DEF Tells
    <3>2. told[b + 1] \in [cards : Seq(Card), seat : Seats \cup {NoSeat}]
      BY <3>1, ElementOfSeq DEF IsTold
    <3>3. QED
      BY <2>1, <2>2, <3>1, <3>2 DEF Tells
  <2>4. Parses(m) <=> Len(m.cards) = Len(PlayerOrder)
    <3>1. m.trick \in 1..LastTrick
      <4>1. b + 1 \in 1..Len(told) /\ Len(told) \in Nat /\ LastTrick \in Nat
        BY <1>2, <2>3, CardsAssumption
      <4> HIDE DEF m
      <4>2. QED
        BY <2>2, <4>1
    <3>2. QED
      BY <1>5, <3>1 DEF Parses
  <2>5. t = u
    <3>1. next <=> told[b + 1].seat = s /\ Len(told[b + 1].cards) = Len(PlayerOrder)
      BY <1>1 DEF OwnTricks
    <3>2. QED
      BY <1>2, <1>5, <2>3, <2>4, <3>1 DEF Shown
  <2>6. u \in Seq(Seq(Card)) /\ ShowsTricks(u, told, OwnTricks(told, b + 1, s))
    <3>1. tricks \in Seq(Seq(Card)) /\ ShowsTricks(tricks, told, OwnTricks(told, b, s))
      BY <1>1, <1>5 DEF ReadsOn
    <3>2. QED
      BY <2>3, <3>1, ShowsNext
  <2> HIDE DEF t, u
  <2>7. ReadsOn(0, b + 1, u, Tail(q), told, s)
    BY <1>1, <1>2, <1>5, <2>2, <2>6, HeadRead
  <2>8. QED
    BY <2>5, <2>7 DEF UpToDate, t
<1>6. QED
  BY <1>3, <1>4, <1>5

\* Nothing left to read: the client shows all it has been told.
LEMMA AllShown ==
  ASSUME NEW tricks, NEW q, IsQueue(q), NEW told, Len(told) \in Nat, NEW s,
         UpToDate(tricks, q, told, s),
         \A i \in DOMAIN q : q[i].kind \notin {"DEAL", "TAKEN"}
  PROVE  ShowsTricks(tricks, told, OwnTricks(told, Len(told), s))
<1>1. PICK d \in Nat, b \in Nat : ReadsOn(d, b, tricks, q, told, s)
  BY DEF UpToDate
<1>2. Len(q) \in Nat /\ DOMAIN q = 1..Len(q)
  BY DEF IsQueue
<1>3. d = 0
  BY <1>1, <1>2 DEF ReadsOn
<1>4. b = Len(told)
  <2>1. b + 1 \notin b + 1..Len(told)
    BY <1>1, <1>2, <1>3 DEF ReadsOn
  <2>2. QED
    BY <1>1, <2>1 DEF ReadsOn
<1>5. QED
  BY <1>1, <1>3, <1>4 DEF ReadsOn
-----------------------------------------------------------------------------
\* The tricks a client has been told of.

\* dealThread is in the loop of the deal, and no trick is being told.
InLoop == {"ready", "DEAL", "turn", "suspended", "TRICK", "await"}

\* A deal is as the file gives it, and has no more tricks than its number.
FileInv ==
  /\ di > 0 => /\ deal.originalHand = GameFile[di].hands
               /\ Len(deal.tricksTaken) <= LastTrick
  /\ dealPc \in InLoop \cup {"TAKEN"} => deal.currentTrick <= LastTrick

\* The client has been told of the deal that is played.
Given(fd) == di > 0 /\ seen[fd].deal = di

\* It has been told of the tricks that are taken, or of the first of them, and of
\* the one being told if the loop of dealThread has passed its seat.
HeardTricks(fd) ==
  LET n == seen[fd].taken
      k == Len(deal.tricksTaken)
  IN  /\ n <= k \/ (dealPc = "TAKEN" /\ n = k + 1)
      /\ pc[fd] = "catchTAKEN" => n = ti[fd] /\ n < k /\ out[fd].trick = n + 1
      /\ pc[fd] = "catchTRICK" => n = k
      /\ pc[fd] \in Seated \ CatchingUp =>
           /\ dealPc \in InLoop => n = k
           /\ dealPc = "TAKEN" => n = IF Passed(fd) THEN k + 1 ELSE k

\* Only at the table is a client told of a deal, and one that comes back is told of
\* it again, from the beginning.
Heard(fd) ==
  /\ seen[fd] \in [deal : 0..di, taken : Nat]
  /\ pc[fd] \notin Seated \/ pc[fd] = "catchDEAL" => seen[fd].deal = 0
  /\ pc[fd] = "catchDEAL" => out[fd].kind = "DEAL" /\ out[fd].deal \in 0..di
  /\ pc[fd] = "catchTAKEN" => out[fd].kind = "TAKEN"
  /\ pc[fd] = "done" => fd \in disconnected
  /\ Given(fd) => HeardTricks(fd)
AllHeard == \A fd \in Fds : Heard(fd)

\* std::map visits a seat once.
LEMMA KeyOnce == \A i, j \in DOMAIN KeyOrder : KeyOrder[i] = KeyOrder[j] => i = j
<1>1. KeyOrder \in [1..Players -> Seats] /\ Range(KeyOrder) = Seats
  BY ServerAssumption DEF Players
<1>2. \A s \in Seats : \E i \in 1..Players : KeyOrder[i] = s
  BY <1>1 DEF Range
<1>3. KeyOrder \in Surjection(1..Players, Seats)
  BY <1>1, <1>2, Fun_IsSurj
<1>4. IsFiniteSet(1..Players) /\ Cardinality(1..Players) = Players /\ Players \in Nat
  BY FS_Interval, TablePlaces
<1>5. Cardinality(1..Players) = Cardinality(Seats)
  BY <1>4, SeatsCounted
<1>6. KeyOrder \in Injection(1..Players, Seats)
  BY <1>3, <1>4, <1>5, FS_SurjSameCardinalityImpliesInj
<1>7. DOMAIN KeyOrder = 1..Players
  BY <1>1
<1>8. QED
  BY <1>6, <1>7 DEF Injection, IsInjective

\* The file deals as many cards as there are tricks.
LEMMA FileDeals ==
  ASSUME FileInv, TableInv, BoundType, di > 0
  PROVE  /\ ProperDeal(GameFile[di])
         /\ \A s \in Seats : Cardinality(deal.originalHand[s]) = LastTrick
<1>1. di \in DOMAIN GameFile
  BY ServerAssumption DEF BoundType, TableInv
<1>2. QED
  BY <1>1, ServerAssumption DEF FileInv, ProperDeal

\* Every step of the server keeps to the file.
LEMMA FileStep == FileInv /\ TableInv /\ NumberInv /\ [Next]_vars => FileInv'
<1> SUFFICES ASSUME FileInv, TableInv, NumberInv, [Next]_vars PROVE FileInv'
  OBVIOUS
<1>0. /\ di > 0 => IsDeal(deal)
      /\ LastTrick \in Nat \ {0} /\ di \in Nat /\ GameFile \in Seq(DealSpec)
      /\ dealPc # "done" => di > 0
  BY CardsAssumption, ServerAssumption DEF TableInv, GameInv
<1>1. ASSUME UNCHANGED di, dealPc' \in InLoop \cup {"TAKEN"} => dealPc \in InLoop \cup {"TAKEN"},
             di > 0 => /\ deal'.originalHand = deal.originalHand
                       /\ deal'.currentTrick = deal.currentTrick
                       /\ deal'.tricksTaken = deal.tricksTaken
      PROVE  FileInv'
  BY <1>0, <1>1 DEF FileInv, InLoop
<1>2. \A d : IsDeal(d) => /\ NextPlayer(d).originalHand = d.originalHand
                          /\ NextPlayer(d).currentTrick = d.currentTrick
                          /\ NextPlayer(d).tricksTaken = d.tricksTaken
                          /\ NextTrick(d).originalHand = d.originalHand
                          /\ NextTrick(d).currentTrick = d.currentTrick + 1
                          /\ Len(NextTrick(d).tricksTaken) = Len(d.tricksTaken) + 1
  <2> SUFFICES ASSUME NEW d, IsDeal(d)
               PROVE  /\ NextPlayer(d).originalHand = d.originalHand
                      /\ NextPlayer(d).currentTrick = d.currentTrick
                      /\ NextPlayer(d).tricksTaken = d.tricksTaken
                      /\ NextTrick(d).originalHand = d.originalHand
                      /\ NextTrick(d).currentTrick = d.currentTrick + 1
                      /\ Len(NextTrick(d).tricksTaken) = Len(d.tricksTaken) + 1
    OBVIOUS
  <2>1. NextPlayer(d).originalHand = d.originalHand
    BY DEF NextPlayer, IsDeal
  <2>2. NextTrick(d).originalHand = d.originalHand
    BY DEF NextTrick, TakeTrick, ClearTable, IsDeal
  <2>3. QED
    BY <2>1, <2>2, DealNumbers
<1>3. CASE NextDeal
  <2>1. di + 1 <= Len(GameFile) /\ di' = di + 1 /\ deal' = NewDeal(GameFile[di + 1])
    BY <1>0, <1>3 DEF NextDeal
  <2>2. /\ deal'.originalHand = GameFile[di + 1].hands /\ deal'.currentTrick = 1
        /\ deal'.tricksTaken = <<>>
    BY <2>1 DEF NewDeal
  <2>3. QED
    BY <1>0, <2>1, <2>2 DEF FileInv
<1>4. CASE MainStep /\ ~NextDeal
  BY <1>1, <1>4 DEF MainStep, JoinDeal, EndGame, StopAccepting, DisconnectAll, JoinClients
<1>5. CASE AcceptStep \/ (\E fd \in Fds : ClientCloses(fd)) \/ UNCHANGED vars
  BY <1>1, <1>5 DEF AcceptStep, PollIn, PollHup, Accept, AcceptFails, ClientCloses, vars
<1>6. ASSUME NEW fd \in Fds, PlayerStep(fd) PROVE FileInv'
  <2>1. /\ UNCHANGED <<di, dealPc>>
        /\ UNCHANGED deal \/ (di > 0 /\ \E card : deal' = PlayCard(deal, card))
    BY <1>6
    DEF PlayerStep, RecvIAM, RecvIAMFails, HandleIAM, CatchUp, CaughtUp, LeaveIAM,
       RecvTRICK, RecvTRICKFails, HandleTRICK, RefuseTRICK, SpoiltTRICK, WrongSent,
       Blocks, Fail
  <2>2. ASSUME di > 0, NEW card, deal' = PlayCard(deal, card)
        PROVE  /\ deal'.originalHand = deal.originalHand
               /\ deal'.currentTrick = deal.currentTrick
               /\ deal'.tricksTaken = deal.tricksTaken
    <3>1. deal'.originalHand = deal.originalHand
      BY <1>0, <2>2 DEF PlayCard, LayCard, IsDeal
    <3>2. QED
      BY <1>0, <2>2, <3>1, DealNumbers
  <2>3. QED
    BY <1>1, <2>1, <2>2
<1>7. ASSUME deal' = NextPlayer(deal) \/ UNCHANGED deal, UNCHANGED di,
             dealPc \in InLoop, dealPc' \in InLoop \cup {"TAKEN"}
      PROVE  FileInv'
  BY <1>0, <1>1, <1>2, <1>7 DEF InLoop
<1>8. ASSUME TurnOver, dealPc \in InLoop, UNCHANGED di PROVE FileInv'
  BY <1>7, <1>8 DEF TurnOver, SendTo, InLoop
<1>9. CASE DealReady
  BY <1>7, <1>9 DEF DealReady, SendTo, InLoop
<1>10. CASE Broadcast \/ BroadcastFails \/ Blocks(DealThread) \/ EndDeal
  BY <1>1, <1>10 DEF Broadcast, BroadcastFails, Blocks, EndDeal, SendTo, InLoop
<1>11. CASE BeginTurn
  BY <1>7, <1>11 DEF BeginTurn, Ask, InLoop
<1>12. CASE AskSent
  BY <1>7, <1>8, <1>12 DEF AskSent, InLoop
<1>13. CASE Timeout
  BY <1>7, <1>13 DEF Timeout, InLoop
<1>14. CASE Answered
  BY <1>8, <1>14 DEF Answered, InLoop
<1>15. CASE Resume
  BY <1>7, <1>8, <1>15 DEF Resume, Ask, InLoop
<1>16. CASE EndTrick
  <2> DEFINE d == NextTrick(deal)
  <2>1. dealPc = "TAKEN" /\ di > 0 /\ di' = di
    BY <1>0, <1>16 DEF EndTrick
  <2>2. /\ d.originalHand = deal.originalHand /\ d.currentTrick = deal.currentTrick + 1
        /\ Len(d.tricksTaken) = Len(deal.tricksTaken) + 1
        /\ Len(deal.tricksTaken) = deal.currentTrick - 1 /\ deal.currentTrick \in Nat
        /\ deal.currentTrick <= LastTrick
    BY <1>0, <1>2, <2>1, DealNumbers DEF FileInv, NumberInv
  <2>3. /\ deal'.originalHand = d.originalHand /\ deal'.currentTrick = d.currentTrick
        /\ deal'.tricksTaken = d.tricksTaken
        /\ \/ dealPc' = "SCORE"
           \/ dealPc' = "turn" /\ ~(d.currentTrick > LastTrick)
    BY <1>0, <1>16, <2>1 DEF EndTrick, SendTo, NextTrick, TakeTrick, ClearTable, IsDeal
  <2> HIDE DEF d
  <2>4. QED
    BY <1>0, <2>1, <2>2, <2>3 DEF FileInv, InLoop
<1>17. QED
  BY <1>3, <1>4, <1>5, <1>6, <1>9, <1>10, <1>11, <1>12, <1>13, <1>14, <1>15, <1>16
  DEF Next, DealStep
-----------------------------------------------------------------------------
\* A client whose thread and whose knowledge are left alone.
LEMMA ElsewhereKeepsHeard ==
  ASSUME NEW fd \in Fds, Heard(fd), SameTable, pc'[fd] = pc[fd], seat'[fd] = seat[fd],
         ti'[fd] = ti[fd], out'[fd] = out[fd], seen'[fd] = seen[fd],
         disconnected \subseteq disconnected'
  PROVE  Heard(fd)'
BY DEF Heard, HeardTricks, Given, Passed, SameTable

\* A thread at the table moves on.
LEMMA MovingKeepsHeard ==
  ASSUME NEW fd \in Fds, Heard(fd), SameTable, pc[fd] \in Seated \ CatchingUp,
         pc'[fd] \in Seated \ CatchingUp, seat'[fd] = seat[fd], seen'[fd] = seen[fd]
  PROVE  Heard(fd)'
<1>1. pc'[fd] \notin {"catchDEAL", "catchTAKEN", "catchTRICK", "done"}
  BY PlacesSeated
<1>2. QED
  BY <1>1 DEF Heard, HeardTricks, Given, Passed, SameTable

\* A client that has been told of no deal.
LEMMA IgnorantHeard ==
  ASSUME NEW fd \in Fds, seen'[fd] \in [deal : {0}, taken : Nat], di' \in Nat,
         pc'[fd] # "catchTAKEN",
         pc'[fd] = "catchDEAL" => out'[fd].kind = "DEAL" /\ out'[fd].deal \in 0..di',
         pc'[fd] = "done" => fd \in disconnected'
  PROVE  Heard(fd)'
BY DEF Heard, Given

\* One that comes back is told of the tricks one after another, while the deal
\* stands still; of a deal that is over it may be told what no longer counts.
LEMMA HeardPlayerStep ==
  ASSUME AllHeard, SendHeld, MtxHeld, SeatInv, LoopInv, ConnInv, TableInv, FieldsInv,
         NEW fd \in Fds, PlayerStep(fd), blocks' = blocks, blocks \in Nat
  PROVE  AllHeard'
<1>0. /\ pc \in [Fds -> Places] /\ DOMAIN out = Senders /\ Fds \subseteq Senders
      /\ DOMAIN ti = Fds /\ DOMAIN seen = Fds /\ seat \in [Fds -> Seats \cup {NoSeat}]
      /\ fd \in Senders /\ di \in Nat
      /\ out[fd] # Nothing => out[fd].to = fd
  BY DEF SeatInv, LoopInv, Senders, ConnInv, FieldsInv, TableInv
<1>1. SameTable
  <2>1. /\ UNCHANGED <<dealPc, it, di>>
        /\ UNCHANGED deal \/ (di > 0 /\ \E card : deal' = PlayCard(deal, card))
    BY DEF PlayerStep, RecvIAM, RecvIAMFails, HandleIAM, CatchUp, CaughtUp, LeaveIAM,
       RecvTRICK, RecvTRICKFails, HandleTRICK, RefuseTRICK, SpoiltTRICK, WrongSent,
       Blocks, Fail
  <2>2. di > 0 => IsDeal(deal)
    BY DEF TableInv, GameInv
  <2>3. QED
    BY <2>1, <2>2, DealNumbers DEF SameTable
<1>2. ASSUME NEW f \in Fds, f # fd PROVE Heard(f)'
  <2>1. pc'[f] = pc[f] /\ out'[f] = out[f] /\ disconnected \subseteq disconnected'
    <3>1. f \in Senders
      BY <1>0
    <3>2. QED
      BY <1>0, <1>2, <3>1, PlayerStepConn
  <2>2. seat'[f] = seat[f] /\ ti'[f] = ti[f]
    BY <1>0, <1>2
    DEF PlayerStep, RecvIAM, RecvIAMFails, HandleIAM, CatchUp, CaughtUp, LeaveIAM,
       RecvTRICK, RecvTRICKFails, HandleTRICK, RefuseTRICK, SpoiltTRICK, WrongSent,
       Blocks, Fail, Returns
  <2>3. seen'[f] = seen[f]
    <3>1. \/ Delivers(fd) \/ Returns(fd) \/ UNCHANGED seen
      BY DEF PlayerStep, RecvIAM, RecvIAMFails, HandleIAM, CatchUp, CaughtUp, LeaveIAM,
         RecvTRICK, RecvTRICKFails, HandleTRICK, RefuseTRICK, SpoiltTRICK, WrongSent,
         Blocks, Fail, Breaks
    <3>2. QED
      BY <1>0, <1>2, <3>1 DEF Delivers, Returns
  <2>4. QED
    BY <1>1, <2>1, <2>2, <2>3, ElsewhereKeepsHeard DEF AllHeard
<1>3. Heard(fd)
  BY DEF AllHeard
<1>4. pc[fd] \in CatchingUp => dealPc \notin DealSends
  BY PlacesSending, Descriptors DEF MtxHeld
<1>5. ASSUME Delivers(fd) PROVE seen'[fd] = Hear(seen[fd], out[fd])
  BY <1>0, <1>5 DEF Delivers
<1>6. ASSUME \E s \in Seats : RecvIAM(fd, s) PROVE Heard(fd)'
  <2>1. /\ pc[fd] = "recvIAM" /\ pc'[fd] = "handleIAM" /\ UNCHANGED <<seen, di>>
    BY <1>0, <1>6 DEF RecvIAM, GoesTo
  <2>2. seen[fd] \in [deal : {0}, taken : Nat]
    BY <1>3, <2>1, PlacesSeated DEF Heard
  <2>3. QED
    BY <1>0, <2>1, <2>2, IgnorantHeard
<1>7. ASSUME RecvIAMFails(fd) \/ LeaveIAM(fd) \/ Fail(fd) PROVE Heard(fd)'
  <2>1. pc'[fd] = "done" /\ seen'[fd] = Ignorant /\ di' = di /\ fd \in disconnected'
    BY <1>0, <1>7 DEF RecvIAMFails, LeaveIAM, Fail, Returns, DisconnectOne
  <2>2. QED
    BY <1>0, <2>1, IgnorantHeard DEF Ignorant
<1>8. ASSUME HandleIAM(fd) PROVE Heard(fd)'
  <2>1. pc[fd] = "handleIAM" /\ UNCHANGED <<seen, di>>
    BY <1>8 DEF HandleIAM
  <2>2. seen[fd] \in [deal : {0}, taken : Nat]
    BY <1>3, <2>1, PlacesSeated DEF Heard
  <2>3. \/ pc'[fd] \in {"BUSY", "recvTRICK"}
        \/ pc'[fd] = "catchDEAL" /\ out'[fd] = Message("DEAL", fd, 0)
    BY <1>0, <1>8 DEF HandleIAM, Sends, GoesTo
  <2>4. QED
    BY <1>0, <2>1, <2>2, <2>3, IgnorantHeard DEF Message
<1>9. ASSUME CatchUp(fd) PROVE Heard(fd)'
  <2>1. /\ pc[fd] \in CatchingUp /\ pc[fd] \in {"catchDEAL", "catchTAKEN"} /\ Delivers(fd)
        /\ di' = di
    BY <1>9, PlacesSeated DEF CatchUp
  <2>2. dealPc \notin DealSends /\ seen'[fd] = Hear(seen[fd], out[fd])
    BY <1>4, <1>5, <2>1
  <2> DEFINE i == NextToTell(fd)
             k == Len(deal.tricksTaken)
  <2>3. \/ /\ pc'[fd] = "catchTAKEN" /\ out'[fd] = Message("TAKEN", fd, i + 1)
           /\ ti'[fd] = i /\ i < k
        \/ pc'[fd] \in {"catchTRICK", "recvTRICK"} /\ ~(i < k)
    BY <1>0, <1>9 DEF CatchUp, Sends, GoesTo
  <2>4. /\ seen'[fd] \in [deal : 0..di, taken : Nat]
        /\ Given(fd)' => seen'[fd].taken = i /\ i \in Nat /\ i <= k /\ k \in Nat
    <3>1. di > 0 => k \in Nat
      BY DealNumbers DEF TableInv, GameInv
    <3>2. CASE pc[fd] = "catchDEAL"
      <4>1. out[fd].kind = "DEAL" /\ out[fd].deal \in 0..di /\ i = 0
        BY <1>3, <3>2 DEF Heard, NextToTell
      <4>2. seen'[fd] = [deal |-> out[fd].deal, taken |-> 0]
        BY <2>2, <4>1 DEF Hear
      <4> HIDE DEF i, k
      <4>3. QED
        BY <2>1, <3>1, <4>1, <4>2 DEF Given
    <3>3. CASE pc[fd] = "catchTAKEN"
      <4>1. /\ seen[fd] \in [deal : 0..di, taken : Nat] /\ out[fd].kind = "TAKEN"
            /\ Given(fd) => /\ seen[fd].taken = ti[fd] /\ seen[fd].taken < k
                            /\ out[fd].trick = seen[fd].taken + 1
        BY <1>3, <3>3 DEF Heard, HeardTricks
      <4>2. i = ti[fd] + 1
        BY <3>3 DEF NextToTell
      <4>3. /\ seen'[fd] \in [deal : 0..di, taken : Nat] /\ seen'[fd].deal = seen[fd].deal
            /\ out[fd].trick = seen[fd].taken + 1 => seen'[fd].taken = seen[fd].taken + 1
        BY <2>2, <4>1 DEF Hear
      <4>4. QED
        BY <2>1, <3>1, <4>1, <4>2, <4>3 DEF Given
    <3>4. QED
      BY <2>1, <3>2, <3>3
  <2> HIDE DEF i, k
  <2>5. /\ di' = di /\ dealPc' = dealPc /\ Len(deal'.tricksTaken) = k
        /\ dealPc # "TAKEN"
    BY <1>1, <2>2 DEF SameTable, k, DealSends
  <2>6. CASE i < k /\ pc'[fd] = "catchTAKEN"
    BY <2>3, <2>4, <2>5, <2>6, PlacesSeated DEF Heard, HeardTricks, Message
  <2>7. CASE ~(i < k) /\ pc'[fd] \in {"catchTRICK", "recvTRICK"}
    BY <2>4, <2>5, <2>7, PlacesSeated DEF Heard, HeardTricks
  <2>8. QED
    BY <2>3, <2>6, <2>7
<1>10. ASSUME CaughtUp(fd) PROVE Heard(fd)'
  <2>1. /\ pc[fd] \in CatchingUp /\ pc[fd] = "catchTRICK" /\ Delivers(fd)
        /\ pc'[fd] = "recvTRICK"
    BY <1>0, <1>10, PlacesSeated DEF CaughtUp, GoesTo
  <2>2. seen'[fd] = seen[fd] /\ dealPc \notin DealSends
    BY <1>4, <1>5, <2>1, Hearing DEF SendHeld
  <2>3. QED
    BY <1>1, <1>3, <2>1, <2>2, PlacesSeated
    DEF Heard, HeardTricks, Given, SameTable, DealSends
<1>11. ASSUME RecvTRICK(fd) \/ RecvTRICKFails(fd) \/ SpoiltTRICK(fd) PROVE Heard(fd)'
  BY <1>0, <1>1, <1>3, <1>11, MovingKeepsHeard, PlacesSeated
  DEF RecvTRICK, RecvTRICKFails, SpoiltTRICK, MayHandle, GoesTo
<1>12. ASSUME NEW trick, NEW card, HandleTRICK(fd, trick, card) PROVE Heard(fd)'
  BY <1>0, <1>1, <1>3, <1>12, MovingKeepsHeard, PlacesSeated
  DEF HandleTRICK, MayHandle, GoesTo
<1>13. ASSUME NEW trick, NEW card, RefuseTRICK(fd, trick, card) PROVE Heard(fd)'
  BY <1>0, <1>1, <1>3, <1>13, MovingKeepsHeard, PlacesSeated
  DEF RefuseTRICK, MayHandle, Sends, GoesTo
<1>14. ASSUME WrongSent(fd) PROVE Heard(fd)'
  <2>1. /\ pc[fd] = "WRONG" /\ pc'[fd] \in {"recvTRICK", "failed"} /\ UNCHANGED seat
        /\ Delivers(fd) \/ UNCHANGED seen
    BY <1>0, <1>14 DEF WrongSent, GoesTo, Breaks
  <2>2. seen'[fd] = seen[fd]
    BY <1>5, <2>1, Hearing DEF SendHeld
  <2>3. QED
    BY <1>1, <1>3, <2>1, <2>2, MovingKeepsHeard, PlacesSeated
<1>15. ASSUME Blocks(fd) PROVE Heard(fd)'
  BY <1>15 DEF Blocks
<1>16. Heard(fd)'
  BY <1>6, <1>7, <1>8, <1>9, <1>10, <1>11, <1>12, <1>13, <1>14, <1>15 DEF PlayerStep
<1>17. QED
  BY <1>2, <1>16 DEF AllHeard

\* dealThread tells of a deal or of a trick a client at the table that it has not
\* passed.
LEMMA SeatToTell ==
  ASSUME SendHeld, MtxHeld, OutInv, OwnInv, LoopInv, BoundType, NEW fd \in Fds, Heard(fd),
         dealPc \in {"DEAL", "TAKEN"}, Delivers(DealThread), out[DealThread].to = fd
  PROVE  /\ it # End
         /\ out[DealThread] = Message(dealPc, playerFds[KeyOrder[it]],
                                      IF dealPc = "TAKEN" THEN deal.currentTrick ELSE 0)
         /\ pc[fd] \in Seated \ CatchingUp
         /\ seat[fd] = KeyOrder[it] /\ ~Passed(fd)
<1> DEFINE m == out[DealThread]
<1>1. m # Nothing /\ m.to \notin disconnected
  BY DEF Delivers
<1>2. /\ it # End
      /\ m = Message(dealPc, playerFds[KeyOrder[it]],
                     IF dealPc = "TAKEN" THEN deal.currentTrick ELSE 0)
  BY <1>1 DEF SendHeld
<1>3. pc[fd] \notin CatchingUp
  BY PlacesSending, Descriptors DEF MtxHeld, DealSends
<1>4. pc[fd] \in Seated \ CatchingUp /\ pc[fd] # "done"
  <2>1. pc[fd] \in Seated \cup {"done"}
    BY DEF OutInv
  <2>2. pc[fd] # "done"
    BY <1>1 DEF Heard
  <2>3. QED
    BY <1>3, <2>1, <2>2
<1>5. KeyOrder[it] \in DOMAIN playerFds /\ playerFds[KeyOrder[it]] = fd
  BY <1>1, <1>2 DEF LoopInv, IteratorValid
<1>6. seat[fd] = KeyOrder[it]
  BY <1>4, <1>5 DEF OwnInv
<1>7. it \in DOMAIN KeyOrder /\ DOMAIN KeyOrder \subseteq Int
  BY <1>2, KeyPlaces DEF BoundType, End
<1>8. ~Passed(fd)
  BY <1>6, <1>7, KeyOnce DEF Passed
<1>9. QED
  BY <1>2, <1>4, <1>6, <1>8

\* dealThread tells of a deal and of a trick each client at the table once.
LEMMA HeardDealStep ==
  ASSUME AllHeard, NumberInv, SendHeld, MtxHeld, OutInv, OwnInv, SeatInv, LoopInv, ConnInv,
         EntryInv, TableInv, BoundType, DealStep, blocks' = blocks, blocks \in Nat
  PROVE  AllHeard'
<1>0. /\ UNCHANGED <<pc, seat, ti, di, disconnected>> /\ it \in Int
      /\ \A fd \in Fds : out'[fd] = out[fd]
  <2>1. UNCHANGED <<pc, seat, ti, di, disconnected>>
    BY DEF DealStep, DealReady, Broadcast, BroadcastFails, Blocks, BeginTurn, AskSent,
       Timeout, Answered, Resume, EndTrick, EndDeal
  <2>2. QED
    BY <2>1, DealStepOut DEF LoopInv
<1> SUFFICES ASSUME NEW fd \in Fds PROVE Heard(fd)'
  BY DEF AllHeard
<1>1. Heard(fd)
  BY DEF AllHeard
<1>4. di > 0 => /\ Len(deal.tricksTaken) = deal.currentTrick - 1
                /\ deal.currentTrick \in Nat /\ Len(deal.tricksTaken) \in Nat /\ IsDeal(deal)
  BY DealNumbers DEF NumberInv, TableInv, GameInv
<1>5. ASSUME seen'[fd] = seen[fd], Given(fd) => HeardTricks(fd)'
      PROVE  Heard(fd)'
  BY <1>0, <1>1, <1>5 DEF Heard, Given
<1> DEFINE k == Len(deal.tricksTaken)
           n == seen[fd].taken
\* The deal stays, and no trick is being told, or the telling begins.
<1>6. ASSUME seen'[fd] = seen[fd], Len(deal'.tricksTaken) = k, dealPc \in InLoop,
             \/ dealPc' \in InLoop
             \/ dealPc' = "TAKEN" /\ it' = Following(0)
      PROVE  Heard(fd)'
  <2>1. dealPc # "TAKEN"
    BY <1>6 DEF InLoop
  <2>2. ASSUME pc[fd] \in Seated, dealPc' = "TAKEN" PROVE ~Passed(fd)'
    <3>1. it' = Following(0)
      BY <1>6, <2>2 DEF InLoop
    <3>2. QED
      BY <1>0, <2>2, <3>1, Passing
  <2>3. ASSUME Given(fd) PROVE HeardTricks(fd)'
    <3>1. HeardTricks(fd)
      BY <1>1, <2>3 DEF Heard
    <3>2. QED
      BY <1>0, <1>6, <2>1, <2>2, <3>1 DEF HeardTricks
  <2>4. QED
    BY <1>5, <1>6, <2>3
\* The deal is over for the clients.
<1>7. ASSUME seen'[fd] = seen[fd], dealPc' \in {"SCORE", "TOTAL", "done"},
             dealPc \in {"TAKEN", "SCORE", "TOTAL"},
             \/ Len(deal'.tricksTaken) = k /\ dealPc # "TAKEN"
             \/ Len(deal'.tricksTaken) = k + 1
      PROVE  Heard(fd)'
  <2>1. pc[fd] \notin CatchingUp
    BY <1>7, PlacesSending, Descriptors DEF MtxHeld, DealSends
  <2>2. pc[fd] \notin {"catchTAKEN", "catchTRICK"}
    BY <2>1, PlacesSeated
  <2>3. ASSUME Given(fd) PROVE HeardTricks(fd)'
    <3>1. HeardTricks(fd) /\ n \in Nat /\ k \in Nat
      BY <1>1, <1>4, <2>3 DEF Heard, Given
    <3>2. n <= Len(deal'.tricksTaken)
      BY <1>7, <3>1 DEF HeardTricks
    <3>3. dealPc' \notin InLoop /\ dealPc' # "TAKEN"
      BY <1>7 DEF InLoop
    <3>4. QED
      BY <1>0, <1>7, <2>2, <3>2, <3>3 DEF HeardTricks
  <2>4. QED
    BY <1>5, <1>7, <2>3
<1>8. ASSUME TurnOver, dealPc \in {"suspended", "TRICK", "await"}, seen'[fd] = seen[fd]
      PROVE  Heard(fd)'
  <2>1. Len(deal'.tricksTaken) = k
    BY <1>4, <1>8, DealNumbers DEF TurnOver, TableInv
  <2>2. \/ dealPc' = "TAKEN" /\ it' = Following(0)
        \/ dealPc' = "turn"
    BY <1>8 DEF TurnOver, SendTo
  <2>3. QED
    BY <1>6, <1>8, <2>1, <2>2 DEF InLoop
<1>9. CASE BroadcastFails
  BY <1>0, <1>1, <1>9, ElsewhereKeepsHeard DEF BroadcastFails, Breaks, SameTable
<1>10. CASE Blocks(DealThread)
  BY <1>10 DEF Blocks
<1>11. CASE DealReady
  BY <1>6, <1>11 DEF DealReady, SendTo, InLoop
<1>12. CASE Broadcast
  <2> DEFINE m == out[DealThread]
  <2>1. /\ m # Nothing /\ m.kind = dealPc /\ m.to \notin disconnected /\ UNCHANGED deal
        /\ dealPc \in {"DEAL", "TAKEN", "SCORE", "TOTAL"}
        /\ seen'[fd] = IF m.to = fd THEN Hear(seen[fd], m) ELSE seen[fd]
    BY <1>12 DEF Broadcast, Delivers, OutInv
  <2>2. CASE dealPc \in {"SCORE", "TOTAL"}
    <3>1. seen'[fd] = seen[fd]
      BY <2>1, <2>2 DEF Hear
    <3>2. dealPc' \in {"SCORE", "TOTAL"}
      BY <1>12, <2>2 DEF Broadcast, SendTo
    <3>3. QED
      BY <1>7, <2>1, <2>2, <3>1, <3>2
  <2>3. CASE dealPc \in {"DEAL", "TAKEN"}
    <3>1. /\ dealPc' = dealPc /\ it' = Following(it) /\ it # End
          /\ m = Message(dealPc, playerFds[KeyOrder[it]],
                         IF dealPc = "TAKEN" THEN deal.currentTrick ELSE 0)
      BY <1>12, <2>1, <2>3 DEF Broadcast, SendTo, SendHeld
    <3>2. m.to = playerFds[KeyOrder[it]]
      BY <3>1 DEF Message
    <3>3. pc[fd] \notin CatchingUp /\ pc[fd] \notin {"catchDEAL", "catchTAKEN", "catchTRICK"}
      <4>1. pc[fd] \notin CatchingUp
        BY <2>3, PlacesSending, Descriptors DEF MtxHeld, DealSends
      <4>2. QED
        BY <4>1, PlacesSeated
    <3>4. m.to = fd => /\ pc[fd] \in Seated \ CatchingUp /\ pc[fd] # "done"
                       /\ seat[fd] = KeyOrder[it] /\ ~Passed(fd)
      <4>1. Delivers(DealThread)
        BY <1>12 DEF Broadcast
      <4>2. m.to = fd => pc[fd] # "done"
        BY <1>1, <2>1 DEF Heard
      <4>3. QED
        BY <1>1, <2>3, <4>1, <4>2, SeatToTell
    <3>5. it \in DOMAIN KeyOrder /\ DOMAIN KeyOrder \subseteq Int /\ End \in Int
      BY <3>1, KeyPlaces DEF BoundType, End
    <3>7. pc[fd] \in Seated => (Passed(fd)' <=> Passed(fd) \/ m.to = fd)
      <4>1. pc[fd] \in Seated /\ Passed(fd)' => Passed(fd) \/ m.to = fd
        BY <1>0, <3>1, <3>2, Passing
      <4>2. it' > it /\ it' \in Int
        <5>1. it \in 1..End /\ it # End
          BY <3>1 DEF BoundType
        <5>2. it \in Int /\ it >= 0 /\ it < End
          BY <3>5, <5>1
        <5>3. Following(it) \in 1..End /\ Following(it) > it
          BY <5>2, FollowingType
        <5>4. QED
          BY <3>1, <3>5, <5>3
      <4>3. Passed(fd) \/ m.to = fd => Passed(fd)'
        BY <1>0, <3>5, <3>4, <4>2 DEF Passed
      <4>4. QED
        BY <4>1, <4>3
    <3> HIDE DEF m
    <3>8. CASE dealPc = "DEAL"
      <4>1. k = 0 /\ di > 0
        BY <1>4, <3>8 DEF NumberInv, TableInv
      <4>2. m.to = fd => seen'[fd] = Seen(0)
        BY <2>1, <3>1, <3>8, Hearing
      <4>3. dealPc' \in InLoop /\ dealPc' # "TAKEN" /\ Len(deal'.tricksTaken) = k
        BY <2>1, <3>1, <3>8 DEF InLoop
      <4>4. CASE m.to = fd
        <5>1. Heard(fd)' <=> (Given(fd)' => HeardTricks(fd)')
          BY <1>0, <1>1, <3>3, <3>4, <4>2, <4>4 DEF Heard, Seen, TableInv
        <5>2. HeardTricks(fd)'
          BY <1>0, <3>3, <4>1, <4>2, <4>3, <4>4 DEF HeardTricks, Seen
        <5>3. QED
          BY <5>1, <5>2
      <4>5. CASE m.to # fd
        BY <1>6, <2>1, <3>8, <4>3, <4>5 DEF InLoop
      <4>6. QED
        BY <4>4, <4>5
    <3>9. CASE dealPc = "TAKEN"
      <4>1. k \in Nat /\ deal.currentTrick = k + 1 /\ Len(deal'.tricksTaken) = k
            /\ dealPc' = "TAKEN" /\ dealPc' \notin InLoop
        BY <1>4, <2>1, <3>1, <3>9 DEF TableInv, InLoop
      <4>2. seen[fd] \in [deal : 0..di, taken : Nat]
        BY <1>1 DEF Heard
      <4>3. m.to = fd /\ Given(fd) => n = k
        BY <1>1, <3>4, <3>9 DEF Heard, HeardTricks
      <4>4. /\ seen'[fd] \in [deal : 0..di, taken : Nat] /\ seen'[fd].deal = seen[fd].deal
            /\ Given(fd) => seen'[fd].taken = IF m.to = fd THEN k + 1 ELSE n
        <5>1. m.kind = "TAKEN" /\ (m.to = fd => m.trick = k + 1)
          BY <3>1, <3>9, <4>1 DEF Message
        <5>2. CASE m.to = fd
          <6>1. seen'[fd] = IF m.trick = n + 1 THEN [seen[fd] EXCEPT !.taken = @ + 1]
                                               ELSE seen[fd]
            BY <2>1, <5>1, <5>2 DEF Hear
          <6>2. QED
            BY <4>1, <4>2, <4>3, <5>1, <5>2, <6>1
        <5>3. CASE m.to # fd
          BY <2>1, <4>2, <5>3
        <5>4. QED
          BY <5>2, <5>3
      <4>5. ASSUME Given(fd) PROVE HeardTricks(fd)'
        <5>1. HeardTricks(fd)
          BY <1>1, <4>5 DEF Heard
        <5>2. /\ n <= k \/ n = k + 1
              /\ pc[fd] \in Seated \ CatchingUp => n = IF Passed(fd) THEN k + 1 ELSE k
          BY <3>9, <5>1 DEF HeardTricks
        <5>3. QED
          BY <1>0, <3>3, <3>7, <4>1, <4>4, <4>5, <5>2 DEF HeardTricks
      <4>6. QED
        BY <1>0, <1>1, <4>4, <4>5 DEF Heard, Given
    <3>10. QED
      BY <2>3, <3>8, <3>9
  <2>4. QED
    BY <2>1, <2>2, <2>3
<1>13. CASE BeginTurn
  BY <1>6, <1>13 DEF BeginTurn, Ask, InLoop
<1>14. CASE AskSent
  <2>1. dealPc = "TRICK" /\ (Delivers(DealThread) \/ UNCHANGED seen)
    BY <1>14 DEF AskSent, Breaks
  <2>2. seen'[fd] = seen[fd]
    BY <2>1, Hearing DEF Delivers, SendHeld
  <2>3. CASE TurnOver
    BY <1>8, <2>1, <2>2, <2>3
  <2>4. CASE dealPc' = "await" /\ UNCHANGED deal
    BY <1>6, <2>1, <2>2, <2>4 DEF InLoop
  <2>5. QED
    BY <1>14, <2>3, <2>4 DEF AskSent
<1>15. CASE Timeout
  BY <1>6, <1>15 DEF Timeout, InLoop
<1>16. CASE Answered
  BY <1>8, <1>16 DEF Answered
<1>17. CASE Resume
  BY <1>6, <1>8, <1>17 DEF Resume, Ask, InLoop
<1>18. CASE EndTrick
  <2>1. dealPc = "TAKEN" /\ it = End /\ UNCHANGED seen /\ di > 0
    BY <1>18 DEF EndTrick, TableInv
  <2>2. Len(NextTrick(deal).tricksTaken) = k + 1
    BY <1>4, <2>1, DealNumbers
  <2>3. CASE dealPc' = "SCORE" /\ deal'.tricksTaken = NextTrick(deal).tricksTaken
    BY <1>7, <2>1, <2>2, <2>3
  <2>4. CASE dealPc' = "turn" /\ deal' = NextTrick(deal)
    <3>1. pc[fd] \notin {"catchTAKEN", "catchTRICK"} /\ pc[fd] \notin CatchingUp
      <4>1. pc[fd] \notin CatchingUp
        BY <2>1, PlacesSending, Descriptors DEF MtxHeld, DealSends
      <4>2. QED
        BY <4>1, PlacesSeated
    <3>2. pc[fd] \in Seated => Passed(fd)
      BY <1>0, <2>1, Passing
    <3>3. ASSUME Given(fd) PROVE HeardTricks(fd)'
      <4>1. HeardTricks(fd)
        BY <1>1, <3>3 DEF Heard
      <4>2. k \in Nat /\ n \in Nat /\ Len(deal'.tricksTaken) = k + 1
        BY <1>1, <1>4, <2>1, <2>2, <2>4 DEF Heard
      <4>3. n <= k + 1 /\ (pc[fd] \in Seated \ CatchingUp => n = k + 1)
        BY <2>1, <3>2, <4>1, <4>2 DEF HeardTricks
      <4>4. QED
        BY <1>0, <2>1, <2>4, <3>1, <4>2, <4>3 DEF HeardTricks
    <3>4. QED
      BY <1>5, <2>1, <3>3
  <2>5. QED
    <3>1. dealPc' = "SCORE" => deal'.tricksTaken = NextTrick(deal).tricksTaken
      BY <1>4, <1>18, <2>1 DEF EndTrick, SendTo, NextTrick, TakeTrick, ClearTable, IsDeal
    <3>2. dealPc' = "SCORE" \/ (dealPc' = "turn" /\ deal' = NextTrick(deal))
      BY <1>18 DEF EndTrick, SendTo
    <3>3. QED
      BY <2>3, <2>4, <3>1, <3>2
<1>19. CASE EndDeal
  BY <1>7, <1>19 DEF EndDeal
<1>20. QED
  BY <1>9, <1>10, <1>11, <1>12, <1>13, <1>14, <1>15, <1>16, <1>17, <1>18, <1>19 DEF DealStep

\* What the server keeps of what its clients were told.
ToldServer ==
  NumberInv /\ FieldsInv /\ BoundType /\ MtxInv /\ SendInv /\ FileInv /\ AllHeard

\* No write blocks in the system.
LEMMA NoneBlocks ==
  ASSUME ToldServer
  PROVE  blocks = 0 /\ MtxHeld /\ SendHeld
<1>1. blocks = 0
  BY SystemAssumption DEF ToldServer, BoundType
<1>2. QED
  BY <1>1 DEF ToldServer, MtxInv, SendInv

\* Nobody has been told of anything at first.
LEMMA ToldServerStart == Init => ToldServer
<1> SUFFICES ASSUME Init PROVE ToldServer
  OBVIOUS
<1>1. TypesInv /\ InformedInv
  BY TypesInit, InformedInit
<1>2. di = 0 /\ dealPc = "done" /\ \A fd \in Fds : pc[fd] = "none" /\ seen[fd] = Ignorant
  BY DEF Init
<1>3. FileInv
  BY <1>2 DEF FileInv, InLoop
<1>4. AllHeard
  BY <1>2 DEF AllHeard, Heard, Given, Ignorant
<1>5. QED
  BY <1>1, <1>3, <1>4 DEF ToldServer, InformedInv, SeatsInv, TypesInv

\* Every step of the server.
LEMMA ToldServerNext == ToldServer /\ ServerInv /\ [Next]_vars => ToldServer'
<1> SUFFICES ASSUME ToldServer, ServerInv, [Next]_vars PROVE ToldServer'
  OBVIOUS
<1>1. /\ NumberInv /\ FieldsInv /\ BoundType /\ MtxInv /\ SendInv /\ FileInv /\ AllHeard
      /\ LoopInv /\ SeatInv /\ EntryInv /\ TableInv /\ ConnInv /\ OwnInv /\ DealInv /\ OutInv
  BY DEF ToldServer, ServerInv, CardInv
<1>2. NumberInv' /\ FieldsInv' /\ BoundType' /\ MtxInv' /\ SendInv' /\ FileInv'
  BY <1>1, NumberStep, FieldsStep, BoundStep, MtxStep, SendStep, FileStep
<1>3. blocks \in Nat /\ blocks' = blocks /\ MtxHeld /\ SendHeld
  <2>1. blocks' = 0
    BY <1>2, SystemAssumption DEF BoundType
  <2>2. QED
    BY <2>1, NoneBlocks
<1> SUFFICES AllHeard'
  BY <1>2 DEF ToldServer
<1>4. ASSUME SameTable, UNCHANGED <<seat, ti, out, seen>>, disconnected \subseteq disconnected',
             \A fd \in Fds : pc'[fd] = pc[fd]
      PROVE  AllHeard'
  BY <1>1, <1>4, ElsewhereKeepsHeard DEF AllHeard
<1>5. CASE NextDeal
  <2>1. di' = di + 1 /\ di \in Nat /\ UNCHANGED <<pc, seat, ti, out, seen, disconnected>>
    BY <1>1, <1>5 DEF NextDeal, TableInv
  <2>2. ASSUME NEW fd \in Fds PROVE Heard(fd)'
    <3>1. Heard(fd)
      BY <1>1 DEF AllHeard
    <3>2. ~Given(fd)'
      BY <2>1, <3>1 DEF Heard, Given
    <3>3. QED
      BY <2>1, <3>1, <3>2 DEF Heard
  <2>3. QED
    BY <2>2 DEF AllHeard
<1>6. CASE MainStep /\ ~NextDeal
  BY <1>4, <1>6
  DEF MainStep, JoinDeal, EndGame, StopAccepting, DisconnectAll, JoinClients, SameTable
<1>7. CASE Accept
  <2>1. PICK n \in Nat : /\ clients \ {Stdin} = 5..(4 + n)
                         /\ pc' = [pc EXCEPT ![5 + n] = "recvIAM"]
    BY <1>1, <1>7, AcceptFresh
  <2>2. SameTable /\ UNCHANGED <<seat, ti, out, seen, disconnected, di>>
    BY <1>7 DEF Accept, SameTable
  <2>3. ASSUME NEW fd \in Fds PROVE Heard(fd)'
    <3>1. Heard(fd) /\ pc \in [Fds -> Places]
      BY <1>1 DEF AllHeard, SeatInv
    <3>2. CASE fd = 5 + n
      <4>1. fd \notin clients
        BY <2>1, <3>2, Descriptors
      <4>2. pc[fd] = "none" /\ pc'[fd] = "recvIAM"
        BY <1>1, <2>1, <3>1, <3>2, <4>1 DEF ConnInv
      <4>3. seen'[fd] \in [deal : {0}, taken : Nat] /\ di' \in Nat
        BY <1>1, <2>2, <3>1, <4>2, PlacesSeated DEF Heard, TableInv
      <4>4. QED
        BY <4>2, <4>3, IgnorantHeard
    <3>3. CASE fd # 5 + n
      BY <2>1, <2>2, <3>1, <3>3, ElsewhereKeepsHeard
    <3>4. QED
      BY <3>2, <3>3
  <2>4. QED
    BY <2>3 DEF AllHeard
<1>8. CASE PollIn \/ PollHup \/ AcceptFails
  BY <1>4, <1>8 DEF PollIn, PollHup, AcceptFails, SameTable
<1>9. CASE \E fd \in Fds : ClientCloses(fd)
  BY <1>4, <1>9 DEF ClientCloses, SameTable
<1>10. CASE UNCHANGED vars
  BY <1>4, <1>10 DEF vars, SameTable
<1>11. CASE DealStep
  BY <1>1, <1>3, <1>11, HeardDealStep
<1>12. ASSUME NEW fd \in Fds, PlayerStep(fd) PROVE AllHeard'
  BY <1>1, <1>3, <1>12, HeardPlayerStep
<1>13. QED
  BY <1>5, <1>6, <1>7, <1>8, <1>9, <1>10, <1>11, <1>12 DEF Next, AcceptStep
-----------------------------------------------------------------------------
\* What the server says of the tricks, from one step to the next.

\* The cards on the table with the seat that takes them.
OnTable == [cards |-> deal.cardsOnTable, seat |-> deal.highestPlayer]
ToldTrick == [cards : Seq(Card), seat : Seats \cup {NoSeat}]

\* The first elements of a sequence stay when it grows.
LEMMA FirstOnes ==
  ASSUME NEW S, NEW T \in Seq(S), NEW x \in S, NEW n \in 0..Len(T) + 1
  PROVE  LET p == SubSeq(Append(T, x), 1, n) IN
         /\ p \in Seq(S) /\ Len(p) = n
         /\ \A i \in 1..n : p[i] = Append(T, x)[i]
         /\ n <= Len(T) => p = SubSeq(T, 1, n)
         /\ n <= Len(T) =>
              SubSeq(Append(T, x), 1, n + 1) = Append(p, Append(T, x)[n + 1])
<1> DEFINE A == Append(T, x)
           p == SubSeq(A, 1, n)
<1>1. Len(T) \in Nat /\ A \in Seq(S) /\ Len(A) = Len(T) + 1 /\ n \in Nat
  BY LenProperties, AppendProperties
<1>2. \A i \in 1..Len(T) + 1 : A[i] \in S
  BY <1>1, ElementOfSeq
<1> HIDE DEF A
<1>3. ASSUME NEW q, q \in Seq(S), NEW j \in Int, 0 <= j, j <= Len(q)
      PROVE  /\ SubSeq(q, 1, j) \in Seq(S) /\ Len(SubSeq(q, 1, j)) = j
             /\ \A i \in 1..j : SubSeq(q, 1, j)[i] = q[i]
  <2>1. \A i \in 1..j : q[i] \in S
    BY <1>3, ElementOfSeq, LenProperties
  <2>2. /\ SubSeq(q, 1, j) \in Seq(S)
        /\ Len(SubSeq(q, 1, j)) = IF 1 <= j THEN j - 1 + 1 ELSE 0
        /\ \A i \in 1..j - 1 + 1 : SubSeq(q, 1, j)[i] = q[1 + i - 1]
    BY <2>1, SubSeqProperties
  <2>3. QED
    BY <1>3, <2>2
<1>4. p \in Seq(S) /\ Len(p) = n /\ \A i \in 1..n : p[i] = A[i]
  BY <1>1, <1>3
<1>5. ASSUME n <= Len(T)
      PROVE  p = SubSeq(T, 1, n)
  <2>1. /\ SubSeq(T, 1, n) \in Seq(S) /\ Len(SubSeq(T, 1, n)) = n
        /\ \A i \in 1..n : SubSeq(T, 1, n)[i] = T[i]
    BY <1>1, <1>3, <1>5
  <2>2. \A i \in 1..n : A[i] = T[i]
    BY <1>1, <1>5, AppendProperties DEF A
  <2>3. \A i \in 1..n : p[i] = SubSeq(T, 1, n)[i]
    BY <1>4, <2>1, <2>2
  <2> HIDE DEF p
  <2>4. QED
    BY <1>4, <2>1, <2>3, SeqEqual
<1>6. ASSUME n <= Len(T)
      PROVE  SubSeq(A, 1, n + 1) = Append(p, A[n + 1])
  <2> DEFINE l == SubSeq(A, 1, n + 1)
             r == Append(p, A[n + 1])
  <2>1. l \in Seq(S) /\ Len(l) = n + 1 /\ \A i \in 1..n + 1 : l[i] = A[i]
    BY <1>1, <1>3, <1>6
  <2>2. A[n + 1] \in S
    BY <1>1, <1>2, <1>6
  <2>3. /\ r \in Seq(S) /\ Len(r) = n + 1 /\ r[n + 1] = A[n + 1]
        /\ \A i \in 1..n : r[i] = p[i]
    BY <1>4, <2>2, AppendProperties
  <2> HIDE DEF l, r, p
  <2>4. \A i \in 1..n + 1 : l[i] = r[i]
    BY <1>1, <1>4, <2>1, <2>3
  <2>5. l = r
    BY <2>1, <2>3, <2>4, SeqEqual
  <2>6. QED
    BY <2>5 DEF l, r
<1>7. QED
  BY <1>4, <1>5, <1>6 DEF A

\* What a step of the server does to the tricks while a deal lasts: the cards on
\* the table change before the trick is told of, or the trick is over.
LEMMA DealMoves ==
  ASSUME TableInv, MtxHeld, [Next]_vars, di > 0, di' = di
  PROVE  \/ /\ deal'.tricksTaken = deal.tricksTaken
            /\ deal'.cardsOnTable = deal.cardsOnTable
            /\ deal'.highestPlayer = deal.highestPlayer
         \/ deal'.tricksTaken = deal.tricksTaken /\ dealPc # "TAKEN"
         \/ deal'.tricksTaken = Append(deal.tricksTaken, OnTable)
<1> DEFINE Same == /\ deal'.tricksTaken = deal.tricksTaken
                   /\ deal'.cardsOnTable = deal.cardsOnTable
                   /\ deal'.highestPlayer = deal.highestPlayer
           Earlier == deal'.tricksTaken = deal.tricksTaken /\ dealPc # "TAKEN"
           More == deal'.tricksTaken = Append(deal.tricksTaken, OnTable)
<1> SUFFICES Same \/ Earlier \/ More
  OBVIOUS
<1>1. IsDeal(deal)
  BY DEF TableInv, GameInv
<1>2. ASSUME deal' = NextPlayer(deal) PROVE Same
  BY <1>1, <1>2 DEF NextPlayer, IsDeal
<1>3. UNCHANGED deal => Same
  OBVIOUS
<1>4. CASE MainStep
  <2>1. ~NextDeal
    BY DEF NextDeal, TableInv
  <2>2. UNCHANGED deal
    BY <1>4, <2>1 DEF MainStep, JoinDeal, EndGame, StopAccepting, DisconnectAll, JoinClients
  <2>3. QED
    BY <1>3, <2>2
<1>5. CASE AcceptStep \/ (\E fd \in Fds : ClientCloses(fd)) \/ UNCHANGED vars
  <2>1. UNCHANGED deal
    BY <1>5 DEF AcceptStep, PollIn, PollHup, Accept, AcceptFails, ClientCloses, vars
  <2>2. QED
    BY <1>3, <2>1
<1>6. ASSUME NEW fd \in Fds, PlayerStep(fd) PROVE Same \/ Earlier
  <2>1. CASE \E trick \in 1..LastTrick, card \in Offers : HandleTRICK(fd, trick, card)
    <3>1. dealPc # "TAKEN"
      BY <2>1, Descriptors DEF HandleTRICK, MayHandle, MtxHeld, DealSends
    <3>2. deal'.tricksTaken = deal.tricksTaken
      BY <1>1, <2>1, DealNumbers DEF HandleTRICK
    <3>3. QED
      BY <3>1, <3>2
  <2>2. CASE ~\E trick \in 1..LastTrick, card \in Offers : HandleTRICK(fd, trick, card)
    <3>1. UNCHANGED deal
      BY <1>6, <2>2
      DEF PlayerStep, RecvIAM, RecvIAMFails, HandleIAM, CatchUp, CaughtUp, LeaveIAM,
         RecvTRICK, RecvTRICKFails, RefuseTRICK, SpoiltTRICK, WrongSent, Blocks, Fail
    <3>2. QED
      BY <1>3, <3>1
  <2>3. QED
    BY <2>1, <2>2
<1>7. CASE EndTrick
  <2>1. deal' = NextTrick(deal) \/ \E scores : deal' = [NextTrick(deal) EXCEPT !.scores = scores]
    BY <1>7 DEF EndTrick
  <2>2. NextTrick(deal).tricksTaken = Append(deal.tricksTaken, OnTable)
    BY <1>1, NextTrickFields DEF Takes, OnTable
  <2>3. \A scores :
          [NextTrick(deal) EXCEPT !.scores = scores].tricksTaken = NextTrick(deal).tricksTaken
    BY <1>1 DEF NextTrick, TakeTrick, ClearTable, IsDeal
  <2>4. QED
    BY <2>1, <2>2, <2>3
<1>8. CASE DealStep /\ ~EndTrick
  <2>1. UNCHANGED deal \/ deal' = NextPlayer(deal)
    BY <1>8
    DEF DealStep, DealReady, Broadcast, BroadcastFails, Blocks, BeginTurn, AskSent, Timeout,
       Answered, Resume, EndDeal, TurnOver
  <2>2. QED
    BY <1>2, <1>3, <2>1
<1>9. QED
  BY <1>4, <1>5, <1>6, <1>7, <1>8 DEF Next

\* The tricks a client has been told of are told tricks, as many as it has counted.
LEMMA ToldTricks ==
  ASSUME ServerInv, ToldServer, NEW fd \in Fds, Given(fd)
  PROVE  LET n == seen[fd].taken
             k == Len(deal.tricksTaken)
         IN  /\ k \in Nat /\ n \in 0..k + 1 /\ n <= LastTrick
             /\ dealPc # "TAKEN" => n <= k
             /\ deal.tricksTaken \in Seq(ToldTrick) /\ OnTable \in ToldTrick
             /\ IsTold(Told(fd)) /\ Len(Told(fd)) = n
<1> DEFINE n == seen[fd].taken
           k == Len(deal.tricksTaken)
<1>1. /\ TableInv /\ NumberInv /\ FileInv /\ Heard(fd) /\ di > 0
  BY DEF ServerInv, CardInv, ToldServer, AllHeard, Given
<1>2. IsDeal(deal)
  BY <1>1 DEF TableInv, GameInv
<1>3. deal.tricksTaken \in Seq(TrickTaken) /\ k \in Nat /\ deal.currentTrick = k + 1
  BY <1>1, <1>2, DealNumbers DEF NumberInv, IsDeal
<1>4. /\ n \in Nat
      /\ n <= k \/ (dealPc = "TAKEN" /\ n = k + 1)
      /\ k <= LastTrick /\ (dealPc = "TAKEN" => k + 1 <= LastTrick)
  BY <1>1, <1>3 DEF Heard, HeardTricks, FileInv
<1>5. deal.tricksTaken \in Seq(ToldTrick)
  <2>1. TrickTaken \subseteq ToldTrick
    BY DEF TrickTaken, ToldTrick
  <2>2. QED
    BY <1>3, <2>1
<1>6. OnTable \in ToldTrick
  BY <1>2 DEF OnTable, ToldTrick, IsDeal
<1>7. Told(fd) = SubSeq(Append(deal.tricksTaken, OnTable), 1, n)
  BY DEF Told, OnTable
<1>8. Told(fd) \in Seq(ToldTrick) /\ Len(Told(fd)) = n
  BY <1>3, <1>4, <1>5, <1>6, <1>7, FirstOnes
<1>9. IsTold(Told(fd))
  BY <1>8 DEF IsTold, ToldTrick
<1> HIDE DEF n, k
<1>10. LastTrick \in Nat
  BY CardsAssumption, ServerAssumption
<1>11. n \in 0..k + 1 /\ n <= LastTrick /\ (dealPc # "TAKEN" => n <= k)
  BY <1>3, <1>4, <1>10
<1>12. QED
  BY <1>3, <1>5, <1>6, <1>8, <1>9, <1>11 DEF n, k

\* What a client has been told of the tricks stays true.
LEMMA ToldStays ==
  ASSUME ServerInv, ToldServer, [Next]_vars, NEW fd \in Fds, Given(fd), di' = di,
         seen'[fd] = seen[fd], deal'.tricksTaken \in Seq(ToldTrick), OnTable' \in ToldTrick
  PROVE  Told(fd)' = Told(fd)
<1> DEFINE n == seen[fd].taken
           k == Len(deal.tricksTaken)
           First(T, x) == SubSeq(Append(T, x), 1, n)
<1>1. /\ k \in Nat /\ n \in 0..k + 1 /\ (dealPc # "TAKEN" => n <= k)
      /\ deal.tricksTaken \in Seq(ToldTrick) /\ OnTable \in ToldTrick
  BY ToldTricks
<1>2. /\ Told(fd) = First(deal.tricksTaken, OnTable)
      /\ Told(fd)' = First(deal'.tricksTaken, OnTable')
  BY DEF Told, OnTable
<1>3. TableInv /\ MtxHeld /\ di > 0
  BY NoneBlocks DEF ServerInv, CardInv, Given
<1>4. CASE /\ deal'.tricksTaken = deal.tricksTaken
           /\ deal'.cardsOnTable = deal.cardsOnTable
           /\ deal'.highestPlayer = deal.highestPlayer
  BY <1>2, <1>4 DEF OnTable
<1>5. CASE deal'.tricksTaken = deal.tricksTaken /\ dealPc # "TAKEN"
  <2>1. First(deal.tricksTaken, OnTable) = SubSeq(deal.tricksTaken, 1, n)
    BY <1>1, <1>5, FirstOnes
  <2>2. First(deal.tricksTaken, OnTable') = SubSeq(deal.tricksTaken, 1, n)
    BY <1>1, <1>5, FirstOnes
  <2>3. QED
    BY <1>2, <1>5, <2>1, <2>2
<1>6. CASE deal'.tricksTaken = Append(deal.tricksTaken, OnTable)
  <2> DEFINE A == Append(deal.tricksTaken, OnTable)
  <2>1. A \in Seq(ToldTrick) /\ Len(A) = k + 1
    BY <1>1, AppendProperties
  <2>2. \A x \in ToldTrick : First(A, x) = SubSeq(A, 1, n)
    <3> HIDE DEF A
    <3>1. QED
      BY <1>1, <2>1, FirstOnes
  <2>3. QED
    BY <1>2, <1>6, <2>2
<1>7. QED
  BY <1>3, <1>4, <1>5, <1>6, DealMoves
-----------------------------------------------------------------------------
\* What comes to a client.

\* A TAKEN that is delivered to a client told of the deal is about the next trick.
LEMMA TrickToTell ==
  ASSUME ServerInv, ToldServer, NEW me \in Senders, Delivers(me), NEW fd \in Fds,
         out[me].to = fd, out[me].kind = "TAKEN", Given(fd)
  PROVE  /\ out[me].trick = seen[fd].taken + 1
         /\ seen[fd].taken \in 0..Len(deal.tricksTaken)
<1>1. /\ Heard(fd) /\ HeardTricks(fd) /\ di > 0 /\ SendHeld /\ MtxHeld
      /\ TableInv /\ NumberInv /\ BoundType /\ OutInv /\ OwnInv /\ LoopInv /\ ConnInv
  BY NoneBlocks DEF ServerInv, CardInv, ToldServer, AllHeard, Given, Heard
<1>2. /\ Len(deal.tricksTaken) \in Nat /\ deal.currentTrick = Len(deal.tricksTaken) + 1
      /\ seen[fd].taken \in Nat
  BY <1>1, DealNumbers DEF TableInv, GameInv, NumberInv, Heard
<1>3. out[me] # Nothing
  BY DEF Delivers
<1>4. CASE me = DealThread
  <2>1. dealPc = "TAKEN"
    BY <1>1, <1>3, <1>4 DEF OutInv
  <2>2. /\ out[me] = Message(dealPc, playerFds[KeyOrder[it]],
                             IF dealPc = "TAKEN" THEN deal.currentTrick ELSE 0)
        /\ pc[fd] \in Seated \ CatchingUp /\ ~Passed(fd)
    BY <1>1, <1>4, <2>1, SeatToTell
  <2>3. out[me].trick = deal.currentTrick
    BY <2>1, <2>2 DEF Message
  <2>4. seen[fd].taken = Len(deal.tricksTaken)
    BY <1>1, <2>1, <2>2 DEF HeardTricks
  <2>5. QED
    BY <1>2, <2>3, <2>4
<1>5. CASE me \in Fds
  <2>1. me = fd
    BY <1>1, <1>3, <1>5 DEF ConnInv
  <2>2. pc[fd] \in CatchingUp
    BY <1>1, <1>3, <1>5, <2>1 DEF OutInv
  <2>3. pc[fd] = "catchTAKEN"
    BY <1>1, <2>1, <2>2 DEF CatchingUp, SendHeld, Heard
  <2>4. QED
    BY <1>1, <1>2, <2>1, <2>3 DEF HeardTricks
<1>6. QED
  BY <1>4, <1>5 DEF Senders

\* The DEAL that is delivered to a client parses.
LEMMA DealToTell ==
  ASSUME ServerInv, ToldServer, NEW me \in Senders, out[me].to \in Fds \ disconnected,
         out[me].kind = "DEAL"
  PROVE  Parses(Content(out[me]))
<1> DEFINE o == out[me]
<1>1. di > 0 /\ \E s \in DOMAIN playerFds : playerFds[s] = o.to
  BY DealAddress
<1> DEFINE s == CHOOSE s \in DOMAIN playerFds : playerFds[s] = o.to
<1>2. s \in Seats
  BY <1>1 DEF ServerInv, CardInv, EntryInv
<1>3. Cardinality(deal.originalHand[s]) = LastTrick
  BY <1>1, <1>2, FileDeals DEF ServerInv, CardInv, ToldServer
<1>4. Content(o).hand = deal.originalHand[s] /\ Content(o).kind = "DEAL"
  BY DEF Content, Blank
<1> HIDE DEF s, o
<1>5. Parses(Content(o))
  BY <1>3, <1>4 DEF Parses
<1>6. QED
  BY <1>5 DEF o

\* What a delivered message is to the client it comes to.
LEMMA MessageShows ==
  ASSUME ServerInv, ToldServer, NEW me \in Senders, Delivers(me), NEW fd \in Fds,
         out[me].to = fd, NEW tricks, NEW q, IsQueue(q),
         Given(fd) => UpToDate(tricks, q, Told(fd), SeatOf[fd]),
         di' = di, deal'.tricksTaken = deal.tricksTaken, OnTable' = OnTable, Given(fd)'
  PROVE  UpToDate(tricks, Append(q, Content(out[me])), Told(fd)', SeatOf[fd])
<1> DEFINE o == out[me]
           m == Content(o)
           told == Append(deal.tricksTaken, OnTable)
           n == seen[fd].taken
<1>1. seen'[fd] = Hear(seen[fd], o) /\ o.to = fd /\ o.to \notin disconnected
  BY DEF Delivers
<1>2. m.kind = o.kind /\ m.trick = o.trick
  BY DEF Content, Blank
<1>3. Told(fd)' = SubSeq(told, 1, seen'[fd].taken)
  BY DEF Told, OnTable
<1>4. CASE o.kind = "DEAL"
  <2>1. seen'[fd].taken = 0
    BY <1>1, <1>4 DEF Hear
  <2>2. Told(fd)' = <<>>
    BY <1>3, <2>1, SubSeqEmpty
  <2>3. Parses(m)
    BY <1>1, <1>4, DealToTell
  <2> HIDE DEF m
  <2>4. UpToDate(tricks, Append(q, m), <<>>, SeatOf[fd])
    BY <1>2, <1>4, <2>3, DealComes
  <2>5. QED
    BY <2>2, <2>4 DEF m
<1>5. CASE o.kind # "DEAL"
  <2>1. seen'[fd].deal = seen[fd].deal
    BY <1>1, <1>5 DEF Hear
  <2>2. Given(fd)
    BY <2>1 DEF Given
  <2>3. /\ Len(deal.tricksTaken) \in Nat /\ n \in Nat
        /\ deal.tricksTaken \in Seq(ToldTrick) /\ OnTable \in ToldTrick
        /\ IsTold(Told(fd)) /\ Len(Told(fd)) = n
    BY <2>2, ToldTricks
  <2>4. Told(fd) = SubSeq(told, 1, n)
    BY DEF Told, OnTable
  <2>5. CASE o.kind = "TAKEN"
    <3>1. o.trick = n + 1 /\ n \in 0..Len(deal.tricksTaken)
      BY <2>2, <2>5, TrickToTell
    <3>2. seen'[fd].taken = n + 1
      <4>1. seen[fd] \in [deal : 0..di, taken : Nat]
        BY DEF ToldServer, AllHeard, Heard
      <4>2. seen'[fd] = [seen[fd] EXCEPT !.taken = @ + 1]
        BY <1>1, <2>5, <3>1 DEF Hear
      <4>3. QED
        BY <4>1, <4>2
    <3> DEFINE x == told[n + 1]
    <3>3. x \in ToldTrick /\ Told(fd)' = Append(Told(fd), x)
      <4>1. SubSeq(told, 1, n + 1) = Append(SubSeq(told, 1, n), x)
        <5> HIDE DEF n
        <5>1. n \in 0..Len(deal.tricksTaken) + 1 /\ n <= Len(deal.tricksTaken)
          BY <2>3, <3>1
        <5>2. QED
          BY <2>3, <5>1, FirstOnes
      <4>2. told \in Seq(ToldTrick) /\ Len(told) = Len(deal.tricksTaken) + 1
        BY <2>3, AppendProperties
      <4>3. x \in ToldTrick
        BY <2>3, <3>1, <4>2, ElementOfSeq
      <4>4. QED
        BY <1>3, <2>4, <3>2, <4>1, <4>3
    <3>4. m.cards = x.cards /\ m.seats = {x.seat}
      <4>1. x = IF n + 1 <= Len(deal.tricksTaken) THEN deal.tricksTaken[n + 1] ELSE OnTable
        BY <2>3, <3>1, AppendProperties
      <4>2. /\ m.cards = IF o.trick <= Len(deal.tricksTaken)
                         THEN deal.tricksTaken[o.trick].cards ELSE deal.cardsOnTable
            /\ m.seats = {IF o.trick <= Len(deal.tricksTaken)
                          THEN deal.tricksTaken[o.trick].seat ELSE deal.highestPlayer}
        BY <2>5 DEF Content, Blank
      <4>3. OnTable.cards = deal.cardsOnTable /\ OnTable.seat = deal.highestPlayer
        BY DEF OnTable
      <4> HIDE DEF x, m, n
      <4>4. QED
        BY <3>1, <4>1, <4>2, <4>3
    <3> HIDE DEF x, m
    <3>5. x \in [cards : Seq(Card), seat : Seats \cup {NoSeat}]
      BY <3>3 DEF ToldTrick
    <3>6. UpToDate(tricks, Append(q, m), Append(Told(fd), x), SeatOf[fd])
      BY <1>2, <2>2, <2>3, <2>5, <3>1, <3>4, <3>5, TrickComes
    <3>7. QED
      BY <3>3, <3>6 DEF m
  <2>6. CASE o.kind # "TAKEN"
    <3>1. seen'[fd] = seen[fd]
      BY <1>1, <1>5, <2>6 DEF Hear
    <3>2. Told(fd)' = Told(fd)
      BY <1>3, <2>4, <3>1
    <3> HIDE DEF m
    <3>3. UpToDate(tricks, Append(q, m), Told(fd), SeatOf[fd])
      BY <1>2, <1>5, <2>2, <2>3, <2>6, OtherComes
    <3>4. QED
      BY <3>2, <3>3 DEF m
  <2>7. QED
    BY <2>5, <2>6
<1>6. QED
  BY <1>4, <1>5
\* What a thread carries to a client that is there.
LEMMA Carried ==
  ASSUME EndsInv, NEW me, Carries(me), NEW fd \in Fds
  PROVE  /\ UNCHANGED <<client, up>>
         /\ fd # out[me].to \/ fd \in closed \cup disconnected => down'[fd] = down[fd]
         /\ fd = out[me].to /\ fd \notin closed \cup disconnected =>
              down'[fd] = Append(down[fd], Content(out[me]))
BY DEF Carries, EndsInv

\* Nothing is sent by a thread that has nothing to send, or to nobody that is there.
LEMMA NothingComes ==
  ASSUME NEW me, Carries(me), out[me].to \notin Fds \ (closed \cup disconnected)
  PROVE  UNCHANGED <<client, down, up>>
BY DEF Carries

\* A step of a server thread, as the client of fd sees it.
Unheard(fd) == client'[fd] = client[fd] /\ down'[fd] = down[fd] /\ seen'[fd] = seen[fd]
HeardOf(fd, me) ==
  /\ client'[fd] = client[fd] /\ down'[fd] = Append(down[fd], Content(out[me]))
  /\ Delivers(me) /\ out[me].to = fd
  /\ di' = di /\ deal' \in {deal, NextPlayer(deal)}
News(fd) == Unheard(fd) \/ \E me \in Senders : HeardOf(fd, me)

\* A message that is delivered is carried to the client, which hears of it.
LEMMA DeliveredNews ==
  ASSUME EndsInv, FieldsInv, NEW me \in Senders, Delivers(me), Carries(me),
         NEW fd \in Fds, fd \notin closed, di' = di, deal' \in {deal, NextPlayer(deal)}
  PROVE  News(fd)
<1>1. /\ out[me].to \notin disconnected
      /\ fd # out[me].to => seen'[fd] = seen[fd]
  BY DEF Delivers, FieldsInv
<1>2. CASE fd = out[me].to
  BY <1>1, <1>2, Carried DEF News, HeardOf
<1>3. CASE fd # out[me].to
  BY <1>1, <1>3, Carried DEF News, Unheard
<1>4. QED
  BY <1>2, <1>3

\* The deal thread's steps.
LEMMA DealNews ==
  ASSUME EndsInv, FieldsInv, OutInv, ServerDeals, NEW fd \in Fds, fd \notin closed
  PROVE  News(fd)
<1>1. CASE AsksAgain
  BY <1>1 DEF AsksAgain, Timeout, ends, News, Unheard
<1>2. CASE /\ DealReady \/ BeginTurn \/ Answered \/ Resume \/ EndTrick \/ EndDeal
           /\ Carries(DealThread)
  <2>1. out[DealThread].to \notin Fds /\ UNCHANGED seen
    <3>1. out[DealThread] = Nothing
      BY <1>2 DEF OutInv, DealReady, BeginTurn, Answered, Resume, EndTrick, EndDeal
    <3>2. QED
      BY <1>2, <3>1, NothingNowhere
      DEF DealReady, BeginTurn, Answered, Resume, EndTrick, EndDeal
  <2>2. QED
    BY <1>2, <2>1, NothingComes DEF News, Unheard
<1>3. CASE Broadcast /\ Carries(DealThread)
  <2>1. Delivers(DealThread) /\ UNCHANGED <<di, deal>>
    BY <1>3 DEF Broadcast
  <2>2. QED
    BY <1>3, <2>1, DeliveredNews DEF Senders
<1>4. ASSUME Breaks(DealThread), Carries(DealThread) PROVE News(fd)
  BY <1>4, Descriptors, NothingComes DEF Breaks, News, Unheard
<1>5. CASE BroadcastFails /\ Carries(DealThread)
  BY <1>4, <1>5 DEF BroadcastFails
<1>6. CASE AskSent /\ Carries(DealThread)
  <2>1. di' = di /\ deal' \in {deal, NextPlayer(deal)}
    BY <1>6 DEF AskSent, TurnOver
  <2>2. CASE Delivers(DealThread)
    BY <1>6, <2>1, <2>2, DeliveredNews DEF Senders
  <2>3. CASE Breaks(DealThread)
    BY <1>4, <1>6, <2>3
  <2>4. QED
    BY <1>6, <2>2, <2>3 DEF AskSent
<1>7. QED
  BY <1>1, <1>2, <1>3, <1>5, <1>6 DEF ServerDeals

\* A player thread's steps; a client whose thread returns counts for nothing.
LEMMA PlayNews ==
  ASSUME EndsInv, FieldsInv, ConnInv, TableInv, NEW f \in Fds, ServerPlays(f),
         NEW fd \in Fds, fd \notin closed, Given(fd)'
  PROVE  News(fd)
<1>1. di' = di
  BY DEF ServerPlays, RecvIAM, RecvIAMFails, HandleIAM, CatchUp, CaughtUp, LeaveIAM, RecvTRICK,
     RecvTRICKFails, HandleTRICK, RefuseTRICK, WrongSent, Fail
<1>2. ASSUME Returns(f) PROVE fd # f /\ seen'[fd] = seen[fd]
  <2>1. seen'[f].deal = 0
    BY <1>2 DEF Returns, FieldsInv, Ignorant
  <2>2. fd # f
    BY <2>1 DEF Given
  <2>3. QED
    BY <1>2, <2>2 DEF Returns, FieldsInv
<1>3. CASE RecvIAMFails(f) /\ UNCHANGED ends
  BY <1>2, <1>3 DEF RecvIAMFails, ends, News, Unheard
<1>4. CASE Fail(f) /\ UNCHANGED ends
  BY <1>2, <1>4 DEF Fail, ends, News, Unheard
<1>5. CASE /\ RecvIAM(f, SeatOf[f]) \/ HandleIAM(f) \/ RecvTRICKFails(f) \/ RecvTRICK(f)
           /\ UNCHANGED ends
  BY <1>5 DEF RecvIAM, HandleIAM, RecvTRICKFails, RecvTRICK, ends, News, Unheard
<1>6. CASE \E trick, card : /\ HandleTRICK(f, trick, card) \/ RefuseTRICK(f, trick, card)
                            /\ UNCHANGED <<client, down>>
  BY <1>6 DEF HandleTRICK, RefuseTRICK, News, Unheard
<1>7. CASE LeaveIAM(f) /\ Carries(f)
  <2>1. out[f].to = f /\ fd # f /\ seen'[fd] = seen[fd]
    BY <1>2, <1>7 DEF LeaveIAM, ConnInv
  <2>2. QED
    BY <1>7, <2>1, Carried DEF News, Unheard
<1>8. ASSUME Delivers(f), Carries(f), UNCHANGED deal PROVE News(fd)
  BY <1>1, <1>8, DeliveredNews DEF Senders
<1>9. CASE (CatchUp(f) \/ CaughtUp(f)) /\ Carries(f)
  BY <1>8, <1>9 DEF CatchUp, CaughtUp
<1>10. CASE WrongSent(f) /\ Carries(f)
  <2>1. UNCHANGED deal
    BY <1>10 DEF WrongSent
  <2>2. CASE Breaks(f)
    <3>1. out[f].to \notin Fds \ (closed \cup disconnected) /\ UNCHANGED seen
      BY <2>2, Descriptors DEF Breaks
    <3>2. QED
      BY <1>10, <3>1, NothingComes DEF News, Unheard
  <2>3. QED
    BY <1>8, <1>10, <2>1, <2>2 DEF WrongSent
<1>11. QED
  BY <1>3, <1>4, <1>5, <1>6, <1>7, <1>9, <1>10 DEF ServerPlays

\* The main thread and the accept thread tell nobody anything.
LEMMA OtherNews ==
  ASSUME EndsInv, ConnInv, (MainStep /\ UNCHANGED ends) \/ ServerAccepts,
         NEW fd \in DOMAIN client, fd \in Fds
  PROVE  News(fd)
<1>1. CASE MainStep /\ UNCHANGED ends
  BY <1>1 DEF MainStep, NextDeal, JoinDeal, EndGame, StopAccepting, DisconnectAll, JoinClients,
     ends, News, Unheard
<1>2. CASE (PollIn \/ PollHup \/ AcceptFails) /\ UNCHANGED ends
  BY <1>2 DEF PollIn, PollHup, AcceptFails, ends, News, Unheard
<1>3. CASE Arrives
  <2> DEFINE f == CHOOSE g \in clients' \ clients : TRUE
  <2>1. client' = Insert(client, f, NewClient) /\ Accept /\ UNCHANGED down
    BY <1>3 DEF Arrives
  <2>2. f \notin clients
    <3>1. PICK k \in Nat : clients' = clients \cup {5 + k} /\ clients \ {Stdin} = 5..(4 + k)
      BY <2>1, AcceptFresh
    <3>2. 5 + k \notin 5..(4 + k) /\ 5 + k # Stdin
      BY DEF Stdin
    <3>3. QED
      BY <3>1, <3>2
  <2> HIDE DEF f
  <2>3. fd # f
    BY <2>2 DEF EndsInv
  <2>4. UNCHANGED seen
    BY <2>1 DEF Accept
  <2>5. QED
    BY <2>1, <2>3, <2>4 DEF Insert, News, Unheard
<1>4. QED
  BY <1>1, <1>2, <1>3 DEF ServerAccepts
-----------------------------------------------------------------------------
\* Every client of a deal shows the tricks of its seat, once it has read what is on
\* the way to it.
UpToDateAt(fd) == UpToDate(client[fd].tricksTaken, down[fd], Told(fd), SeatOf[fd])
Showing(fd) == Playing(fd) /\ Given(fd) => UpToDateAt(fd)
AllShowing == \A fd \in Fds : Showing(fd)

ShowInv == SystemInv /\ ToldServer /\ AllShowing

\* The server keeps what its clients were told, with these clients.
LEMMA ToldServerStep == ServerInv /\ EndsInv /\ ToldServer /\ [SystemNext]_allVars => ToldServer'
<1> SUFFICES ASSUME ServerInv, EndsInv, ToldServer, [SystemNext]_allVars PROVE ToldServer'
  OBVIOUS
<1>1. CASE [Next]_vars
  BY <1>1, ToldServerNext
<1>2. CASE Crash
  <2>1. UNCHANGED <<mainVars, deal, loopVars, gameVars, mtx, netVars, threadVars, out, seen,
                    drops, blocks>>
    BY <1>2 DEF Crash, DrawsFromNothing
  <2>2. NumberInv' /\ FieldsInv' /\ BoundType' /\ FileInv'
    BY <2>1 DEF ToldServer, NumberInv, FieldsInv, BoundType, FileInv
  <2>3. MtxInv' /\ SendInv'
    BY <2>1 DEF ToldServer, MtxInv, MtxHeld, SendInv, SendHeld, Message
  <2>4. AllHeard'
    BY <2>1 DEF ToldServer, AllHeard, Heard, Given, HeardTricks, Passed
  <2>5. QED
    BY <2>2, <2>3, <2>4 DEF ToldServer
<1>3. QED
  BY <1>1, <1>2, SystemStep

\* What a client makes of what it reads.
LEMMA ReadShown ==
  ASSUME NEW c, IsClient(c), NEW m, NEW s
  PROVE  Read(c, m, s).tricksTaken = Shown(c.tricksTaken, m, s)
<1> DEFINE d == [c EXCEPT !.lastTotal = IsTotal(m)]
<1>1. /\ DOMAIN d = DOMAIN c /\ d.tricksTaken = c.tricksTaken
      /\ "tricksTaken" \in DOMAIN d
  BY DEF IsClient
<1> HIDE DEF d
<1>2. /\ ReadDEAL(d, m).tricksTaken = <<>>
      /\ ReadTRICK(d, m).tricksTaken = d.tricksTaken
      /\ ReadTAKEN(d, m, s).tricksTaken =
           IF s \in m.seats THEN Append(d.tricksTaken, m.cards) ELSE d.tricksTaken
  <2>1. ReadTRICK(d, m).tricksTaken = d.tricksTaken
    BY <1>1 DEF ReadTRICK
  <2>2. ReadTAKEN(d, m, s).tricksTaken =
           IF s \in m.seats THEN Append(d.tricksTaken, m.cards) ELSE d.tricksTaken
    BY <1>1 DEF ReadTAKEN
  <2>3. DOMAIN KeepTricks(d, m) = DOMAIN d
    BY DEF KeepTricks
  <2>4. ReadDEAL(d, m).tricksTaken = <<>>
    BY <1>1, <2>3 DEF ReadDEAL
  <2>5. QED
    BY <2>1, <2>2, <2>4
<1>3. ReadWRONG(d, m).tricksTaken = d.tricksTaken
  <2>1. LoseCard(d, m).tricksTaken = d.tricksTaken /\ DOMAIN LoseCard(d, m) = DOMAIN d
    BY <1>1 DEF LoseCard
  <2>2. QED
    BY <1>1, <2>1 DEF ReadWRONG
<1>4. /\ Parses(m) /\ m.kind = "DEAL" => Read(c, m, s) = ReadDEAL(d, m)
      /\ Parses(m) /\ m.kind = "TRICK" => Read(c, m, s) = ReadTRICK(d, m)
      /\ Parses(m) /\ m.kind = "WRONG" => Read(c, m, s) = ReadWRONG(d, m)
      /\ Parses(m) /\ m.kind = "TAKEN" => Read(c, m, s) = ReadTAKEN(d, m, s)
      /\ ~Parses(m) \/ m.kind \notin {"DEAL", "TRICK", "WRONG", "TAKEN"} => Read(c, m, s) = d
  <2>1. /\ Parses(m) /\ m.kind = "DEAL" => Read(c, m, s) = ReadDEAL(d, m)
        /\ Parses(m) /\ m.kind = "TRICK" => Read(c, m, s) = ReadTRICK(d, m)
    BY DEF Read, d
  <2>2. /\ Parses(m) /\ m.kind = "WRONG" => Read(c, m, s) = ReadWRONG(d, m)
        /\ Parses(m) /\ m.kind = "TAKEN" => Read(c, m, s) = ReadTAKEN(d, m, s)
    BY DEF Read, d
  <2>3. ~Parses(m) \/ m.kind \notin {"DEAL", "TRICK", "WRONG", "TAKEN"} => Read(c, m, s) = d
    BY DEF Read, d
  <2>4. QED
    BY <2>1, <2>2, <2>3
<1>5. CASE Parses(m) /\ m.kind \in {"DEAL", "TRICK", "WRONG", "TAKEN"}
  BY <1>1, <1>2, <1>3, <1>4, <1>5 DEF Shown
<1>6. CASE ~Parses(m) \/ m.kind \notin {"DEAL", "TRICK", "WRONG", "TAKEN"}
  BY <1>1, <1>4, <1>6 DEF Shown
<1>7. QED
  BY <1>5, <1>6

\* A card that is played changes no trick.
LEMMA PlayShows ==
  ASSUME NEW c, IsClient(c), NEW card
  PROVE  Play(c, card).tricksTaken = c.tricksTaken
BY DEF Play, IsClient

\* Deals begin one after another.
LEMMA DealCounts == [Next]_vars => di' \in {di, di + 1}
<1> SUFFICES ASSUME [Next]_vars PROVE di' \in {di, di + 1}
  OBVIOUS
<1>1. CASE MainStep \/ UNCHANGED vars
  BY <1>1 DEF MainStep, NextDeal, JoinDeal, EndGame, StopAccepting, DisconnectAll, JoinClients,
     vars
<1>2. CASE AcceptStep \/ DealStep
  BY <1>2 DEF AcceptStep, PollIn, PollHup, Accept, AcceptFails, DealStep, DealReady, Broadcast,
     BroadcastFails, Blocks, BeginTurn, AskSent, Timeout, Answered, Resume, EndTrick, EndDeal
<1>3. CASE \E fd \in Fds : PlayerStep(fd) \/ ClientCloses(fd)
  BY <1>3 DEF PlayerStep, RecvIAM, RecvIAMFails, HandleIAM, CatchUp, CaughtUp, LeaveIAM,
     RecvTRICK, RecvTRICKFails, HandleTRICK, RefuseTRICK, SpoiltTRICK, WrongSent, Blocks, Fail,
     ClientCloses
<1>4. QED
  BY <1>1, <1>2, <1>3 DEF Next

\* A client that is told something, or nothing, will show what it has been told.
LEMMA ShowNews ==
  ASSUME ShowInv, [Next]_vars, ServerInv', NEW fd \in Fds, Playing(fd), Given(fd)', News(fd)
  PROVE  UpToDateAt(fd)'
<1>1. /\ ServerInv /\ EndsInv /\ ToldServer /\ Showing(fd) /\ TableInv /\ Heard(fd)
      /\ IsQueue(down[fd]) /\ client'[fd] = client[fd]
  BY DEF ShowInv, SystemInv, AllShowing, ServerInv, CardInv, ToldServer, AllHeard, EndsInv, News,
     Unheard, HeardOf
<1>2. CASE Unheard(fd)
  <2>1. seen'[fd] = seen[fd] /\ down'[fd] = down[fd]
    BY <1>2 DEF Unheard
  <2>2. di' = di /\ Given(fd)
    BY <1>1, <2>1, DealCounts DEF Given, Heard, TableInv
  <2>3. deal'.tricksTaken \in Seq(ToldTrick) /\ OnTable' \in ToldTrick
    <3>1. di' > 0 /\ IsDeal(deal')
      BY DEF Given, ServerInv, CardInv, TableInv, GameInv
    <3>2. OnTable' \in ToldTrick
      BY <3>1 DEF OnTable, ToldTrick, IsDeal
    <3>3. TrickTaken \subseteq ToldTrick
      BY DEF TrickTaken, ToldTrick
    <3>4. deal'.tricksTaken \in Seq(TrickTaken)
      BY <3>1 DEF IsDeal
    <3>5. QED
      BY <3>2, <3>3, <3>4
  <2>4. Told(fd)' = Told(fd)
    BY <1>1, <2>1, <2>2, <2>3, ToldStays
  <2>5. QED
    BY <1>1, <2>1, <2>2, <2>4 DEF Showing, UpToDateAt
<1>3. ASSUME NEW me \in Senders, HeardOf(fd, me) PROVE UpToDateAt(fd)'
  <2>1. /\ Delivers(me) /\ out[me].to = fd /\ down'[fd] = Append(down[fd], Content(out[me]))
        /\ di' = di /\ deal' \in {deal, NextPlayer(deal)}
    BY <1>3 DEF HeardOf
  <2>2. deal'.tricksTaken = deal.tricksTaken /\ OnTable' = OnTable
    <3>1. IsDeal(deal)
      BY <1>1, <2>1 DEF TableInv, GameInv, Given
    <3>2. QED
      BY <2>1, <3>1 DEF NextPlayer, IsDeal, OnTable
  <2>3. Given(fd) => UpToDate(client[fd].tricksTaken, down[fd], Told(fd), SeatOf[fd])
    BY <1>1 DEF Showing, UpToDateAt
  <2>4. UpToDate(client[fd].tricksTaken, Append(down[fd], Content(out[me])), Told(fd)', SeatOf[fd])
    BY <1>1, <2>1, <2>2, <2>3, MessageShows
  <2>5. QED
    BY <1>1, <2>1, <2>4 DEF UpToDateAt
<1>4. QED
  BY <1>2, <1>3 DEF News

\* A client that reads or plays shows the tricks it reads of.
LEMMA ShowClient ==
  ASSUME ShowInv, NEW f \in Fds,
         ClientStep(f) \/ Leaves(f) \/ \E card \in Card : Types(f, card), NEW fd \in Fds
  PROVE  Showing(fd)'
<1>1. /\ ServerInv /\ EndsInv /\ ToldServer /\ Showing(fd) /\ IsQueue(down[fd])
  BY DEF ShowInv, SystemInv, AllShowing, EndsInv
<1>2. UNCHANGED <<deal, seen, di>> /\ Told(fd)' = Told(fd) /\ (Given(fd)' <=> Given(fd))
  <2>1. UNCHANGED <<deal, seen, di>>
    BY DEF ClientStep, Reads, Answers, DrawsFromNothing, ConnectionEnds, Leaves, Types, ClientCloses,
       vars
  <2>2. QED
    BY <2>1 DEF Told, Given
<1>3. CASE fd # f
  <2>1. /\ down'[fd] = down[fd]
        /\ fd \in DOMAIN client => client'[fd] = client[fd]
        /\ DOMAIN client' = DOMAIN client
    BY <1>1, <1>3, ClientElsewhere, ClientKeeps
  <2>2. QED
    BY <1>1, <1>2, <2>1 DEF Showing, UpToDateAt, Playing
<1>4. CASE fd = f
  <2> DEFINE c == Read(client[fd], Head(down[fd]), SeatOf[fd])
  <2>1. ASSUME Reads(fd) \/ Answers(fd), Given(fd) PROVE UpToDateAt(fd)'
    <3>1. /\ Playing(fd) /\ down[fd] # <<>> /\ fd \in DOMAIN client /\ IsClient(client[fd])
          /\ DOMAIN down = Fds
      BY <1>1, <2>1 DEF Reads, Answers, EndsInv, Playing
    <3>2. down'[fd] = Tail(down[fd])
      BY <2>1, <3>1 DEF Reads, Answers
    <3>3. IsClient(c) /\ c.tricksTaken = Shown(client[fd].tricksTaken, Head(down[fd]), SeatOf[fd])
      BY <1>1, <3>1, QueueMoves, ReadKeeps, ReadShown
    <3>4. client'[fd].tricksTaken = c.tricksTaken
      <4>1. CASE Reads(fd)
        BY <3>1, <4>1 DEF Reads
      <4>2. CASE Answers(fd)
        <5>1. PICK card : client' = [client EXCEPT ![fd] = Play(c, card)]
          BY <4>2 DEF Answers, SendsCard
        <5> HIDE DEF c
        <5>2. QED
          BY <3>1, <3>3, <5>1, PlayShows
      <4>3. QED
        BY <2>1, <4>1, <4>2
    <3>5. IsTold(Told(fd)) /\ Len(Told(fd)) <= LastTrick
      BY <1>1, <2>1, ToldTricks
    <3>6. UpToDate(client[fd].tricksTaken, down[fd], Told(fd), SeatOf[fd])
      BY <1>1, <2>1, <3>1 DEF Showing, UpToDateAt
    <3>7. UpToDate(c.tricksTaken, Tail(down[fd]), Told(fd), SeatOf[fd])
      BY <1>1, <3>1, <3>3, <3>5, <3>6, HeadShown
    <3>8. QED
      BY <1>2, <3>2, <3>4, <3>7 DEF UpToDateAt
  <2>2. ASSUME NEW card \in Card, Types(fd, card) PROVE Showing(fd)'
    <3>1. Playing(fd) /\ fd \in DOMAIN client /\ IsClient(client[fd]) /\ down' = down
      BY <1>1, <2>2 DEF Types, Playing, EndsInv
    <3>2. client' = [client EXCEPT ![fd] = Play(client[fd], card)]
      BY <2>2 DEF Types, SendsCard
    <3>3. client'[fd].tricksTaken = client[fd].tricksTaken
      BY <3>1, <3>2, PlayShows
    <3>4. QED
      BY <1>1, <1>2, <3>1, <3>3 DEF Showing, UpToDateAt
  <2>3. ASSUME DrawsFromNothing(fd) \/ ConnectionEnds(fd) \/ Leaves(fd) PROVE ~Playing(fd)'
    <3>1. fd \in DOMAIN client /\ IsClient(client[fd])
      BY <1>1, <2>3 DEF DrawsFromNothing, ConnectionEnds, Leaves, Playing, EndsInv
    <3>2. PICK status \in {"crashed", "success", "failure", "left"} : Ends(fd, status)
      BY <2>3 DEF DrawsFromNothing, ConnectionEnds, Leaves, Verdict
    <3>3. client'[fd].status = status
      BY <3>1, <3>2 DEF Ends, IsClient
    <3>4. QED
      BY <3>3 DEF Playing
  <2>4. QED
    BY <1>2, <1>4, <2>1, <2>2, <2>3 DEF Showing, ClientStep
<1>5. QED
  BY <1>3, <1>4

\* Every step of server and clients.
LEMMA ShowStep == ShowInv /\ [SystemNext]_allVars => ShowInv'
<1> SUFFICES ASSUME ShowInv, [SystemNext]_allVars PROVE ShowInv'
  OBVIOUS
<1>1. /\ SystemInv /\ ServerInv /\ EndsInv /\ SuccessInv /\ ToldServer /\ FieldsInv /\ OutInv
      /\ ConnInv /\ TableInv
  BY DEF ShowInv, SystemInv, ServerInv, CardInv, ToldServer
<1>2. SystemInv' /\ ServerInv' /\ ToldServer'
  BY <1>1, SystemKeeps, ToldServerStep DEF SystemInv
<1> SUFFICES ASSUME NEW fd \in Fds PROVE Showing(fd)'
  BY <1>2 DEF ShowInv, AllShowing
<1>3. CASE \E f \in Fds : ClientStep(f) \/ Leaves(f) \/ \E card \in Card : Types(f, card)
  BY <1>3, ShowClient
<1>4. CASE UNCHANGED allVars
  <2>1. Told(fd)' = Told(fd)
    BY <1>4 DEF allVars, vars, Told
  <2>2. Showing(fd)
    BY DEF ShowInv, AllShowing
  <2>3. QED
    BY <1>4, <2>1, <2>2 DEF allVars, vars, ends, Showing, Playing, Given, UpToDateAt
<1>5. ASSUME [Next]_vars, Playing(fd), client'[fd] = client[fd], Given(fd)' => News(fd)
      PROVE  Showing(fd)'
  BY <1>2, <1>5, ShowNews DEF Showing
<1>6. [Next]_vars \/ \E f \in Fds : ClientStep(f)
  BY <1>1, SystemStep DEF Crash, ClientStep
<1>7. ASSUME UNCHANGED client, [Next]_vars,
             Playing(fd) /\ fd \notin closed /\ Given(fd)' => News(fd)
      PROVE  Showing(fd)'
  <2>1. CASE Playing(fd)
    <3>1. fd \notin closed
      BY <1>1, <2>1 DEF SuccessInv, Playing
    <3>2. QED
      BY <1>5, <1>7, <2>1, <3>1
  <2>2. CASE ~Playing(fd)
    BY <1>7, <2>2 DEF Showing, Playing
  <2>3. QED
    BY <2>1, <2>2
<1>8. CASE ServerDeals /\ [Next]_vars
  <2>1. UNCHANGED client
    BY <1>8 DEF ServerDeals, Carries, AsksAgain, ends
  <2>2. QED
    BY <1>1, <1>7, <1>8, <2>1, DealNews
<1>9. ASSUME NEW f \in Fds, ServerPlays(f), [Next]_vars PROVE Showing(fd)'
  <2>1. UNCHANGED client
    BY <1>9 DEF ServerPlays, Carries, ends
  <2>2. QED
    BY <1>1, <1>7, <1>9, <2>1, PlayNews
<1>10. CASE ((MainStep /\ UNCHANGED ends) \/ ServerAccepts) /\ [Next]_vars
  <2>1. CASE fd \in DOMAIN client
    <3>1. News(fd)
      BY <1>1, <1>10, <2>1, OtherNews
    <3>2. client'[fd] = client[fd]
      BY <3>1 DEF News, Unheard, HeardOf
    <3>3. CASE Playing(fd)
      BY <1>5, <1>10, <3>1, <3>2, <3>3
    <3>4. CASE ~Playing(fd)
      BY <2>1, <3>2, <3>4 DEF Showing, Playing
    <3>5. QED
      BY <3>3, <3>4
  <2>2. CASE fd \notin DOMAIN client
    <3>1. CASE Arrives
      <4>1. UNCHANGED <<seen, di>>
        BY <3>1 DEF Arrives, Accept
      <4>2. pc[fd] = "none"
        BY <1>1, <2>2, Descriptors DEF EndsInv, ConnInv
      <4>3. seen[fd].deal = 0
        BY <1>1, <4>2, PlacesSeated DEF ToldServer, AllHeard, Heard
      <4>4. QED
        BY <4>1, <4>3 DEF Showing, Given
    <3>2. CASE ~Arrives
      <4>1. UNCHANGED client
        BY <1>10, <3>2 DEF ServerAccepts, ends
      <4>2. QED
        BY <2>2, <4>1 DEF Showing, Playing
    <3>3. QED
      BY <3>1, <3>2
  <2>3. QED
    BY <2>1, <2>2
<1>11. QED
  BY <1>3, <1>4, <1>6, <1>8, <1>9, <1>10 DEF SystemNext

\* It holds at first, when there are no clients.
LEMMA ShowStart == SystemInit => ShowInv
<1> SUFFICES ASSUME SystemInit PROVE ShowInv
  OBVIOUS
<1>1. SystemInv /\ ToldServer
  BY SystemStart, ToldServerStart DEF SystemInit
<1>2. AllShowing
  BY DEF SystemInit, AllShowing, Showing, Playing
<1>3. QED
  BY <1>1, <1>2 DEF ShowInv

\* It holds always.
LEMMA ShowAlways == SystemSpec => []ShowInv
<1>1. SystemInit => ShowInv
  BY ShowStart
<1>2. ShowInv /\ [SystemNext]_allVars => ShowInv'
  BY ShowStep
<1>3. QED
  BY <1>1, <1>2, PTL DEF SystemSpec

\* The tricks a client shows as its own are those that its seat took and that are
\* tricks to the parser, whoever has left and come back.
ShowsOwn ==
  \A fd \in Fds : HasDeal(fd) /\ ~OnTheWay(fd, "TAKEN") =>
    ShowsTricks(client[fd].tricksTaken, Told(fd),
                OwnTricks(Told(fd), Len(Told(fd)), SeatOf[fd]))

\* Every trick a client has been told of is one the parser knows for a trick: a
\* card of each seat.
WholeTricks ==
  \A fd \in Fds : Playing(fd) /\ Given(fd) =>
    \A i \in DOMAIN Told(fd) : Len(Told(fd)[i].cards) = Len(PlayerOrder)

\* What the clients read is what they show.
LEMMA ShowingOwn == ShowInv => ShowsOwn
<1> SUFFICES ASSUME ShowInv, NEW fd \in Fds, HasDeal(fd), ~OnTheWay(fd, "TAKEN")
             PROVE  ShowsTricks(client[fd].tricksTaken, Told(fd),
                                OwnTricks(Told(fd), Len(Told(fd)), SeatOf[fd]))
  BY DEF ShowsOwn
<1>1. Playing(fd) /\ Given(fd)
  BY DEF HasDeal, Given
<1>2. ServerInv /\ ToldServer /\ IsQueue(down[fd]) /\ UpToDateAt(fd)
  BY <1>1 DEF ShowInv, SystemInv, EndsInv, AllShowing, Showing
<1>3. Len(Told(fd)) \in Nat
  BY <1>1, <1>2, ToldTricks
<1>4. \A i \in DOMAIN down[fd] : down[fd][i].kind \notin {"DEAL", "TAKEN"}
  BY DEF HasDeal, OnTheWay
<1>5. QED
  BY <1>2, <1>3, <1>4, AllShown DEF UpToDateAt

\* Where all tricks are whole these are the tricks its seat took.
LEMMA OwnAgree == ShowInv /\ WholeTricks => TricksAgree
<1> SUFFICES ASSUME ShowInv, WholeTricks, NEW fd \in Fds, HasDeal(fd), ~OnTheWay(fd, "TAKEN")
             PROVE  ShowsTricks(client[fd].tricksTaken, Told(fd),
                                {i \in DOMAIN Told(fd) : Told(fd)[i].seat = SeatOf[fd]})
  BY DEF TricksAgree
<1>1. Playing(fd) /\ Given(fd)
  BY DEF HasDeal, Given
<1>2. IsTold(Told(fd))
  BY <1>1, ToldTricks DEF ShowInv, SystemInv
<1>3. DOMAIN Told(fd) = 1..Len(Told(fd))
  BY <1>2 DEF IsTold
<1>4. {i \in DOMAIN Told(fd) : Told(fd)[i].seat = SeatOf[fd]}
        = OwnTricks(Told(fd), Len(Told(fd)), SeatOf[fd])
  BY <1>1, <1>3 DEF WholeTricks, OwnTricks
<1>5. QED
  BY <1>4, ShowingOwn DEF ShowsOwn

\* Whatever the clients play, and whenever they leave and come back, each shows the
\* tricks of its seat it has read of, in their order: none of an earlier deal, none
\* twice and none of another seat.
THEOREM ClientsShowTricks == SystemSpec => []ShowsOwn
<1>1. SystemSpec => []ShowInv
  BY ShowAlways
<1>2. ShowInv => ShowsOwn
  BY ShowingOwn
<1>3. QED
  BY <1>1, <1>2, PTL

\* While every trick has a card of each seat, server and clients agree on who took
\* the tricks.
THEOREM TricksAgreeIfWhole == SystemSpec => [](WholeTricks => TricksAgree)
<1>1. SystemSpec => []ShowInv
  BY ShowAlways
<1>2. ShowInv => (WholeTricks => TricksAgree)
  BY OwnAgree
<1>3. QED
  BY <1>1, <1>2, PTL
=============================================================================
