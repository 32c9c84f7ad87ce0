----------------------------- MODULE SyncProofs -----------------------------
(***************************************************************************)
(* Proofs about a game that no client leaves.  View is the part of the     *)
(* server's state a client can learn of, InStep relates it to what the     *)
(* client has learnt, what is still on its way to it and what it has       *)
(* answered; SyncInv keeps all clients in step.  That hands and tricks     *)
(* agree, that no automatic client is refused a card, that none is asked   *)
(* with empty hands and that the system implements the server follow from  *)
(* it.  AliveInv says what may end the server, WonInv what a client has    *)
(* been told when its connection comes to its end.                         *)
(***************************************************************************)
EXTENDS SystemProofs

\* The groups of variables an action leaves alone.
USE DEF mainVars, loopVars, gameVars, acceptVars, netVars, threadVars, clientVars

-----------------------------------------------------------------------------
\* Client and server in step, as long as no client has left.

\* What the server keeps of the client of fd: whether its card is expected, whether
\* its card is being refused, whether it has been sent the deal, and the trick, the
\* hand and the table by which its card is judged.
View(fd) ==
  [turn |-> fdExpectedTrick = fd, wrong |-> out[fd].kind = "WRONG",
   given |-> di > 0 /\ seen[fd].deal = di,
   hand |-> IF di > 0 THEN deal.currentHand[SeatOf[fd]] ELSE {},
   trick |-> deal.currentTrick, table |-> deal.cardsOnTable]

\* A message of a queue is one that asks nothing of a client whose last card was for
\* trick n, or the ask for the card the server expects now, or one that gives the
\* client its cards, or a card back, before that ask.
Old(n, m) ==
  \/ m.kind \in {"BUSY", "SCORE", "TOTAL"}
  \/ m.kind \in {"TRICK", "TAKEN"} /\ m.trick = n
Fresh(v, m) == v.turn /\ m.kind = "TRICK" /\ m.trick = v.trick /\ m.cards = v.table
Turning(v, m) ==
  \/ m.kind = "DEAL" /\ v.given /\ m.hand = v.hand /\ Cardinality(v.hand) = LastTrick
  \/ m.kind = "WRONG" /\ v.turn /\ m.trick = v.trick

Has(q, kind) == \E i \in DOMAIN q : q[i].kind = kind
AllOld(n, q) == \A i \in DOMAIN q : Old(n, q[i])
AllFresh(v, q) == \A i \in DOMAIN q : Fresh(v, q[i])

\* Only such asks follow a message that is not old.
Ordered(n, v, q) ==
  /\ \A i \in DOMAIN q : Old(n, q[i]) \/ Turning(v, q[i]) \/ Fresh(v, q[i])
  /\ \A i, j \in DOMAIN q : i < j /\ ~Old(n, q[i]) => Fresh(v, q[j])

\* The client has let go of a card the server has not accepted: the card is on its
\* way, or is just refused, or the refusal is on its way.
Pending(q, u, v) == u # <<>> \/ v.wrong \/ Has(q, "WRONG")

\* The card may be played from the hand on the table.
Playable(v, card) ==
  v.table # <<>> /\ card.suit # v.table[1].suit => \A x \in v.hand : x.suit # v.table[1].suit

\* The tricks the client and the server count, what a client that may play has been
\* asked, the card that is pending, and the hand.
Counts(c, q, v, pending) ==
  /\ c.lastPlayedTrick + Cardinality(v.hand) = LastTrick + (IF pending THEN 1 ELSE 0)
  /\ c.hand = SetToBag(IF pending THEN v.hand \ {c.lastPlayedCard} ELSE v.hand)
  /\ \A i \in DOMAIN q : q[i].kind = "TAKEN" => Range(q[i].cards) \cap v.hand = {}
MayAnswer(auto, c, q, v) ==
  v.turn /\ c.serverTrick = v.trick /\ ~auto /\ AllFresh(v, q)
Sent(auto, c, q, u, v) ==
  /\ u = <<[trick |-> c.lastPlayedTrick, card |-> c.lastPlayedCard]>>
  /\ ~v.wrong /\ AllOld(c.lastPlayedTrick, q) /\ (auto => Playable(v, c.lastPlayedCard))
InStep(auto, c, q, u, v) ==
  /\ c.lastPlayedTrick \in Nat
  /\ Ordered(c.lastPlayedTrick, v, q)
  /\ c.serverTrick # c.lastPlayedTrick => MayAnswer(auto, c, q, v) /\ ~Pending(q, u, v)
  /\ Pending(q, u, v) => v.turn /\ c.lastPlayedTrick = v.trick /\ c.lastPlayedCard \in v.hand
  /\ u # <<>> => Sent(auto, c, q, u, v)
  /\ v.wrong => AllOld(c.lastPlayedTrick, q)
  /\ auto => ~v.wrong /\ ~Has(q, "WRONG")
  /\ v.given /\ ~Has(q, "DEAL") => Counts(c, q, v, Pending(q, u, v))
-----------------------------------------------------------------------------
\* A queue that is all old, or all fresh.
LEMMA AllOldQueue ==
  ASSUME NEW n, NEW q, AllOld(n, q), NEW v
  PROVE  Ordered(n, v, q) /\ ~Has(q, "DEAL") /\ ~Has(q, "WRONG")
BY DEF AllOld, Ordered, Has, Old

LEMMA AllFreshQueue ==
  ASSUME NEW v, NEW q, AllFresh(v, q)
  PROVE  /\ \A n : Ordered(n, v, q)
         /\ AllOld(v.trick, q)
         /\ ~Has(q, "DEAL") /\ ~Has(q, "WRONG") /\ ~Has(q, "TAKEN")
BY DEF AllFresh, AllOld, Ordered, Has, Old, Fresh

\* The places of a queue that grew or shrank.
LEMMA QueuePlaces ==
  ASSUME NEW q, IsQueue(q)
  PROVE  /\ Len(q) \in Nat /\ DOMAIN q = 1..Len(q)
         /\ \A m : /\ DOMAIN Append(q, m) = 1..(Len(q) + 1)
                   /\ \A i \in 1..Len(q) : Append(q, m)[i] = q[i]
                   /\ Append(q, m)[Len(q) + 1] = m
         /\ q # <<>> => /\ Len(q) > 0 /\ Head(q) = q[1]
                        /\ DOMAIN Tail(q) = 1..(Len(q) - 1)
                        /\ \A i \in 1..(Len(q) - 1) : Tail(q)[i] = q[i + 1]
<1>1. PICK M : q \in Seq(M)
  BY DEF IsQueue
<1>2. /\ Len(q) \in Nat /\ DOMAIN q = 1..Len(q)
  BY <1>1, LenProperties
<1>3. ASSUME NEW m
      PROVE  /\ DOMAIN Append(q, m) = 1..(Len(q) + 1)
             /\ \A i \in 1..Len(q) : Append(q, m)[i] = q[i]
             /\ Append(q, m)[Len(q) + 1] = m
  <2>1. q \in Seq(M \cup {m})
    BY <1>1, SeqMonotonic
  <2>2. /\ Append(q, m) \in Seq(M \cup {m}) /\ Len(Append(q, m)) = Len(q) + 1
        /\ \A k \in 1..Len(q) : Append(q, m)[k] = q[k]
        /\ Append(q, m)[Len(q) + 1] = m
    BY <2>1, AppendProperties
  <2>3. QED
    BY <2>2, LenProperties
<1>4. ASSUME q # <<>>
      PROVE  /\ Len(q) > 0 /\ Head(q) = q[1]
             /\ DOMAIN Tail(q) = 1..(Len(q) - 1)
             /\ \A i \in 1..(Len(q) - 1) : Tail(q)[i] = q[i + 1]
  <2>1. /\ Head(q) = q[1] /\ Len(Tail(q)) = Len(q) - 1 /\ Tail(q) \in Seq(M)
        /\ \A i \in 1..Len(Tail(q)) : Tail(q)[i] = q[i + 1]
    BY <1>1, <1>4, HeadTailProperties
  <2>2. Len(q) # 0
    BY <1>1, <1>4, EmptySeq
  <2>3. DOMAIN Tail(q) = 1..Len(Tail(q))
    BY <2>1, LenProperties
  <2>4. QED
    BY <1>2, <2>1, <2>2, <2>3
<1>5. QED
  BY <1>2, <1>3, <1>4

\* A message that joins a queue.
LEMMA QueueGrows ==
  ASSUME NEW q, IsQueue(q), NEW m, NEW n, NEW v
  PROVE  LET r == Append(q, m) IN
         /\ \A kind : Has(r, kind) <=> Has(q, kind) \/ m.kind = kind
         /\ AllOld(n, r) <=> AllOld(n, q) /\ Old(n, m)
         /\ AllFresh(v, r) <=> AllFresh(v, q) /\ Fresh(v, m)
         /\ \A S : (\A i \in DOMAIN q : q[i].kind = "TAKEN" => Range(q[i].cards) \cap S = {})
                   /\ (m.kind = "TAKEN" => Range(m.cards) \cap S = {})
                   => \A i \in DOMAIN r : r[i].kind = "TAKEN" => Range(r[i].cards) \cap S = {}
         /\ Ordered(n, v, q) /\ (Fresh(v, m) \/ (AllOld(n, q) /\ (Old(n, m) \/ Turning(v, m))))
            => Ordered(n, v, r)
<1> DEFINE r == Append(q, m)
           k == Len(q)
<1>1. /\ k \in Nat /\ DOMAIN q = 1..k /\ DOMAIN r = 1..(k + 1)
      /\ \A i \in 1..k : r[i] = q[i]
      /\ r[k + 1] = m
  BY QueuePlaces
<1>2. \A i \in 1..(k + 1) : i \in 1..k \/ i = k + 1
  BY <1>1
<1>3. \A i \in 1..k : i \in 1..(k + 1)
  BY <1>1
<1>4. k + 1 \in 1..(k + 1)
  BY <1>1
<1> HIDE DEF r
<1>5. \A kind : Has(r, kind) <=> Has(q, kind) \/ m.kind = kind
  BY <1>1, <1>2, <1>3, <1>4 DEF Has
<1>6. AllOld(n, r) <=> AllOld(n, q) /\ Old(n, m)
  BY <1>1, <1>2, <1>3, <1>4 DEF AllOld
<1>7. AllFresh(v, r) <=> AllFresh(v, q) /\ Fresh(v, m)
  BY <1>1, <1>2, <1>3, <1>4 DEF AllFresh
<1>8. \A S : (\A i \in DOMAIN q : q[i].kind = "TAKEN" => Range(q[i].cards) \cap S = {})
                   /\ (m.kind = "TAKEN" => Range(m.cards) \cap S = {})
                   => \A i \in DOMAIN r : r[i].kind = "TAKEN" => Range(r[i].cards) \cap S = {}
  BY <1>1, <1>2, <1>3, <1>4
<1>9. ASSUME Ordered(n, v, q), Fresh(v, m) \/ (AllOld(n, q) /\ (Old(n, m) \/ Turning(v, m)))
      PROVE  Ordered(n, v, r)
  <2>1. \A i \in DOMAIN r : Old(n, r[i]) \/ Turning(v, r[i]) \/ Fresh(v, r[i])
    BY <1>1, <1>2, <1>9 DEF Ordered
  <2>2. ASSUME NEW i \in DOMAIN r, NEW j \in DOMAIN r, i < j, ~Old(n, r[i])
        PROVE  Fresh(v, r[j])
    <3>1. i \in 1..k
      BY <1>1, <2>2
    <3>2. CASE j \in 1..k
      BY <1>1, <1>9, <2>2, <3>1, <3>2 DEF Ordered
    <3>3. CASE j = k + 1
      BY <1>1, <1>9, <2>2, <3>1, <3>3 DEF AllOld
    <3>4. QED
      BY <1>1, <1>2, <3>2, <3>3
  <2>3. QED
    BY <2>1, <2>2 DEF Ordered
<1>10. QED
  BY <1>5, <1>6, <1>7, <1>8, <1>9 DEF r

\* A message that is read.
LEMMA QueueShrinks ==
  ASSUME NEW q, IsQueue(q), q # <<>>, NEW n, NEW v
  PROVE  LET m == Head(q)
             r == Tail(q)
         IN
         /\ \A kind : Has(q, kind) <=> m.kind = kind \/ Has(r, kind)
         /\ AllOld(n, q) => Old(n, m) /\ AllOld(n, r)
         /\ AllFresh(v, q) => Fresh(v, m) /\ AllFresh(v, r)
         /\ \A S : (\A i \in DOMAIN q : q[i].kind = "TAKEN" => Range(q[i].cards) \cap S = {})
                   => /\ m.kind = "TAKEN" => Range(m.cards) \cap S = {}
                      /\ \A i \in DOMAIN r : r[i].kind = "TAKEN" => Range(r[i].cards) \cap S = {}
         /\ Ordered(n, v, q) => /\ Ordered(n, v, r)
                                /\ Old(n, m) \/ ((Turning(v, m) \/ Fresh(v, m)) /\ AllFresh(v, r))
<1> DEFINE m == Head(q)
           r == Tail(q)
           k == Len(q)
<1>1. /\ k \in Nat /\ DOMAIN q = 1..k /\ k > 0 /\ m = q[1] /\ DOMAIN r = 1..(k - 1)
      /\ \A i \in 1..(k - 1) : r[i] = q[i + 1]
  BY QueuePlaces
<1>2. /\ \A i \in 1..(k - 1) : i + 1 \in 1..k /\ 1 < i + 1
      /\ \A i \in 1..k : i = 1 \/ (i - 1 \in 1..(k - 1) /\ (i - 1) + 1 = i)
      /\ 1 \in 1..k
  BY <1>1
<1> HIDE DEF r, m
<1>3. \A kind : Has(q, kind) <=> m.kind = kind \/ Has(r, kind)
  <2>1. /\ \A i \in DOMAIN r : i + 1 \in DOMAIN q /\ r[i] = q[i + 1]
        /\ \A i \in DOMAIN q : q[i] = m \/ (i - 1 \in DOMAIN r /\ q[i] = r[i - 1])
        /\ 1 \in DOMAIN q /\ q[1] = m
    BY <1>1, <1>2
  <2>2. QED
    BY <2>1, Zenon DEF Has
<1>4. AllOld(n, q) => Old(n, m) /\ AllOld(n, r)
  BY <1>1, <1>2 DEF AllOld
<1>5. AllFresh(v, q) => Fresh(v, m) /\ AllFresh(v, r)
  BY <1>1, <1>2 DEF AllFresh
<1>6. \A S : (\A i \in DOMAIN q : q[i].kind = "TAKEN" => Range(q[i].cards) \cap S = {})
             => /\ m.kind = "TAKEN" => Range(m.cards) \cap S = {}
                /\ \A i \in DOMAIN r : r[i].kind = "TAKEN" => Range(r[i].cards) \cap S = {}
  BY <1>1, <1>2
<1>7. ASSUME Ordered(n, v, q)
      PROVE  /\ Ordered(n, v, r)
             /\ Old(n, m) \/ ((Turning(v, m) \/ Fresh(v, m)) /\ AllFresh(v, r))
  <2>1. \A i \in DOMAIN r : Old(n, r[i]) \/ Turning(v, r[i]) \/ Fresh(v, r[i])
    BY <1>1, <1>2, <1>7 DEF Ordered
  <2>2. ASSUME NEW i \in DOMAIN r, NEW j \in DOMAIN r, i < j, ~Old(n, r[i])
        PROVE  Fresh(v, r[j])
    <3>1. i + 1 < j + 1
      BY <1>1, <2>2
    <3>2. QED
      BY <1>1, <1>2, <1>7, <2>2, <3>1 DEF Ordered
  <2>3. Old(n, m) \/ Turning(v, m) \/ Fresh(v, m)
    BY <1>1, <1>2, <1>7 DEF Ordered
  <2>4. ~Old(n, m) => AllFresh(v, r)
    BY <1>1, <1>2, <1>7 DEF Ordered, AllFresh
  <2>5. QED
    BY <2>1, <2>2, <2>3, <2>4 DEF Ordered
<1>8. QED
  BY <1>3, <1>4, <1>5, <1>6, <1>7 DEF r, m

\* What the server sees of a client may change while nothing comes or goes.
Moves(v, w) ==
  /\ w.wrong <=> v.wrong
  /\ v.turn => w.turn /\ w.trick = v.trick /\ w.table = v.table /\ w.hand = v.hand
  /\ w.given => v.given /\ w.hand = v.hand
  /\ v.given /\ Cardinality(v.hand) = LastTrick => w.given /\ w.hand = v.hand

LEMMA ViewMoves ==
  ASSUME NEW auto, NEW c, NEW q, NEW u, NEW v, NEW w, Moves(v, w),
         InStep(auto, c, q, u, v)
  PROVE  InStep(auto, c, q, u, w)
<1> DEFINE n == c.lastPlayedTrick
<1>1. \A m : /\ Fresh(v, m) => Fresh(w, m)
             /\ Turning(v, m) => Turning(w, m)
  BY DEF Fresh, Turning, Moves
<1>2. Ordered(n, w, q)
  BY <1>1 DEF Ordered, InStep
<1>3. Pending(q, u, v) <=> Pending(q, u, w)
  BY DEF Pending, Moves
<1>4. c.serverTrick # n => MayAnswer(auto, c, q, w) /\ ~Pending(q, u, w)
  BY <1>1, <1>3 DEF InStep, MayAnswer, AllFresh, Moves
<1>5. Pending(q, u, w) => w.turn /\ n = w.trick /\ c.lastPlayedCard \in w.hand
  BY <1>3 DEF InStep, Moves
<1>6. u # <<>> => Sent(auto, c, q, u, w)
  <2> SUFFICES ASSUME u # <<>> PROVE Sent(auto, c, q, u, w)
    OBVIOUS
  <2>1. Sent(auto, c, q, u, v) /\ v.turn
    BY DEF InStep, Pending
  <2>2. Playable(v, c.lastPlayedCard) => Playable(w, c.lastPlayedCard)
    BY <2>1 DEF Playable, Moves
  <2>3. QED
    BY <2>1, <2>2 DEF Sent, Moves
<1>7. w.given /\ ~Has(q, "DEAL") => Counts(c, q, w, Pending(q, u, w))
  <2> SUFFICES ASSUME w.given, ~Has(q, "DEAL") PROVE Counts(c, q, w, Pending(q, u, w))
    OBVIOUS
  <2>1. Counts(c, q, v, Pending(q, u, v)) /\ w.hand = v.hand
    BY DEF InStep, Moves
  <2>2. Pending(q, u, v) = Pending(q, u, w)
    BY <1>3 DEF Pending
  <2>3. QED
    BY <2>1, <2>2 DEF Counts
<1>8. (w.wrong => AllOld(n, q)) /\ (auto => ~w.wrong /\ ~Has(q, "WRONG"))
  BY DEF InStep, Moves
<1>9. QED
  BY <1>2, <1>4, <1>5, <1>6, <1>7, <1>8 DEF InStep
-----------------------------------------------------------------------------
\* A client that has just connected has nothing, and nothing is on its way.
LEMMA NewInStep ==
  ASSUME NEW auto, NEW v, ~v.turn, ~v.wrong, ~v.given
  PROVE  InStep(auto, NewClient, <<>>, <<>>, v)
<1> DEFINE c == NewClient
           q == <<>>
<1>1. c.lastPlayedTrick = 0 /\ c.serverTrick = 0
  BY DEF NewClient
<1>2. DOMAIN q = {}
  OBVIOUS
<1> HIDE DEF c, q
<1>3. AllOld(0, q) /\ ~Has(q, "WRONG")
  BY <1>2 DEF AllOld, Has
<1>4. Ordered(0, v, q)
  BY <1>3, AllOldQueue
<1>5. ~Pending(q, <<>>, v)
  BY <1>3 DEF Pending
<1>6. InStep(auto, c, q, <<>>, v)
  BY <1>1, <1>3, <1>4, <1>5 DEF InStep
<1>7. QED
  BY <1>6 DEF c, q

\* Nothing but old messages waits for a client that is not asked and holds less
\* than it was dealt.
LEMMA NotAsked ==
  ASSUME NEW auto, NEW c, NEW q, NEW u, NEW v, InStep(auto, c, q, u, v), ~v.turn,
         v.given => Cardinality(v.hand) # LastTrick
  PROVE  /\ AllOld(c.lastPlayedTrick, q) /\ ~Pending(q, u, v) /\ u = <<>>
         /\ c.serverTrick = c.lastPlayedTrick
<1>1. AllOld(c.lastPlayedTrick, q)
  BY DEF InStep, Ordered, AllOld, Turning, Fresh
<1>2. QED
  BY <1>1 DEF InStep, MayAnswer, Pending

\* The messages that are old whenever they come.
LEMMA NewsArrives ==
  ASSUME NEW auto, NEW c, NEW q, IsQueue(q), NEW u, NEW v, InStep(auto, c, q, u, v), ~v.turn,
         v.given => Cardinality(v.hand) # LastTrick,
         NEW m, m.kind \in {"BUSY", "SCORE", "TOTAL"}
  PROVE  InStep(auto, c, Append(q, m), u, v)
<1> DEFINE n == c.lastPlayedTrick
           r == Append(q, m)
<1>1. AllOld(n, q) /\ ~Pending(q, u, v) /\ u = <<>> /\ c.serverTrick = n
  BY NotAsked
<1>2. Old(n, m) /\ m.kind \notin {"DEAL", "WRONG", "TAKEN"}
  BY DEF Old
<1>3. /\ AllOld(n, r) /\ (Has(r, "DEAL") <=> Has(q, "DEAL")) /\ (Has(r, "WRONG") <=> Has(q, "WRONG"))
      /\ (\A i \in DOMAIN q : q[i].kind = "TAKEN" => Range(q[i].cards) \cap v.hand = {})
         => \A i \in DOMAIN r : r[i].kind = "TAKEN" => Range(r[i].cards) \cap v.hand = {}
  BY <1>1, <1>2, QueueGrows
<1> HIDE DEF r
<1>4. Ordered(n, v, r)
  BY <1>3, AllOldQueue
<1>5. ~Pending(r, u, v)
  BY <1>1, <1>3 DEF Pending
<1>6. v.given /\ ~Has(r, "DEAL") => Counts(c, r, v, FALSE)
  BY <1>1, <1>3 DEF InStep, Counts
<1>7. Pending(r, u, v) = FALSE
  BY <1>5 DEF Pending
<1>8. InStep(auto, c, r, u, v)
  BY <1>1, <1>3, <1>4, <1>5, <1>6, <1>7 DEF InStep
<1>9. QED
  BY <1>8 DEF r

\* The trick that is told is the one the client has played last.
LEMMA TakenArrives ==
  ASSUME NEW auto, NEW c, NEW q, IsQueue(q), NEW u, NEW v, InStep(auto, c, q, u, v), ~v.turn,
         v.given, v.trick \in Nat \ {0}, Cardinality(v.hand) = LastTrick - v.trick,
         NEW m, m.kind = "TAKEN", m.trick = v.trick, Range(m.cards) \cap v.hand = {}
  PROVE  InStep(auto, c, Append(q, m), u, v)
<1> DEFINE n == c.lastPlayedTrick
           r == Append(q, m)
<1>0. LastTrick \in Nat
  BY CardsAssumption
<1>1. AllOld(n, q) /\ ~Pending(q, u, v) /\ u = <<>> /\ c.serverTrick = n
  <2>1. Cardinality(v.hand) # LastTrick
    BY <1>0
  <2>2. QED
    BY <2>1, NotAsked
<1>2. Counts(c, q, v, FALSE) /\ n \in Nat
  <2>1. Pending(q, u, v) = FALSE
    BY <1>1 DEF Pending
  <2>2. QED
    BY <1>1, <2>1, AllOldQueue DEF InStep
<1>3. n = v.trick
  BY <1>0, <1>2 DEF Counts
<1>4. Old(n, m) /\ m.kind \notin {"DEAL", "WRONG"}
  BY <1>3 DEF Old
<1>5. /\ AllOld(n, r) /\ ~Has(r, "WRONG")
      /\ \A i \in DOMAIN r : r[i].kind = "TAKEN" => Range(r[i].cards) \cap v.hand = {}
  <2>1. \A i \in DOMAIN q : q[i].kind = "TAKEN" => Range(q[i].cards) \cap v.hand = {}
    BY <1>2 DEF Counts
  <2>2. AllOld(n, r)
    BY <1>1, <1>4, QueueGrows
  <2>3. \A i \in DOMAIN r : r[i].kind = "TAKEN" => Range(r[i].cards) \cap v.hand = {}
    BY <2>1, QueueGrows
  <2> HIDE DEF r
  <2>4. QED
    BY <2>2, <2>3, AllOldQueue
<1> HIDE DEF r
<1>6. Ordered(n, v, r)
  BY <1>5, AllOldQueue
<1>7. Pending(r, u, v) = FALSE /\ ~v.wrong
  BY <1>1, <1>5 DEF Pending
<1>8. Counts(c, r, v, FALSE)
  BY <1>2, <1>5 DEF Counts
<1>9. InStep(auto, c, r, u, v)
  BY <1>1, <1>2, <1>5, <1>6, <1>7, <1>8 DEF InStep
<1>10. QED
  BY <1>9 DEF r

\* The cards of the next deal.
LEMMA DealArrives ==
  ASSUME NEW auto, NEW c, NEW q, IsQueue(q), NEW u, NEW v, InStep(auto, c, q, u, v), ~v.turn,
         ~v.given, NEW w, ~w.turn, ~w.wrong, w.given, Cardinality(w.hand) = LastTrick,
         NEW m, m.kind = "DEAL", m.hand = w.hand
  PROVE  InStep(auto, c, Append(q, m), u, w)
<1> DEFINE n == c.lastPlayedTrick
           r == Append(q, m)
<1>1. AllOld(n, q) /\ ~Pending(q, u, v) /\ u = <<>> /\ c.serverTrick = n
  BY NotAsked
<1>2. Ordered(n, w, r)
  <2>1. Turning(w, m) /\ Ordered(n, w, q)
    BY <1>1, AllOldQueue DEF Turning
  <2>2. QED
    BY <1>1, <2>1, QueueGrows
<1>3. Has(r, "DEAL") /\ ~Has(r, "WRONG")
  <2>1. ~Has(q, "WRONG")
    BY <1>1, AllOldQueue
  <2>2. QED
    BY <2>1, QueueGrows
<1> HIDE DEF r
<1>4. InStep(auto, c, r, u, w)
  BY <1>1, <1>2, <1>3 DEF InStep, Pending
<1>5. QED
  BY <1>4 DEF r

\* An ask: a client that has answered it already will not be taken in.
LEMMA AskArrives ==
  ASSUME NEW auto, NEW c, NEW q, IsQueue(q), NEW u, NEW v, InStep(auto, c, q, u, v),
         NEW m, Fresh(v, m)
  PROVE  InStep(auto, c, Append(q, m), u, v)
<1> DEFINE n == c.lastPlayedTrick
           r == Append(q, m)
<1>1. m.kind = "TRICK" /\ (n = v.trick => Old(n, m))
  BY DEF Fresh, Old
<1>2. /\ \A kind : Has(r, kind) <=> Has(q, kind) \/ m.kind = kind
      /\ AllOld(n, r) <=> AllOld(n, q) /\ Old(n, m)
      /\ AllFresh(v, r) <=> AllFresh(v, q)
      /\ Ordered(n, v, r)
      /\ (\A i \in DOMAIN q : q[i].kind = "TAKEN" => Range(q[i].cards) \cap v.hand = {})
         => \A i \in DOMAIN r : r[i].kind = "TAKEN" => Range(r[i].cards) \cap v.hand = {}
  BY <1>1, QueueGrows DEF InStep
<1> HIDE DEF r
<1>3. (Has(r, "DEAL") <=> Has(q, "DEAL")) /\ (Has(r, "WRONG") <=> Has(q, "WRONG"))
  BY <1>1, <1>2
<1>4. Pending(r, u, v) = Pending(q, u, v)
  BY <1>3 DEF Pending
<1>5. Pending(q, u, v) => Old(n, m)
  BY <1>1 DEF InStep
<1>6. u # <<>> => Sent(auto, c, r, u, v)
  BY <1>2, <1>5 DEF InStep, Sent, Pending
<1>7. v.wrong => AllOld(n, r)
  BY <1>2, <1>5 DEF InStep, Pending
<1>8. c.serverTrick # n => MayAnswer(auto, c, r, v) /\ ~Pending(r, u, v)
  BY <1>2, <1>4 DEF InStep, MayAnswer
<1>9. v.given /\ ~Has(r, "DEAL") => Counts(c, r, v, Pending(r, u, v))
  BY <1>2, <1>3, <1>4 DEF InStep, Counts
<1>10. InStep(auto, c, r, u, v)
  BY <1>2, <1>3, <1>4, <1>6, <1>7, <1>8, <1>9 DEF InStep
<1>11. QED
  BY <1>10 DEF r

\* All but the refusal is as before.
SameBut(v, w) ==
  /\ w.turn <=> v.turn
  /\ w.given <=> v.given
  /\ w.trick = v.trick /\ w.hand = v.hand /\ w.table = v.table

\* The refusal is on its way.
LEMMA RefusalArrives ==
  ASSUME NEW auto, NEW c, NEW q, IsQueue(q), NEW u, NEW v, InStep(auto, c, q, u, v), v.wrong,
         NEW w, SameBut(v, w), ~w.wrong, NEW m, m.kind = "WRONG", m.trick = v.trick
  PROVE  InStep(auto, c, Append(q, m), u, w)
<1> DEFINE n == c.lastPlayedTrick
           r == Append(q, m)
<1>1. /\ Pending(q, u, v) /\ AllOld(n, q) /\ v.turn /\ u = <<>> /\ ~auto
      /\ c.serverTrick = n /\ n = v.trick /\ c.lastPlayedCard \in v.hand /\ n \in Nat
  <2>1. Pending(q, u, v)
    BY DEF Pending
  <2>2. QED
    BY <2>1 DEF InStep, Sent
<1>2. Ordered(n, w, r)
  <2>1. Turning(w, m) /\ Ordered(n, w, q)
    BY <1>1, AllOldQueue DEF Turning, SameBut
  <2>2. QED
    BY <1>1, <2>1, QueueGrows
<1>3. /\ Has(r, "WRONG") /\ ~Has(q, "DEAL") /\ ~Has(r, "DEAL")
      /\ (\A i \in DOMAIN q : q[i].kind = "TAKEN" => Range(q[i].cards) \cap w.hand = {})
         => \A i \in DOMAIN r : r[i].kind = "TAKEN" => Range(r[i].cards) \cap w.hand = {}
  <2>1. ~Has(q, "DEAL")
    BY <1>1, AllOldQueue
  <2>2. QED
    BY <2>1, QueueGrows
<1> HIDE DEF r
<1>4. Pending(r, u, w) /\ Pending(r, u, w) = Pending(q, u, v)
  BY <1>1, <1>3 DEF Pending
<1>5. w.given => Counts(c, r, w, Pending(r, u, w))
  BY <1>3, <1>4 DEF InStep, Counts, SameBut
<1>6. InStep(auto, c, r, u, w)
  BY <1>1, <1>2, <1>3, <1>4, <1>5 DEF InStep, SameBut
<1>7. QED
  BY <1>6 DEF r

\* What is known of an answer when it is read.
LEMMA AnswerRead ==
  ASSUME NEW auto, NEW c, NEW q, NEW u, NEW v, InStep(auto, c, q, u, v), u # <<>>
  PROVE  /\ v.turn /\ ~v.wrong /\ AllOld(c.lastPlayedTrick, q) /\ ~Has(q, "WRONG")
         /\ c.lastPlayedTrick = v.trick /\ c.serverTrick = v.trick
         /\ c.lastPlayedCard \in v.hand
         /\ Head(u).trick = v.trick /\ Head(u).card = c.lastPlayedCard /\ Tail(u) = <<>>
         /\ auto => Playable(v, Head(u).card)
         /\ v.given => Counts(c, q, v, TRUE)
<1>1. Pending(q, u, v) /\ Pending(q, u, v) = TRUE
  BY DEF Pending
<1>2. Sent(auto, c, q, u, v) /\ v.turn /\ c.lastPlayedTrick = v.trick /\ c.lastPlayedCard \in v.hand
      /\ c.serverTrick = c.lastPlayedTrick
  BY <1>1 DEF InStep
<1>3. ~Has(q, "WRONG") /\ ~Has(q, "DEAL")
  BY <1>2, AllOldQueue DEF Sent
<1>4. v.given => Counts(c, q, v, TRUE)
  BY <1>1, <1>3 DEF InStep
<1>5. /\ Head(u).trick = c.lastPlayedTrick /\ Head(u).card = c.lastPlayedCard
      /\ Tail(u) = <<>>
  <2> DEFINE m == [trick |-> c.lastPlayedTrick, card |-> c.lastPlayedCard]
  <2>1. u = <<m>> /\ m.trick = c.lastPlayedTrick /\ m.card = c.lastPlayedCard
    BY <1>2 DEF Sent
  <2> HIDE DEF m
  <2>2. Head(u) = m /\ Tail(u) = <<>>
    BY <2>1
  <2>3. QED
    BY <2>1, <2>2
<1>6. /\ ~v.wrong /\ AllOld(c.lastPlayedTrick, q)
      /\ auto => Playable(v, c.lastPlayedCard)
  BY <1>2 DEF Sent
<1>7. c.serverTrick = v.trick
  BY <1>2
<1>8. auto => Playable(v, Head(u).card)
  BY <1>5, <1>6
<1>9. QED
  BY <1>2, <1>3, <1>4, <1>5, <1>6, <1>7, <1>8

\* It names the trick the server waits for.
LEMMA AnswerAsked ==
  ASSUME NEW auto, NEW c, NEW q, NEW u, NEW v, InStep(auto, c, q, u, v), u # <<>>
  PROVE  Head(u).trick = v.trick
BY AnswerRead

\* The card is accepted.
LEMMA AnswerAccepted ==
  ASSUME NEW auto, NEW c, NEW q, NEW u, NEW v, InStep(auto, c, q, u, v), u # <<>>,
         v.given, IsFiniteSet(v.hand),
         NEW w, ~w.turn, ~w.wrong, w.hand = v.hand \ {Head(u).card}
  PROVE  InStep(auto, c, q, Tail(u), w)
<1> DEFINE n == c.lastPlayedTrick
           card == c.lastPlayedCard
<1>1. /\ AllOld(n, q) /\ ~Has(q, "WRONG") /\ c.serverTrick = n
      /\ card \in v.hand /\ w.hand = v.hand \ {card} /\ Tail(u) = <<>> /\ Counts(c, q, v, TRUE)
      /\ n \in Nat
  <2>1. AllOld(n, q) /\ ~Has(q, "WRONG")
    BY AnswerRead
  <2>2. c.serverTrick = v.trick /\ n = v.trick
    BY AnswerRead
  <2>3. card \in v.hand /\ Head(u).card = card
    BY AnswerRead
  <2>4. Tail(u) = <<>> /\ Counts(c, q, v, TRUE)
    BY AnswerRead
  <2>5. n \in Nat
    BY DEF InStep
  <2>6. QED
    BY <2>1, <2>2, <2>3, <2>4, <2>5
<1>2. Ordered(n, w, q)
  BY <1>1, AllOldQueue
<1>3. ~Pending(q, Tail(u), w) /\ Pending(q, Tail(u), w) = FALSE
  BY <1>1 DEF Pending
<1>4. Counts(c, q, w, FALSE)
  <2>1. Cardinality(w.hand) = Cardinality(v.hand) - 1 /\ Cardinality(v.hand) \in Nat
    <3> DEFINE H == v.hand
    <3>1. IsFiniteSet(H) /\ card \in H /\ w.hand = H \ {card}
      BY <1>1
    <3> HIDE DEF H, card
    <3>2. Cardinality(H \ {card}) = Cardinality(H) - 1
      BY <3>1, FS_RemoveElement
    <3>3. Cardinality(H) \in Nat
      BY <3>1, FS_CardinalityType
    <3>4. QED
      BY <3>1, <3>2, <3>3 DEF H
  <2>2. n + Cardinality(v.hand) = LastTrick + 1 /\ LastTrick \in Nat
    BY <1>1, CardsAssumption DEF Counts
  <2>3. n + Cardinality(w.hand) = LastTrick
    BY <1>1, <2>1, <2>2
  <2>4. c.hand = SetToBag(w.hand)
    BY <1>1 DEF Counts
  <2>5. \A i \in DOMAIN q : q[i].kind = "TAKEN" => Range(q[i].cards) \cap w.hand = {}
    BY <1>1 DEF Counts
  <2>6. LastTrick + 0 = LastTrick
    BY <2>2
  <2>7. QED
    BY <2>3, <2>4, <2>5, <2>6 DEF Counts
<1>5. QED
  BY <1>1, <1>2, <1>3, <1>4 DEF InStep

\* The card is refused, which happens to no automatic client.
LEMMA AnswerRefused ==
  ASSUME NEW auto, NEW c, NEW q, NEW u, NEW v, InStep(auto, c, q, u, v), u # <<>>,
         NEW w, SameBut(v, w), w.wrong, ~auto
  PROVE  InStep(auto, c, q, Tail(u), w)
<1> DEFINE n == c.lastPlayedTrick
<1>1. /\ AllOld(n, q) /\ c.serverTrick = n /\ Tail(u) = <<>> /\ n \in Nat
      /\ v.turn /\ n = v.trick /\ c.lastPlayedCard \in v.hand /\ (v.given => Counts(c, q, v, TRUE))
  <2>1. AllOld(n, q) /\ Tail(u) = <<>>
    BY AnswerRead
  <2>2. c.serverTrick = v.trick /\ n = v.trick
    BY AnswerRead
  <2>3. v.turn /\ c.lastPlayedCard \in v.hand
    BY AnswerRead
  <2>4. v.given => Counts(c, q, v, TRUE)
    BY AnswerRead
  <2>5. n \in Nat
    BY DEF InStep
  <2>6. QED
    BY <2>1, <2>2, <2>3, <2>4, <2>5
<1>2. Ordered(n, w, q)
  BY <1>1, AllOldQueue
<1>3. Pending(q, Tail(u), w) /\ Pending(q, Tail(u), w) = TRUE
  BY DEF Pending
<1>4. w.given => Counts(c, q, w, TRUE)
  BY <1>1 DEF Counts, SameBut
<1>5. QED
  BY <1>1, <1>2, <1>3, <1>4 DEF InStep, SameBut
-----------------------------------------------------------------------------
\* A card that leaves a hand, and one that comes back.
LEMMA HandBags ==
  ASSUME NEW S, NEW x \in S
  PROVE  /\ DOMAIN SetToBag(S) = S
         /\ SetToBag(S) (-) SetToBag({x}) = SetToBag(S \ {x})
         /\ SetToBag(S \ {x}) (+) SetToBag({x}) = SetToBag(S)
<1>1. DOMAIN SetToBag(S) = S
  BY DEF SetToBag
<1>2. SetToBag(S) (-) SetToBag({x}) = SetToBag(S \ {x})
  <2> DEFINE B == [e \in S |-> IF e \in {x} THEN 1 - 1 ELSE 1]
  <2>1. SetToBag(S) (-) SetToBag({x}) = [e \in {d \in S : B[d] > 0} |-> B[e]]
    BY DEF (-), SetToBag
  <2>2. {d \in S : B[d] > 0} = S \ {x}
    OBVIOUS
  <2>3. \A e \in S \ {x} : B[e] = 1
    OBVIOUS
  <2> HIDE DEF B
  <2>4. QED
    BY <2>1, <2>2, <2>3 DEF SetToBag
<1>3. SetToBag(S \ {x}) (+) SetToBag({x}) = SetToBag(S)
  <2>1. (S \ {x}) \cup {x} = S
    OBVIOUS
  <2>2. QED
    BY <2>1 DEF (+), SetToBag
<1>4. QED
  BY <1>1, <1>2, <1>3

\* The cards of a trick that are not in the hand are not taken from it.
LEMMA NothingTaken ==
  ASSUME NEW S, NEW cards, Range(cards) \cap S = {}
  PROVE  Without(SetToBag(S), cards) = SetToBag(S)
<1> DEFINE C == CardBag(cards)
<1>1. DOMAIN C \cap S = {}
  BY DEF CardBag
<1> HIDE DEF C
<1>2. SetToBag(S) (-) C = SetToBag(S)
  <2>1. \A e \in S : e \notin DOMAIN C
    BY <1>1
  <2>2. QED
    BY <2>1 DEF (-), SetToBag
<1>3. QED
  BY <1>2 DEF Without, C

\* What a hand is, and how many cards the current player holds.
Judged(v) ==
  /\ IsFiniteSet(v.hand) /\ v.hand \subseteq Card
  /\ v.turn => /\ v.given /\ v.trick \in 1..LastTrick
               /\ Cardinality(v.hand) = LastTrick - v.trick + 1

\* The client passes over a message that changes nothing it counts by.
LEMMA MessagePassed ==
  ASSUME NEW auto, NEW c, NEW q, IsQueue(q), q # <<>>, NEW u, NEW v,
         InStep(auto, c, q, u, v), Head(q).kind \notin {"DEAL", "WRONG"},
         NEW d, d.lastPlayedTrick = c.lastPlayedTrick, d.lastPlayedCard = c.lastPlayedCard,
         d.serverTrick = c.serverTrick,
         v.given /\ ~Has(q, "DEAL") => d.hand = c.hand
  PROVE  InStep(auto, d, Tail(q), u, v)
<1> DEFINE n == c.lastPlayedTrick
           r == Tail(q)
<1>1. /\ Ordered(n, v, r)
      /\ (Has(q, "DEAL") <=> Has(r, "DEAL")) /\ (Has(q, "WRONG") <=> Has(r, "WRONG"))
      /\ AllOld(n, q) => AllOld(n, r)
      /\ AllFresh(v, q) => AllFresh(v, r)
      /\ (\A i \in DOMAIN q : q[i].kind = "TAKEN" => Range(q[i].cards) \cap v.hand = {})
         => \A i \in DOMAIN r : r[i].kind = "TAKEN" => Range(r[i].cards) \cap v.hand = {}
  BY QueueShrinks DEF InStep
<1> HIDE DEF r
<1>2. Pending(r, u, v) = Pending(q, u, v)
  BY <1>1 DEF Pending
<1>3. d.serverTrick # n => MayAnswer(auto, d, r, v) /\ ~Pending(r, u, v)
  BY <1>1, <1>2 DEF InStep, MayAnswer
<1>4. u # <<>> => Sent(auto, d, r, u, v)
  BY <1>1 DEF InStep, Sent
<1>5. v.given /\ ~Has(r, "DEAL") => Counts(d, r, v, Pending(r, u, v))
  BY <1>1, <1>2 DEF InStep, Counts
<1>6. InStep(auto, d, r, u, v)
  BY <1>1, <1>2, <1>3, <1>4, <1>5 DEF InStep
<1>7. QED
  BY <1>6 DEF r

\* The client reads a new ask, and does not answer at once.
LEMMA AskHeard ==
  ASSUME NEW auto, NEW c, NEW q, IsQueue(q), q # <<>>, NEW u, NEW v,
         InStep(auto, c, q, u, v), ~auto, ~Old(c.lastPlayedTrick, Head(q)), Fresh(v, Head(q)),
         NEW d, d.lastPlayedTrick = c.lastPlayedTrick, d.lastPlayedCard = c.lastPlayedCard,
         d.serverTrick = Head(q).trick, d.hand = c.hand
  PROVE  InStep(auto, d, Tail(q), u, v)
<1> DEFINE n == c.lastPlayedTrick
           m == Head(q)
           r == Tail(q)
<1>1. /\ Ordered(n, v, r) /\ AllFresh(v, r)
      /\ (Has(q, "DEAL") <=> m.kind = "DEAL" \/ Has(r, "DEAL"))
      /\ Has(r, "WRONG") => Has(q, "WRONG")
      /\ (\A i \in DOMAIN q : q[i].kind = "TAKEN" => Range(q[i].cards) \cap v.hand = {})
         => \A i \in DOMAIN r : r[i].kind = "TAKEN" => Range(r[i].cards) \cap v.hand = {}
  BY QueueShrinks DEF InStep
<1>2. m.kind = "TRICK" /\ m.trick = v.trick /\ v.turn /\ v.trick # n
  BY DEF Fresh, Old
<1> HIDE DEF r, m
<1>3. ~Pending(q, u, v) /\ ~Pending(r, u, v) /\ Pending(r, u, v) = Pending(q, u, v)
  <2>1. ~Pending(q, u, v)
    BY <1>2 DEF InStep
  <2>2. QED
    BY <1>1, <2>1 DEF Pending
<1>4. MayAnswer(auto, d, r, v)
  BY <1>1, <1>2 DEF MayAnswer, m
<1>5. v.given /\ ~Has(r, "DEAL") => Counts(d, r, v, Pending(r, u, v))
  BY <1>1, <1>2, <1>3 DEF InStep, Counts
<1>6. u = <<>> /\ ~v.wrong
  BY <1>3 DEF Pending
<1>7. InStep(auto, d, r, u, v)
  BY <1>1, <1>3, <1>4, <1>5, <1>6 DEF InStep
<1>8. QED
  BY <1>7 DEF r

\* What turns is neither old nor an ask, and nothing is in doubt that needs it.
LEMMA TurningHead ==
  ASSUME NEW auto, NEW c, NEW q, IsQueue(q), q # <<>>, NEW u, NEW v,
         InStep(auto, c, q, u, v), Head(q).kind \in {"DEAL", "WRONG"}
  PROVE  LET r == Tail(q) IN
         /\ Turning(v, Head(q)) /\ AllFresh(v, r) /\ u = <<>> /\ ~v.wrong
         /\ ~Has(r, "DEAL") /\ ~Has(r, "WRONG") /\ ~Has(r, "TAKEN")
         /\ ~Pending(r, u, v)
         /\ Head(q).kind = "WRONG" => ~Has(q, "DEAL") /\ Has(q, "WRONG")
<1> DEFINE n == c.lastPlayedTrick
           r == Tail(q)
<1>1. ~Old(n, Head(q)) /\ ~Fresh(v, Head(q))
  BY DEF Old, Fresh
<1>2. Turning(v, Head(q)) /\ AllFresh(v, r) /\ ~AllOld(n, q)
  BY <1>1, QueueShrinks DEF InStep
<1> HIDE DEF r
<1>3. ~Has(r, "DEAL") /\ ~Has(r, "WRONG") /\ ~Has(r, "TAKEN")
  BY <1>2, AllFreshQueue
<1>4. u = <<>> /\ ~v.wrong
  BY <1>2 DEF InStep, Sent
<1>5. Head(q).kind = "WRONG" => ~Has(q, "DEAL") /\ Has(q, "WRONG")
  BY <1>3, QueueShrinks DEF r
<1>6. ~Pending(r, u, v)
  BY <1>3, <1>4 DEF Pending
<1>7. QED
  BY <1>2, <1>3, <1>4, <1>5, <1>6 DEF r

\* The client reads the cards it is dealt.
LEMMA CardsRead ==
  ASSUME NEW auto, NEW c, NEW q, IsQueue(q), q # <<>>, NEW u, NEW v,
         InStep(auto, c, q, u, v), Head(q).kind = "DEAL",
         NEW d, d.lastPlayedTrick = 0, d.serverTrick = 0, d.hand = SetToBag(Head(q).hand)
  PROVE  InStep(auto, d, Tail(q), u, v)
<1> DEFINE r == Tail(q)
<1>1. /\ Turning(v, Head(q)) /\ AllFresh(v, r) /\ u = <<>> /\ ~v.wrong
      /\ ~Has(r, "DEAL") /\ ~Has(r, "WRONG") /\ ~Has(r, "TAKEN")
      /\ ~Pending(r, u, v)
  <2>1. Head(q).kind \in {"DEAL", "WRONG"}
    OBVIOUS
  <2>2. QED
    BY <2>1, TurningHead
<1>2. Pending(r, u, v) = FALSE
  BY <1>1 DEF Pending
<1> HIDE DEF r
<1>3. Head(q).hand = v.hand /\ Cardinality(v.hand) = LastTrick
  BY <1>1 DEF Turning
<1>4. LastTrick \in Nat
  BY CardsAssumption
<1>5. 0 + LastTrick = LastTrick + 0
  BY <1>4
<1>6. \A i \in DOMAIN r : r[i].kind = "TAKEN" => Range(r[i].cards) \cap v.hand = {}
  BY <1>1 DEF Has
<1>7. Counts(d, r, v, FALSE)
  BY <1>3, <1>5, <1>6 DEF Counts
<1>8. Ordered(0, v, r)
  BY <1>1, AllFreshQueue
<1>9. 0 \in Nat /\ d.serverTrick = d.lastPlayedTrick /\ Ordered(d.lastPlayedTrick, v, r)
      /\ d.lastPlayedTrick \in Nat
  BY <1>8
<1>10. InStep(auto, d, r, u, v)
  BY <1>1, <1>2, <1>7, <1>9 DEF InStep
<1>11. QED
  BY <1>10 DEF r

\* The client reads that its card was refused, and may play another.
LEMMA RefusalRead ==
  ASSUME NEW auto, NEW c, NEW q, IsQueue(q), q # <<>>, NEW u, NEW v, Judged(v),
         InStep(auto, c, q, u, v), Head(q).kind = "WRONG",
         NEW d, d.lastPlayedTrick = (c.lastPlayedTrick + 255) % 256,
         d.serverTrick = Head(q).trick, d.hand = c.hand (+) SetToBag({c.lastPlayedCard})
  PROVE  InStep(auto, d, Tail(q), u, v)
<1> DEFINE r == Tail(q)
           n == c.lastPlayedTrick
           x == c.lastPlayedCard
<1>1. /\ Turning(v, Head(q)) /\ AllFresh(v, r) /\ u = <<>> /\ ~v.wrong
      /\ ~Has(r, "DEAL") /\ ~Has(r, "WRONG") /\ ~Has(r, "TAKEN")
      /\ ~Pending(r, u, v)
      /\ ~Has(q, "DEAL") /\ Has(q, "WRONG")
  <2>1. Head(q).kind \in {"DEAL", "WRONG"}
    OBVIOUS
  <2>2. QED
    BY <2>1, TurningHead
<1>2. Pending(r, u, v) = FALSE
  BY <1>1 DEF Pending
<1> HIDE DEF r
<1>3. /\ v.turn /\ Head(q).trick = v.trick /\ n = v.trick /\ x \in v.hand /\ ~auto
      /\ v.given /\ Counts(c, q, v, TRUE)
  <2>1. Pending(q, u, v) /\ Pending(q, u, v) = TRUE
    BY <1>1 DEF Pending
  <2>2. v.turn /\ Head(q).trick = v.trick
    BY <1>1 DEF Turning
  <2>3. v.given
    BY <2>2 DEF Judged
  <2>4. QED
    BY <1>1, <2>1, <2>2, <2>3 DEF InStep
<1>4. n \in 1..LastTrick /\ LastTrick \in Nat /\ LastTrick < 256
  BY <1>3, CardsAssumption, SystemAssumption DEF Judged
<1>5. d.lastPlayedTrick = n - 1 /\ n - 1 \in Nat /\ n - 1 # n
  BY <1>4
<1>6. d.hand = SetToBag(v.hand)
  <2>1. c.hand = SetToBag(v.hand \ {x})
    BY <1>3 DEF Counts
  <2>2. SetToBag(v.hand \ {x}) (+) SetToBag({x}) = SetToBag(v.hand)
    BY <1>3, HandBags
  <2>3. QED
    BY <2>1, <2>2
<1>7. (n - 1) + Cardinality(v.hand) = LastTrick + 0
  <2>1. n + Cardinality(v.hand) = LastTrick + 1
    BY <1>3 DEF Counts
  <2>2. Cardinality(v.hand) \in Nat
    BY FS_CardinalityType DEF Judged
  <2>3. QED
    BY <1>4, <2>1, <2>2
<1>8. \A i \in DOMAIN r : r[i].kind = "TAKEN" => Range(r[i].cards) \cap v.hand = {}
  BY <1>1 DEF Has
<1>9. Counts(d, r, v, FALSE)
  BY <1>5, <1>6, <1>7, <1>8 DEF Counts
<1>10. Ordered(n - 1, v, r)
  BY <1>1, AllFreshQueue
<1>11. MayAnswer(auto, d, r, v)
  BY <1>1, <1>3 DEF MayAnswer
<1>12. InStep(auto, d, r, u, v)
  BY <1>1, <1>2, <1>3, <1>5, <1>9, <1>10, <1>11 DEF InStep
<1>13. QED
  BY <1>12 DEF r

\* The client plays a card of its hand.
LEMMA CardPlayed ==
  ASSUME NEW auto, NEW c, NEW q, NEW v, Judged(v),
         v.turn, ~v.wrong, AllFresh(v, q), c.hand = SetToBag(v.hand),
         NEW card \in v.hand, auto => Playable(v, card),
         NEW d, d.lastPlayedTrick = v.trick, d.serverTrick = v.trick,
         d.lastPlayedCard = card, d.hand = c.hand (-) SetToBag({card}),
         NEW u, u = <<[trick |-> v.trick, card |-> card]>>
  PROVE  InStep(auto, d, q, u, v)
<1> DEFINE k == v.trick
<1>1. /\ Ordered(k, v, q) /\ AllOld(k, q)
      /\ ~Has(q, "DEAL") /\ ~Has(q, "WRONG") /\ ~Has(q, "TAKEN")
  BY AllFreshQueue
<1>2. u # <<>> /\ Pending(q, u, v) /\ Pending(q, u, v) = TRUE
  BY DEF Pending
<1>3. Sent(auto, d, q, u, v)
  BY <1>1 DEF Sent
<1>4. k \in 1..LastTrick /\ LastTrick \in Nat /\ Cardinality(v.hand) = LastTrick - k + 1
  BY CardsAssumption DEF Judged
<1>5. k + Cardinality(v.hand) = LastTrick + 1 /\ k \in Nat
  BY <1>4
<1>6. d.hand = SetToBag(v.hand \ {card})
  BY HandBags
<1>7. \A i \in DOMAIN q : q[i].kind = "TAKEN" => Range(q[i].cards) \cap v.hand = {}
  BY <1>1 DEF Has
<1>8. Counts(d, q, v, TRUE)
  BY <1>5, <1>6, <1>7 DEF Counts
<1>9. QED
  BY <1>1, <1>2, <1>3, <1>5, <1>8 DEF InStep

\* No card is the absence of a card.
LEMMA NoCardIsNone == NoCard \notin Card
BY CardsAssumption DEF NoCard, Card, NoSuit, Suits

\* The client reads a message it does not answer.
LEMMA ReadInStep ==
  ASSUME NEW auto, NEW c, IsClient(c), NEW q, IsQueue(q), q # <<>>, NEW u, NEW v,
         Judged(v), InStep(auto, c, q, u, v), auto => ~Asks(c, Head(q)), NEW s
  PROVE  InStep(auto, Read(c, Head(q), s), Tail(q), u, v)
<1> DEFINE m == Head(q)
           n == c.lastPlayedTrick
           b == [c EXCEPT !.lastTotal = IsTotal(m)]
           d == Read(c, m, s)
<1>1. /\ b.lastPlayedTrick = n /\ b.lastPlayedCard = c.lastPlayedCard
      /\ b.serverTrick = c.serverTrick /\ b.hand = c.hand
      /\ {"hand", "cardsOnTable", "lastPlayedCard", "lastPlayedTrick", "serverTrick",
          "tricksTaken"} \subseteq DOMAIN b
  BY DEF IsClient
<1>2. /\ Parses(m) /\ m.kind = "DEAL" => d = ReadDEAL(b, m)
      /\ Parses(m) /\ m.kind = "TRICK" => d = ReadTRICK(b, m)
      /\ Parses(m) /\ m.kind = "WRONG" => d = ReadWRONG(b, m)
      /\ Parses(m) /\ m.kind = "TAKEN" => d = ReadTAKEN(b, m, s)
      /\ ~Parses(m) \/ m.kind \notin {"DEAL", "TRICK", "WRONG", "TAKEN"} => d = b
  BY DEF Read
<1>3. /\ m.kind = "DEAL" => (Parses(m) <=> Cardinality(m.hand) = LastTrick)
      /\ m.kind = "WRONG" => (Parses(m) <=> m.trick \in 1..LastTrick)
  BY DEF Parses
<1>4. \/ Old(n, m) /\ m.kind \notin {"DEAL", "WRONG"}
      \/ Turning(v, m) /\ m.kind \in {"DEAL", "WRONG"}
      \/ Fresh(v, m) /\ ~Old(n, m) /\ m.kind = "TRICK"
  <2>1. Old(n, m) \/ Turning(v, m) \/ Fresh(v, m)
    BY QueueShrinks DEF InStep
  <2>2. QED
    BY <2>1 DEF Old, Turning, Fresh
<1>5. Old(n, m) /\ m.trick = n /\ m.kind \in {"TRICK", "TAKEN"} => c.serverTrick = n
  <2> SUFFICES ASSUME Old(n, m), m.trick = n, c.serverTrick # n PROVE m.kind \notin {"TRICK", "TAKEN"}
    OBVIOUS
  <2>1. MayAnswer(auto, c, q, v)
    BY DEF InStep
  <2>2. Fresh(v, m) /\ c.serverTrick = v.trick
    BY <2>1, QueueShrinks DEF MayAnswer
  <2>3. QED
    BY <2>2 DEF Fresh
<1> SUFFICES InStep(auto, d, Tail(q), u, v)
  OBVIOUS
<1> HIDE DEF b, m, d
<1>6. ASSUME m.kind \notin {"DEAL", "WRONG"},
             d.lastPlayedTrick = n, d.lastPlayedCard = c.lastPlayedCard,
             d.serverTrick = c.serverTrick, v.given /\ ~Has(q, "DEAL") => d.hand = c.hand
      PROVE  InStep(auto, d, Tail(q), u, v)
  BY <1>6, MessagePassed DEF m
<1>7. CASE (~Parses(m) \/ m.kind \notin {"DEAL", "TRICK", "WRONG", "TAKEN"})
           /\ m.kind \notin {"DEAL", "WRONG"}
  BY <1>1, <1>2, <1>6, <1>7
<1>8. CASE Parses(m) /\ m.kind = "TRICK"
  <2>1. /\ d.lastPlayedTrick = n /\ d.lastPlayedCard = c.lastPlayedCard
        /\ d.serverTrick = m.trick /\ d.hand = c.hand
    BY <1>1, <1>2, <1>8 DEF ReadTRICK
  <2>2. CASE Old(n, m)
    <3>1. m.trick = n
      BY <1>8, <2>2 DEF Old
    <3>2. QED
      BY <1>5, <1>6, <1>8, <2>1, <2>2, <3>1
  <2>3. CASE ~Old(n, m)
    <3>1. Fresh(v, m)
      BY <1>4, <1>8, <2>3
    <3>2. ~auto
      <4>1. "serverTrick" \in DOMAIN c /\ ReadTRICK(c, m).serverTrick = m.trick
            /\ ReadTRICK(c, m).lastPlayedTrick = n
        BY DEF ReadTRICK, IsClient
      <4>2. m.trick # n
        BY <1>8, <2>3 DEF Old
      <4>3. Asks(c, m)
        BY <1>8, <4>1, <4>2 DEF Asks, MayPlay
      <4>4. QED
        BY <4>3 DEF m
    <3>3. QED
      BY <2>1, <2>3, <3>1, <3>2, AskHeard DEF m
  <2>4. QED
    BY <2>2, <2>3
<1>9. CASE Parses(m) /\ m.kind = "TAKEN"
  <2>1. Old(n, m) /\ m.trick = n
    BY <1>4, <1>9 DEF Old
  <2>2. /\ d.lastPlayedTrick = n /\ d.lastPlayedCard = c.lastPlayedCard
        /\ d.serverTrick = m.trick /\ d.hand = Without(c.hand, m.cards)
    BY <1>1, <1>2, <1>9 DEF ReadTAKEN
  <2>3. ASSUME v.given, ~Has(q, "DEAL") PROVE d.hand = c.hand
    <3>1. Counts(c, q, v, Pending(q, u, v))
      BY <2>3 DEF InStep
    <3>2. Range(m.cards) \cap v.hand = {}
      BY <1>9, <3>1, QueueShrinks DEF Counts, m
    <3>3. PICK H : H \subseteq v.hand /\ c.hand = SetToBag(H)
      BY <3>1 DEF Counts
    <3>4. Without(SetToBag(H), m.cards) = SetToBag(H)
      BY <3>2, <3>3, NothingTaken
    <3>5. QED
      BY <2>2, <3>3, <3>4
  <2>4. QED
    BY <1>5, <1>6, <1>9, <2>1, <2>2, <2>3
<1>10. CASE m.kind = "DEAL"
  <2>1. Parses(m)
    BY <1>3, <1>4, <1>10 DEF Turning
  <2>2. d.lastPlayedTrick = 0 /\ d.serverTrick = 0 /\ d.hand = SetToBag(m.hand)
    BY <1>1, <1>2, <1>10, <2>1 DEF ReadDEAL, KeepTricks
  <2>3. QED
    BY <1>10, <2>2, CardsRead DEF m
<1>11. CASE m.kind = "WRONG"
  <2>1. v.turn /\ m.trick = v.trick
    BY <1>4, <1>11 DEF Turning
  <2>2. Parses(m)
    BY <1>3, <1>11, <2>1 DEF Judged
  <2>3. c.lastPlayedCard # NoCard
    <3>1. Has(q, "WRONG")
      BY <1>11, QueueShrinks DEF m
    <3>2. c.lastPlayedCard \in v.hand
      BY <3>1 DEF InStep, Pending
    <3>3. QED
      BY <3>2, NoCardIsNone DEF Judged
  <2>4. /\ LoseCard(b, m).lastPlayedTrick = (n + 255) % 256
        /\ LoseCard(b, m).serverTrick = m.trick
        /\ LoseCard(b, m).hand = c.hand /\ "hand" \in DOMAIN LoseCard(b, m)
    BY <1>1, <2>3 DEF LoseCard
  <2>5. d = [LoseCard(b, m) EXCEPT !.hand = c.hand (+) SetToBag({c.lastPlayedCard})]
    BY <1>1, <1>2, <1>11, <2>2, <2>3, <2>4 DEF ReadWRONG
  <2>6. /\ d.lastPlayedTrick = (n + 255) % 256 /\ d.serverTrick = m.trick
        /\ d.hand = c.hand (+) SetToBag({c.lastPlayedCard})
    BY <2>4, <2>5
  <2>7. QED
    BY <1>11, <2>6, RefusalRead DEF m
<1>12. QED
  BY <1>7, <1>8, <1>9, <1>10, <1>11

\* A client that has been asked holds what the server keeps for it, and that is
\* at least one card.
LEMMA AskedHand ==
  ASSUME NEW auto, NEW c, NEW q, NEW u, NEW v, Judged(v), InStep(auto, c, q, u, v),
         v.turn, AllFresh(v, q), ~Pending(q, u, v)
  PROVE  /\ c.hand = SetToBag(v.hand) /\ DOMAIN c.hand = v.hand /\ v.hand # {}
         /\ u = <<>> /\ ~v.wrong
<1>1. v.given /\ ~Has(q, "DEAL")
  BY AllFreshQueue DEF Judged
<1>2. Counts(c, q, v, Pending(q, u, v))
  BY <1>1 DEF InStep
<1>3. c.hand = SetToBag(v.hand)
  BY <1>2 DEF Counts
<1>4. v.hand # {}
  <2>1. v.trick \in 1..LastTrick /\ LastTrick \in Nat /\ Cardinality(v.hand) = LastTrick - v.trick + 1
    BY CardsAssumption DEF Judged
  <2>2. Cardinality(v.hand) # 0
    BY <2>1
  <2>3. Cardinality({}) = 0
    BY FS_EmptySet
  <2>4. QED
    BY <2>2, <2>3
<1>5. QED
  BY <1>3, <1>4 DEF Pending, SetToBag

\* The user types a card.
LEMMA TypedInStep ==
  ASSUME NEW auto, NEW c, IsClient(c), NEW q, NEW u, NEW v, Judged(v),
         InStep(auto, c, q, u, v), MayPlay(c), NEW card \in DOMAIN c.hand
  PROVE  InStep(auto, Play(c, card), q,
                Append(u, [trick |-> c.serverTrick, card |-> card]), v)
<1> DEFINE d == Play(c, card)
           a == [trick |-> v.trick, card |-> card]
<1>1. MayAnswer(auto, c, q, v) /\ ~Pending(q, u, v)
  BY DEF InStep, MayPlay
<1>2. v.turn /\ c.serverTrick = v.trick /\ ~auto /\ AllFresh(v, q)
  BY <1>1 DEF MayAnswer
<1>3. /\ c.hand = SetToBag(v.hand) /\ DOMAIN c.hand = v.hand
      /\ u = <<>> /\ ~v.wrong
  BY <1>1, <1>2, AskedHand
<1>4. /\ d.lastPlayedTrick = c.serverTrick /\ d.serverTrick = c.serverTrick
      /\ d.lastPlayedCard = card /\ d.hand = c.hand (-) SetToBag({card})
  BY DEF Play, IsClient
<1>5. Append(u, [trick |-> c.serverTrick, card |-> card]) = <<a>>
  BY <1>2, <1>3
<1> HIDE DEF d
<1>6. InStep(auto, d, q, <<a>>, v)
  BY <1>2, <1>3, <1>4, CardPlayed
<1>7. QED
  BY <1>5, <1>6 DEF d

\* The ask that an automatic client reads and answers.
LEMMA AskAnswered ==
  ASSUME NEW auto, NEW c, IsClient(c), NEW q, IsQueue(q), q # <<>>, NEW u, NEW v,
         Judged(v), InStep(auto, c, q, u, v), Asks(c, Head(q))
  PROVE  /\ v.turn /\ ~v.wrong /\ u = <<>> /\ AllFresh(v, Tail(q)) /\ Fresh(v, Head(q))
         /\ c.hand = SetToBag(v.hand) /\ DOMAIN c.hand = v.hand /\ v.hand # {}
<1> DEFINE m == Head(q)
           r == Tail(q)
           n == c.lastPlayedTrick
<1>1. m.kind = "TRICK" /\ Parses(m) /\ m.trick # n
  <2>1. /\ ReadTRICK(c, m).serverTrick = m.trick /\ ReadTRICK(c, m).lastPlayedTrick = n
    BY DEF ReadTRICK, IsClient
  <2> HIDE DEF m
  <2>2. QED
    BY <2>1 DEF Asks, MayPlay, m
<1>2. Fresh(v, m) /\ AllFresh(v, r) /\ ~AllOld(n, q) /\ (Has(q, "DEAL") <=> Has(r, "DEAL"))
  <2>1. ~Old(n, m) /\ ~Turning(v, m)
    BY <1>1 DEF Old, Turning
  <2>2. Fresh(v, m) /\ AllFresh(v, r) /\ ~AllOld(n, q)
    BY <2>1, QueueShrinks DEF InStep
  <2>3. Has(q, "DEAL") <=> Has(r, "DEAL")
    BY <1>1, QueueShrinks
  <2>4. QED
    BY <2>2, <2>3
<1>3. v.turn /\ m.trick = v.trick /\ m.cards = v.table
  BY <1>2 DEF Fresh
<1>4. AllFresh(v, q)
  <2>1. Len(q) \in Nat /\ DOMAIN q = 1..Len(q) /\ q[1] = m /\ DOMAIN r = 1..(Len(q) - 1)
        /\ \A i \in 1..(Len(q) - 1) : r[i] = q[i + 1]
    BY QueuePlaces
  <2>2. \A i \in 1..Len(q) : i = 1 \/ (i - 1 \in 1..(Len(q) - 1) /\ (i - 1) + 1 = i)
    BY <2>1
  <2> HIDE DEF m, r
  <2>3. QED
    BY <1>2, <2>1, <2>2 DEF AllFresh
<1>5. ~Pending(q, u, v)
  BY <1>1, <1>3 DEF InStep
<1>6. /\ c.hand = SetToBag(v.hand) /\ DOMAIN c.hand = v.hand /\ v.hand # {}
      /\ u = <<>> /\ ~v.wrong
  BY <1>3, <1>4, <1>5, AskedHand
<1>7. QED
  BY <1>2, <1>3, <1>6

\* What is read of an ask.
LEMMA TrickRead ==
  ASSUME NEW c, IsClient(c), NEW m, Asks(c, m), NEW s
  PROVE  LET b == Read(c, m, s) IN
         b.hand = c.hand /\ b.serverTrick = m.trick /\ b.cardsOnTable = m.cards
<1> DEFINE e == [c EXCEPT !.lastTotal = IsTotal(m)]
<1>1. e.hand = c.hand /\ {"serverTrick", "cardsOnTable", "hand"} \subseteq DOMAIN e
  BY DEF IsClient
<1>2. Read(c, m, s) = ReadTRICK(e, m)
  BY DEF Read, Asks
<1> HIDE DEF e
<1>3. QED
  BY <1>1, <1>2 DEF ReadTRICK

\* The automatic client answers.
LEMMA AnswerInStep ==
  ASSUME NEW auto, NEW c, IsClient(c), NEW q, IsQueue(q), q # <<>>, NEW u, NEW v,
         Judged(v), InStep(auto, c, q, u, v), Asks(c, Head(q)), Head(q).hand \subseteq Card,
         NEW s, NEW card \in AutoCards(Read(c, Head(q), s))
  PROVE  LET b == Read(c, Head(q), s) IN
         InStep(auto, Play(b, card), Tail(q),
                Append(u, [trick |-> b.serverTrick, card |-> card]), v)
<1> DEFINE b == Read(c, Head(q), s)
           d == Play(b, card)
           a == [trick |-> v.trick, card |-> card]
<1>0. b = Read(c, Head(q), s) /\ IsClient(b)
  BY ReadKeeps
<1> HIDE DEF b
<1>1. /\ v.turn /\ ~v.wrong /\ u = <<>> /\ AllFresh(v, Tail(q)) /\ Fresh(v, Head(q))
      /\ c.hand = SetToBag(v.hand) /\ DOMAIN c.hand = v.hand
  BY AskAnswered
<1>2. b.hand = c.hand /\ b.serverTrick = v.trick /\ b.cardsOnTable = v.table
  BY <1>1, TrickRead DEF b, Fresh
<1>3. card \in v.hand /\ Playable(v, card)
  BY <1>1, <1>2 DEF AutoCards, Playable, b
<1>4. /\ d.lastPlayedTrick = b.serverTrick /\ d.serverTrick = b.serverTrick
      /\ d.lastPlayedCard = card /\ d.hand = b.hand (-) SetToBag({card})
  BY <1>0 DEF Play, IsClient
<1>5. Append(u, [trick |-> b.serverTrick, card |-> card]) = <<a>>
  BY <1>1, <1>2
<1> HIDE DEF d
<1>6. InStep(auto, d, Tail(q), <<a>>, v)
  BY <1>1, <1>2, <1>3, <1>4, CardPlayed
<1>7. QED
  BY <1>5, <1>6 DEF d, b

-----------------------------------------------------------------------------
\* The server of a quiet system: no client has left.

\* What the server keeps by itself.
QuietServer == drops = 0 /\ InformedInv /\ EndInv /\ BoundType

\* The parts of it that are used below.  No write blocks in the system.
LEMMA QuietParts ==
  ASSUME QuietServer
  PROVE  /\ SeatInv /\ LoopInv /\ CardInv /\ EntryInv /\ TableInv /\ ConnInv /\ LockInv
         /\ OwnInv /\ DealInv /\ NumberInv /\ FieldsInv /\ RulesInv
         /\ AtPeace /\ TurnsInv /\ MtxHeld /\ SendHeld /\ AllTold /\ Asked
         /\ blocks = 0 /\ (~gameOver => Once)
<1>1. drops = 0 /\ InformedInv /\ EndInv /\ blocks \in 0..MaxBlocks
  BY DEF QuietServer, BoundType
<1>2. blocks = 0
  BY <1>1, SystemAssumption
<1>3. SeatsInv /\ NumberInv /\ SendInv /\ FieldsInv /\ ToldInv
  BY <1>1 DEF InformedInv
<1>4. QuietInv /\ OwnInv /\ DealInv /\ OnceInv /\ MtxInv /\ OwnerInv
  BY <1>3 DEF SeatsInv
<1>5. LoopInv /\ CardInv /\ ConnInv /\ PeaceInv /\ LockInv /\ TurnsInv
  BY <1>1, <1>4 DEF QuietInv
<1>6. SeatInv /\ EntryInv /\ TableInv /\ AtPeace
  BY <1>1, <1>5 DEF CardInv, PeaceInv
<1>7. MtxHeld /\ SendHeld /\ AllTold /\ Asked /\ (~gameOver => Once)
  BY <1>1, <1>2, <1>3, <1>4 DEF MtxInv, SendInv, ToldInv, OwnerInv, OnceInv
<1>8. QED
  BY <1>1, <1>2, <1>3, <1>4, <1>5, <1>6, <1>7 DEF RulesInv

\* A step of the server keeps it while no client leaves.
LEMMA QuietServerStep ==
  ASSUME drops \in Nat, drops = 0 => QuietServer, [Next]_vars, drops' = 0
  PROVE  drops = 0 /\ QuietServer /\ QuietServer'
<1>1. drops = 0 /\ QuietServer
  BY DropsGrow
<1>2. InformedInv' /\ EndInv' /\ BoundType'
  BY <1>1, QuietParts, InformedStep, RulesStep, BoundStep DEF QuietServer, RulesInv
<1>3. QED
  BY <1>1, <1>2 DEF QuietServer

\* The clients of a quiet system take the seats they ask for and keep them to the
\* end of the game, and a card is expected of one that is there.
HereInv ==
  /\ \A s \in DOMAIN playerFds : ~gameOver /\ playerFds[s] \in Fds => pc[playerFds[s]] \in Seated
  /\ fdExpectedTrick \in Fds => pc[fdExpectedTrick] \in Seated
  /\ \A fd \in Fds : pc[fd] \in {"handleIAM"} \cup Seated => seat[fd] = SeatOf[fd]

\* Only clients at the table are told of a deal, and of each deal once.
NewsInv ==
  \A fd \in Fds :
    /\ seen[fd].deal \in 0..di
    /\ seen[fd].deal > 0 => pc[fd] \in Seated
    /\ dealPc = "ready" \/ (dealPc = "DEAL" /\ ~Passed(fd)) => seen[fd].deal # di

\* The ask and the refusal that are sent are of the trick that is played, and a deal
\* is as the file gives it until all have been told.
AskInv ==
  /\ dealPc = "TRICK" => /\ out[DealThread].to = fdExpectedTrick
                         /\ out[DealThread].trick = deal.currentTrick
  /\ \A fd \in Fds : pc[fd] = "WRONG" /\ dealPc \in {"turn", "TRICK", "await"} =>
       out[fd].trick = deal.currentTrick
  /\ dealPc \in {"ready", "DEAL"} =>
       deal.cardsOnTable = <<>> /\ deal.originalHand = deal.currentHand

CalmInv == HereInv /\ NewsInv /\ AskInv
-----------------------------------------------------------------------------
\* What a player thread does while no client leaves: nobody goes before the game is
\* over, and what a client knows changes only when it goes.
LEMMA QuietPlays ==
  ASSUME QuietServer, CalmInv, EndsInv, NEW fd \in Fds, ServerPlays(fd), drops' = 0
  PROVE  /\ UNCHANGED <<di, dealPc, it, gameOver, closed>>
         /\ \A f \in Fds \ {fd} : /\ pc'[f] = pc[f] /\ seat'[f] = seat[f]
                                  /\ seen'[f] = seen[f] /\ out'[f] = out[f]
         /\ out'[DealThread] = out[DealThread]
         /\ seen'[fd] \in {seen[fd], Ignorant}
         /\ pc[fd] \in Seated =>
              \/ gameOver /\ seen'[fd] = Ignorant
              \/ pc'[fd] \in Seated /\ seat'[fd] = seat[fd] /\ seen'[fd] = seen[fd]
         /\ pc'[fd] \in {"handleIAM"} \cup Seated => seat'[fd] = SeatOf[fd]
         /\ pc'[fd] = "WRONG" =>
              \/ pc[fd] = "WRONG" /\ out'[fd] = out[fd]
              \/ di = 0 \/ out'[fd].trick = deal.currentTrick
         /\ UNCHANGED <<deal, fdExpectedTrick>> \/ \E trick, card : HandleTRICK(fd, trick, card)
         /\ fdExpectedTrick' \in {fdExpectedTrick, NoFd}
         /\ \A s \in DOMAIN playerFds' :
              \/ s \in DOMAIN playerFds /\ playerFds'[s] = playerFds[s]
              \/ playerFds'[s] = fd /\ pc'[fd] \in Seated
<1> DEFINE Goal ==
         /\ UNCHANGED <<di, dealPc, it, gameOver, closed>>
         /\ \A f \in Fds \ {fd} : seat'[f] = seat[f] /\ seen'[f] = seen[f]
         /\ seen'[fd] \in {seen[fd], Ignorant}
         /\ pc[fd] \in Seated =>
              \/ gameOver /\ seen'[fd] = Ignorant
              \/ pc'[fd] \in Seated /\ seat'[fd] = seat[fd] /\ seen'[fd] = seen[fd]
         /\ pc'[fd] \in {"handleIAM"} \cup Seated => seat'[fd] = SeatOf[fd]
         /\ pc'[fd] = "WRONG" =>
              \/ pc[fd] = "WRONG" /\ out'[fd] = out[fd]
              \/ di = 0 \/ out'[fd].trick = deal.currentTrick
         /\ UNCHANGED <<deal, fdExpectedTrick>> \/ \E trick, card : HandleTRICK(fd, trick, card)
         /\ fdExpectedTrick' \in {fdExpectedTrick, NoFd}
         /\ \A s \in DOMAIN playerFds' :
              \/ s \in DOMAIN playerFds /\ playerFds'[s] = playerFds[s]
              \/ playerFds'[s] = fd /\ pc'[fd] \in Seated
<1>0. /\ SeatInv /\ LoopInv /\ ConnInv /\ AtPeace /\ SendHeld
      /\ DOMAIN seen = Fds /\ DOMAIN seat = Fds /\ DOMAIN pc = Fds /\ DOMAIN out = Senders
      /\ fd \in Senders /\ DealThread \in Senders /\ Fds \subseteq Senders /\ fd # DealThread
      /\ pc[fd] \notin CatchingUp /\ (pc[fd] = "failed" => gameOver)
  BY QuietParts, Descriptors DEF FieldsInv, SeatInv, LoopInv, Senders, AtPeace
<1>1. PlayerStep(fd)
  BY ServerPlayerStep
<1>2. pc[fd] \in {"handleIAM"} \cup Seated => seat[fd] = SeatOf[fd]
  BY DEF CalmInv, HereInv
<1>3. /\ \A f \in Senders \ {fd} : out'[f] = out[f]
      /\ \A f \in Fds \ {fd} : pc'[f] = pc[f]
  BY <1>0, <1>1, PlayerStepConn
<1> SUFFICES Goal
  BY <1>0, <1>3
<1>4. ASSUME NEW place, GoesTo(fd, place), place \in Seated, pc[fd] \in Seated,
             place # "WRONG" \/ (pc[fd] = "WRONG" /\ UNCHANGED out) \/ di = 0
               \/ out'[fd].trick = deal.currentTrick,
             UNCHANGED <<di, dealPc, it, gameOver, closed, seat, playerFds>>,
             \A f \in Fds : seen'[f] = seen[f],
             UNCHANGED <<deal, fdExpectedTrick>> \/ \E trick, card : HandleTRICK(fd, trick, card),
             fdExpectedTrick' \in {fdExpectedTrick, NoFd}
      PROVE  Goal
  <2>1. pc'[fd] = place
    BY <1>0, <1>4 DEF GoesTo
  <2>2. QED
    BY <1>2, <1>4, <2>1, PlacesSeated
<1>5. ASSUME Returns(fd), pc[fd] \notin Seated \/ gameOver,
             UNCHANGED <<di, dealPc, it, gameOver, closed, deal, fdExpectedTrick>>,
             playerFds' \in {playerFds, Erase(playerFds, seat[fd])}
      PROVE  Goal
  <2>1. /\ pc'[fd] = "done" /\ seen'[fd] = Ignorant
        /\ \A f \in Fds \ {fd} : seat'[f] = seat[f] /\ seen'[f] = seen[f]
    BY <1>0, <1>5 DEF Returns
  <2>2. \A s \in DOMAIN playerFds' : s \in DOMAIN playerFds /\ playerFds'[s] = playerFds[s]
    BY <1>5 DEF Erase
  <2>3. QED
    BY <1>5, <2>1, <2>2, PlacesSeated
<1>6. CASE RecvIAM(fd, SeatOf[fd])
  BY <1>0, <1>6, PlacesSeated DEF RecvIAM, GoesTo
<1>7. CASE RecvIAMFails(fd)
  BY <1>5, <1>7, PlacesSeated DEF RecvIAMFails
<1>8. CASE HandleIAM(fd)
  <2>1. /\ pc[fd] = "handleIAM" /\ ~dealSuspended
        /\ UNCHANGED <<di, dealPc, it, gameOver, closed, deal, fdExpectedTrick, seat, seen>>
    BY <1>0, <1>8 DEF HandleIAM, AtPeace
  <2>2. \/ pc'[fd] = "BUSY" /\ UNCHANGED playerFds
        \/ pc'[fd] = "recvTRICK" /\ playerFds' = Insert(playerFds, seat[fd], fd)
    BY <1>0, <1>8, <2>1 DEF HandleIAM, Sends, GoesTo
  <2>3. QED
    BY <1>2, <2>1, <2>2, PlacesSeated DEF Insert
<1>9. CASE RecvTRICKFails(fd)
  <2>1. pc[fd] = "recvTRICK"
    BY <1>9 DEF RecvTRICKFails
  <2>2. QED
    BY <1>4, <1>9, <2>1, PlacesSeated DEF RecvTRICKFails
<1>10. CASE Fail(fd)
  BY <1>0, <1>5, <1>10 DEF Fail, SeatsWithout
<1>11. CASE CatchUp(fd) \/ CaughtUp(fd)
  BY <1>0, <1>11, PlacesSeated DEF CatchUp, CaughtUp
<1>12. CASE LeaveIAM(fd)
  <2>1. pc[fd] = "BUSY"
    BY <1>0, <1>12, PlacesSeated DEF LeaveIAM
  <2>2. QED
    BY <1>5, <1>12, <2>1, PlacesSeated DEF LeaveIAM
<1>13. CASE WrongSent(fd)
  <2>1. /\ pc[fd] = "WRONG" /\ \E place \in {"recvTRICK", "failed"} : GoesTo(fd, place)
        /\ UNCHANGED <<di, dealPc, it, gameOver, closed, deal, fdExpectedTrick, seat, playerFds>>
    BY <1>13 DEF WrongSent
  <2>2. \A f \in Fds : seen'[f] = seen[f]
    <3>1. CASE Breaks(fd)
      BY <3>1 DEF Breaks
    <3>2. CASE Delivers(fd)
      <4>1. out[fd].kind = "WRONG"
        BY <1>0, <2>1 DEF SendHeld
      <4>2. Hear(seen[fd], out[fd]) = seen[fd]
        BY <4>1 DEF Hear
      <4>3. out[fd].to = fd
        BY <3>2 DEF Delivers, ConnInv, QuietServer, InformedInv, SeatsInv, QuietInv
      <4>4. QED
        BY <3>2, <4>2, <4>3 DEF Delivers
    <3>3. QED
      BY <1>13, <3>1, <3>2 DEF WrongSent
  <2>3. QED
    BY <1>4, <2>1, <2>2, PlacesSeated
<1>14. CASE RecvTRICK(fd)
  BY <1>4, <1>14, PlacesSeated DEF RecvTRICK
<1>15. ASSUME NEW trick, NEW card, HandleTRICK(fd, trick, card) PROVE Goal
  BY <1>4, <1>15, PlacesSeated DEF HandleTRICK, MayHandle, AfterCard
<1>16. ASSUME NEW trick, NEW card, RefuseTRICK(fd, trick, card) PROVE Goal
  <2>1. /\ pc[fd] = "handleTRICK" /\ pc[fd] \in Seated
        /\ UNCHANGED <<di, dealPc, it, gameOver, closed, seat, seen, playerFds, deal,
                       fdExpectedTrick>>
    BY <1>16, PlacesSeated DEF RefuseTRICK, MayHandle
  <2>2. CASE di = 0
    <3>1. pc' = pc
      BY <1>16, <2>2 DEF RefuseTRICK
    <3>2. QED
      BY <1>2, <2>1, <3>1
  <2>3. CASE Sends(fd, "WRONG", "WRONG", deal.currentTrick)
    <3>1. GoesTo(fd, "WRONG") /\ out'[fd].trick = deal.currentTrick
      BY <1>0, <2>3 DEF Sends, Message
    <3>2. QED
      BY <1>4, <2>1, <3>1, PlacesSeated
  <2>4. QED
    BY <1>16, <2>2, <2>3 DEF RefuseTRICK
<1>17. QED
  BY <1>6, <1>7, <1>8, <1>9, <1>10, <1>11, <1>12, <1>13, <1>14, <1>15, <1>16 DEF ServerPlays


\* The main thread begins a deal nobody knows of, as the file gives it.
LEMMA CalmMainStep == QuietServer /\ CalmInv /\ MainStep => CalmInv'
<1> SUFFICES ASSUME QuietServer, CalmInv, MainStep PROVE CalmInv'
  OBVIOUS
<1>1. /\ di \in Nat /\ (dealPc # "done" => di > 0)
      /\ UNCHANGED <<pc, seat, playerFds, fdExpectedTrick, seen, out, it>>
      /\ gameOver => gameOver'
  BY QuietParts DEF MainStep, NextDeal, JoinDeal, EndGame, StopAccepting, DisconnectAll,
                    JoinClients, TableInv
<1>2. CASE NextDeal
  <2>1. /\ di' = di + 1 /\ dealPc' = "ready"
        /\ deal'.cardsOnTable = <<>> /\ deal'.originalHand = deal'.currentHand
    BY <1>2 DEF NextDeal, NewDeal
  <2>2. HereInv'
    BY <1>1, <2>1 DEF CalmInv, HereInv
  <2>3. NewsInv'
    BY <1>1, <2>1 DEF CalmInv, NewsInv
  <2>4. AskInv'
    BY <2>1 DEF AskInv
  <2>5. QED
    BY <2>2, <2>3, <2>4 DEF CalmInv
<1>3. CASE ~NextDeal
  <2>1. UNCHANGED <<di, deal, dealPc>>
    BY <1>3 DEF MainStep, JoinDeal, EndGame, StopAccepting, DisconnectAll, JoinClients
  <2>2. HereInv'
    BY <1>1, <2>1 DEF CalmInv, HereInv
  <2>3. NewsInv'
    BY <1>1, <2>1 DEF CalmInv, NewsInv, Passed
  <2>4. AskInv'
    BY <1>1, <2>1 DEF CalmInv, AskInv
  <2>5. QED
    BY <2>2, <2>3, <2>4 DEF CalmInv
<1>4. QED
  BY <1>2, <1>3

\* A new connection is one nobody has used.
LEMMA CalmAcceptStep == QuietServer /\ CalmInv /\ AcceptStep => CalmInv'
<1> SUFFICES ASSUME QuietServer, CalmInv, AcceptStep PROVE CalmInv'
  OBVIOUS
<1>1. /\ UNCHANGED <<di, deal, dealPc, it, seat, playerFds, fdExpectedTrick, seen, out, gameOver>>
      /\ SeatInv /\ DOMAIN pc = Fds
  BY QuietParts DEF AcceptStep, PollIn, PollHup, Accept, AcceptFails, SeatInv
<1>2. \A f \in Fds : pc'[f] = pc[f] \/ (pc[f] = "none" /\ pc'[f] = "recvIAM")
  <2>1. CASE Accept
    <3>1. PICK fd : /\ pc' = [pc EXCEPT ![fd] = "recvIAM"]
                    /\ fd \in Fds => pc[fd] = "none"
      BY <2>1, AcceptNew, QuietParts
    <3>2. QED
      BY <1>1, <3>1
  <2>2. CASE ~Accept
    BY <2>2 DEF AcceptStep, PollIn, PollHup, AcceptFails
  <2>3. QED
    BY <2>1, <2>2
<1>3. HereInv'
  BY <1>1, <1>2, PlacesSeated DEF CalmInv, HereInv
<1>4. NewsInv'
  BY <1>1, <1>2, PlacesSeated DEF CalmInv, NewsInv, Passed
<1>5. AskInv'
  BY <1>1, <1>2 DEF CalmInv, AskInv
<1>6. QED
  BY <1>3, <1>4, <1>5 DEF CalmInv

\* A player thread tells nobody of a deal while no client leaves.
LEMMA CalmPlays ==
  ASSUME QuietServer, CalmInv, EndsInv, NEW fd \in Fds, ServerPlays(fd), drops' = 0
  PROVE  CalmInv'
<1> USE QuietPlays
<1>1. /\ SeatInv /\ TableInv /\ TurnsInv /\ MtxHeld /\ DealInv
      /\ di \in Nat /\ (dealPc # "done" => di > 0) /\ NoFd \notin Fds
      /\ (gameOver => dealPc = "done")
  BY QuietParts, Descriptors DEF TableInv, DealInv
<1>2. /\ UNCHANGED <<di, dealPc, it, gameOver>>
      /\ \A f \in Fds \ {fd} : /\ pc'[f] = pc[f] /\ seat'[f] = seat[f]
                               /\ seen'[f] = seen[f] /\ out'[f] = out[f]
      /\ out'[DealThread] = out[DealThread]
  OBVIOUS
<1>3. ASSUME ~UNCHANGED <<deal, fdExpectedTrick>>
      PROVE  /\ mtx = Unlocked /\ dealPc \in {"TRICK", "await", "turn"}
             /\ deal'.currentTrick = deal.currentTrick
  <2>1. PICK trick, card : HandleTRICK(fd, trick, card)
    BY <1>3
  <2>2. /\ mtx = Unlocked /\ di > 0 /\ fdExpectedTrick = fd /\ deal' = PlayCard(deal, card)
    BY <2>1 DEF HandleTRICK, MayHandle, Expected
  <2>3. GameInv(deal)
    BY <1>1, <2>2 DEF TableInv
  <2>4. IsDeal(deal)
    BY <2>3 DEF GameInv
  <2>5. QED
    BY <1>1, <2>2, <2>4, DealNumbers DEF TurnsInv
<1>4. HereInv'
  <2>1. fdExpectedTrick' \in Fds =>
          fdExpectedTrick' = fdExpectedTrick /\ ~gameOver
    BY <1>1 DEF TurnsInv
  <2>2. \A s \in DOMAIN playerFds' : ~gameOver' /\ playerFds'[s] \in Fds
          => pc'[playerFds'[s]] \in Seated
    BY <1>2 DEF CalmInv, HereInv
  <2>3. fdExpectedTrick' \in Fds => pc'[fdExpectedTrick'] \in Seated
    BY <1>2, <2>1 DEF CalmInv, HereInv
  <2>4. \A f \in Fds : pc'[f] \in {"handleIAM"} \cup Seated => seat'[f] = SeatOf[f]
    BY <1>2 DEF CalmInv, HereInv
  <2>5. QED
    BY <2>2, <2>3, <2>4 DEF HereInv
<1>5. NewsInv'
  <2> SUFFICES ASSUME NEW f \in Fds
               PROVE  /\ seen'[f].deal \in 0..di'
                      /\ seen'[f].deal > 0 => pc'[f] \in Seated
                      /\ dealPc' = "ready" \/ (dealPc' = "DEAL" /\ ~Passed(f)') =>
                           seen'[f].deal # di'
    BY DEF NewsInv
  <2>1. /\ seen[f].deal \in 0..di /\ (seen[f].deal > 0 => pc[f] \in Seated)
        /\ dealPc = "ready" \/ (dealPc = "DEAL" /\ ~Passed(f)) => seen[f].deal # di
    BY DEF CalmInv, NewsInv
  <2>2. seat'[f] = seat[f] => (Passed(f)' <=> Passed(f))
    BY <1>2 DEF Passed
  <2>3. CASE f # fd
    BY <1>2, <2>1, <2>2, <2>3
  <2>4. CASE f = fd
    BY <1>1, <1>2, <2>1, <2>2, <2>4 DEF Ignorant
  <2>5. QED
    BY <2>3, <2>4
<1>6. AskInv'
  <2>1. dealPc = "TRICK" => mtx # Unlocked
    BY <1>1, Descriptors DEF MtxHeld, DealSends
  <2>2. dealPc \in {"TRICK", "ready", "DEAL"} => UNCHANGED <<deal, fdExpectedTrick>>
    BY <1>3, <2>1
  <2>3. deal'.currentTrick = deal.currentTrick
    BY <1>3
  <2>4. ASSUME NEW f \in Fds, pc'[f] = "WRONG", dealPc \in {"turn", "TRICK", "await"}
        PROVE  out'[f].trick = deal.currentTrick
    BY <1>1, <1>2, <2>4 DEF CalmInv, AskInv
  <2>5. QED
    BY <1>2, <2>2, <2>3, <2>4 DEF CalmInv, AskInv
<1>7. QED
  BY <1>4, <1>5, <1>6 DEF CalmInv

\* dealThread runs while the game goes on, and sends while no player thread does.
LEMMA DealStepFree ==
  ASSUME QuietServer, DealStep, blocks' = 0
  PROVE  /\ ~gameOver /\ di > 0 /\ mtx \in {Unlocked, DealThread}
         /\ \A fd \in Fds : pc[fd] # "WRONG" /\ pc[fd] # "BUSY"
<1>1. DealInv /\ TableInv /\ MtxHeld /\ blocks = 0
  BY QuietParts
<1>2. dealPc # "done" /\ mtx \in {Unlocked, DealThread}
  BY <1>1 DEF DealStep, DealReady, Broadcast, BroadcastFails, Blocks, BeginTurn, AskSent, Timeout,
              Answered, Resume, EndTrick, EndDeal, Delivers, Breaks, Locks, MtxHeld, DealSends
<1>3. \A fd \in Fds : pc[fd] # "WRONG" /\ pc[fd] # "BUSY"
  BY <1>1, <1>2, Descriptors, PlacesSending DEF MtxHeld
<1>4. QED
  BY <1>1, <1>2, <1>3 DEF DealInv, TableInv

\* dealThread tells the deal to the clients at the table, to each once, and asks
\* one of them.
LEMMA CalmDealStep == QuietServer /\ CalmInv /\ OutInv /\ DealStep /\ blocks' = 0 => CalmInv'
<1> SUFFICES ASSUME QuietServer, CalmInv, OutInv, DealStep, blocks' = 0 PROVE CalmInv'
  OBVIOUS
<1>1. /\ SeatInv /\ LoopInv /\ ConnInv /\ TableInv /\ SendHeld /\ OwnInv /\ NumberInv
      /\ AtPeace /\ it \in 1..End /\ di \in Nat /\ blocks = 0
      /\ DOMAIN seen = Fds /\ DOMAIN out = Senders /\ DealThread \in Senders
  BY QuietParts DEF LoopInv, FieldsInv, TableInv, QuietServer, BoundType, Senders
<1>2. UNCHANGED <<pc, seat, di, gameOver>>
  BY DEF DealStep, DealReady, Broadcast, BroadcastFails, Blocks, BeginTurn, AskSent, Timeout,
         Answered, Resume, EndTrick, EndDeal
<1>3. ~gameOver /\ di > 0 /\ \A f \in Fds : pc[f] # "WRONG"
  BY DealStepFree
<1>4. /\ IsDeal(deal)
      /\ \A f \in Fds : /\ seen[f].deal \in 0..di /\ (seen[f].deal > 0 => pc[f] \in Seated)
                        /\ dealPc = "ready" => seen[f].deal # di
  BY <1>1, <1>3 DEF TableInv, GameInv, CalmInv, NewsInv
<1>5. ASSUME HereInv', \A f \in Fds : seen'[f] = seen[f], dealPc' \notin {"ready", "DEAL"},
             dealPc' = "TRICK" => /\ out'[DealThread].to = fdExpectedTrick'
                                  /\ out'[DealThread].trick = deal'.currentTrick
      PROVE  CalmInv'
  <2>1. NewsInv'
    <3>1. \A f \in Fds : /\ seen'[f].deal \in 0..di' /\ (seen'[f].deal > 0 => pc'[f] \in Seated)
      BY <1>2, <1>4, <1>5
    <3>2. QED
      BY <1>5, <3>1 DEF NewsInv
  <2>2. AskInv'
    BY <1>2, <1>3, <1>5 DEF AskInv
  <2>3. QED
    BY <1>5, <2>1, <2>2 DEF CalmInv
<1>6. UNCHANGED <<playerFds, fdExpectedTrick>> => HereInv'
  BY <1>2 DEF CalmInv, HereInv
<1>7. CASE DealReady
  <2>1. /\ UNCHANGED <<playerFds, fdExpectedTrick, seen, deal>> /\ dealPc = "ready"
        /\ dealPc' = "DEAL"
    BY <1>7 DEF DealReady, SendTo
  <2>2. NewsInv'
    <3>1. \A f \in Fds : /\ seen'[f].deal \in 0..di' /\ (seen'[f].deal > 0 => pc'[f] \in Seated)
                         /\ seen'[f].deal # di'
      BY <1>2, <1>4, <2>1
    <3>2. QED
      BY <3>1 DEF NewsInv
  <2>3. AskInv'
    BY <2>1 DEF CalmInv, AskInv
  <2>4. QED
    BY <1>6, <2>1, <2>2, <2>3 DEF CalmInv
<1>8. CASE Broadcast
  <2> DEFINE m == out[DealThread]
  <2>1. /\ UNCHANGED <<playerFds, fdExpectedTrick, deal>> /\ m # Nothing
        /\ dealPc \in {"DEAL", "TAKEN", "SCORE", "TOTAL"}
        /\ dealPc' \in {"DEAL", "TAKEN", "SCORE", "TOTAL"} /\ (dealPc' = "DEAL" => dealPc = "DEAL")
        /\ (dealPc = "DEAL" => it' = Following(it)) /\ m.to \notin disconnected
        /\ \A f \in Fds : seen'[f] = IF f = m.to THEN Hear(seen[f], m) ELSE seen[f]
    BY <1>8 DEF Broadcast, SendTo, Delivers
  <2>2. CASE dealPc = "DEAL"
    <3>1. it # End /\ m = Message("DEAL", playerFds[KeyOrder[it]], 0)
      BY <1>1, <2>1, <2>2 DEF SendHeld
    <3> DEFINE to == playerFds[KeyOrder[it]]
    <3>2. m.to = to /\ \A f \in Fds : seen'[f] = IF f = to THEN Seen(0) ELSE seen[f]
      <4>1. m.to = to
        BY <3>1 DEF Message
      <4>2. \A know : Hear(know, m) = Seen(0)
        BY <3>1, Hearing
      <4> HIDE DEF m, to
      <4>3. QED
        BY <2>1, <4>1, <4>2
    <3>3. KeyOrder[it] \in DOMAIN playerFds
      BY <1>1, <2>1, <2>2, <3>1 DEF LoopInv, IteratorValid
    <3>4. to \in Fds => pc[to] \in Seated /\ seat[to] = KeyOrder[it]
      BY <1>1, <1>3, <3>3 DEF CalmInv, HereInv, OwnInv
    <3>5. it' > it /\ it' \in Int /\ it \in Int /\ it \in DOMAIN KeyOrder
          /\ DOMAIN KeyOrder \subseteq Int
      <4>1. KeyOrder \in Seq(Seats) /\ End \in Int
        BY KeyPlaces
      <4>2. DOMAIN KeyOrder = 1..Len(KeyOrder) /\ Len(KeyOrder) \in Nat
        BY <4>1, LenProperties
      <4>3. it \in 1..Len(KeyOrder) /\ it < End
        BY <1>1, <3>1, <4>1, <4>2 DEF End
      <4>4. Following(it) \in 1..End /\ Following(it) > it
        BY <4>2, <4>3, FollowingType
      <4>5. QED
        BY <2>1, <2>2, <4>1, <4>2, <4>3, <4>4
    <3>6. NewsInv'
      <4> HIDE DEF m, to
      <4> SUFFICES ASSUME NEW f \in Fds
                   PROVE  /\ seen'[f].deal \in 0..di' /\ (seen'[f].deal > 0 => pc'[f] \in Seated)
                          /\ ~Passed(f)' => seen'[f].deal # di'
        <5> SUFFICES \A f \in Fds : /\ seen'[f].deal \in 0..di'
                                    /\ (seen'[f].deal > 0 => pc'[f] \in Seated)
                                    /\ ~Passed(f)' => seen'[f].deal # di'
          BY <2>1, <2>2, Zenon DEF NewsInv
        <5> QED
          OBVIOUS
      <4>1. Passed(f) => Passed(f)'
        BY <1>1, <1>2, <3>5 DEF Passed
      <4>2. CASE f = to
        <5>1. Passed(f)'
          BY <1>2, <3>4, <3>5, <4>2 DEF Passed
        <5>2. seen'[f].deal = di
          BY <3>2, <4>2 DEF Seen
        <5>3. QED
          BY <1>1, <1>2, <3>4, <4>2, <5>1, <5>2
      <4>3. CASE f # to
        <5>1. seen'[f] = seen[f]
          BY <3>2, <4>3
        <5>2. ~Passed(f) => seen[f].deal # di
          BY <2>2 DEF CalmInv, NewsInv
        <5>3. QED
          BY <1>2, <1>4, <4>1, <5>1, <5>2
      <4>4. QED
        BY <4>2, <4>3
    <3>7. AskInv'
      BY <1>3, <2>1, <2>2, <1>2 DEF CalmInv, AskInv
    <3>8. QED
      BY <1>6, <2>1, <3>6, <3>7 DEF CalmInv
  <2>3. CASE dealPc # "DEAL"
    <3>1. dealPc' \notin {"ready", "DEAL", "turn", "TRICK", "await"}
      BY <2>1, <2>3
    <3>2. \A f \in Fds : seen'[f].deal = seen[f].deal
      <4>1. CASE dealPc = "TAKEN"
        <5>1. m = Message("TAKEN", playerFds[KeyOrder[it]], deal.currentTrick) /\ it # End
          BY <1>1, <2>1, <4>1 DEF SendHeld
        <5>2. m.to = playerFds[KeyOrder[it]] /\ KeyOrder[it] \in DOMAIN playerFds
          <6>1. m.to = playerFds[KeyOrder[it]]
            BY <5>1 DEF Message
          <6>2. QED
            BY <1>1, <2>1, <4>1, <5>1, <6>1 DEF LoopInv, IteratorValid
        <5>3. m.to \in Fds => pc[m.to] \in Seated /\ pc[m.to] \notin CatchingUp
          BY <1>1, <1>3, <5>2 DEF CalmInv, HereInv, AtPeace
        <5>4. \A f \in Fds : f = m.to => Hear(seen[f], m).deal = seen[f].deal
          <6> SUFFICES ASSUME NEW f \in Fds, f = m.to
                       PROVE  Hear(seen[f], m).deal = seen[f].deal
            OBVIOUS
          <6>1. seen[f] \in {Seen(deal.currentTrick - 1), Seen(deal.currentTrick)}
            BY <4>1, <5>3, QuietParts DEF AllTold, Knows, KnowsTable
          <6>2. deal.currentTrick \in Nat /\ deal.currentTrick - 1 \in Nat
            BY <1>1, <1>3, <1>4, DealNumbers DEF NumberInv
          <6>3. Hear(Seen(deal.currentTrick - 1), m) = Seen(deal.currentTrick - 1 + 1)
            BY <5>1, <6>2, Hearing
          <6>4. Hear(Seen(deal.currentTrick), m) = Seen(deal.currentTrick)
            BY <5>1, <6>2, Hearing
          <6>5. \A n : Seen(n).deal = di
            BY DEF Seen
          <6>6. QED
            BY <6>1, <6>3, <6>4, <6>5
        <5>5. QED
          BY <2>1, <5>4
      <4>2. CASE dealPc \in {"SCORE", "TOTAL"}
        <5>1. m.kind \in {"SCORE", "TOTAL"}
          BY <2>1, <4>2 DEF OutInv
        <5>2. \A know : Hear(know, m) = know
          BY <5>1 DEF Hear
        <5>3. QED
          BY <2>1, <5>2
      <4>3. QED
        BY <2>1, <2>3, <4>1, <4>2
    <3>3. NewsInv'
      <4>1. \A f \in Fds : /\ seen'[f].deal \in 0..di' /\ (seen'[f].deal > 0 => pc'[f] \in Seated)
        BY <1>2, <1>4, <3>2
      <4>2. QED
        BY <3>1, <4>1 DEF NewsInv
    <3>4. AskInv'
      BY <3>1 DEF AskInv
    <3>5. QED
      BY <1>6, <2>1, <3>3, <3>4 DEF CalmInv
  <2>4. QED
    BY <2>2, <2>3
<1>9. CASE BroadcastFails
  <2>1. UNCHANGED <<playerFds, fdExpectedTrick, seen, deal, dealPc, it, out>>
    BY <1>9 DEF BroadcastFails, Breaks
  <2>2. NewsInv' /\ AskInv'
    BY <1>2, <2>1 DEF CalmInv, NewsInv, AskInv, Passed
  <2>3. QED
    BY <1>6, <2>1, <2>2 DEF CalmInv
<1>10. CASE Blocks(DealThread)
  BY <1>1, <1>10 DEF Blocks
<1>11. CASE BeginTurn
  <2>1. Ask /\ UNCHANGED <<seen, deal>>
    BY <1>1, <1>11 DEF BeginTurn, AtPeace
  <2>2. dealPc' = "TRICK" /\ out'[DealThread].to = fdExpectedTrick'
        /\ out'[DealThread].trick = deal'.currentTrick
    BY <1>1, <2>1 DEF Ask, Message
  <2>3. HereInv'
    <3> DEFINE s == deal.currentPlayer
    <3>1. \A x \in DOMAIN playerFds' : playerFds'[x] \in Fds =>
            x \in DOMAIN playerFds /\ playerFds'[x] = playerFds[x]
      BY <2>1, Descriptors DEF Ask, Insert
    <3>2. fdExpectedTrick' \in Fds => s \in DOMAIN playerFds /\ fdExpectedTrick' = playerFds[s]
      BY <2>1, Descriptors DEF Ask
    <3>3. QED
      BY <1>2, <1>3, <3>1, <3>2 DEF CalmInv, HereInv
  <2>4. QED
    BY <1>5, <2>1, <2>2, <2>3
<1>12. CASE AskSent
  <2>1. /\ dealPc' \in {"TAKEN", "turn", "await"} /\ UNCHANGED <<playerFds, fdExpectedTrick>>
        /\ out[DealThread].kind = "TRICK"
    BY <1>1, <1>12 DEF AskSent, TurnOver, SendTo, SendHeld
  <2>2. \A f \in Fds : seen'[f] = seen[f]
    BY <1>12, <2>1, Hearing DEF AskSent, Delivers, Breaks
  <2>3. QED
    BY <1>5, <1>6, <2>1, <2>2
<1>13. CASE Timeout
  BY <1>5, <1>6, <1>13 DEF Timeout
<1>14. CASE Answered
  BY <1>5, <1>6, <1>14 DEF Answered, TurnOver, SendTo
<1>15. CASE Resume
  BY <1>1, <1>15 DEF Resume, AtPeace
<1>16. CASE EndTrick
  BY <1>5, <1>6, <1>16 DEF EndTrick, SendTo
<1>17. CASE EndDeal
  BY <1>5, <1>6, <1>17 DEF EndDeal
<1>18. QED
  BY <1>7, <1>8, <1>9, <1>10, <1>11, <1>12, <1>13, <1>14, <1>15, <1>16, <1>17 DEF DealStep

-----------------------------------------------------------------------------
\* Every step of a system that no client leaves keeps the server calm.
LEMMA CalmStep ==
  ASSUME QuietServer, CalmInv, OutInv, EndsInv, [SystemNext]_allVars, ~Crash,
         drops' = 0, blocks' = 0
  PROVE  CalmInv'
<1>1. drops = 0
  BY DEF QuietServer
<1>2. CASE MainStep
  BY <1>2, CalmMainStep
<1>3. CASE ServerAccepts
  BY <1>3, CalmAcceptStep DEF ServerAccepts, Arrives, AcceptStep
<1>4. CASE ServerDeals
  <2>1. DealStep
    BY <1>4 DEF ServerDeals, AsksAgain, DealStep
  <2>2. QED
    BY <2>1, CalmDealStep
<1>5. ASSUME NEW fd \in Fds, ServerPlays(fd) PROVE CalmInv'
  BY <1>5, CalmPlays
<1>6. ASSUME UNCHANGED vars PROVE CalmInv'
  <2>1. UNCHANGED <<di, gameOver, deal, dealPc, it, playerFds, fdExpectedTrick, pc, seat, out, seen>>
    BY <1>6 DEF vars
  <2>2. HereInv'
    BY <2>1 DEF CalmInv, HereInv
  <2>3. NewsInv'
    BY <2>1 DEF CalmInv, NewsInv, Passed
  <2>4. AskInv'
    BY <2>1 DEF CalmInv, AskInv
  <2>5. QED
    BY <2>2, <2>3, <2>4 DEF CalmInv
<1>7. ASSUME NEW fd \in Fds, ClientStep(fd) PROVE CalmInv'
  <2>1. UNCHANGED vars
    BY <1>7 DEF ClientStep, Crash, Reads, Answers, ConnectionEnds
  <2>2. QED
    BY <1>6, <2>1
<1>8. ASSUME NEW fd \in Fds, Leaves(fd) PROVE CalmInv'
  BY <1>1, <1>8 DEF Leaves, ClientCloses
<1>9. ASSUME NEW fd \in Fds, NEW card \in Card, Types(fd, card) PROVE CalmInv'
  BY <1>6, <1>9 DEF Types
<1>10. CASE UNCHANGED allVars
  <2>1. UNCHANGED vars
    BY <1>10 DEF allVars
  <2>2. QED
    BY <1>6, <2>1
<1>11. QED
  BY <1>2, <1>3, <1>4, <1>5, <1>7, <1>8, <1>9, <1>10 DEF SystemNext
-----------------------------------------------------------------------------
\* How many cards the seats hold.
LEMMA HandSizes ==
  ASSUME QuietServer, AskInv, di > 0
  PROVE  /\ GameInv(deal) /\ IsDeal(deal) /\ deal.currentTrick \in Nat \ {0}
         /\ LastTrick \in Nat \ {0}
         /\ \A s \in Seats : /\ deal.currentHand[s] \subseteq Card
                             /\ IsFiniteSet(deal.currentHand[s])
         /\ dealPc \in {"ready", "DEAL"} =>
              \A s \in Seats : Cardinality(deal.currentHand[s]) = LastTrick
         /\ dealPc = "TAKEN" =>
              \A s \in Seats : Cardinality(deal.currentHand[s]) = LastTrick - deal.currentTrick
         /\ dealPc \in Ended => \A s \in Seats : Cardinality(deal.currentHand[s]) # LastTrick
         /\ dealPc \in {"turn", "TRICK", "await"} /\ ~trickDone[deal.currentPlayer] =>
              /\ deal.currentTrick \in 1..LastTrick
              /\ Cardinality(deal.currentHand[deal.currentPlayer])
                   = LastTrick - deal.currentTrick + 1
<1> DEFINE k == deal.currentTrick
           Size(s) == Cardinality(deal.currentHand[s])
<1>1. /\ TableInv /\ TurnsInv /\ NumberInv /\ EndInv /\ GameInv(deal) /\ Sized(deal)
      /\ (Finished(deal) <=> dealPc \in Ended)
  BY QuietParts DEF QuietServer, EndInv, TableInv
<1>2. /\ IsDeal(deal) /\ k \in Nat \ {0} /\ deal.currentHand \in HandsType
      /\ deal.currentPlayer \in Seats /\ deal.cardsOnTable \in Seq(Card)
  BY <1>1 DEF GameInv, IsDeal, Sized
<1>3. LastTrick \in Nat \ {0}
  BY CardsAssumption
<1>4. ASSUME NEW s \in Seats
      PROVE  /\ deal.currentHand[s] \subseteq Card /\ IsFiniteSet(deal.currentHand[s])
             /\ Size(s) \in Nat
             /\ Size(s) = LastTrick + 1 - k - IF HasPlayed(deal, s) THEN 1 ELSE 0
  <2>1. deal.currentHand[s] \subseteq Card
    BY <1>2 DEF HandsType
  <2>2. IsFiniteSet(deal.currentHand[s])
    BY <2>1, CardFinite, FS_Subset
  <2>3. Size(s) \in Nat
    BY <2>2, FS_CardinalityType
  <2>4. QED
    BY <1>1, <2>1, <2>2, <2>3 DEF Sized
<1>5. ASSUME deal.cardsOnTable = <<>>, NEW s \in Seats PROVE Size(s) = LastTrick + 1 - k
  <2>1. ~HasPlayed(deal, s)
    BY <1>5 DEF HasPlayed, Range
  <2>2. Size(s) = LastTrick + 1 - k - 0
    BY <1>4, <2>1
  <2>3. QED
    BY <1>2, <1>3, <2>2
<1>6. ASSUME dealPc \in {"ready", "DEAL"}, NEW s \in Seats PROVE Size(s) = LastTrick
  <2>1. k = 1 /\ deal.cardsOnTable = <<>>
    BY <1>1, <1>6 DEF NumberInv, AskInv
  <2>2. Size(s) = LastTrick + 1 - k
    BY <1>5, <2>1
  <2>3. QED
    BY <1>3, <2>1, <2>2
<1>7. ASSUME dealPc = "TAKEN", NEW s \in Seats PROVE Size(s) = LastTrick - k
  <2>1. PICK f \in 1..Players : Rotates(deal, f) /\ Len(deal.cardsOnTable) = Players
    BY <1>1, <1>7 DEF TurnsInv, Played
  <2>2. InTurn(deal.originalHand, deal.cardsOnTable, f)
    BY <2>1 DEF Rotates, Turned
  <2>3. HasPlayed(deal, s)
    BY <1>2, <2>1, <2>2, AllHavePlayed
  <2>4. Size(s) = LastTrick + 1 - k - 1
    BY <1>4, <2>3
  <2>5. QED
    BY <1>2, <1>3, <2>4
<1>8. ASSUME dealPc \in Ended, NEW s \in Seats PROVE Size(s) # LastTrick
  <2>1. k > 1 /\ deal.cardsOnTable = <<>>
    BY <1>1, <1>8 DEF Finished
  <2>2. Size(s) = LastTrick + 1 - k
    BY <1>5, <2>1
  <2>3. QED
    BY <1>2, <1>3, <2>1, <2>2
<1>9. ASSUME dealPc \in {"turn", "TRICK", "await"}, ~trickDone[deal.currentPlayer]
      PROVE  k \in 1..LastTrick /\ Size(deal.currentPlayer) = LastTrick - k + 1
  <2>1. PICK f \in 1..Players : Rotates(deal, f) /\ Len(deal.cardsOnTable) < Players
    BY <1>1, <1>9 DEF TurnsInv, Played
  <2>2. ~HasPlayed(deal, deal.currentPlayer)
    BY <1>1, <2>1, TurnNotPlayed
  <2>3. Size(deal.currentPlayer) = LastTrick + 1 - k /\ Size(deal.currentPlayer) \in Nat
    BY <1>2, <1>4, <2>2
  <2>4. ASSUME k > LastTrick PROVE FALSE
    <3>1. k = LastTrick + 1
      BY <1>2, <1>3, <2>3, <2>4
    <3>2. \A s \in Seats : ~HasPlayed(deal, s)
      BY <1>3, <1>4, <3>1
    <3>3. deal.cardsOnTable = <<>>
      <4>1. SUFFICES ASSUME deal.cardsOnTable # <<>> PROVE FALSE
        OBVIOUS
      <4>2. 1 \in DOMAIN deal.cardsOnTable /\ deal.cardsOnTable[1] \in Range(deal.cardsOnTable)
        BY <1>2, <4>1, EmptySeq, LenProperties DEF Range
      <4>3. deal.cardsOnTable[1] \in deal.originalHand[PlayerOrder[Place(f, 1)]]
        BY <2>1, <4>2 DEF Rotates, Turned, InTurn
      <4>4. PlayerOrder[Place(f, 1)] \in Seats
        BY TablePlaces
      <4>5. QED
        BY <3>2, <4>2, <4>3, <4>4 DEF HasPlayed
    <3>4. Finished(deal)
      <4>1. k > 1
        BY <1>3, <3>1
      <4>2. R!Worth(deal.type, UNION Range(deal.currentHand), deal.currentTrick..LastTrick) = 0
        BY <1>1, <1>2, <2>4, <3>3, NothingLeft
      <4>3. QED
        BY <3>3, <4>1, <4>2 DEF Finished
    <3>5. QED
      BY <1>1, <1>9, <3>4 DEF Ended
  <2>5. QED
    BY <1>2, <1>3, <2>3, <2>4
<1>10. QED
  BY <1>1, <1>2, <1>3, <1>4, <1>6, <1>7, <1>8, <1>9

-----------------------------------------------------------------------------
\* Server and clients in step.
SyncAt(fd) ==
  IF fd \in DOMAIN client
  THEN InStep(fd \in Automatic, client[fd], down[fd], up[fd], View(fd))
  ELSE down[fd] = <<>> /\ up[fd] = <<>>
AllInStep == \A fd \in Fds : SyncAt(fd)
InSync == QuietServer /\ CalmInv /\ OutInv /\ EndsInv /\ AllInStep

\* What is known of the client of a connection from the server alone.
LEMMA ViewFacts ==
  ASSUME QuietServer, CalmInv, OutInv, NEW fd \in Fds
  PROVE  LET v == View(fd) IN
         /\ v.turn =>
              /\ di > 0 /\ dealPc \in {"turn", "TRICK", "await"} /\ ~gameOver /\ mainPc = "join"
              /\ ~trickDone[deal.currentPlayer]
              /\ pc[fd] \in Seated /\ SeatOf[fd] = deal.currentPlayer
         /\ v.given => di > 0 /\ pc[fd] \in Seated
         /\ pc[fd] \in Seated => seat[fd] = SeatOf[fd] /\ pc[fd] \notin CatchingUp
         /\ v.wrong <=> pc[fd] = "WRONG"
         /\ v.given /\ dealPc \in Ended => Cardinality(v.hand) # LastTrick
         /\ Judged(v)
<1> DEFINE v == View(fd)
<1>0. /\ v.turn <=> fdExpectedTrick = fd
      /\ v.given <=> di > 0 /\ seen[fd].deal = di
      /\ v.wrong <=> out[fd].kind = "WRONG"
      /\ v.trick = deal.currentTrick
      /\ v.hand = IF di > 0 THEN deal.currentHand[SeatOf[fd]] ELSE {}
  BY DEF View
<1>1. /\ TurnsInv /\ Asked /\ AllTold /\ AtPeace /\ SendHeld /\ TableInv /\ DealInv
      /\ HereInv /\ NewsInv /\ AskInv /\ SeatOf[fd] \in Seats
  BY QuietParts, SystemAssumption DEF CalmInv
<1>2. ASSUME v.turn
      PROVE  /\ di > 0 /\ dealPc \in {"turn", "TRICK", "await"} /\ ~gameOver /\ mainPc = "join"
             /\ ~trickDone[deal.currentPlayer]
             /\ pc[fd] \in Seated /\ SeatOf[fd] = deal.currentPlayer
  <2>1. di > 0 /\ dealPc \in {"TRICK", "await", "turn"} /\ ~trickDone[deal.currentPlayer]
    BY <1>0, <1>1, <1>2 DEF TurnsInv
  <2>2. mainPc = "join" /\ ~gameOver
    BY <1>1, <2>1 DEF TurnsInv, DealInv
  <2>3. pc[fd] \in Seated /\ seat[fd] = SeatOf[fd] /\ seat[fd] = deal.currentPlayer
    BY <1>0, <1>1, <1>2 DEF HereInv, Asked
  <2>4. QED
    BY <2>1, <2>2, <2>3
<1>3. v.given => di > 0 /\ pc[fd] \in Seated
  <2>1. di \in Nat
    BY <1>1 DEF TableInv
  <2>2. QED
    BY <1>0, <1>1, <2>1 DEF NewsInv
<1>4. pc[fd] \in Seated => seat[fd] = SeatOf[fd] /\ pc[fd] \notin CatchingUp
  BY <1>1 DEF HereInv, AtPeace
<1>5. v.wrong <=> pc[fd] = "WRONG"
  <2>1. pc[fd] = "WRONG" => out[fd].kind = "WRONG"
    BY <1>1 DEF SendHeld
  <2>2. ASSUME out[fd].kind = "WRONG" PROVE pc[fd] = "WRONG"
    <3>1. Nothing.kind # "WRONG"
      BY DEF Nothing
    <3>2. QED
      BY <2>2, <3>1 DEF OutInv
  <2>3. QED
    BY <1>0, <2>1, <2>2
<1>6. v.given /\ dealPc \in Ended => Cardinality(v.hand) # LastTrick
  BY <1>0, <1>1, HandSizes
<1>7. IsFiniteSet(v.hand) /\ v.hand \subseteq Card
  <2>1. CASE di > 0
    BY <1>0, <1>1, <2>1, HandSizes
  <2>2. CASE ~(di > 0)
    BY <1>0, <2>2, FS_EmptySet
  <2>3. QED
    BY <2>1, <2>2
<1>8. ASSUME v.turn
      PROVE  /\ v.given /\ v.trick \in 1..LastTrick
             /\ Cardinality(v.hand) = LastTrick - v.trick + 1
  <2>1. seen[fd].deal = di
    <3>1. pc[fd] \in Seated \ CatchingUp
      BY <1>2, <1>4, <1>8
    <3>2. KnowsTable(fd)
      BY <1>1, <3>1 DEF AllTold, Knows
    <3>3. QED
      BY <1>2, <1>8, <3>2 DEF KnowsTable, Seen
  <2>2. /\ deal.currentTrick \in 1..LastTrick
        /\ Cardinality(deal.currentHand[deal.currentPlayer]) = LastTrick - deal.currentTrick + 1
    BY <1>1, <1>2, <1>8, HandSizes
  <2>3. QED
    BY <1>0, <1>2, <1>8, <2>1, <2>2
<1> HIDE DEF v
<1>9. Judged(v)
  BY <1>7, <1>8 DEF Judged
<1>10. QED
  BY <1>2, <1>3, <1>4, <1>5, <1>6, <1>9 DEF v
-----------------------------------------------------------------------------
\* A client to which nothing comes, and from which nothing is read.
LEMMA SyncKept ==
  ASSUME NEW fd \in Fds, SyncAt(fd), DOMAIN client' = DOMAIN client,
         client'[fd] = client[fd], down'[fd] = down[fd], up'[fd] = up[fd],
         fd \in DOMAIN client => Moves(View(fd), View(fd)')
  PROVE  SyncAt(fd)'
<1>1. CASE fd \in DOMAIN client
  <2>1. PICK w : w = View(fd)'
    OBVIOUS
  <2>2. InStep(fd \in Automatic, client[fd], down[fd], up[fd], View(fd))
    BY <1>1 DEF SyncAt
  <2>3. InStep(fd \in Automatic, client[fd], down[fd], up[fd], w)
    BY <1>1, <2>1, <2>2, ViewMoves
  <2>4. InStep(fd \in Automatic, client'[fd], down'[fd], up'[fd], View(fd)')
    BY <2>1, <2>3
  <2>5. QED
    BY <1>1, <2>4 DEF SyncAt
<1>2. CASE fd \notin DOMAIN client
  BY <1>2 DEF SyncAt
<1>3. QED
  BY <1>1, <1>2

\* What the server sees of a client stays the same, also when the turn is passed.
LEMMA ViewStays ==
  ASSUME NEW fd \in Fds, UNCHANGED <<di, fdExpectedTrick>>, out'[fd].kind = out[fd].kind,
         seen'[fd].deal = seen[fd].deal,
         deal' = deal \/ (IsDeal(deal) /\ deal' = NextPlayer(deal))
  PROVE  View(fd)' = View(fd) /\ Moves(View(fd), View(fd)')
<1>1. /\ deal'.currentHand = deal.currentHand /\ deal'.currentTrick = deal.currentTrick
      /\ deal'.cardsOnTable = deal.cardsOnTable
  BY DEF IsDeal, NextPlayer
<1>2. View(fd)' = View(fd)
  BY <1>1 DEF View
<1>3. PICK w : w = View(fd)'
  OBVIOUS
<1>4. Moves(View(fd), w)
  BY <1>2, <1>3 DEF Moves
<1>5. QED
  BY <1>2, <1>3, <1>4

\* All clients, when nothing comes or goes and the server's view stays.
LEMMA AllStay ==
  ASSUME AllInStep, UNCHANGED <<di, fdExpectedTrick, client, down, up>>,
         \A fd \in Fds : out'[fd].kind = out[fd].kind /\ seen'[fd].deal = seen[fd].deal,
         deal' = deal \/ (IsDeal(deal) /\ deal' = NextPlayer(deal))
  PROVE  AllInStep'
<1> SUFFICES ASSUME NEW fd \in Fds PROVE SyncAt(fd)'
  BY DEF AllInStep
<1>1. Moves(View(fd), View(fd)')
  BY ViewStays
<1>2. SyncAt(fd)
  BY DEF AllInStep
<1>3. QED
  BY <1>1, <1>2, SyncKept
-----------------------------------------------------------------------------
\* The main thread begins a deal of which no client has been told, when no card is
\* expected and no client has all its cards.
LEMMA SyncMainStep == InSync /\ MainStep /\ UNCHANGED ends => AllInStep'
<1> SUFFICES ASSUME InSync, MainStep, UNCHANGED ends PROVE AllInStep'
  OBVIOUS
<1>1. AllInStep /\ QuietServer /\ CalmInv /\ OutInv /\ UNCHANGED <<client, down, up>>
  BY DEF InSync, ends
<1>2. CASE NextDeal
  <2> SUFFICES ASSUME NEW fd \in Fds PROVE SyncAt(fd)'
    BY DEF AllInStep
  <2>1. /\ di \in Nat /\ di' = di + 1 /\ mainPc = "next" /\ dealPc = "done"
        /\ UNCHANGED <<out, seen, fdExpectedTrick>>
    BY <1>1, <1>2, QuietParts DEF NextDeal, DealInv, TableInv
  <2>2. ~View(fd).turn /\ (View(fd).given => Cardinality(View(fd).hand) # LastTrick)
    BY <1>1, <2>1, ViewFacts DEF Ended
  <2>3. seen[fd].deal # di + 1
    BY <1>1, <2>1 DEF CalmInv, NewsInv
  <2>4. PICK w : w = View(fd)'
    OBVIOUS
  <2>5. ~w.given /\ w.wrong = View(fd).wrong
    BY <2>1, <2>3, <2>4 DEF View
  <2>6. Moves(View(fd), w)
    BY <2>2, <2>5 DEF Moves
  <2>7. SyncAt(fd)
    BY <1>1 DEF AllInStep
  <2>8. QED
    BY <1>1, <2>4, <2>6, <2>7, SyncKept
<1>3. CASE ~NextDeal
  <2>1. UNCHANGED <<di, fdExpectedTrick, out, seen, deal>>
    BY <1>3 DEF MainStep, JoinDeal, EndGame, StopAccepting, DisconnectAll, JoinClients
  <2>2. QED
    BY <1>1, <2>1, AllStay
<1>4. QED
  BY <1>2, <1>3

\* A client that connects is new to everybody.
LEMMA SyncAccepts == InSync /\ ServerAccepts => AllInStep'
<1> SUFFICES ASSUME InSync, ServerAccepts PROVE AllInStep'
  OBVIOUS
<1>1. AllInStep /\ QuietServer /\ CalmInv /\ OutInv /\ EndsInv /\ ConnInv /\ TableInv
  BY QuietParts DEF InSync
<1>2. CASE Arrives
  <2> SUFFICES ASSUME NEW fd \in Fds PROVE SyncAt(fd)'
    BY DEF AllInStep
  <2>1. Accept /\ UNCHANGED <<down, up, di, fdExpectedTrick, out, seen, deal>>
    BY <1>2 DEF Arrives, Accept
  <2>2. PICK k \in Nat : /\ clients \ {Stdin} = 5..(4 + k)
                         /\ clients' = clients \cup {5 + k}
    BY <1>1, <2>1, AcceptFresh
  <2>3. 5 + k \notin clients /\ 5 + k # Stdin
    <3>1. 5 + k \notin 5..(4 + k) /\ 5 + k # Stdin
      BY DEF Stdin
    <3>2. QED
      BY <2>2, <3>1
  <2>4. (CHOOSE f \in clients' \ clients : TRUE) = 5 + k
    BY <2>2, <2>3
  <2>5. client' = Insert(client, 5 + k, NewClient)
    BY <1>2, <2>4 DEF Arrives
  <2>6. SyncAt(fd) /\ View(fd)' = View(fd)
    BY <1>1, <2>1, ViewStays DEF AllInStep
  <2>7. CASE fd = 5 + k
    <3>1. fd \notin DOMAIN client /\ fd \notin clients
      BY <1>1, <2>3, <2>7 DEF EndsInv
    <3>2. fd \in DOMAIN client' /\ client'[fd] = NewClient
      BY <2>5, <2>7 DEF Insert
    <3>3. down[fd] = <<>> /\ up[fd] = <<>>
      BY <2>6, <3>1 DEF SyncAt
    <3>4. pc[fd] = "none"
      BY <1>1, <3>1 DEF ConnInv
    <3>5. PICK v : v = View(fd)
      OBVIOUS
    <3>6. ~v.turn /\ ~v.wrong /\ ~v.given
      BY <1>1, <3>4, <3>5, ViewFacts, PlacesSeated
    <3>7. InStep(fd \in Automatic, NewClient, <<>>, <<>>, v)
      BY <3>6, NewInStep
    <3>8. InStep(fd \in Automatic, client'[fd], down'[fd], up'[fd], View(fd)')
      BY <2>1, <2>6, <3>2, <3>3, <3>5, <3>7
    <3>9. QED
      BY <3>2, <3>8 DEF SyncAt
  <2>8. CASE fd # 5 + k
    <3>1. (fd \in DOMAIN client' <=> fd \in DOMAIN client) /\ (fd \in DOMAIN client => client'[fd] = client[fd])
      BY <2>5, <2>8 DEF Insert
    <3>2. QED
      BY <2>1, <2>6, <3>1 DEF SyncAt
  <2>9. QED
    BY <2>7, <2>8
<1>3. CASE (PollIn \/ PollHup \/ AcceptFails) /\ UNCHANGED ends
  <2>1. UNCHANGED <<client, down, up, di, fdExpectedTrick, out, seen, deal>>
    BY <1>3 DEF ends, PollIn, PollHup, AcceptFails
  <2>2. QED
    BY <1>1, <2>1, AllStay
<1>4. QED
  BY <1>2, <1>3 DEF ServerAccepts

-----------------------------------------------------------------------------
\* Between its loops dealThread sends nothing, and the seat that is asked anew is
\* the one that was asked before.
LEMMA SyncTurns ==
  ASSUME InSync, Carries(DealThread),
         DealReady \/ BeginTurn \/ Answered \/ Resume \/ EndTrick \/ EndDeal
  PROVE  AllInStep'
<1>1. /\ AllInStep /\ QuietServer /\ CalmInv /\ OutInv /\ EndsInv /\ ConnInv /\ TableInv
      /\ TurnsInv /\ AtPeace /\ SeatInv /\ LoopInv
  BY QuietParts DEF InSync
<1>2. out[DealThread] = Nothing
  BY <1>1 DEF OutInv, DealReady, BeginTurn, Answered, Resume, EndTrick, EndDeal
<1>3. UNCHANGED <<client, down, up>>
  BY <1>2, NothingNowhere, NothingComes
<1>4. \A fd \in Fds : out'[fd].kind = out[fd].kind
  BY <1>1, DealStepOut DEF DealStep
<1>5. UNCHANGED <<di, seen>>
  BY DEF DealReady, BeginTurn, Answered, Resume, EndTrick, EndDeal
<1>6. CASE DealReady \/ EndDeal
  <2>1. UNCHANGED <<deal, fdExpectedTrick>>
    BY <1>6 DEF DealReady, EndDeal
  <2>2. QED
    BY <1>1, <1>3, <1>4, <1>5, <2>1, AllStay
<1>7. CASE Answered
  <2>1. IsDeal(deal)
    BY <1>1, <1>7 DEF Answered, TableInv, GameInv
  <2>2. deal' = NextPlayer(deal) /\ fdExpectedTrick' = fdExpectedTrick
    BY <1>7 DEF Answered, TurnOver
  <2>3. QED
    BY <1>1, <1>3, <1>4, <1>5, <2>1, <2>2, AllStay
<1>8. CASE BeginTurn
  <2> SUFFICES ASSUME NEW fd \in Fds PROVE SyncAt(fd)'
    BY DEF AllInStep
  <2>1. Ask /\ deal' = deal
    BY <1>1, <1>8 DEF BeginTurn, AtPeace
  <2>2. ASSUME View(fd).turn PROVE fdExpectedTrick' = fd
    <3>1. pc[fd] \in Seated /\ SeatOf[fd] = deal.currentPlayer /\ seat[fd] = SeatOf[fd]
      BY <1>1, <2>2, ViewFacts
    <3>2. deal.currentPlayer \in DOMAIN playerFds /\ playerFds[deal.currentPlayer] = fd
      BY <1>1, <3>1 DEF SeatInv, SeatExclusive
    <3>3. QED
      BY <2>1, <3>2 DEF Ask
  <2>3. PICK w : w = View(fd)'
    OBVIOUS
  <2>4. PICK v : v = View(fd)
    OBVIOUS
  <2>5. /\ w.wrong = v.wrong /\ w.given = v.given /\ w.hand = v.hand
        /\ w.trick = v.trick /\ w.table = v.table
        /\ w.turn = (fdExpectedTrick' = fd)
    BY <1>4, <1>5, <2>1, <2>3, <2>4 DEF View
  <2>6. Moves(View(fd), w)
    BY <2>2, <2>4, <2>5 DEF Moves
  <2>7. SyncAt(fd)
    BY <1>1 DEF AllInStep
  <2>8. QED
    BY <1>3, <2>3, <2>6, <2>7, SyncKept
<1>9. CASE EndTrick
  <2> SUFFICES ASSUME NEW fd \in Fds PROVE SyncAt(fd)'
    BY DEF AllInStep
  <2>1. dealPc = "TAKEN" /\ di > 0 /\ IsDeal(deal) /\ di' = di /\ seen' = seen
    BY <1>1, <1>9 DEF EndTrick, TableInv, GameInv
  <2>2. deal'.currentHand = deal.currentHand
    <3>1. /\ IsDeal(NextTrick(deal)) \/ DOMAIN NextTrick(deal) = DOMAIN deal
          /\ NextTrick(deal).currentHand = deal.currentHand
      BY <2>1 DEF IsDeal, NextTrick, TakeTrick, ClearTable
    <3>2. deal' = NextTrick(deal) \/ \E s : deal' = [NextTrick(deal) EXCEPT !.scores = s]
      BY <1>9 DEF EndTrick
    <3>3. QED
      BY <2>1, <3>1, <3>2 DEF IsDeal
  <2>3. ~View(fd).turn
    BY <1>1, <2>1, ViewFacts
  <2>4. PICK w : w = View(fd)'
    OBVIOUS
  <2>5. PICK v : v = View(fd)
    OBVIOUS
  <2>6. w.wrong = v.wrong /\ w.given = v.given /\ w.hand = v.hand
    BY <1>4, <1>5, <2>2, <2>4, <2>5 DEF View
  <2>7. Moves(View(fd), w)
    BY <2>3, <2>5, <2>6 DEF Moves
  <2>8. SyncAt(fd)
    BY <1>1 DEF AllInStep
  <2>9. QED
    BY <1>3, <2>4, <2>7, <2>8, SyncKept
<1>10. CASE Resume
  BY <1>1, <1>10 DEF Resume, AtPeace
<1>11. QED
  BY <1>6, <1>7, <1>8, <1>9, <1>10

\* The ask that dealThread sends is for the card that is expected.
LEMMA SyncAsk == InSync /\ AskSent /\ Carries(DealThread) => AllInStep'
<1> SUFFICES ASSUME InSync, AskSent, Carries(DealThread), NEW fd \in Fds PROVE SyncAt(fd)'
  BY DEF AllInStep
<1> DEFINE o == out[DealThread]
<1>1. /\ AllInStep /\ QuietServer /\ CalmInv /\ OutInv /\ EndsInv /\ ConnInv /\ TableInv
      /\ SendHeld /\ LoopInv /\ closed = {}
  BY QuietParts DEF InSync, AtPeace
<1>2. /\ dealPc = "TRICK" /\ o.kind = "TRICK" /\ o # Nothing
      /\ o.to = fdExpectedTrick /\ o.trick = deal.currentTrick
  <2>1. dealPc = "TRICK" /\ o # Nothing
    BY DEF AskSent, Delivers, Breaks
  <2>2. QED
    BY <1>1, <2>1 DEF SendHeld, CalmInv, AskInv
<1>3. /\ IsDeal(deal) /\ (deal' = deal \/ deal' = NextPlayer(deal))
      /\ UNCHANGED <<di, fdExpectedTrick>> /\ out'[fd].kind = out[fd].kind
  <2>1. IsDeal(deal)
    BY <1>1, <1>2 DEF TableInv, GameInv
  <2>2. deal' = deal \/ deal' = NextPlayer(deal)
    BY DEF AskSent, TurnOver
  <2>3. UNCHANGED <<di, fdExpectedTrick>>
    BY DEF AskSent, TurnOver
  <2>4. out'[fd].kind = out[fd].kind
    BY <1>1, DealStepOut DEF DealStep
  <2>5. QED
    BY <2>1, <2>2, <2>3, <2>4
<1>4. seen'[fd].deal = seen[fd].deal
  <2>1. CASE Delivers(DealThread)
    BY <1>2, <2>1 DEF Delivers, Hear
  <2>2. CASE Breaks(DealThread)
    BY <2>2 DEF Breaks
  <2>3. QED
    BY <2>1, <2>2 DEF AskSent
<1>5. View(fd)' = View(fd) /\ Moves(View(fd), View(fd)') /\ SyncAt(fd)
  BY <1>1, <1>3, <1>4, ViewStays DEF AllInStep
<1>6. CASE fd = o.to /\ fd \notin disconnected
  <2>1. fd \in DOMAIN client
    BY <1>1, <1>2, <1>6, Descriptors DEF EndsInv, ConnInv
  <2>2. down'[fd] = Append(down[fd], Content(o)) /\ UNCHANGED <<client, up>>
    BY <1>1, <1>6, Carried
  <2>3. PICK m : m = Content(o)
    OBVIOUS
  <2>4. m.kind = "TRICK" /\ m.trick = deal.currentTrick /\ m.cards = deal.cardsOnTable
    BY <1>2, <2>3 DEF Content, Blank
  <2>5. Fresh(View(fd), m)
    BY <1>2, <1>6, <2>4 DEF Fresh, View
  <2>6. IsQueue(down[fd]) /\ InStep(fd \in Automatic, client[fd], down[fd], up[fd], View(fd))
    BY <1>1, <1>5, <2>1 DEF EndsInv, SyncAt
  <2>7. InStep(fd \in Automatic, client[fd], Append(down[fd], m), up[fd], View(fd))
    BY <2>5, <2>6, AskArrives
  <2>8. InStep(fd \in Automatic, client'[fd], down'[fd], up'[fd], View(fd)')
    BY <1>5, <2>2, <2>3, <2>7
  <2>9. QED
    BY <2>1, <2>2, <2>8 DEF SyncAt
<1>7. CASE ~(fd = o.to /\ fd \notin disconnected)
  <2>1. down'[fd] = down[fd] /\ UNCHANGED <<client, up>>
    BY <1>1, <1>7, Carried
  <2>2. QED
    BY <1>5, <2>1, SyncKept
<1>8. QED
  BY <1>6, <1>7

\* dealThread tells its news to the clients at the table: the cards to one that has
\* none of this deal, a trick to one that has played in it, and the scores to one
\* that plays no more.
LEMMA SyncTells ==
  ASSUME InSync, Broadcast, Carries(DealThread), blocks' = 0
  PROVE  AllInStep'
<1> SUFFICES ASSUME NEW fd \in Fds PROVE SyncAt(fd)'
  BY DEF AllInStep
<1> DEFINE o == out[DealThread]
<1>1. /\ AllInStep /\ QuietServer /\ CalmInv /\ OutInv /\ EndsInv /\ ConnInv /\ TableInv
      /\ SendHeld /\ LoopInv /\ SeatInv /\ AllTold /\ OwnInv /\ NumberInv /\ SyncAt(fd)
  BY QuietParts DEF InSync, AllInStep
<1>2. DealStep /\ ~gameOver /\ di > 0 /\ closed = {} /\ pc[fd] # "WRONG"
  BY <1>1, DealStepFree, QuietParts DEF DealStep, AtPeace
<1>3. /\ o # Nothing /\ o.kind = dealPc /\ dealPc \in {"DEAL", "TAKEN", "SCORE", "TOTAL"}
      /\ it # End /\ o.to \notin disconnected
      /\ UNCHANGED <<deal, di, fdExpectedTrick>> /\ out'[fd] = out[fd]
      /\ seen'[fd] = IF fd = o.to THEN Hear(seen[fd], o) ELSE seen[fd]
  <2>1. /\ o # Nothing /\ o.to \notin disconnected /\ dealPc \in {"DEAL", "TAKEN", "SCORE", "TOTAL"}
        /\ seen'[fd] = IF fd = o.to THEN Hear(seen[fd], o) ELSE seen[fd]
    BY DEF Broadcast, Delivers
  <2>2. o.kind = dealPc /\ it # End
    BY <1>1, <2>1 DEF OutInv
  <2>3. UNCHANGED <<deal, di, fdExpectedTrick>>
    BY DEF Broadcast
  <2>4. out'[fd] = out[fd]
    BY <1>1, <1>2, DealStepOut
  <2>5. QED
    BY <2>1, <2>2, <2>3, <2>4
<1>4. ~View(fd).turn /\ ~View(fd).wrong
  BY <1>1, <1>2, <1>3, ViewFacts
<1>5. CASE fd # o.to
  <2>1. down'[fd] = down[fd] /\ UNCHANGED <<client, up>>
    BY <1>1, <1>5, Carried
  <2>2. Moves(View(fd), View(fd)')
    BY <1>3, <1>5, ViewStays
  <2>3. QED
    BY <1>1, <2>1, <2>2, SyncKept
<1>6. ASSUME fd = o.to
      PROVE  /\ fd \in DOMAIN client /\ UNCHANGED <<client, up>> /\ IsQueue(down[fd])
             /\ down'[fd] = Append(down[fd], Content(o))
             /\ InStep(fd \in Automatic, client[fd], down[fd], up[fd], View(fd))
  <2>1. fd \in DOMAIN client
    BY <1>1, <1>3, <1>6, Descriptors DEF EndsInv, ConnInv
  <2>2. down'[fd] = Append(down[fd], Content(o)) /\ UNCHANGED <<client, up>>
    BY <1>1, <1>2, <1>3, <1>6, Carried
  <2>3. QED
    BY <1>1, <2>1, <2>2 DEF EndsInv, SyncAt
<1>7. ASSUME fd = o.to, NEW c, InStep(fd \in Automatic, client[fd], Append(down[fd], c), up[fd], View(fd)'),
             c = Content(o)
      PROVE  SyncAt(fd)'
  <2>1. InStep(fd \in Automatic, client'[fd], down'[fd], up'[fd], View(fd)')
    BY <1>6, <1>7
  <2>2. fd \in DOMAIN client'
    BY <1>6, <1>7
  <2>3. QED
    BY <2>1, <2>2 DEF SyncAt
<1>8. CASE fd = o.to /\ dealPc \in {"SCORE", "TOTAL"}
  <2>1. View(fd)' = View(fd)
    <3>1. seen'[fd].deal = seen[fd].deal
      BY <1>3, <1>8 DEF Hear
    <3>2. QED
      BY <1>3, <3>1, ViewStays
  <2>2. View(fd).given => Cardinality(View(fd).hand) # LastTrick
    BY <1>1, <1>8, ViewFacts DEF Ended
  <2>3. PICK m : m = Content(o)
    OBVIOUS
  <2>4. m.kind \in {"BUSY", "SCORE", "TOTAL"}
    BY <1>3, <1>8, <2>3 DEF Content, Blank
  <2>5. InStep(fd \in Automatic, client[fd], Append(down[fd], m), up[fd], View(fd))
    BY <1>4, <1>6, <1>8, <2>2, <2>4, NewsArrives
  <2>6. QED
    BY <1>7, <1>8, <2>1, <2>3, <2>5
<1>9. ASSUME fd = o.to, dealPc \in {"DEAL", "TAKEN"}
      PROVE  /\ o = Message(dealPc, fd, IF dealPc = "TAKEN" THEN deal.currentTrick ELSE 0)
             /\ it \in DOMAIN KeyOrder /\ KeyOrder[it] = SeatOf[fd]
             /\ SeatOf[fd] \in DOMAIN playerFds /\ playerFds[SeatOf[fd]] = fd
             /\ pc[fd] \in Seated \ CatchingUp /\ seat[fd] = SeatOf[fd]
  <2>1. o = Message(dealPc, playerFds[KeyOrder[it]],
                    IF dealPc = "TAKEN" THEN deal.currentTrick ELSE 0)
    BY <1>1, <1>3, <1>9 DEF SendHeld
  <2>2. fd = playerFds[KeyOrder[it]]
    BY <1>9, <2>1 DEF Message
  <2>3. it \in DOMAIN KeyOrder
    BY <1>1, <1>3, ServerAssumption DEF QuietServer, BoundType, End
  <2>4. KeyOrder[it] \in DOMAIN playerFds
    BY <1>1, <1>3, <1>9, <2>2 DEF LoopInv, IteratorValid
  <2>5. pc[fd] \in Seated
    BY <1>1, <1>2, <2>2, <2>4 DEF CalmInv, HereInv
  <2>6. seat[fd] = KeyOrder[it]
    BY <1>1, <2>2, <2>4, <2>5 DEF OwnInv
  <2>7. seat[fd] = SeatOf[fd] /\ pc[fd] \notin CatchingUp
    BY <1>1, <2>5, ViewFacts
  <2>8. QED
    BY <2>1, <2>2, <2>3, <2>4, <2>5, <2>6, <2>7
<1>10. CASE fd = o.to /\ dealPc = "TAKEN"
  <2> DEFINE s == SeatOf[fd]
             k == deal.currentTrick
  <2>1. o = Message("TAKEN", fd, k) /\ pc[fd] \in Seated \ CatchingUp
    BY <1>9, <1>10
  <2>2. seen[fd].deal = di
    <3>1. KnowsTable(fd)
      BY <1>1, <2>1 DEF AllTold, Knows
    <3>2. QED
      BY <1>10, <3>1 DEF KnowsTable, Seen
  <2>3. View(fd)' = View(fd)
    <3>1. seen'[fd].deal = seen[fd].deal
      <4>1. PICK know : know = seen[fd]
        OBVIOUS
      <4>2. Hear(know, o).deal = know.deal
        BY <2>1 DEF Hear, Message
      <4>3. QED
        BY <1>3, <1>10, <4>1, <4>2
    <3>2. QED
      BY <1>3, <3>1, ViewStays
  <2>4. /\ GameInv(deal) /\ k \in Nat \ {0} /\ s \in Seats
        /\ Cardinality(deal.currentHand[s]) = LastTrick - k
    BY <1>1, <1>2, <1>10, HandSizes, SystemAssumption DEF CalmInv
  <2>5. /\ View(fd).given /\ View(fd).trick = k /\ View(fd).hand = deal.currentHand[s]
    BY <1>2, <2>2 DEF View
  <2>6. PICK m : m = Content(o)
    OBVIOUS
  <2>7. m.kind = "TAKEN" /\ m.trick = k /\ m.cards = deal.cardsOnTable
    <3>1. Len(deal.tricksTaken) = k - 1
      BY <1>1, <1>2 DEF NumberInv
    <3>2. ~(k <= Len(deal.tricksTaken))
      BY <2>4, <3>1
    <3>3. o.kind = "TAKEN" /\ o.trick = k
      BY <2>1 DEF Message
    <3>4. QED
      BY <2>6, <3>2, <3>3 DEF Content, Blank
  <2>8. Range(m.cards) \cap deal.currentHand[s] = {}
    BY <2>4, <2>7 DEF GameInv, ConservesCards, PlayedCards
  <2>9. InStep(fd \in Automatic, client[fd], Append(down[fd], m), up[fd], View(fd))
    <3>1. PICK v : v = View(fd)
      OBVIOUS
    <3>2. ~v.turn /\ v.given /\ v.trick = k /\ v.hand = deal.currentHand[s]
      BY <1>4, <2>5, <3>1
    <3>3. InStep(fd \in Automatic, client[fd], down[fd], up[fd], v) /\ IsQueue(down[fd])
      BY <1>6, <1>10, <3>1
    <3>4. v.trick \in Nat \ {0} /\ Cardinality(v.hand) = LastTrick - v.trick
      BY <2>4, <3>2
    <3>5. m.kind = "TAKEN" /\ m.trick = v.trick /\ Range(m.cards) \cap v.hand = {}
      BY <2>7, <2>8, <3>2
    <3>6. InStep(fd \in Automatic, client[fd], Append(down[fd], m), up[fd], v)
      BY <3>2, <3>3, <3>4, <3>5, TakenArrives
    <3>7. QED
      BY <3>1, <3>6
  <2>10. QED
    BY <1>7, <1>10, <2>3, <2>6, <2>9
<1>11. CASE fd = o.to /\ dealPc = "DEAL"
  <2> DEFINE s == SeatOf[fd]
  <2>1. /\ o = Message("DEAL", fd, 0) /\ pc[fd] \in Seated \ CatchingUp /\ seat[fd] = s
        /\ it \in DOMAIN KeyOrder /\ KeyOrder[it] = s
        /\ s \in DOMAIN playerFds /\ playerFds[s] = fd
    BY <1>9, <1>11
  <2>2. seen[fd].deal # di
    <3>1. ~Passed(fd)
      <4>1. SUFFICES ASSUME NEW j \in DOMAIN KeyOrder, j < it, KeyOrder[j] = seat[fd] PROVE FALSE
        BY DEF Passed
      <4>2. j = it
        BY <2>1, <4>1, KeyOnce
      <4>3. it \in Int
        BY <1>1 DEF LoopInv
      <4>4. QED
        BY <4>1, <4>2, <4>3
    <3>2. QED
      BY <1>1, <1>11, <3>1 DEF CalmInv, NewsInv
  <2>3. seen'[fd].deal = di
    <3>1. \A know : Hear(know, o).deal = di
      BY <2>1 DEF Hear, Message
    <3>2. QED
      BY <1>3, <1>11, <3>1
  <2>4. Cardinality(deal.currentHand[s]) = LastTrick /\ deal.originalHand = deal.currentHand
    BY <1>1, <1>2, <1>11, HandSizes, SystemAssumption DEF CalmInv, AskInv
  <2>5. PICK v : v = View(fd)
    OBVIOUS
  <2>6. ~v.turn /\ ~v.given
    BY <1>4, <2>2, <2>5 DEF View
  <2>7. PICK w : w = View(fd)'
    OBVIOUS
  <2>8. ~w.turn /\ ~w.wrong /\ w.given /\ w.hand = deal.currentHand[s]
    <3>1. (w.turn <=> fdExpectedTrick = fd) /\ (w.wrong <=> out[fd].kind = "WRONG")
      BY <1>3, <2>7 DEF View
    <3>2. (View(fd).turn <=> fdExpectedTrick = fd) /\ (View(fd).wrong <=> out[fd].kind = "WRONG")
      BY DEF View
    <3>3. w.given /\ w.hand = deal.currentHand[s]
      BY <1>2, <1>3, <2>3, <2>7 DEF View
    <3>4. QED
      BY <1>4, <3>1, <3>2, <3>3
  <2>9. PICK m : m = Content(o)
    OBVIOUS
  <2>10. m.kind = "DEAL" /\ m.hand = deal.currentHand[s]
    <3>1. \A t \in DOMAIN playerFds : playerFds[t] = fd => t = s
      BY <1>1, <2>1 DEF OwnInv
    <3>2. (CHOOSE t \in DOMAIN playerFds : playerFds[t] = fd) = s
      BY <2>1, <3>1
    <3>3. o.kind = "DEAL" /\ o.to = fd
      BY <2>1 DEF Message
    <3>4. m.kind = "DEAL" /\ m.hand = deal.originalHand[s]
      BY <2>9, <3>2, <3>3 DEF Content, Blank
    <3>5. QED
      BY <2>4, <3>4
  <2>11. InStep(fd \in Automatic, client[fd], Append(down[fd], m), up[fd], w)
    <3>1. InStep(fd \in Automatic, client[fd], down[fd], up[fd], v) /\ IsQueue(down[fd])
      BY <1>6, <1>11, <2>5
    <3>2. Cardinality(w.hand) = LastTrick /\ m.hand = w.hand
      BY <2>4, <2>8, <2>10
    <3>3. QED
      BY <2>6, <2>8, <2>10, <3>1, <3>2, DealArrives
  <2>12. QED
    BY <1>7, <1>11, <2>7, <2>9, <2>11
<1>12. QED
  BY <1>3, <1>5, <1>8, <1>10, <1>11

\* Every step of dealThread.
LEMMA SyncDeals == InSync /\ ServerDeals /\ blocks' = 0 => AllInStep'
<1> SUFFICES ASSUME InSync, ServerDeals, blocks' = 0 PROVE AllInStep'
  OBVIOUS
<1>1. CASE AsksAgain
  <2>1. UNCHANGED <<client, down, up, di, fdExpectedTrick, out, seen, deal>>
    BY <1>1 DEF AsksAgain, Timeout, ends
  <2>2. QED
    BY <2>1, AllStay DEF InSync
<1>2. CASE BroadcastFails /\ Carries(DealThread)
  <2>1. UNCHANGED <<di, fdExpectedTrick, out, seen, deal>>
    BY <1>2 DEF BroadcastFails, Breaks
  <2>2. out[DealThread].to \notin Fds \ (closed \cup disconnected)
    BY <1>2, Descriptors DEF BroadcastFails, Breaks
  <2>3. UNCHANGED <<client, down, up>>
    BY <1>2, <2>2, NothingComes
  <2>4. QED
    BY <2>1, <2>3, AllStay DEF InSync
<1>3. QED
  BY <1>1, <1>2, SyncTurns, SyncAsk, SyncTells DEF ServerDeals

-----------------------------------------------------------------------------
\* The other clients, when a player thread takes a step: a card it accepts leaves
\* a hand that is not theirs.
LEMMA SyncOthers ==
  ASSUME InSync, NEW fd \in Fds, ServerPlays(fd), drops' = 0, NEW f \in Fds \ {fd},
         DOMAIN client' = DOMAIN client, client'[f] = client[f], down'[f] = down[f],
         up'[f] = up[f]
  PROVE  SyncAt(f)'
<1>1. /\ QuietServer /\ CalmInv /\ OutInv /\ EndsInv /\ SyncAt(f) /\ TableInv /\ SeatInv
  BY QuietParts DEF InSync, AllInStep
<1>2. UNCHANGED di /\ out'[f] = out[f] /\ seen'[f] = seen[f]
  BY <1>1, QuietPlays
<1>3. CASE UNCHANGED <<deal, fdExpectedTrick>>
  <2>1. Moves(View(f), View(f)')
    BY <1>2, <1>3, ViewStays
  <2>2. QED
    BY <1>1, <2>1, SyncKept
<1>4. ASSUME NEW trick, NEW card, HandleTRICK(fd, trick, card) PROVE SyncAt(f)'
  <2>1. di > 0 /\ fdExpectedTrick = fd /\ deal' = PlayCard(deal, card) /\ IsDeal(deal)
    BY <1>1, <1>4 DEF HandleTRICK, Expected, TableInv, GameInv
  <2>2. pc[fd] \in Seated /\ SeatOf[fd] = deal.currentPlayer /\ seat[fd] = SeatOf[fd]
    BY <1>1, <2>1, ViewFacts DEF View
  <2>3. ASSUME View(f).given PROVE deal'.currentHand[SeatOf[f]] = deal.currentHand[SeatOf[f]]
    <3>1. pc[f] \in Seated /\ seat[f] = SeatOf[f]
      BY <1>1, <2>3, ViewFacts
    <3>2. SeatOf[f] # deal.currentPlayer
      BY <1>1, <2>2, <3>1 DEF SeatInv, SeatExclusive
    <3>3. deal'.currentHand = [deal.currentHand EXCEPT ![deal.currentPlayer] = @ \ {card}]
      BY <2>1 DEF IsDeal, PlayCard, LayCard
    <3>4. QED
      BY <3>2, <3>3
  <2>4. PICK v : v = View(f)
    OBVIOUS
  <2>5. PICK w : w = View(f)'
    OBVIOUS
  <2>6. ~v.turn /\ (w.wrong <=> v.wrong) /\ (w.given <=> v.given)
    BY <1>2, <2>1, <2>4, <2>5 DEF View
  <2>7. v.given => w.hand = v.hand
    BY <1>2, <2>1, <2>3, <2>4, <2>5 DEF View
  <2>8. Moves(v, w)
    BY <2>6, <2>7 DEF Moves
  <2>9. QED
    BY <1>1, <2>4, <2>5, <2>8, SyncKept
<1>5. QED
  BY <1>1, <1>3, <1>4, QuietPlays

\* A player thread that reads, registers or leaves, and sends no message.
LEMMA SyncGoes ==
  ASSUME InSync, NEW fd \in Fds, ServerPlays(fd), drops' = 0, UNCHANGED <<client, down, up>>,
         UNCHANGED <<deal, fdExpectedTrick>>, out'[fd].kind = "WRONG" <=> out[fd].kind = "WRONG"
  PROVE  AllInStep'
<1>1. /\ QuietServer /\ CalmInv /\ OutInv /\ EndsInv /\ SyncAt(fd) /\ DealInv
  BY QuietParts DEF InSync, AllInStep
<1>2. \A f \in Fds \ {fd} : SyncAt(f)'
  BY SyncOthers
<1>3. /\ UNCHANGED di /\ seen'[fd] \in {seen[fd], Ignorant}
      /\ pc[fd] \in Seated => gameOver \/ seen'[fd] = seen[fd]
  BY <1>1, QuietPlays
<1>4. PICK v : v = View(fd)
  OBVIOUS
<1>5. PICK w : w = View(fd)'
  OBVIOUS
<1>6. /\ w.wrong <=> v.wrong
      /\ w.turn = v.turn /\ w.trick = v.trick /\ w.table = v.table /\ w.hand = v.hand
  BY <1>3, <1>4, <1>5 DEF View
<1>7. w.given => v.given
  <2>1. ~(di > 0 /\ Ignorant.deal = di)
    BY DEF Ignorant
  <2>2. QED
    BY <1>3, <1>4, <1>5, <2>1 DEF View
<1>8. v.given /\ Cardinality(v.hand) = LastTrick => w.given
  <2> SUFFICES ASSUME v.given, Cardinality(v.hand) = LastTrick PROVE w.given
    OBVIOUS
  <2>1. pc[fd] \in Seated /\ dealPc \notin Ended
    BY <1>1, <1>4, ViewFacts
  <2>2. ~gameOver
    BY <1>1, <2>1 DEF DealInv, Ended
  <2>3. seen'[fd] = seen[fd]
    BY <1>3, <2>1, <2>2
  <2>4. QED
    BY <1>3, <1>4, <1>5, <2>3 DEF View
<1>9. Moves(v, w)
  BY <1>6, <1>7, <1>8 DEF Moves
<1>10. SyncAt(fd)'
  BY <1>1, <1>4, <1>5, <1>9, SyncKept
<1>11. QED
  BY <1>2, <1>10 DEF AllInStep

\* A card is accepted.
LEMMA SyncAccepted ==
  ASSUME InSync, NEW fd \in Fds, up[fd] # <<>>, drops' = 0, ServerPlays(fd),
         HandleTRICK(fd, Head(up[fd]).trick, Head(up[fd]).card),
         up' = [up EXCEPT ![fd] = Tail(@)], UNCHANGED <<client, down>>
  PROVE  AllInStep'
<1> DEFINE m == Head(up[fd])
<1>1. /\ QuietServer /\ CalmInv /\ OutInv /\ EndsInv /\ SyncAt(fd) /\ TableInv
  BY QuietParts DEF InSync, AllInStep
<1>2. up'[fd] = Tail(up[fd]) /\ \A f \in Fds \ {fd} : up'[f] = up[f]
  BY <1>1 DEF EndsInv
<1>3. \A f \in Fds \ {fd} : SyncAt(f)'
  BY <1>2, SyncOthers
<1>4. fd \in DOMAIN client /\ InStep(fd \in Automatic, client[fd], down[fd], up[fd], View(fd))
  BY <1>1 DEF SyncAt
<1>5. /\ di > 0 /\ fdExpectedTrick = fd /\ deal' = PlayCard(deal, m.card) /\ IsDeal(deal)
      /\ pc[fd] = "handleTRICK" /\ UNCHANGED <<di, out, seen>> /\ fdExpectedTrick' = NoFd
  BY <1>1 DEF HandleTRICK, MayHandle, Expected, AfterCard, TableInv, GameInv
<1>6. PICK v : v = View(fd)
  OBVIOUS
<1>7. v.turn /\ ~v.wrong
  BY <1>1, <1>5, <1>6, ViewFacts DEF View
<1>8. v.given /\ IsFiniteSet(v.hand) /\ SeatOf[fd] = deal.currentPlayer
  BY <1>1, <1>6, <1>7, ViewFacts DEF Judged
<1>9. PICK w : w = View(fd)'
  OBVIOUS
<1>10. ~w.turn /\ ~w.wrong
  <2>1. ~w.turn
    BY <1>5, <1>9, Descriptors DEF View
  <2>2. w.wrong = v.wrong
    BY <1>5, <1>6, <1>9 DEF View
  <2>3. QED
    BY <1>7, <2>1, <2>2
<1>11. w.hand = v.hand \ {m.card}
  <2>1. deal'.currentHand = [deal.currentHand EXCEPT ![deal.currentPlayer] = @ \ {m.card}]
    BY <1>5 DEF IsDeal, PlayCard, LayCard
  <2>2. deal.currentPlayer \in DOMAIN deal.currentHand
    BY <1>5 DEF IsDeal, HandsType
  <2>3. deal'.currentHand[SeatOf[fd]] = deal.currentHand[SeatOf[fd]] \ {m.card}
    BY <1>8, <2>1, <2>2
  <2>4. QED
    BY <1>5, <1>6, <1>9, <2>3 DEF View
<1>12. InStep(fd \in Automatic, client[fd], down[fd], Tail(up[fd]), w)
  BY <1>4, <1>6, <1>8, <1>10, <1>11, AnswerAccepted
<1>13. SyncAt(fd)'
  <2>1. InStep(fd \in Automatic, client'[fd], down'[fd], up'[fd], View(fd)')
    BY <1>2, <1>9, <1>12
  <2>2. QED
    BY <1>4, <2>1 DEF SyncAt
<1>14. QED
  BY <1>3, <1>13 DEF AllInStep

\* A card is refused: it is one its user typed, for a trick that is played, since an
\* automatic client plays a card that is legal.
LEMMA SyncRefused ==
  ASSUME InSync, NEW fd \in Fds, up[fd] # <<>>, drops' = 0, ServerPlays(fd),
         RefuseTRICK(fd, Head(up[fd]).trick, Head(up[fd]).card),
         up' = [up EXCEPT ![fd] = Tail(@)], UNCHANGED <<client, down>>
  PROVE  AllInStep'
<1> DEFINE m == Head(up[fd])
<1>1. /\ QuietServer /\ CalmInv /\ OutInv /\ EndsInv /\ SyncAt(fd) /\ TableInv /\ LoopInv
  BY QuietParts DEF InSync, AllInStep
<1>2. up'[fd] = Tail(up[fd]) /\ \A f \in Fds \ {fd} : up'[f] = up[f]
  BY <1>1 DEF EndsInv
<1>3. \A f \in Fds \ {fd} : SyncAt(f)'
  BY <1>2, SyncOthers
<1>4. fd \in DOMAIN client /\ InStep(fd \in Automatic, client[fd], down[fd], up[fd], View(fd))
  BY <1>1 DEF SyncAt
<1>5. PICK v : v = View(fd)
  OBVIOUS
<1>6. InStep(fd \in Automatic, client[fd], down[fd], up[fd], v)
  BY <1>4, <1>5
<1>7. /\ v.turn /\ m.trick = v.trick /\ m.card \in v.hand
      /\ fd \in Automatic => Playable(v, m.card)
  <2>1. PICK auto, c, q, u :
             auto = (fd \in Automatic) /\ c = client[fd] /\ q = down[fd] /\ u = up[fd]
    OBVIOUS
  <2>2. InStep(auto, c, q, u, v) /\ u # <<>>
    BY <1>6, <2>1
  <2>3. v.turn
    BY <2>2, AnswerRead
  <2>4. Head(u).trick = v.trick
    BY <2>2, AnswerAsked
  <2>5. Head(u).card = c.lastPlayedCard
    BY <2>2, AnswerRead
  <2>6. c.lastPlayedCard \in v.hand
    BY <2>2, AnswerRead
  <2>7. auto => Playable(v, Head(u).card)
    BY <2>2, AnswerRead
  <2>8. QED
    BY <2>1, <2>3, <2>4, <2>5, <2>6, <2>7
<1>8. di > 0 /\ fdExpectedTrick = fd /\ SeatOf[fd] = deal.currentPlayer
  BY <1>1, <1>5, <1>7, ViewFacts DEF View
<1>9. /\ ~IsLegal(deal, m.trick, m.card) /\ GameInv(deal)
      /\ UNCHANGED <<di, deal, seen, fdExpectedTrick>>
      /\ Sends(fd, "WRONG", "WRONG", deal.currentTrick)
  BY <1>1, <1>8 DEF RefuseTRICK, Expected, TableInv
<1>10. fd \notin Automatic
  <2> SUFFICES ASSUME fd \in Automatic PROVE IsLegal(deal, m.trick, m.card)
    BY <1>9
  <2>1. /\ m.trick = deal.currentTrick /\ m.card \in deal.currentHand[deal.currentPlayer]
        /\ v.table = deal.cardsOnTable /\ v.hand = deal.currentHand[deal.currentPlayer]
    BY <1>5, <1>7, <1>8 DEF View
  <2>2. m.card \notin Range(deal.cardsOnTable)
    <3>1. deal.currentPlayer \in Seats
      BY <1>8, SystemAssumption
    <3>2. QED
      BY <1>9, <2>1, <3>1 DEF GameInv, ConservesCards, PlayedCards
  <2>3. HoldsCard(deal, m.trick, m.card)
    BY <2>1, <2>2 DEF HoldsCard
  <2>4. deal.cardsOnTable # <<>> /\ m.card.suit # deal.trickSuit =>
          \A x \in deal.currentHand[deal.currentPlayer] : x.suit # deal.trickSuit
    <3>1. deal.cardsOnTable # <<>> => deal.trickSuit = deal.cardsOnTable[1].suit
      BY <1>9 DEF GameInv, TableLed
    <3>2. QED
      BY <1>7, <2>1, <3>1 DEF Playable
  <2>5. QED
    BY <2>3, <2>4 DEF IsLegal, FollowsSuit
<1>11. PICK w : w = View(fd)'
  OBVIOUS
<1>12. SameBut(v, w) /\ w.wrong
  <2>1. out'[fd] = Message("WRONG", fd, deal.currentTrick)
    BY <1>1, <1>9 DEF Sends, LoopInv, Senders
  <2>2. out'[fd].kind = "WRONG"
    BY <2>1 DEF Message
  <2>3. QED
    BY <1>5, <1>9, <1>11, <2>2 DEF View, SameBut
<1>13. InStep(fd \in Automatic, client[fd], down[fd], Tail(up[fd]), w)
  BY <1>6, <1>10, <1>12, AnswerRefused
<1>14. SyncAt(fd)'
  <2>1. InStep(fd \in Automatic, client'[fd], down'[fd], up'[fd], View(fd)')
    BY <1>2, <1>11, <1>13
  <2>2. QED
    BY <1>4, <2>1 DEF SyncAt
<1>15. QED
  BY <1>3, <1>14 DEF AllInStep

\* What a player thread sends goes to its own client.
LEMMA SyncSent ==
  ASSUME InSync, NEW fd \in Fds, ServerPlays(fd), drops' = 0, Carries(fd), out[fd] # Nothing
  PROVE  /\ \A f \in Fds \ {fd} : SyncAt(f)'
         /\ fd \in DOMAIN client /\ UNCHANGED <<client, up>>
         /\ IsQueue(down[fd])
         /\ fd \in disconnected => down'[fd] = down[fd]
         /\ fd \notin disconnected => down'[fd] = Append(down[fd], Content(out[fd]))
         /\ InStep(fd \in Automatic, client[fd], down[fd], up[fd], View(fd))
<1>1. /\ EndsInv /\ ConnInv /\ closed = {} /\ AllInStep
  BY QuietParts DEF InSync, AtPeace
<1>2. out[fd].to = fd /\ fd \in clients
  BY <1>1 DEF ConnInv
<1>3. fd \in DOMAIN client
  BY <1>1, <1>2, Descriptors DEF EndsInv
<1>4. /\ UNCHANGED <<client, up>>
      /\ \A f \in Fds \ {fd} : down'[f] = down[f]
      /\ fd \in disconnected => down'[fd] = down[fd]
      /\ fd \notin disconnected => down'[fd] = Append(down[fd], Content(out[fd]))
  BY <1>1, <1>2, Carried
<1>5. \A f \in Fds \ {fd} : SyncAt(f)'
  BY <1>4, SyncOthers
<1>6. IsQueue(down[fd]) /\ InStep(fd \in Automatic, client[fd], down[fd], up[fd], View(fd))
  BY <1>1, <1>3 DEF EndsInv, AllInStep, SyncAt
<1>7. QED
  BY <1>3, <1>4, <1>5, <1>6

\* The refusal of a card is sent.
LEMMA SyncWrongSent ==
  ASSUME InSync, NEW fd \in Fds, ServerPlays(fd), drops' = 0, WrongSent(fd), Carries(fd)
  PROVE  AllInStep'
<1>1. /\ QuietServer /\ CalmInv /\ OutInv /\ AtPeace /\ SendHeld /\ LoopInv /\ ConnInv
  BY QuietParts DEF InSync
<1>2. /\ pc[fd] = "WRONG" /\ out[fd].kind = "WRONG" /\ out[fd] # Nothing
      /\ Delivers(fd) \/ Breaks(fd)
      /\ UNCHANGED <<di, deal, fdExpectedTrick>> /\ out' = [out EXCEPT ![fd] = Nothing]
  BY <1>1 DEF WrongSent, Delivers, Breaks, SendHeld
<1>3. /\ \A f \in Fds \ {fd} : SyncAt(f)'
      /\ fd \in DOMAIN client /\ UNCHANGED <<client, up>>
      /\ IsQueue(down[fd])
      /\ fd \notin disconnected => down'[fd] = Append(down[fd], Content(out[fd]))
      /\ InStep(fd \in Automatic, client[fd], down[fd], up[fd], View(fd))
  BY <1>2, SyncSent
<1>4. PICK v : v = View(fd)
  OBVIOUS
<1>5. InStep(fd \in Automatic, client[fd], down[fd], up[fd], v)
  BY <1>3, <1>4
<1>6. v.wrong
  BY <1>1, <1>2, <1>4, ViewFacts
<1>7. v.turn
  BY <1>5, <1>6 DEF InStep, Pending
<1>8. ~gameOver /\ dealPc \in {"turn", "TRICK", "await"}
  BY <1>1, <1>4, <1>7, ViewFacts
<1>9. fd \notin disconnected
  BY <1>1, <1>2, <1>8 DEF AtPeace
<1>10. out[fd].trick = deal.currentTrick
  BY <1>1, <1>2, <1>8 DEF CalmInv, AskInv
<1>11. PICK m : m = Content(out[fd])
  OBVIOUS
<1>12. m.kind = "WRONG" /\ m.trick = v.trick
  BY <1>2, <1>4, <1>10, <1>11 DEF Content, Blank, View
<1>13. PICK w : w = View(fd)'
  OBVIOUS
<1>14. SameBut(v, w) /\ ~w.wrong
  <2>1. out'[fd].kind = ""
    BY <1>1, <1>2 DEF LoopInv, Senders, Nothing
  <2>2. seen'[fd].deal = seen[fd].deal
    <3>1. CASE Delivers(fd)
      BY <1>2, <3>1 DEF Delivers, Hear
    <3>2. CASE Breaks(fd)
      BY <3>2 DEF Breaks
    <3>3. QED
      BY <1>2, <3>1, <3>2
  <2>3. QED
    BY <1>2, <1>4, <1>13, <2>1, <2>2 DEF View, SameBut
<1>15. InStep(fd \in Automatic, client[fd], Append(down[fd], m), up[fd], w)
  BY <1>3, <1>5, <1>6, <1>12, <1>14, RefusalArrives
<1>16. SyncAt(fd)'
  <2>1. InStep(fd \in Automatic, client'[fd], down'[fd], up'[fd], View(fd)')
    BY <1>3, <1>9, <1>11, <1>13, <1>15
  <2>2. QED
    BY <1>3, <2>1 DEF SyncAt
<1>17. QED
  BY <1>3, <1>16 DEF AllInStep

\* A client that is refused the seat is told who has the seats.
LEMMA SyncLeavesIAM ==
  ASSUME InSync, NEW fd \in Fds, ServerPlays(fd), drops' = 0, LeaveIAM(fd), Carries(fd)
  PROVE  AllInStep'
<1>1. /\ QuietServer /\ CalmInv /\ OutInv /\ AtPeace /\ SendHeld /\ LoopInv /\ FieldsInv
  BY QuietParts DEF InSync
<1>2. /\ out[fd] # Nothing /\ pc[fd] = "BUSY" /\ out[fd].kind = "BUSY"
      /\ UNCHANGED <<di, deal, fdExpectedTrick>> /\ out' = [out EXCEPT ![fd] = Nothing]
      /\ seen' = [seen EXCEPT ![fd] = Ignorant]
  <2>1. pc[fd] = "BUSY"
    BY <1>1, PlacesSeated DEF LeaveIAM, AtPeace
  <2>2. QED
    BY <1>1, <2>1 DEF LeaveIAM, SendHeld, Returns
<1>3. /\ \A f \in Fds \ {fd} : SyncAt(f)'
      /\ fd \in DOMAIN client /\ UNCHANGED <<client, up>>
      /\ IsQueue(down[fd])
      /\ fd \in disconnected => down'[fd] = down[fd]
      /\ fd \notin disconnected => down'[fd] = Append(down[fd], Content(out[fd]))
      /\ InStep(fd \in Automatic, client[fd], down[fd], up[fd], View(fd))
  BY <1>2, SyncSent
<1>4. PICK v : v = View(fd)
  OBVIOUS
<1>5. ~v.turn /\ ~v.given /\ ~v.wrong
  BY <1>1, <1>2, <1>4, ViewFacts, PlacesSeated
<1>6. PICK w : w = View(fd)'
  OBVIOUS
<1>7. ~w.given /\ ~w.wrong
  <2>1. out'[fd].kind = ""
    BY <1>1, <1>2 DEF LoopInv, Senders, Nothing
  <2>2. seen'[fd].deal = 0
    BY <1>1, <1>2 DEF FieldsInv, Ignorant
  <2>3. ~w.wrong
    BY <1>6, <2>1 DEF View
  <2>4. w.given <=> di > 0 /\ seen'[fd].deal = di
    BY <1>2, <1>6 DEF View
  <2>5. ~w.given
    BY <2>2, <2>4
  <2>6. QED
    BY <2>3, <2>5
<1>8. Moves(v, w)
  BY <1>5, <1>7 DEF Moves
<1>9. PICK m : m = Content(out[fd])
  OBVIOUS
<1>10. m.kind \in {"BUSY", "SCORE", "TOTAL"}
  BY <1>2, <1>9 DEF Content, Blank
<1>11. InStep(fd \in Automatic, client[fd], Append(down[fd], m), up[fd], v)
  BY <1>3, <1>4, <1>5, <1>10, NewsArrives
<1>12. InStep(fd \in Automatic, client[fd], down'[fd], up[fd], v)
  BY <1>3, <1>4, <1>9, <1>11
<1>13. InStep(fd \in Automatic, client[fd], down'[fd], up[fd], w)
  BY <1>8, <1>12, ViewMoves
<1>14. SyncAt(fd)'
  <2>1. InStep(fd \in Automatic, client'[fd], down'[fd], up'[fd], View(fd)')
    BY <1>3, <1>6, <1>13
  <2>2. QED
    BY <1>3, <2>1 DEF SyncAt
<1>15. QED
  BY <1>3, <1>14 DEF AllInStep

\* Every step of a player thread.
LEMMA SyncPlays ==
  ASSUME InSync, NEW fd \in Fds, ServerPlays(fd), drops' = 0
  PROVE  AllInStep'
<1>1. /\ QuietServer /\ OutInv /\ LoopInv /\ AtPeace
  BY QuietParts DEF InSync
<1>2. pc[fd] \notin {"BUSY", "WRONG"} \cup CatchingUp => out[fd] = Nothing
  BY <1>1 DEF OutInv
<1>3. CASE /\ RecvIAM(fd, SeatOf[fd]) \/ RecvIAMFails(fd) \/ RecvTRICKFails(fd) \/ Fail(fd)
             \/ RecvTRICK(fd)
           /\ UNCHANGED ends
  <2>1. UNCHANGED <<client, down, up, deal, fdExpectedTrick, out>>
    BY <1>3 DEF ends, RecvIAM, RecvIAMFails, RecvTRICKFails, Fail, RecvTRICK
  <2>2. QED
    BY <2>1, SyncGoes
<1>4. CASE HandleIAM(fd) /\ UNCHANGED ends
  <2>1. UNCHANGED <<client, down, up, deal, fdExpectedTrick>> /\ pc[fd] = "handleIAM"
    BY <1>4 DEF ends, HandleIAM
  <2>2. out[fd].kind # "WRONG"
    <3>1. "handleIAM" \notin CatchingUp
      BY PlacesSeated
    <3>2. out[fd] = Nothing
      BY <1>2, <2>1, <3>1
    <3>3. Nothing.kind # "WRONG"
      BY DEF Nothing
    <3>4. QED
      BY <3>2, <3>3
  <2>3. out'[fd] = out[fd] \/ out'[fd].kind \in {"BUSY", "DEAL"}
    BY <1>1, <1>4 DEF HandleIAM, Sends, Message, LoopInv, Senders
  <2>4. QED
    BY <2>1, <2>2, <2>3, SyncGoes
<1>5. CASE (CatchUp(fd) \/ CaughtUp(fd)) /\ Carries(fd)
  BY <1>1, <1>5, PlacesSeated DEF CatchUp, CaughtUp, AtPeace
<1>6. CASE /\ up[fd] # <<>>
           /\ LET m == Head(up[fd])
              IN  HandleTRICK(fd, m.trick, m.card) \/ RefuseTRICK(fd, m.trick, m.card)
           /\ up' = [up EXCEPT ![fd] = Tail(@)]
           /\ UNCHANGED <<client, down>>
  BY <1>6, SyncAccepted, SyncRefused
<1>7. QED
  BY <1>3, <1>4, <1>5, <1>6, SyncWrongSent, SyncLeavesIAM DEF ServerPlays

-----------------------------------------------------------------------------
\* Only what a client has of cards and tricks matters.
LEMMA SameInStep ==
  ASSUME NEW auto, NEW c, NEW q, NEW u, NEW v, InStep(auto, c, q, u, v),
         NEW d, d.lastPlayedTrick = c.lastPlayedTrick, d.lastPlayedCard = c.lastPlayedCard,
         d.serverTrick = c.serverTrick, d.hand = c.hand
  PROVE  InStep(auto, d, q, u, v)
BY DEF InStep, MayAnswer, Sent, Counts

\* No automatic client is asked with an empty hand.
LEMMA NeverCrashes == InSync => ~Crash
<1> SUFFICES ASSUME InSync, NEW fd \in Fds, DrawsFromNothing(fd) PROVE FALSE
  BY DEF Crash
<1>1. /\ QuietServer /\ CalmInv /\ OutInv /\ EndsInv /\ SyncAt(fd)
  BY DEF InSync, AllInStep
<1>2. /\ fd \in DOMAIN client /\ down[fd] # <<>> /\ Asks(client[fd], Head(down[fd]))
      /\ DOMAIN client[fd].hand = {}
  BY DEF DrawsFromNothing, Playing
<1>3. PICK v : v = View(fd)
  OBVIOUS
<1>4. PICK c, q, u : c = client[fd] /\ q = down[fd] /\ u = up[fd]
  OBVIOUS
<1>5. Judged(v) /\ InStep(fd \in Automatic, c, q, u, v) /\ IsClient(c) /\ IsQueue(q)
  BY <1>1, <1>2, <1>3, <1>4, ViewFacts DEF SyncAt, EndsInv
<1>6. q # <<>> /\ Asks(c, Head(q))
  BY <1>2, <1>4
<1>7. DOMAIN c.hand = v.hand /\ v.hand # {}
  BY <1>5, <1>6, AskAnswered
<1>8. QED
  BY <1>2, <1>4, <1>7

\* What a client reads, answers or types, and how its process ends.
LEMMA SyncClients ==
  ASSUME InSync, NEW fd \in Fds,
         Reads(fd) \/ Answers(fd) \/ ConnectionEnds(fd) \/ \E card \in Card : Types(fd, card)
  PROVE  AllInStep'
<1>1. /\ QuietServer /\ CalmInv /\ OutInv /\ EndsInv /\ SyncAt(fd) /\ AllInStep
  BY DEF InSync, AllInStep
<1>2. UNCHANGED vars
  BY DEF Reads, Answers, ConnectionEnds, Types
<1>3. \A f \in Fds : View(f)' = View(f)
  BY <1>2 DEF vars, View
<1>4. /\ fd \in DOMAIN client /\ DOMAIN client' = DOMAIN client
      /\ \A f \in Fds \ {fd} : /\ down'[f] = down[f] /\ up'[f] = up[f]
                               /\ f \in DOMAIN client => client'[f] = client[f]
  BY <1>1, ClientKeeps, ClientElsewhere DEF ClientStep
<1>5. \A f \in Fds \ {fd} : SyncAt(f)'
  BY <1>1, <1>3, <1>4 DEF AllInStep, SyncAt
<1>6. PICK v : v = View(fd)
  OBVIOUS
<1>7. PICK c, q, u : c = client[fd] /\ q = down[fd] /\ u = up[fd]
  OBVIOUS
<1>8. Judged(v) /\ InStep(fd \in Automatic, c, q, u, v) /\ IsClient(c) /\ IsQueue(q)
  BY <1>1, <1>4, <1>6, <1>7, ViewFacts DEF SyncAt, EndsInv
<1>9. SUFFICES InStep(fd \in Automatic, client'[fd], down'[fd], up'[fd], v)
  <2>1. InStep(fd \in Automatic, client'[fd], down'[fd], up'[fd], View(fd)')
    BY <1>3, <1>6, <1>9
  <2>2. SyncAt(fd)'
    BY <1>4, <2>1 DEF SyncAt
  <2>3. QED
    BY <1>5, <2>2 DEF AllInStep
<1>10. CASE Reads(fd)
  <2>1. q # <<>> /\ (fd \in Automatic => ~Asks(c, Head(q)))
    BY <1>7, <1>10 DEF Reads
  <2>2. InStep(fd \in Automatic, Read(c, Head(q), SeatOf[fd]), Tail(q), u, v)
    BY <1>8, <2>1, ReadInStep
  <2>3. client'[fd] = Read(c, Head(q), SeatOf[fd]) /\ down'[fd] = Tail(q) /\ up'[fd] = u
    BY <1>1, <1>4, <1>7, <1>10 DEF Reads, EndsInv
  <2>4. QED
    BY <2>2, <2>3
<1>11. CASE Answers(fd)
  <2>1. q # <<>> /\ Asks(c, Head(q))
    BY <1>7, <1>11 DEF Answers
  <2>2. PICK b : b = Read(c, Head(q), SeatOf[fd])
    OBVIOUS
  <2>3. PICK card \in AutoCards(b) : SendsCard(fd, b, card)
    BY <1>7, <1>11, <2>2 DEF Answers
  <2>4. Head(q).hand \subseteq Card
    BY <1>8, <2>1, QueueMoves
  <2>5. InStep(fd \in Automatic, Play(b, card), Tail(q),
               Append(u, [trick |-> b.serverTrick, card |-> card]), v)
    <3>1. card \in AutoCards(Read(c, Head(q), SeatOf[fd]))
      BY <2>2, <2>3
    <3>2. LET e == Read(c, Head(q), SeatOf[fd]) IN
          InStep(fd \in Automatic, Play(e, card), Tail(q),
                 Append(u, [trick |-> e.serverTrick, card |-> card]), v)
      BY <1>8, <2>1, <2>4, <3>1, AnswerInStep
    <3>3. QED
      BY <2>2, <3>2
  <2>6. /\ client'[fd] = Play(b, card) /\ down'[fd] = Tail(q)
        /\ up'[fd] = Append(u, [trick |-> b.serverTrick, card |-> card])
    <3>1. down'[fd] = Tail(q)
      BY <1>1, <1>7, <1>11 DEF Answers, EndsInv
    <3>2. client'[fd] = Play(b, card)
      BY <1>4, <2>3 DEF SendsCard
    <3>3. up'[fd] = Append(u, [trick |-> b.serverTrick, card |-> card])
      BY <1>1, <1>7, <2>3 DEF SendsCard, EndsInv
    <3>4. QED
      BY <3>1, <3>2, <3>3
  <2>7. QED
    BY <2>5, <2>6
<1>12. ASSUME NEW card \in Card, Types(fd, card)
       PROVE  InStep(fd \in Automatic, client'[fd], down'[fd], up'[fd], v)
  <2>1. MayPlay(c) /\ card \in DOMAIN c.hand /\ SendsCard(fd, c, card) /\ UNCHANGED down
    BY <1>7, <1>12 DEF Types
  <2>2. InStep(fd \in Automatic, Play(c, card), q,
               Append(u, [trick |-> c.serverTrick, card |-> card]), v)
    BY <1>8, <2>1, TypedInStep
  <2>3. client'[fd] = Play(c, card)
    BY <1>4, <2>1 DEF SendsCard
  <2>4. up'[fd] = Append(u, [trick |-> c.serverTrick, card |-> card])
    BY <1>1, <1>7, <2>1 DEF SendsCard, EndsInv
  <2>5. QED
    BY <1>7, <2>1, <2>2, <2>3, <2>4
<1>13. CASE ConnectionEnds(fd)
  <2>1. PICK status : client' = [client EXCEPT ![fd].status = status] /\ UNCHANGED <<down, up>>
    BY <1>13 DEF ConnectionEnds, Ends
  <2>2. client'[fd] = [c EXCEPT !.status = status]
    BY <1>4, <1>7, <2>1
  <2>3. PICK d : d = client'[fd]
    OBVIOUS
  <2>4. /\ d.lastPlayedTrick = c.lastPlayedTrick /\ d.lastPlayedCard = c.lastPlayedCard
        /\ d.serverTrick = c.serverTrick /\ d.hand = c.hand
    BY <1>8, <2>2, <2>3 DEF IsClient
  <2>5. InStep(fd \in Automatic, d, q, u, v)
    BY <1>8, <2>4, SameInStep
  <2>6. QED
    BY <1>7, <2>1, <2>3, <2>5
<1>14. QED
  BY <1>10, <1>11, <1>12, <1>13

-----------------------------------------------------------------------------
\* No client process has died, either.
NoneCrashed == \A fd \in DOMAIN client : client[fd].status # "crashed"

\* All of it, as long as no client has left.
SyncInv == SystemInv /\ drops \in Nat /\ (drops = 0 => InSync /\ NoneCrashed)

\* At first nobody is connected and no deal has begun.
LEMMA SyncStart == SystemInit => SyncInv
<1> SUFFICES ASSUME SystemInit PROVE SyncInv
  OBVIOUS
<1>1. Init /\ client = <<>> /\ down = [fd \in Fds |-> <<>>] /\ up = [fd \in Fds |-> <<>>]
  BY DEF SystemInit
<1>2. SystemInv /\ OutInv /\ EndsInv
  BY SystemStart DEF SystemInv, ServerInv
<1>3. QuietServer
  BY <1>1, InformedInit, RulesInit, TypesInit DEF QuietServer, RulesInv, TypesInv, Init
<1>4. CalmInv
  <2>1. HereInv
    BY <1>1, Descriptors, PlacesSeated DEF HereInv, Init
  <2>2. NewsInv
    BY <1>1 DEF NewsInv, Init, Ignorant
  <2>3. AskInv
    BY <1>1 DEF AskInv, Init
  <2>4. QED
    BY <2>1, <2>2, <2>3 DEF CalmInv
<1>5. AllInStep /\ NoneCrashed
  <2>1. DOMAIN client = {}
    BY <1>1
  <2>2. QED
    BY <1>1, <2>1 DEF AllInStep, SyncAt, NoneCrashed
<1>6. drops = 0
  BY <1>1 DEF Init
<1>7. QED
  BY <1>2, <1>3, <1>4, <1>5, <1>6 DEF SyncInv, InSync

\* No process dies in a step that is not a crash.
LEMMA NoneDies ==
  ASSUME ServerInv, EndsInv, NoneCrashed, [SystemNext]_allVars, ~Crash
  PROVE  NoneCrashed'
<1> SUFFICES ASSUME NEW f \in DOMAIN client' PROVE client'[f].status # "crashed"
  BY DEF NoneCrashed
<1>1. CASE UNCHANGED client
  BY <1>1 DEF NoneCrashed
<1>2. CASE Arrives
  <2>1. client'[f] = NewClient \/ (f \in DOMAIN client /\ client'[f] = client[f])
    BY <1>2 DEF Arrives, Insert
  <2>2. NewClient.status # "crashed"
    BY DEF NewClient
  <2>3. QED
    BY <2>1, <2>2 DEF NoneCrashed
<1>3. ASSUME NEW fd \in Fds,
             ClientStep(fd) \/ Leaves(fd) \/ \E card \in Card : Types(fd, card)
      PROVE  client'[f].status # "crashed"
  <2>1. DOMAIN client' = DOMAIN client /\ fd \in DOMAIN client
    BY <1>3, ClientKeeps
  <2>2. CASE f # fd
    <3>1. f \in Fds
      BY <2>1 DEF EndsInv, ServerInv, RoomInv
    <3>2. QED
      BY <1>3, <2>1, <2>2, <3>1, ClientElsewhere DEF NoneCrashed
  <2>3. CASE f = fd /\ (Reads(fd) \/ Answers(fd) \/ \E card \in Card : Types(fd, card))
    BY <2>1, <2>3, PlayingOn DEF NoneCrashed
  <2>4. CASE f = fd /\ (ConnectionEnds(fd) \/ Leaves(fd))
    <3>1. PICK status \in {"success", "failure", "left"} :
             client' = [client EXCEPT ![fd].status = status]
      BY <2>4 DEF ConnectionEnds, Leaves, Ends, Verdict
    <3>2. client'[fd].status = status
      BY <2>1, <3>1 DEF EndsInv, IsClient
    <3>3. QED
      BY <2>4, <3>1, <3>2
  <2>5. ~DrawsFromNothing(fd)
    BY DEF Crash
  <2>6. QED
    BY <1>3, <2>2, <2>3, <2>4, <2>5 DEF ClientStep
<1>4. QED
  <2>1. MainStep /\ UNCHANGED ends => UNCHANGED client
    BY DEF ends
  <2>2. ServerAccepts => Arrives \/ UNCHANGED client
    BY DEF ServerAccepts, ends
  <2>3. ServerDeals => UNCHANGED client
    BY DEF ServerDeals, AsksAgain, Carries, ends
  <2>4. \A fd \in Fds : ServerPlays(fd) => UNCHANGED client
    BY DEF ServerPlays, Carries, ends
  <2>5. UNCHANGED allVars => UNCHANGED client
    BY DEF allVars, ends
  <2>6. QED
    BY <1>1, <1>2, <1>3, <2>1, <2>2, <2>3, <2>4, <2>5 DEF SystemNext

\* Every step of server and clients that is no departure keeps them in step.
LEMMA SyncStep == SyncInv /\ [SystemNext]_allVars => SyncInv'
<1> SUFFICES ASSUME SyncInv, [SystemNext]_allVars PROVE SyncInv'
  OBVIOUS
<1>1. SystemInv /\ drops \in Nat /\ ServerInv /\ EndsInv
  BY DEF SyncInv, SystemInv
<1>2. SystemInv' /\ OutInv' /\ EndsInv'
  BY <1>1, SystemKeeps DEF SystemInv, ServerInv
<1>3. drops' \in Nat /\ (drops' = 0 => drops = 0)
  <2>1. CASE [Next]_vars
    BY <1>1, <2>1, DropsGrow
  <2>2. CASE Crash
    BY <1>1, <2>2 DEF Crash, DrawsFromNothing
  <2>3. QED
    BY <1>1, <2>1, <2>2, SystemStep
<1>4. ASSUME drops' = 0 PROVE InSync' /\ NoneCrashed'
  <2>1. drops = 0 /\ InSync /\ NoneCrashed
    BY <1>3, <1>4 DEF SyncInv
  <2>2. QuietServer /\ CalmInv /\ OutInv /\ EndsInv /\ AllInStep
    BY <2>1 DEF InSync
  <2>3. ~Crash
    BY <2>1, NeverCrashes
  <2>4. [Next]_vars
    BY <2>2, <2>3, SystemStep
  <2>5. QuietServer'
    BY <1>1, <1>4, <2>1, <2>2, <2>4, QuietServerStep
  <2>6. blocks' = 0
    BY <2>5, SystemAssumption DEF QuietServer, BoundType
  <2>7. CalmInv'
    BY <1>4, <2>2, <2>3, <2>6, CalmStep
  <2>8. NoneCrashed'
    BY <1>1, <2>1, <2>2, <2>3, NoneDies
  <2>9. AllInStep'
    <3>1. CASE MainStep /\ UNCHANGED ends
      BY <2>1, <3>1, SyncMainStep
    <3>2. CASE ServerAccepts
      BY <2>1, <3>2, SyncAccepts
    <3>3. CASE ServerDeals
      BY <2>1, <2>6, <3>3, SyncDeals
    <3>4. ASSUME NEW fd \in Fds, ServerPlays(fd) PROVE AllInStep'
      BY <1>4, <2>1, <3>4, SyncPlays
    <3>5. ASSUME NEW fd \in Fds, ClientStep(fd) PROVE AllInStep'
      BY <2>1, <2>3, <3>5, SyncClients DEF ClientStep, Crash
    <3>6. ASSUME NEW fd \in Fds, Leaves(fd) PROVE FALSE
      BY <1>4, <2>1, <3>6 DEF Leaves, ClientCloses
    <3>7. ASSUME NEW fd \in Fds, NEW card \in Card, Types(fd, card) PROVE AllInStep'
      BY <2>1, <3>7, SyncClients
    <3>8. CASE UNCHANGED allVars
      <4>1. UNCHANGED <<client, down, up, di, fdExpectedTrick, out, seen, deal>>
        BY <3>8 DEF allVars, ends, vars
      <4>2. QED
        BY <2>2, <4>1, AllStay
    <3>9. QED
      BY <3>1, <3>2, <3>3, <3>4, <3>5, <3>6, <3>7, <3>8 DEF SystemNext
  <2>10. QED
    BY <1>2, <2>5, <2>7, <2>8, <2>9 DEF InSync
<1>5. QED
  BY <1>2, <1>3, <1>4 DEF SyncInv

\* The bags of no card and of one.
LEMMA FewCards ==
  /\ \A q : DOMAIN q = {} => CardBag(q) = EmptyBag
  /\ \A card : CardBag(<<card>>) = SetToBag({card})
  /\ \A S : SetToBag(S) (+) EmptyBag = SetToBag(S) /\ EmptyBag (+) SetToBag(S) = SetToBag(S)
<1>1. ASSUME NEW q, DOMAIN q = {} PROVE CardBag(q) = EmptyBag
  BY <1>1 DEF CardBag, Range, EmptyBag, SetToBag
<1>2. ASSUME NEW card PROVE CardBag(<<card>>) = SetToBag({card})
  <2> DEFINE q == <<card>>
  <2>1. DOMAIN q = {1} /\ q[1] = card
    OBVIOUS
  <2> HIDE DEF q
  <2>2. Range(q) = {card}
    BY <2>1 DEF Range
  <2>3. {i \in DOMAIN q : q[i] = card} = {1}
    BY <2>1
  <2>4. Cardinality({1}) = 1
    BY FS_Singleton
  <2>5. CardBag(q) = SetToBag({card})
    BY <2>2, <2>3, <2>4 DEF CardBag, SetToBag
  <2>6. QED
    BY <2>5 DEF q
<1>3. ASSUME NEW S
      PROVE  SetToBag(S) (+) EmptyBag = SetToBag(S) /\ EmptyBag (+) SetToBag(S) = SetToBag(S)
  BY DEF (+), EmptyBag, SetToBag
<1>4. QED
  BY <1>1, <1>2, <1>3

\* A client in step holds the cards the server keeps for it.
LEMMA InStepHands == InSync => HandsAgree
<1> SUFFICES ASSUME InSync, NEW fd \in Fds, pc[fd] \in {"recvTRICK", "handleTRICK", "WRONG"},
                    HasDeal(fd)
             PROVE  client[fd].hand (+) Unsettled(fd) = SetToBag(deal.currentHand[seat[fd]])
  BY DEF HandsAgree
<1>1. QuietServer /\ CalmInv /\ OutInv /\ EndsInv /\ SyncAt(fd)
  BY DEF InSync, AllInStep
<1>2. PICK v : v = View(fd)
  OBVIOUS
<1>3. PICK c, q, u : c = client[fd] /\ q = down[fd] /\ u = up[fd]
  OBVIOUS
<1>4. InStep(fd \in Automatic, c, q, u, v)
  BY <1>1, <1>2, <1>3 DEF HasDeal, Playing, SyncAt
<1>5. v.given /\ v.hand = deal.currentHand[seat[fd]] /\ (v.wrong <=> out[fd].kind = "WRONG")
  <2>1. seat[fd] = SeatOf[fd]
    BY <1>1, PlacesSeated, ViewFacts
  <2>2. QED
    BY <1>2, <2>1 DEF HasDeal, View
<1>6. ~Has(q, "DEAL") /\ (Has(q, "WRONG") <=> OnTheWay(fd, "WRONG"))
  BY <1>3 DEF HasDeal, OnTheWay, Has
<1> DEFINE S == v.hand
           x == c.lastPlayedCard
           sent == CardBag([i \in DOMAIN u |-> u[i].card])
<1>7. Unsettled(fd) = IF Has(q, "WRONG") \/ v.wrong THEN sent (+) SetToBag({x}) ELSE sent
  BY <1>3, <1>5, <1>6 DEF Unsettled
<1>8. Counts(c, q, v, Pending(q, u, v))
  BY <1>4, <1>5, <1>6 DEF InStep
<1>9. CASE ~Pending(q, u, v)
  <2>1. u = <<>> /\ ~Has(q, "WRONG") /\ ~v.wrong
    BY <1>9 DEF Pending
  <2>2. sent = EmptyBag
    BY <2>1, FewCards
  <2>3. c.hand = SetToBag(S)
    BY <1>8, <1>9 DEF Counts
  <2>4. QED
    BY <1>3, <1>5, <1>7, <2>1, <2>2, <2>3, FewCards
<1>10. CASE Pending(q, u, v)
  <2>1. x \in S
    BY <1>4, <1>10 DEF InStep
  <2>2. c.hand = SetToBag(S \ {x})
    BY <1>8, <1>10 DEF Counts
  <2>3. SetToBag(S \ {x}) (+) SetToBag({x}) = SetToBag(S)
    BY <2>1, HandBags
  <2>4. CASE u # <<>>
    <3>1. u = <<[trick |-> c.lastPlayedTrick, card |-> x]>> /\ ~v.wrong /\ ~Has(q, "WRONG")
      <4>1. Sent(fd \in Automatic, c, q, u, v)
        BY <1>4, <2>4 DEF InStep
      <4>2. AllOld(c.lastPlayedTrick, q)
        BY <4>1 DEF Sent
      <4>3. ~Has(q, "WRONG")
        BY <4>2, AllOldQueue
      <4>4. QED
        BY <4>1, <4>3 DEF Sent
    <3>2. [i \in DOMAIN u |-> u[i].card] = <<x>>
      BY <3>1
    <3>3. sent = SetToBag({x})
      BY <3>2, FewCards
    <3>4. QED
      BY <1>3, <1>5, <1>7, <2>2, <2>3, <3>1, <3>3
  <2>5. CASE u = <<>>
    <3>1. v.wrong \/ Has(q, "WRONG")
      BY <1>10, <2>5 DEF Pending
    <3>2. sent = EmptyBag
      BY <2>5, FewCards
    <3>3. Unsettled(fd) = SetToBag({x})
      BY <1>7, <3>1, <3>2, FewCards
    <3>4. QED
      BY <1>3, <1>5, <2>2, <2>3, <3>3
  <2>6. QED
    BY <2>4, <2>5
<1>11. QED
  BY <1>9, <1>10

\* As long as no client has left, the hand of every client and its unsettled cards
\* are together the hand the server keeps for it, for every number of seats, cards
\* and deals, whatever the users type, however asks, answers and refusals cross and
\* wherever they wait.
THEOREM HandsAlwaysAgree == SystemSpec => [](drops = 0 => HandsAgree)
<1>1. SyncInv => (drops = 0 => HandsAgree)
  BY InStepHands DEF SyncInv
<1>2. QED
  BY SyncStart, SyncStep, <1>1, PTL DEF SystemSpec

\* As long as no client has left, no card of an automatic client is refused: it
\* plays the card by the table and the hand that the server judges it by, and for
\* each ask that is not answered once.
THEOREM AutoNeverRefused == SystemSpec => [](drops = 0 => AutoNeverWrong)
<1>1. InSync => AutoNeverWrong
  <2> SUFFICES ASSUME InSync, NEW fd \in Automatic, out[fd].kind = "WRONG" PROVE FALSE
    BY DEF AutoNeverWrong
  <2>1. fd \in Fds /\ QuietServer /\ CalmInv /\ OutInv /\ EndsInv /\ SyncAt(fd) /\ ConnInv
    BY SystemAssumption, QuietParts DEF InSync, AllInStep
  <2>2. pc[fd] = "WRONG" /\ View(fd).wrong
    BY <2>1, ViewFacts DEF View
  <2>3. fd \in DOMAIN client
    BY <2>1, <2>2, Descriptors DEF ConnInv, EndsInv
  <2>4. PICK v : v = View(fd)
    OBVIOUS
  <2>5. InStep(fd \in Automatic, client[fd], down[fd], up[fd], v)
    BY <2>1, <2>3, <2>4 DEF SyncAt
  <2>6. QED
    BY <2>2, <2>4, <2>5 DEF InStep
<1>2. SyncInv => (drops = 0 => AutoNeverWrong)
  BY <1>1 DEF SyncInv
<1>3. QED
  BY SyncStart, SyncStep, <1>2, PTL DEF SystemSpec

\* As long as no client has left, no client is asked for a card when its hand is
\* empty: the asks that wait for a client are for a card it still holds, or has
\* played already and will not play again.
THEOREM NeverAskedEmptyHanded == SystemSpec => [](drops = 0 => NeverEmptyHanded)
<1>1. SyncInv => (drops = 0 => NeverEmptyHanded)
  BY DEF SyncInv, NoneCrashed, NeverEmptyHanded
<1>2. QED
  BY SyncStart, SyncStep, <1>1, PTL DEF SystemSpec
-----------------------------------------------------------------------------
\* What the users see of a game nobody leaves.

\* Every trick told has a card of each seat.
LEMMA AllWhole == ShowInv /\ InSync => WholeTricks
<1> SUFFICES ASSUME ShowInv, InSync, NEW fd \in Fds, Given(fd), NEW i \in DOMAIN Told(fd)
             PROVE  Len(Told(fd)[i].cards) = Len(PlayerOrder)
  BY DEF WholeTricks
<1> DEFINE k == Len(deal.tricksTaken)
           n == seen[fd].taken
<1>1. /\ k \in Nat /\ n \in 0..k + 1 /\ (dealPc # "TAKEN" => n <= k)
      /\ deal.tricksTaken \in Seq(ToldTrick) /\ OnTable \in ToldTrick
      /\ IsTold(Told(fd)) /\ Len(Told(fd)) = n
  BY ToldTricks DEF ShowInv, SystemInv
<1>2. i \in 1..n /\ Told(fd) = SubSeq(Append(deal.tricksTaken, OnTable), 1, n)
  BY <1>1 DEF IsTold, Told, OnTable
<1>3. Told(fd)[i] = Append(deal.tricksTaken, OnTable)[i]
  BY <1>1, <1>2, FirstOnes
<1>4. Told(fd)[i] = IF i <= k THEN deal.tricksTaken[i] ELSE OnTable
  BY <1>1, <1>2, <1>3, AppendProperties
<1>5. TurnsInv /\ di > 0
  BY QuietParts DEF InSync, Given
<1>6. CASE i <= k
  <2>1. i \in DOMAIN deal.tricksTaken
    BY <1>1, <1>2, <1>6
  <2>2. QED
    BY <1>4, <1>5, <1>6, <2>1 DEF TurnsInv, WentRound, Players
<1>7. CASE ~(i <= k)
  <2>1. dealPc = "TAKEN"
    BY <1>1, <1>2, <1>7
  <2>2. Len(deal.cardsOnTable) = Players
    BY <1>5, <2>1 DEF TurnsInv
  <2>3. QED
    BY <1>4, <1>7, <2>2 DEF OnTable, Players
<1>8. QED
  BY <1>6, <1>7

\* As long as no client has left, the tricks a client shows as its own are those
\* its seat took in the deal, card for card.
THEOREM TricksAlwaysAgree == SystemSpec => [](drops = 0 => TricksAgree)
<1>1. SystemSpec => []ShowInv
  BY ShowAlways
<1>2. SystemSpec => []SyncInv
  BY SyncStart, SyncStep, PTL DEF SystemSpec
<1>3. ShowInv /\ SyncInv => (drops = 0 => TricksAgree)
  BY AllWhole, OwnAgree DEF SyncInv
<1>4. QED
  BY <1>1, <1>2, <1>3, PTL

\* As long as no client has left, server and clients together run HeartsServer: what
\* the clients of the program do, its arbitrary clients may do as well, so that
\* every theorem about the server is one about the program.
THEOREM SystemImplementsServer == SystemSpec /\ [](drops = 0) => Spec
<1>1. SystemInit => Init
  BY DEF SystemInit
<1>2. SyncInv /\ drops = 0 /\ [SystemNext]_allVars => [Next]_vars
  BY SystemStep, NeverCrashes DEF SyncInv, SystemInv
<1>3. QED
  BY SyncStart, SyncStep, <1>1, <1>2, PTL DEF SystemSpec, Spec

\* As long as no client has left, server and clients together play Hearts: what the
\* clients answer, however late and however often they are asked, makes the server
\* take the steps of the rules and no others.
THEOREM SystemPlaysHearts ==
  ASSUME GameFile # <<>>
  PROVE  SystemSpec /\ [](drops = 0) => PlaysHearts
<1>1. Spec /\ [](drops = 0) => PlaysHearts
  BY ServerPlaysHearts
<1>2. QED
  BY SystemImplementsServer, <1>1, PTL
-----------------------------------------------------------------------------
\* How the server ends while no client leaves.

\* Every entry of player_fds is a connection, so that nothing is written to the
\* standard input, and the message of dealThread is for a client at the table.
AtTable(fd) == fd \in Fds /\ pc[fd] \in Seated
Alive ==
  /\ Range(playerFds) \subseteq Fds
  /\ Stdin \notin clients
  /\ out[DealThread] # Nothing => AtTable(out[DealThread].to)
  /\ Running \/ (aborted = "accept" /\ ~listening)
AliveInv ==
  /\ mainPc \notin {"next", "join"} \/ ~listening => gameOver
  /\ drops = 0 => Alive

\* The server starts with the standard input out of reach.
LEMMA AliveInit == Init => AliveInv
<1> SUFFICES ASSUME Init PROVE AliveInv
  OBVIOUS
<1>1. mainPc = "next" /\ DOMAIN playerFds = {} /\ Stdin \notin clients /\ Running /\ listening
  BY DEF Init, Running
<1>2. out[DealThread] = Nothing
  BY DEF Init, Senders
<1>3. QED
  BY <1>1, <1>2 DEF AliveInv, Alive, Range

\* The main thread finds nothing but connections to shut down.
LEMMA AliveMainStep == QuietServer /\ Alive /\ MainStep => Alive'
<1> SUFFICES ASSUME QuietServer, Alive, MainStep PROVE Alive'
  OBVIOUS
<1>1. UNCHANGED <<playerFds, clients, out, pc>>
  BY DEF MainStep, NextDeal, JoinDeal, EndGame, StopAccepting, DisconnectAll, JoinClients
<1>2. Running \/ (aborted = "accept" /\ ~listening)
  BY DEF Alive
<1>3. aborted' = aborted /\ (~listening => ~listening')
  BY DEF Alive, MainStep, NextDeal, JoinDeal, EndGame, StopAccepting, DisconnectAll, JoinClients
<1>4. QED
  BY <1>1, <1>2, <1>3 DEF Alive, AtTable, Running

\* A connection is new, and accept fails only after the shutdown has begun.
LEMMA AliveAcceptStep == QuietServer /\ Alive /\ AcceptStep /\ drops' = 0 => Alive'
<1> SUFFICES ASSUME QuietServer, Alive, AcceptStep, drops' = 0 PROVE Alive'
  OBVIOUS
<1>1. /\ UNCHANGED <<playerFds, out, listening>> /\ SeatInv /\ ConnInv /\ OwnInv
      /\ DOMAIN pc = Fds /\ drops = 0
  BY QuietParts
  DEF QuietServer, AcceptStep, PollIn, PollHup, Accept, AcceptFails, SeatInv
<1>2. \A f \in Fds : pc[f] \in Seated => pc'[f] = pc[f]
  <2>1. CASE Accept
    <3>1. PICK fd : /\ pc' = [pc EXCEPT ![fd] = "recvIAM"]
                    /\ fd \in Fds => pc[fd] = "none"
      BY <1>1, <2>1, AcceptNew
    <3>2. QED
      BY <1>1, <3>1, PlacesSeated
  <2>2. CASE ~Accept
    BY <2>2 DEF AcceptStep, PollIn, PollHup, AcceptFails
  <2>3. QED
    BY <2>1, <2>2
<1>3. Stdin \notin clients'
  <2>1. CASE Accept
    <3>1. PICK k \in Nat : clients \ {Stdin} = 5..(4 + k)
      BY <1>1 DEF ConnInv
    <3>2. Cardinality(5..(4 + k)) = k
      BY <3>1, FS_Interval
    <3>3. clients' = clients \cup {5 + k}
      BY <2>1, <3>1, <3>2 DEF Accept
    <3>4. QED
      BY <3>1, <3>3 DEF Alive, Stdin
  <2>2. CASE ~Accept
    BY <2>2 DEF AcceptStep, PollIn, PollHup, AcceptFails, Alive
  <2>3. QED
    BY <2>1, <2>2
<1>4. Running' \/ (aborted' = "accept" /\ ~listening')
  BY <1>1 DEF AcceptStep, PollIn, PollHup, Accept, AcceptFails, Alive, Running
<1>5. QED
  BY <1>1, <1>2, <1>3, <1>4 DEF Alive, AtTable

\* The messages of dealThread go to clients at the table, so that none fails.
LEMMA AliveDealStep ==
  ASSUME QuietServer, CalmInv, OutInv, Alive, DealStep, blocks' = 0
  PROVE  Alive'
<1> DEFINE o == out[DealThread]
<1>1. /\ LoopInv /\ ConnInv /\ TableInv /\ AtPeace /\ Once /\ DealInv /\ ~gameOver
      /\ di > 0 /\ blocks = 0 /\ DOMAIN out = Senders /\ DealThread \in Senders /\ it \in Int
  BY QuietParts, DealStepFree DEF LoopInv, Senders
<1>2. /\ UNCHANGED <<pc, listening, closed, disconnected>>
      /\ Range(playerFds) \subseteq Fds /\ Stdin \notin clients
      /\ o # Nothing => AtTable(o.to)
  BY DEF Alive, DealStep, DealReady, Broadcast, BroadcastFails, Blocks, BeginTurn, AskSent,
         Timeout, Answered, Resume, EndTrick, EndDeal
<1>3. \A s \in DOMAIN playerFds : AtTable(playerFds[s])
  BY <1>1, <1>2 DEF AtTable, Range, CalmInv, HereInv
<1>4. \A fd : AtTable(fd) => fd \notin closed \cup disconnected \cup {Stdin}
  BY <1>1, PlacesSeated, Descriptors DEF AtTable, AtPeace
<1>5. ~BroadcastFails
  BY <1>2, <1>4 DEF BroadcastFails, Breaks
<1>6. aborted' = aborted
  BY <1>5 DEF DealStep, DealReady, Broadcast, Blocks, BeginTurn, AskSent,
              Timeout, Answered, Resume, EndTrick, EndDeal
<1>7. clients' \in {clients, clients \cup {o.to}} /\ (clients' # clients => o # Nothing)
  BY <1>5 DEF DealStep, DealReady, Broadcast, Blocks, BeginTurn, AskSent,
              Timeout, Answered, Resume, EndTrick, EndDeal, Delivers, Breaks, Logged
<1>8. Stdin \notin clients'
  BY <1>2, <1>4, <1>7
<1>9. ASSUME NEW kind, NEW i \in Int, SendTo(kind, i), i = End \/ KeyOrder[i] \in DOMAIN playerFds
      PROVE  out'[DealThread] # Nothing => AtTable(out'[DealThread].to)
  <2>1. CASE i = End
    BY <1>1, <1>9, <2>1 DEF SendTo
  <2>2. CASE i # End
    <3>1. out'[DealThread].to = playerFds[KeyOrder[i]]
      BY <1>1, <1>9, <2>2 DEF SendTo, Message
    <3>2. QED
      BY <1>3, <1>9, <2>2, <3>1
  <2>3. QED
    BY <2>1, <2>2
<1>10. /\ Following(0) \in Int /\ (Following(0) = End \/ KeyOrder[Following(0)] \in DOMAIN playerFds)
       /\ Following(it) \in Int /\ (Following(it) = End \/ KeyOrder[Following(it)] \in DOMAIN playerFds)
  BY <1>1, FollowingEntry
<1> DEFINE Sound == Range(playerFds') \subseteq Fds
                    /\ (out'[DealThread] # Nothing => AtTable(out'[DealThread].to))
<1> SUFFICES Sound
  <2>1. Running' \/ (aborted' = "accept" /\ ~listening')
    BY <1>2, <1>6 DEF Alive, Running
  <2>2. QED
    BY <1>2, <1>8, <2>1 DEF Alive, AtTable
<1>11. ASSUME UNCHANGED playerFds,
              \/ out'[DealThread] \in {o, Nothing}
              \/ out'[DealThread] # Nothing => AtTable(out'[DealThread].to)
       PROVE  Sound
  BY <1>2, <1>11
<1>12. CASE DealReady
  BY <1>9, <1>10, <1>11, <1>12 DEF DealReady
<1>13. CASE Broadcast
  <2>1. CASE dealPc = "SCORE"
    <3>1. KeyOrder[it] \in DOMAIN playerFds \/ it = End \/ o.to \in disconnected
      BY <1>1, <2>1 DEF LoopInv, IteratorValid
    <3>2. SendTo("TOTAL", it) /\ UNCHANGED playerFds /\ o # Nothing
      BY <1>13, <2>1 DEF Broadcast, Delivers
    <3>3. it = End \/ KeyOrder[it] \in DOMAIN playerFds
      BY <1>2, <1>4, <3>1, <3>2
    <3>4. QED
      BY <1>1, <1>9, <1>11, <3>2, <3>3
  <2>2. CASE dealPc # "SCORE"
    BY <1>9, <1>10, <1>11, <1>13, <2>2 DEF Broadcast
  <2>3. QED
    BY <2>1, <2>2
<1>14. CASE Blocks(DealThread)
  BY <1>1, <1>14 DEF Blocks
<1>15. CASE BeginTurn
  <2>1. Ask
    BY <1>1, <1>15 DEF BeginTurn, AtPeace
  <2>2. deal.currentPlayer \in Seats
    BY <1>1 DEF TableInv, GameInv, IsDeal
  <2>3. deal.currentPlayer \in DOMAIN playerFds
    <3>1. dealStarted
      BY <1>1, <1>15 DEF BeginTurn, DealInv
    <3>2. QED
      BY <1>1, <2>2, <3>1 DEF Once, AllSeated, AtPeace
  <2>4. /\ DOMAIN playerFds' = DOMAIN playerFds
        /\ \A s \in DOMAIN playerFds : playerFds'[s] = playerFds[s]
        /\ out'[DealThread].to = playerFds[deal.currentPlayer]
    BY <1>1, <2>1, <2>3 DEF Ask, Insert, Message
  <2>5. Range(playerFds') \subseteq Fds
    BY <1>2, <2>4 DEF Range
  <2>6. QED
    BY <1>3, <2>3, <2>4, <2>5
<1>16. CASE AskSent
  BY <1>1, <1>9, <1>10, <1>11, <1>16 DEF AskSent, TurnOver
<1>17. CASE Timeout
  BY <1>11, <1>17 DEF Timeout
<1>18. CASE Answered
  BY <1>1, <1>9, <1>10, <1>11, <1>18 DEF Answered, TurnOver
<1>19. CASE Resume
  BY <1>1, <1>19 DEF Resume, AtPeace
<1>20. CASE EndTrick
  BY <1>9, <1>10, <1>11, <1>20 DEF EndTrick
<1>21. CASE EndDeal
  BY <1>11, <1>21 DEF EndDeal
<1>22. QED
  BY <1>5, <1>12, <1>13, <1>14, <1>15, <1>16, <1>17, <1>18, <1>19, <1>20, <1>21 DEF DealStep

\* A client answers only an ask, when there is a deal to quote in a refusal.
LEMMA AlivePlays ==
  ASSUME InSync, Alive, NEW fd \in Fds, ServerPlays(fd), drops' = 0
  PROVE  Alive'
<1>1. /\ QuietServer /\ CalmInv /\ OutInv /\ EndsInv /\ SyncAt(fd)
      /\ LoopInv /\ ConnInv /\ DealInv /\ fd \in Fds /\ PlayerStep(fd)
  BY QuietParts, ServerPlayerStep DEF InSync, AllInStep
<1>2. /\ \A f \in Fds \ {fd} : pc'[f] = pc[f]
      /\ out'[DealThread] = out[DealThread]
      /\ pc[fd] \in Seated => gameOver \/ pc'[fd] \in Seated
      /\ \A s \in DOMAIN playerFds' :
           \/ s \in DOMAIN playerFds /\ playerFds'[s] = playerFds[s]
           \/ playerFds'[s] = fd /\ pc'[fd] \in Seated
  BY <1>1, QuietPlays
<1>3. Range(playerFds') \subseteq Fds
  BY <1>2 DEF Range, Alive
<1>4. clients' = clients /\ Stdin \notin clients'
  BY <1>1, PlayerStepConn DEF Alive
<1>5. (out[DealThread] # Nothing => AtTable(out[DealThread].to))'
  <2>1. out[DealThread] # Nothing => ~gameOver
    BY <1>1 DEF OutInv, DealInv
  <2>2. QED
    BY <1>2, <2>1 DEF Alive, AtTable
<1>6. up[fd] # <<>> => di > 0
  <2>1. View(fd).turn => di > 0
    BY <1>1, ViewFacts
  <2>2. QED
    BY <1>1, <2>1 DEF SyncAt, InStep, Pending
<1>7. UNCHANGED <<listening, aborted>>
  BY <1>6 DEF ServerPlays, RecvIAM, RecvIAMFails, HandleIAM, CatchUp, CaughtUp, LeaveIAM, RecvTRICK,
              RecvTRICKFails, HandleTRICK, RefuseTRICK, WrongSent, Fail
<1>8. QED
  BY <1>3, <1>4, <1>5, <1>7 DEF Alive, Running

\* Every step of the system.
LEMMA AliveStep ==
  SyncInv /\ SyncInv' /\ AliveInv /\ [SystemNext]_allVars => AliveInv'
<1> SUFFICES ASSUME SyncInv, SyncInv', AliveInv, [SystemNext]_allVars PROVE AliveInv'
  OBVIOUS
<1>1. SystemInv /\ EndsInv /\ drops \in Nat
  BY DEF SyncInv, SystemInv
<1>2. [Next]_vars \/ Crash
  BY <1>1, SystemStep DEF SystemInv
<1> DEFINE Over == mainPc \notin {"next", "join"} \/ ~listening => gameOver
<1>3. Over'
  <2>1. ASSUME UNCHANGED <<mainPc, listening, gameOver>> PROVE Over'
    BY <2>1 DEF AliveInv
  <2>2. CASE MainStep
    BY <2>2
    DEF AliveInv, MainStep, NextDeal, JoinDeal, EndGame, StopAccepting, DisconnectAll, JoinClients
  <2>3. CASE AcceptStep
    BY <2>1, <2>3 DEF AcceptStep, PollIn, PollHup, Accept, AcceptFails
  <2>4. CASE DealStep
    BY <2>1, <2>4
    DEF DealStep, DealReady, Broadcast, BroadcastFails, Blocks, BeginTurn, AskSent, Timeout,
        Answered, Resume, EndTrick, EndDeal
  <2>5. ASSUME NEW fd \in Fds, PlayerStep(fd) PROVE Over'
    BY <2>1, <2>5
    DEF PlayerStep, RecvIAM, RecvIAMFails, HandleIAM, CatchUp, CaughtUp, LeaveIAM, RecvTRICK,
        RecvTRICKFails, HandleTRICK, RefuseTRICK, SpoiltTRICK, WrongSent, Blocks, Fail
  <2>6. ASSUME NEW fd \in Fds, ClientCloses(fd) \/ DrawsFromNothing(fd) PROVE Over'
    BY <2>1, <2>6 DEF ClientCloses, DrawsFromNothing
  <2>7. CASE UNCHANGED vars
    BY <2>1, <2>7 DEF vars
  <2>8. QED
    BY <1>2, <2>2, <2>3, <2>4, <2>5, <2>6, <2>7 DEF Next, Crash
<1>4. ASSUME drops' = 0 PROVE Alive'
  <2>1. drops = 0 /\ InSync /\ InSync' /\ Alive
    <3>1. CASE [Next]_vars
      BY <1>1, <1>4, <3>1, DropsGrow DEF SyncInv, AliveInv
    <3>2. CASE Crash
      BY <1>4, <3>2 DEF Crash, DrawsFromNothing, SyncInv, AliveInv
    <3>3. QED
      BY <1>2, <3>1, <3>2
  <2>2. QuietServer /\ CalmInv /\ OutInv /\ QuietServer' /\ ~Crash
    BY <2>1, NeverCrashes DEF InSync
  <2>3. blocks' = 0
    BY <2>2, SystemAssumption DEF QuietServer, BoundType
  <2>4. CASE MainStep
    BY <2>1, <2>2, <2>4, AliveMainStep
  <2>5. CASE ServerAccepts
    BY <1>4, <2>1, <2>2, <2>5, AliveAcceptStep DEF ServerAccepts, Arrives, AcceptStep
  <2>6. CASE ServerDeals
    <3>1. DealStep
      BY <2>6 DEF ServerDeals, AsksAgain, DealStep
    <3>2. QED
      BY <2>1, <2>2, <2>3, <3>1, AliveDealStep
  <2>7. ASSUME NEW fd \in Fds, ServerPlays(fd) PROVE Alive'
    BY <1>4, <2>1, <2>7, AlivePlays
  <2>8. ASSUME UNCHANGED vars PROVE Alive'
    BY <2>1, <2>8 DEF Alive, AtTable, Range, Running, vars
  <2>9. ASSUME NEW fd \in Fds, ClientStep(fd) \/ \E card \in Card : Types(fd, card)
        PROVE  UNCHANGED vars
    BY <2>2, <2>9 DEF ClientStep, Crash, Reads, Answers, ConnectionEnds, Types
  <2>10. ASSUME NEW fd \in Fds, Leaves(fd) PROVE FALSE
    BY <1>4, <2>1, <2>10 DEF Leaves, ClientCloses
  <2>11. UNCHANGED allVars => UNCHANGED vars
    BY DEF allVars
  <2>12. QED
    BY <2>4, <2>5, <2>6, <2>7, <2>8, <2>9, <2>10, <2>11 DEF SystemNext
<1>5. QED
  BY <1>3, <1>4 DEF AliveInv

\* While no client leaves, the only thing that may end the server early is a
\* connection that is accepted when the shutdown has begun: no write fails, none
\* goes to the standard input, and no card comes before the first deal.
THEOREM ServerLives ==
  SystemSpec => [](drops = 0 /\ ~Running => aborted = "accept" /\ ~listening /\ gameOver)
<1>1. SystemInit => AliveInv
  BY AliveInit DEF SystemInit
<1>2. SyncInv /\ SyncInv' /\ AliveInv /\ [SystemNext]_allVars => AliveInv'
  BY AliveStep
<1>3. AliveInv => (drops = 0 /\ ~Running => aborted = "accept" /\ ~listening /\ gameOver)
  BY DEF AliveInv, Alive
<1>4. QED
  BY SyncStart, SyncStep, <1>1, <1>2, <1>3, PTL DEF SystemSpec

\* While no client leaves, a client reports success only for a game that was
\* played to its end.
THEOREM SuccessMeansOverIfAllStay == SystemSpec => [](drops = 0 => SuccessMeansOver)
<1>1. SuccessMeansEnd /\ (drops = 0 /\ ~Running => aborted = "accept" /\ ~listening /\ gameOver)
      => (drops = 0 => SuccessMeansOver)
  BY DEF SuccessMeansEnd, SuccessMeansOver
<1>2. QED
  BY SuccessAlwaysMeansEnd, ServerLives, <1>1, PTL
-----------------------------------------------------------------------------
\* Which clients report a failure while no client leaves.

\* No card has come to a client with queue q, nor is one on its way.
Undealt(c, q) ==
  /\ c.hand = EmptyBag /\ c.lastPlayedTrick = 0 /\ c.serverTrick = 0
  /\ \A i \in DOMAIN q : q[i].kind \in {"BUSY", "SCORE", "TOTAL"}

\* The last message it reads is a TOTAL.
EndsInTotal(c, q) == IF q = <<>> THEN c.lastTotal ELSE IsTotal(q[Len(q)])
Served(c, q) == Undealt(c, q) \/ EndsInTotal(c, q)

\* The loop that sends the totals, or an earlier one, was the last to send to fd.
ToldTotal(fd) == dealPc = "done" \/ (dealPc \in {"SCORE", "TOTAL"} /\ Passed(fd))

\* Cards come only to a client at the table, which is told of the totals before the
\* game is over and of nothing after that.
Won(fd) ==
  LET c == client[fd]
      q == down[fd]
  IN  /\ pc[fd] \in Unseated => Undealt(c, q)
      /\ pc[fd] = "done" => Undealt(c, q) \/ (gameOver /\ EndsInTotal(c, q))
      /\ pc[fd] \in Seated /\ ToldTotal(fd) => Served(c, q)
      /\ c.status # "playing" => gameOver \/ pc[fd] = "done"
      /\ c.status = "failure" => Undealt(c, q)
WonInv ==
  /\ DOMAIN totalScores \subseteq Seats
  /\ dealPc \in {"SCORE", "TOTAL"} => DOMAIN totalScores = Seats
  /\ dealPc \in Ended => \A fd \in Fds : pc[fd] # "WRONG"
  /\ \A fd \in DOMAIN client : Won(fd)

\* What a message does to these.
LEMMA MessageServes ==
  ASSUME NEW c, NEW q, IsQueue(q), NEW m
  PROVE  /\ Undealt(c, q) /\ m.kind \in {"BUSY", "SCORE", "TOTAL"} => Undealt(c, Append(q, m))
         /\ IsTotal(m) => EndsInTotal(c, Append(q, m))
<1>1. /\ Len(q) \in Nat /\ DOMAIN q = 1..Len(q) /\ Len(Append(q, m)) = Len(q) + 1
      /\ DOMAIN Append(q, m) = 1..(Len(q) + 1)
      /\ \A i \in 1..Len(q) : Append(q, m)[i] = q[i]
      /\ Append(q, m)[Len(q) + 1] = m
  <2>1. PICK M : q \in Seq(M)
    BY DEF IsQueue
  <2>2. q \in Seq(M \cup {m})
    BY <2>1, SeqMonotonic
  <2>3. Append(q, m) \in Seq(M \cup {m})
    BY <2>2, AppendProperties
  <2>4. QED
    BY <2>2, <2>3, QueueEnds, LenProperties
<1>2. Undealt(c, q) /\ m.kind \in {"BUSY", "SCORE", "TOTAL"} => Undealt(c, Append(q, m))
  BY <1>1 DEF Undealt
<1>3. Append(q, m) # <<>>
  BY <1>1
<1>4. QED
  BY <1>1, <1>2, <1>3 DEF EndsInTotal

\* A client that reads.
LEMMA ReadServes ==
  ASSUME NEW c, IsClient(c), NEW q, IsQueue(q), q # <<>>, NEW s
  PROVE  LET d == Read(c, Head(q), s) IN
         /\ Undealt(c, q) => Undealt(d, Tail(q)) /\ Head(q).kind # "TRICK"
         /\ EndsInTotal(c, q) => EndsInTotal(d, Tail(q))
         /\ EndsInTotal(c, q) /\ Head(q).kind = "TRICK" =>
              \A card \in Card : EndsInTotal(Play(d, card), Tail(q))
<1> DEFINE m == Head(q)
           d == Read(c, m, s)
           r == Tail(q)
<1>1. /\ Len(q) \in Nat /\ Len(q) > 0 /\ m = q[1] /\ Len(r) = Len(q) - 1
      /\ \A i \in 1..(Len(q) - 1) : r[i] = q[i + 1]
      /\ DOMAIN q = 1..Len(q) /\ DOMAIN r = 1..Len(r) /\ (r = <<>> <=> Len(r) = 0)
  <2>1. PICK M : q \in Seq(M)
    BY DEF IsQueue
  <2>2. r \in Seq(M)
    BY <2>1, HeadTailProperties
  <2>3. QED
    BY <2>1, <2>2, QueueEnds, LenProperties, EmptySeq
<1>2. d.lastTotal = IsTotal(m)
  BY QueueMoves, ReadKeeps
<1>3. ASSUME Undealt(c, q) PROVE Undealt(d, r) /\ m.kind # "TRICK"
  <2>1. m.kind \in {"BUSY", "SCORE", "TOTAL"}
    BY <1>1, <1>3 DEF Undealt
  <2>2. d = [c EXCEPT !.lastTotal = IsTotal(m)]
    BY <2>1 DEF Read
  <2>3. d.hand = c.hand /\ d.lastPlayedTrick = c.lastPlayedTrick /\ d.serverTrick = c.serverTrick
    BY <2>2 DEF IsClient
  <2>4. \A i \in DOMAIN r : r[i].kind \in {"BUSY", "SCORE", "TOTAL"}
    BY <1>1, <1>3 DEF Undealt
  <2>5. QED
    BY <1>3, <2>1, <2>3, <2>4 DEF Undealt
<1>4. ASSUME EndsInTotal(c, q) PROVE IF r = <<>> THEN IsTotal(m) ELSE IsTotal(r[Len(r)])
  <2>1. IsTotal(q[Len(q)])
    BY <1>4 DEF EndsInTotal
  <2>2. QED
    BY <1>1, <2>1
<1>5. EndsInTotal(c, q) => EndsInTotal(d, r)
  BY <1>2, <1>4 DEF EndsInTotal
<1>6. ASSUME EndsInTotal(c, q), m.kind = "TRICK", NEW card \in Card
      PROVE  EndsInTotal(Play(d, card), r)
  <2>1. r # <<>> /\ IsTotal(r[Len(r)])
    BY <1>4, <1>6 DEF IsTotal
  <2>2. QED
    BY <2>1 DEF EndsInTotal
<1>7. QED
  BY <1>3, <1>5, <1>6
-----------------------------------------------------------------------------
\* At first nobody is connected.
LEMMA WonInit == SystemInit => WonInv
<1> SUFFICES ASSUME SystemInit PROVE WonInv
  OBVIOUS
<1>1. /\ DOMAIN client = {} /\ DOMAIN totalScores = {} /\ dealPc = "done"
      /\ \A fd \in Fds : pc[fd] = "none"
  BY DEF SystemInit, Init
<1>2. QED
  BY <1>1 DEF WonInv

\* A client whose thread and whose ends are left alone.
LEMMA WonStays ==
  ASSUME NEW fd, Won(fd), pc'[fd] = pc[fd], seat'[fd] = seat[fd], client'[fd] = client[fd],
         down'[fd] = down[fd], gameOver => gameOver',
         UNCHANGED <<dealPc, it>> \/ dealPc' \notin Ended
  PROVE  Won(fd)'
BY DEF Won, ToldTotal, Passed, Ended

\* The main thread sends nothing.
LEMMA WonMainStep == WonInv /\ DealInv /\ MainStep /\ UNCHANGED ends => WonInv'
<1> SUFFICES ASSUME WonInv, DealInv, MainStep, UNCHANGED ends PROVE WonInv'
  OBVIOUS
<1>1. /\ UNCHANGED <<pc, seat, it, totalScores, client, down>>
      /\ gameOver => gameOver'
      /\ UNCHANGED dealPc \/ dealPc' = "ready"
  BY DEF ends, MainStep, NextDeal, JoinDeal, EndGame, StopAccepting, DisconnectAll, JoinClients
<1>2. \A fd \in DOMAIN client' : Won(fd)'
  BY <1>1, WonStays DEF WonInv, Ended
<1>3. QED
  BY <1>1, <1>2 DEF WonInv, Ended

\* A client that connects has read nothing.
LEMMA WonAccepts == InSync /\ WonInv /\ RoomInv' /\ ServerAccepts => WonInv'
<1> SUFFICES ASSUME InSync, WonInv, RoomInv', ServerAccepts PROVE WonInv'
  OBVIOUS
<1>1. /\ UNCHANGED <<seat, it, dealPc, gameOver, totalScores, down>>
      /\ SeatInv /\ ConnInv /\ OwnInv /\ EndsInv /\ AllInStep /\ DOMAIN pc = Fds
  BY QuietParts
  DEF ServerAccepts, Arrives, PollIn, PollHup, Accept, AcceptFails, ends, InSync, SeatInv
<1>2. CASE ~Arrives
  <2>1. UNCHANGED <<pc, client>>
    BY <1>2 DEF ServerAccepts, PollIn, PollHup, AcceptFails, ends
  <2>2. \A fd \in DOMAIN client' : Won(fd)'
    BY <1>1, <2>1, WonStays DEF WonInv
  <2>3. QED
    BY <1>1, <2>1, <2>2 DEF WonInv
<1>3. CASE Arrives
  <2>1. Accept /\ client' = Insert(client, CHOOSE fd \in clients' \ clients : TRUE, NewClient)
    BY <1>3 DEF Arrives
  <2>2. PICK k \in Nat : clients \ {Stdin} = 5..(4 + k)
    BY <1>1 DEF ConnInv
  <2> DEFINE new == 5 + k
  <2>3. Cardinality(5..(4 + k)) = k
    BY <2>2, FS_Interval
  <2>4. /\ clients' = clients \cup {new} /\ pc' = [pc EXCEPT ![new] = "recvIAM"]
        /\ new \notin clients
    <3>1. new \notin 5..(4 + k) /\ new # Stdin
      BY <2>2 DEF Stdin
    <3>2. QED
      BY <2>1, <2>2, <2>3, <3>1 DEF Accept
  <2>5. client' = Insert(client, new, NewClient) /\ new \notin DOMAIN client
    <3>1. clients' \ clients = {new}
      BY <2>4
    <3>2. (CHOOSE fd \in clients' \ clients : TRUE) = new
      BY <3>1
    <3>3. QED
      BY <1>1, <2>1, <2>4, <3>2 DEF EndsInv
  <2>6. /\ DOMAIN client' = DOMAIN client \cup {new} /\ client'[new] = NewClient
        /\ \A fd \in DOMAIN client : client'[fd] = client[fd] /\ pc'[fd] = pc[fd] /\ fd # new
    <3>1. \A fd \in DOMAIN client : fd # new
      BY <2>5
    <3>2. \A fd \in DOMAIN client : pc[fd] # "none"
      BY <1>1 DEF EndsInv
    <3>3. QED
      BY <1>1, <2>4, <2>5, <3>1 DEF Insert
  <2>7. \A fd \in DOMAIN client : Won(fd)'
    BY <1>1, <2>6, WonStays DEF WonInv
  <2>8. ASSUME new \in Fds PROVE Won(new)'
    <3>1. down[new] = <<>>
      BY <1>1, <2>5, <2>8 DEF AllInStep, SyncAt
    <3>2. pc'[new] = "recvIAM"
      BY <1>1, <2>4, <2>8
    <3>3. Undealt(NewClient, <<>>)
      BY DEF Undealt, NewClient
    <3>4. NewClient.status = "playing"
      BY DEF NewClient
    <3>5. QED
      BY <1>1, <2>6, <3>1, <3>2, <3>3, <3>4, PlacesSeated DEF Won
  <2>9. new \in Fds
    BY <2>4 DEF RoomInv, Stdin
  <2>10. \A fd \in Fds : pc'[fd] = "WRONG" => pc[fd] = "WRONG"
    BY <1>1, <2>4
  <2>11. QED
    BY <1>1, <2>6, <2>7, <2>8, <2>9, <2>10 DEF WonInv
<1>4. QED
  BY <1>2, <1>3

\* dealThread tells the clients at the table the totals of all seats, each once and
\* after everything else.
LEMMA WonDeals ==
  ASSUME ServerInv, InSync, Alive, WonInv, ServerDeals, blocks' = 0
  PROVE  WonInv'
<1> DEFINE o == out[DealThread]
<1>1. /\ SeatInv /\ EntryInv /\ LoopInv /\ ConnInv /\ AtPeace /\ Once /\ DealInv /\ EndsInv /\ OutInv
      /\ ~gameOver /\ DealThread \in Senders /\ it \in Int /\ it \in 1..End
      /\ \A fd \in Fds : pc[fd] # "WRONG"
      /\ DealStep
  <2>1. DealStep
    BY DEF ServerDeals, AsksAgain, DealStep
  <2>2. QuietServer /\ OutInv /\ EndsInv /\ it \in 1..End
    BY DEF InSync, QuietServer, BoundType
  <2>3. QED
    BY <2>1, <2>2, QuietParts, DealStepFree DEF LoopInv, Senders
<1>2. /\ UNCHANGED <<pc, seat, gameOver, client, up>> /\ dealPc # "done"
      /\ \A fd \in DOMAIN client : fd \in Fds /\ pc[fd] # "none"
  <2>1. UNCHANGED <<pc, seat, gameOver>> /\ dealPc # "done"
    BY <1>1 DEF DealStep, DealReady, Broadcast, BroadcastFails, Blocks, BeginTurn, AskSent,
                Timeout, Answered, Resume, EndTrick, EndDeal, OutInv, DealInv, Delivers, Breaks
  <2>2. UNCHANGED <<client, up>>
    BY DEF ServerDeals, AsksAgain, Carries, ends
  <2>3. QED
    BY <1>1, <2>1, <2>2 DEF EndsInv, ServerInv, RoomInv
\* The seat of a client at the table is an entry of the loops, in one place.
<1>3. ASSUME NEW fd \in Fds, pc[fd] \in Seated
      PROVE  /\ seat[fd] \in DOMAIN playerFds /\ playerFds[seat[fd]] = fd
             /\ \E j \in DOMAIN KeyOrder : KeyOrder[j] = seat[fd]
             /\ \A j \in DOMAIN KeyOrder : j \in Int /\ j < End
  <2>1. seat[fd] \in DOMAIN playerFds /\ playerFds[seat[fd]] = fd
    BY <1>1, <1>3 DEF SeatInv, SeatExclusive
  <2>2. seat[fd] \in Range(KeyOrder)
    BY <1>1, <2>1, ServerAssumption DEF EntryInv
  <2>3. \A j \in DOMAIN KeyOrder : j \in Int /\ j < End
    BY KeyPlaces, LenProperties DEF End
  <2>4. QED
    BY <2>1, <2>2, <2>3 DEF Range
\* A loop goes on over it only when it has sent to it.
<1>4. ASSUME NEW fd \in Fds, pc[fd] \in Seated, NEW i \in Int, it' = Following(i), Passed(fd)'
      PROVE  \E j \in DOMAIN KeyOrder : KeyOrder[j] = seat[fd] /\ j <= i
  <2>1. PICK j \in DOMAIN KeyOrder : j < it' /\ KeyOrder[j] = seat[fd]
    BY <1>2, <1>4 DEF Passed
  <2>2. j \in Int /\ KeyOrder[j] \in DOMAIN playerFds
    BY <1>3, <1>4, <2>1
  <2>3. ~(j > i)
    BY <1>4, <2>1, <2>2, FollowingLeast
  <2>4. QED
    BY <1>4, <2>1, <2>2, <2>3
\* The client a loop sends to.
<1>5. ASSUME Broadcast
      PROVE  /\ o # Nothing /\ o.to \in Fds /\ pc[o.to] \in Seated /\ o.kind = dealPc
             /\ o.to \notin closed \cup disconnected
             /\ it \in DOMAIN KeyOrder /\ it # End
             /\ seat[o.to] = KeyOrder[it] /\ playerFds[KeyOrder[it]] = o.to
  <2>1. /\ o # Nothing /\ o.to \notin disconnected /\ dealPc \in {"DEAL", "TAKEN", "SCORE", "TOTAL"}
    BY <1>5 DEF Broadcast, Delivers
  <2>2. o.to \in Fds /\ pc[o.to] \in Seated /\ o.kind = dealPc /\ it # End
    BY <1>1, <2>1 DEF Alive, AtTable, OutInv
  <2>3. it \in DOMAIN KeyOrder
    BY <1>1, <2>2, ServerAssumption DEF End
  <2>4. KeyOrder[it] \in DOMAIN playerFds /\ playerFds[KeyOrder[it]] = o.to
    BY <1>1, <2>1, <2>2 DEF LoopInv, IteratorValid
  <2>5. seat[o.to] = KeyOrder[it]
    BY <2>2, <2>4 DEF ServerInv, OwnInv
  <2>6. QED
    BY <1>1, <2>1, <2>2, <2>3, <2>4, <2>5 DEF AtPeace
\* Nothing comes to the other clients, which have been told when the loop is over.
<1>6. ASSUME NEW fd \in DOMAIN client, down'[fd] = down[fd], ~(Broadcast /\ fd = o.to)
      PROVE  Won(fd)'
  <2>1. fd \in Fds /\ Won(fd)
    BY <1>2 DEF WonInv
  <2>2. ASSUME pc[fd] \in Seated, ToldTotal(fd)' PROVE ToldTotal(fd)
    <3>1. CASE EndDeal
      <4>1. dealPc = "SCORE" /\ it = End
        BY <3>1 DEF EndDeal
      <4>2. Passed(fd)
        BY <1>3, <2>1, <2>2, <4>1 DEF Passed
      <4>3. QED
        BY <4>1, <4>2 DEF ToldTotal
    <3>2. CASE EndTrick
      <4>1. dealPc' = "turn" \/ it' = Following(0)
        BY <3>2 DEF EndTrick, SendTo
      <4>2. it' = Following(0) /\ Passed(fd)'
        BY <2>2, <3>2, <4>1 DEF ToldTotal, EndTrick, SendTo
      <4>3. PICK j \in DOMAIN KeyOrder : j <= 0
        BY <1>4, <2>1, <2>2, <4>2
      <4>4. QED
        BY <4>3, KeyPlaces, LenProperties
    <3>3. CASE Broadcast /\ dealPc = "SCORE"
      <4>1. dealPc' = "TOTAL" /\ it' = it
        BY <3>3 DEF Broadcast, SendTo
      <4>2. QED
        BY <1>2, <2>2, <3>3, <4>1 DEF ToldTotal, Passed
    <3>4. CASE Broadcast /\ dealPc = "TOTAL"
      <4>1. dealPc' = "SCORE" /\ it' = Following(it)
        BY <3>4 DEF Broadcast, SendTo
      <4>2. PICK j \in DOMAIN KeyOrder : KeyOrder[j] = seat[fd] /\ j <= it
        BY <1>1, <1>4, <2>1, <2>2, <4>1 DEF ToldTotal
      <4>3. j # it
        BY <1>3, <1>5, <1>6, <2>1, <2>2, <3>4, <4>2
      <4>4. QED
        BY <1>1, <1>3, <2>1, <2>2, <3>4, <4>2, <4>3 DEF ToldTotal, Passed
    <3>5. CASE ~EndDeal /\ ~EndTrick /\ ~(Broadcast /\ dealPc \in {"SCORE", "TOTAL"})
      <4>1. UNCHANGED <<dealPc, it>> \/ dealPc' \notin Ended
        BY <1>1, <3>5
        DEF DealStep, DealReady, Broadcast, BroadcastFails, Blocks, BeginTurn, AskSent, Timeout,
            Answered, TurnOver, Resume, SendTo, Ask, Ended
      <4>2. QED
        BY <1>2, <2>2, <4>1 DEF ToldTotal, Passed, Ended
    <3>6. QED
      BY <3>1, <3>2, <3>3, <3>4, <3>5
  <2>3. QED
    BY <1>2, <1>6, <2>1, <2>2 DEF Won
\* The one it comes to is at the table, and has the totals last.
<1>7. ASSUME NEW fd \in DOMAIN client, o # Nothing, fd = o.to, Carries(DealThread) PROVE Won(fd)'
  <2>1. fd \in Fds /\ Won(fd) /\ pc[fd] \in Seated
    BY <1>2, <1>7 DEF WonInv, Alive, AtTable
  <2>2. client[fd].status = "playing"
    BY <1>1, <2>1, PlacesSeated DEF Won
  <2>3. ASSUME ToldTotal(fd)' PROVE EndsInTotal(client[fd], down'[fd])
    <3>1. Broadcast /\ dealPc \in {"SCORE", "TOTAL"}
      <4>1. \/ Broadcast \/ AskSent \/ BroadcastFails
        <5>1. o.kind = dealPc /\ dealPc \in {"DEAL", "TRICK", "TAKEN", "SCORE", "TOTAL"}
              /\ (dealPc # "TRICK" => it # End)
          BY <1>1, <1>7 DEF OutInv
        <5>2. QED
          BY <5>1 DEF ServerDeals, DealReady, BeginTurn, Answered, Resume, EndTrick, EndDeal,
                      AsksAgain, Timeout
      <4>2. ~BroadcastFails
        <5>1. pc[fd] # "done" /\ fd # Stdin
          BY <2>1, PlacesSeated, Descriptors
        <5>2. fd \notin closed \cup disconnected
          BY <1>1, <2>1, <5>1 DEF AtPeace
        <5>3. QED
          BY <1>7, <5>1, <5>2 DEF BroadcastFails, Breaks
      <4>3. ~AskSent
        BY <2>3 DEF AskSent, TurnOver, SendTo, ToldTotal
      <4>4. Broadcast
        BY <4>1, <4>2, <4>3
      <4>5. dealPc \notin {"DEAL", "TAKEN"}
        BY <2>3, <4>4 DEF Broadcast, SendTo, ToldTotal
      <4>6. QED
        BY <4>4, <4>5 DEF Broadcast
    <3>2. dealPc = "TOTAL"
      <4>1. SUFFICES ASSUME dealPc = "SCORE" PROVE FALSE
        BY <3>1
      <4>2. dealPc' = "TOTAL" /\ it' = it
        BY <3>1, <4>1 DEF Broadcast, SendTo
      <4>3. PICK j \in DOMAIN KeyOrder : j < it /\ KeyOrder[j] = seat[fd]
        BY <1>2, <2>3, <4>2 DEF ToldTotal, Passed
      <4>4. j = it
        BY <1>5, <1>7, <3>1, <4>3, KeyOnce
      <4>5. QED
        BY <1>1, <4>3, <4>4
    <3>3. IsTotal(Content(o))
      <4>1. o.kind = "TOTAL" /\ DOMAIN totalScores = Seats
        BY <1>5, <3>1, <3>2 DEF WonInv
      <4>2. Content(o).kind = "TOTAL" /\ Content(o).seats = Seats
        BY <4>1 DEF Content, Blank
      <4>3. Cardinality(Seats) = Len(PlayerOrder)
        BY SeatsCounted DEF Players
      <4>4. QED
        BY <4>2, <4>3 DEF IsTotal, Parses
    <3>4. down'[fd] = Append(down[fd], Content(o))
      BY <1>1, <1>5, <1>7, <2>1, <3>1, Carried
    <3>5. IsQueue(down[fd])
      BY <1>1, <2>1 DEF EndsInv
    <3>6. QED
      BY <3>3, <3>4, <3>5, MessageServes
  <2>4. pc'[fd] \notin Unseated /\ pc'[fd] # "done" /\ client'[fd] = client[fd]
    BY <1>2, <2>1, PlacesSeated DEF Unseated
  <2>5. QED
    BY <2>2, <2>3, <2>4 DEF Won, Served
<1>8. \A fd \in DOMAIN client' : Won(fd)'
  <2> SUFFICES ASSUME NEW fd \in DOMAIN client PROVE Won(fd)'
    BY <1>2
  <2>1. fd \in Fds
    BY <1>2
  <2>2. CASE AsksAgain
    <3>1. down' = down /\ ~Broadcast
      BY <2>2 DEF AsksAgain, Timeout, Broadcast, ends
    <3>2. QED
      BY <1>6, <3>1
  <2>3. CASE ~AsksAgain
    <3>1. Carries(DealThread)
      BY <2>3 DEF ServerDeals
    <3>2. CASE o # Nothing /\ fd = o.to
      BY <1>7, <3>1, <3>2
    <3>3. CASE fd # o.to
      BY <1>1, <1>6, <2>1, <3>1, <3>3, Carried
    <3>4. CASE o = Nothing
      <4>1. fd # o.to
        BY <2>1, <3>4, NothingNowhere
      <4>2. QED
        BY <3>3, <4>1
    <3>5. QED
      BY <3>2, <3>3, <3>4
  <2>4. QED
    BY <2>2, <2>3
<1>9. /\ DOMAIN totalScores' \subseteq Seats
      /\ dealPc' \in {"SCORE", "TOTAL"} => DOMAIN totalScores' = Seats
  <2>1. CASE EndTrick /\ dealPc' = "SCORE"
    <3>1. DOMAIN playerFds = Seats
      BY <1>1, <2>1 DEF EndTrick, DealInv, Once, AllSeated, AtPeace, EntryInv
    <3>2. totalScores' = CreditSeats(totalScores, NextTrick(deal).scores)
      BY <2>1 DEF EndTrick
    <3>3. DOMAIN totalScores' = DOMAIN totalScores \cup DOMAIN playerFds
      BY <3>2 DEF CreditSeats
    <3>4. QED
      BY <3>1, <3>3 DEF WonInv
  <2>2. CASE ~(EndTrick /\ dealPc' = "SCORE")
    <3>1. totalScores' = totalScores /\ (dealPc' \in {"SCORE", "TOTAL"} => dealPc \in {"SCORE", "TOTAL"})
      BY <1>1, <2>2
      DEF DealStep, DealReady, Broadcast, BroadcastFails, Blocks, BeginTurn, AskSent, Timeout,
          Answered, TurnOver, Resume, SendTo, Ask, EndTrick, EndDeal
    <3>2. QED
      BY <3>1 DEF WonInv
  <2>3. QED
    BY <2>1, <2>2
<1>10. QED
  BY <1>1, <1>2, <1>8, <1>9 DEF WonInv

\* A player thread that goes on, sends nothing to its client and leaves the table
\* only when the game is over.
LEMMA WonGoes ==
  ASSUME SeatInv, DealInv, NEW fd \in Fds, Won(fd), UNCHANGED <<client, down, dealPc, it, gameOver>>,
         \/ pc[fd] \in Unseated
         \/ pc[fd] \in Seated /\ pc'[fd] \in Seated /\ seat'[fd] = seat[fd]
         \/ pc[fd] \in Seated /\ pc'[fd] = "done" /\ gameOver
  PROVE  Won(fd)'
<1>1. gameOver => ToldTotal(fd)
  BY DEF DealInv, ToldTotal
<1>2. \A p \in Seated : p \notin Unseated /\ p # "done"
  BY PlacesSeated DEF Unseated
<1>3. "done" \notin Unseated
  BY DEF Unseated
<1>4. CASE pc[fd] \in Unseated
  BY <1>3, <1>4 DEF Won, Served
<1>5. CASE pc[fd] \in Seated /\ pc'[fd] \in Seated /\ seat'[fd] = seat[fd]
  BY <1>2, <1>5 DEF Won, Served, ToldTotal, Passed
<1>6. CASE pc[fd] \in Seated /\ pc'[fd] = "done" /\ gameOver
  <2>1. Served(client[fd], down[fd])
    BY <1>1, <1>6 DEF Won
  <2>2. pc'[fd] \notin Unseated /\ pc'[fd] \notin Seated
    BY <1>2, <1>3, <1>6
  <2>3. QED
    BY <1>6, <2>1, <2>2 DEF Won, Served
<1>7. QED
  BY <1>4, <1>5, <1>6

\* A player thread sends a client that gets no seat the list of the seats, and a
\* client at the table nothing but refusals.
LEMMA WonPlays ==
  ASSUME InSync, Alive, WonInv, RoomInv, NEW fd \in Fds, ServerPlays(fd), drops' = 0
  PROVE  WonInv'
<1>1. /\ QuietServer /\ CalmInv /\ OutInv /\ EndsInv /\ SyncAt(fd)
      /\ SeatInv /\ LoopInv /\ ConnInv /\ DealInv /\ AtPeace /\ PlayerStep(fd)
      /\ DOMAIN pc = Fds
  BY QuietParts, ServerPlayerStep DEF InSync, AllInStep, SeatInv
<1>2. /\ UNCHANGED <<dealPc, it, gameOver, totalScores, client>>
      /\ \A f \in Fds \ {fd} : pc'[f] = pc[f] /\ seat'[f] = seat[f]
      /\ DOMAIN client \subseteq clients \ {Stdin}
  <2>1. UNCHANGED <<totalScores, client>>
    BY DEF ServerPlays, RecvIAM, RecvIAMFails, HandleIAM, CatchUp, CaughtUp, LeaveIAM, RecvTRICK,
           RecvTRICKFails, HandleTRICK, RefuseTRICK, WrongSent, Fail, Carries, ends
  <2>2. QED
    BY <1>1, <2>1, QuietPlays DEF EndsInv
<1>3. \A f \in Fds \ {fd} : down'[f] = down[f]
  <2>1. CASE UNCHANGED down
    BY <2>1
  <2>2. CASE ~UNCHANGED down
    <3>1. Carries(fd) /\ out[fd] # Nothing
      BY <2>2 DEF ServerPlays, ends, CatchUp, CaughtUp, LeaveIAM, WrongSent, Delivers, Breaks
    <3>2. out[fd].to = fd
      BY <1>1, <3>1 DEF ConnInv
    <3>3. QED
      BY <1>1, <3>1, <3>2, Carried
  <2>3. QED
    BY <2>1, <2>2
<1>4. ASSUME pc'[fd] = "WRONG" PROVE dealPc \notin Ended
  <2>1. CASE pc[fd] = "WRONG"
    BY <2>1 DEF WonInv
  <2>2. CASE pc[fd] # "WRONG"
    <3>1. up[fd] # <<>>
      BY <1>1, <1>4, <2>2
      DEF ServerPlays, RecvIAM, RecvIAMFails, HandleIAM, CatchUp, CaughtUp, LeaveIAM, RecvTRICK,
          RecvTRICKFails, WrongSent, Fail, Returns, GoesTo, Sends
    <3>2. View(fd).turn
      BY <1>1, <3>1 DEF SyncAt, InStep, Pending
    <3>3. QED
      BY <1>1, <3>2, ViewFacts DEF Ended
  <2>3. QED
    BY <2>1, <2>2
<1>5. ASSUME fd \in DOMAIN client PROVE Won(fd)'
  <2>1. Won(fd)
    BY <1>5 DEF WonInv
  <2>2. CASE UNCHANGED down
    <3>1. \/ pc[fd] \in Unseated
          \/ pc[fd] \in Seated /\ pc'[fd] \in Seated /\ seat'[fd] = seat[fd]
          \/ pc[fd] \in Seated /\ pc'[fd] = "done" /\ gameOver
      <4>1. CASE RecvIAM(fd, SeatOf[fd]) \/ RecvIAMFails(fd) \/ HandleIAM(fd)
        BY <4>1 DEF RecvIAM, RecvIAMFails, HandleIAM, Unseated
      <4>2. CASE \/ RecvTRICK(fd) \/ RecvTRICKFails(fd) \/ WrongSent(fd)
                 \/ \E trick, card : HandleTRICK(fd, trick, card) \/ RefuseTRICK(fd, trick, card)
        <5>1. pc[fd] \in {"recvTRICK", "handleTRICK", "WRONG"} /\ UNCHANGED seat
          BY <4>2 DEF RecvTRICK, RecvTRICKFails, WrongSent, HandleTRICK, RefuseTRICK, MayHandle
        <5>2. pc'[fd] \in {"recvTRICK", "handleTRICK", "WRONG", "failed"}
          BY <1>1, <4>2
          DEF RecvTRICK, RecvTRICKFails, WrongSent, HandleTRICK, RefuseTRICK, MayHandle, GoesTo, Sends
        <5>3. QED
          BY <5>1, <5>2, PlacesSeated
      <4>3. CASE CatchUp(fd) \/ CaughtUp(fd)
        BY <1>1, <4>3, PlacesSeated DEF CatchUp, CaughtUp, AtPeace
      <4>4. CASE LeaveIAM(fd)
        BY <1>1, <4>4, PlacesSeated DEF LeaveIAM, AtPeace, Unseated
      <4>5. CASE Fail(fd)
        BY <1>1, <4>5, PlacesSeated DEF Fail, Returns, AtPeace
      <4>6. QED
        BY <4>1, <4>2, <4>3, <4>4, <4>5 DEF ServerPlays
    <3>2. QED
      BY <1>1, <1>2, <2>1, <2>2, <3>1, WonGoes
  <2>3. CASE ~UNCHANGED down
    <3>1. Carries(fd) /\ out[fd] # Nothing /\ (CatchUp(fd) \/ CaughtUp(fd) \/ LeaveIAM(fd) \/ WrongSent(fd))
      BY <2>3 DEF ServerPlays, ends, CatchUp, CaughtUp, LeaveIAM, WrongSent, Delivers, Breaks
    <3>2. out[fd].to = fd /\ IsQueue(down[fd])
      BY <1>1, <3>1 DEF ConnInv, EndsInv
    <3>3. down'[fd] \in {down[fd], Append(down[fd], Content(out[fd]))}
      BY <1>1, <3>1, <3>2, Carried
    <3>4. CASE LeaveIAM(fd)
      <4>1. pc[fd] = "BUSY" /\ pc'[fd] = "done"
        BY <1>1, <3>4, PlacesSeated DEF LeaveIAM, AtPeace, Returns
      <4>2. Content(out[fd]).kind = "BUSY"
        BY <1>1, <3>1, <4>1, PlacesSeated DEF OutInv, Content, Blank
      <4>3. Undealt(client[fd], down[fd]) /\ Undealt(client[fd], Append(down[fd], Content(out[fd])))
        BY <2>1, <3>2, <4>1, <4>2, MessageServes DEF Won, Unseated
      <4>4. Undealt(client[fd], down'[fd])
        BY <3>3, <4>3
      <4>5. QED
        BY <1>2, <4>1, <4>4, PlacesSeated DEF Won, Unseated
    <3>5. CASE WrongSent(fd)
      <4>1. pc[fd] = "WRONG" /\ pc'[fd] \in {"recvTRICK", "failed"}
        BY <1>1, <3>5 DEF WrongSent, GoesTo
      <4>2. dealPc \notin Ended
        BY <4>1 DEF WonInv
      <4>3. ~gameOver
        BY <1>1, <4>2 DEF DealInv, Ended
      <4>4. client[fd].status = "playing"
        BY <2>1, <4>1, <4>3 DEF Won
      <4>5. QED
        BY <1>2, <4>1, <4>2, <4>4 DEF Won, Unseated, ToldTotal, Ended
    <3>6. QED
      BY <1>1, <3>1, <3>4, <3>5, PlacesSeated DEF CatchUp, CaughtUp, AtPeace
  <2>4. QED
    BY <2>2, <2>3
<1>6. \A f \in DOMAIN client' : Won(f)'
  <2> SUFFICES ASSUME NEW f \in DOMAIN client, f # fd PROVE Won(f)'
    BY <1>2, <1>5
  <2>1. f \in Fds
    BY <1>1 DEF EndsInv, RoomInv
  <2>2. QED
    BY <1>2, <1>3, <2>1, WonStays DEF WonInv
<1>7. \A f \in Fds : pc'[f] = "WRONG" => dealPc \notin Ended
  BY <1>2, <1>4 DEF WonInv
<1>8. QED
  BY <1>2, <1>6, <1>7 DEF WonInv

\* A client reads its totals at last, and its connection ends only then or before it
\* has been dealt a card.
LEMMA WonClients ==
  ASSUME InSync, AliveInv, drops = 0, WonInv, RoomInv, NEW fd \in Fds,
         Reads(fd) \/ Answers(fd) \/ ConnectionEnds(fd) \/ \E card \in Card : Types(fd, card)
  PROVE  WonInv'
<1> DEFINE c == client[fd]
           q == down[fd]
           d == client'[fd]
           r == down'[fd]
<1>1. /\ QuietServer /\ CalmInv /\ OutInv /\ EndsInv /\ SyncAt(fd)
      /\ SeatInv /\ DealInv /\ AtPeace /\ Alive
  BY QuietParts DEF InSync, AllInStep, AliveInv
<1>2. UNCHANGED vars
  BY DEF Reads, Answers, ConnectionEnds, Types
<1>3. /\ fd \in DOMAIN client /\ IsClient(c) /\ c.status = "playing" /\ IsQueue(q) /\ Won(fd)
      /\ DOMAIN client' = DOMAIN client /\ pc[fd] \in Unseated \cup Seated \cup {"done"}
  BY <1>1 DEF Reads, Answers, ConnectionEnds, Types, Playing, EndsInv, WonInv, SendsCard, Ends,
              SeatInv, Places, Seated, CatchingUp, Unseated
<1>4. ASSUME d.status = "playing", Undealt(c, q) => Undealt(d, r),
             EndsInTotal(c, q) => EndsInTotal(d, r)
      PROVE  Won(fd)'
  BY <1>2, <1>3, <1>4 DEF vars, Won, Served, ToldTotal, Passed
<1>5. ASSUME Reads(fd) PROVE Won(fd)'
  <2>1. q # <<>> /\ d = Read(c, Head(q), SeatOf[fd]) /\ r = Tail(q)
    BY <1>1, <1>3, <1>5 DEF Reads, EndsInv
  <2>2. QED
    BY <1>1, <1>3, <1>4, <1>5, <2>1, ReadServes, PlayingOn
<1>6. ASSUME Answers(fd) PROVE Won(fd)'
  <2>1. PICK card : /\ q # <<>> /\ Head(q).kind = "TRICK"
                    /\ card \in AutoCards(Read(c, Head(q), SeatOf[fd]))
                    /\ d = Play(Read(c, Head(q), SeatOf[fd]), card) /\ r = Tail(q)
    BY <1>1, <1>3, <1>6 DEF Answers, EndsInv, SendsCard, Asks
  <2>2. card \in Card
    <3>1. IsClient(Read(c, Head(q), SeatOf[fd]))
      BY <1>3, <2>1, QueueMoves, ReadKeeps
    <3>2. QED
      BY <2>1, <3>1 DEF AutoCards, IsClient
  <2>3. ~Undealt(c, q) /\ (EndsInTotal(c, q) => EndsInTotal(d, r))
    BY <1>3, <2>1, <2>2, ReadServes
  <2>4. QED
    BY <1>1, <1>3, <1>4, <1>6, <2>3, PlayingOn
<1>7. ASSUME \E card \in Card : Types(fd, card) PROVE Won(fd)'
  <2>1. PICK card \in Card : MayPlay(c) /\ d = Play(c, card) /\ r = q
    BY <1>1, <1>3, <1>7 DEF Types, SendsCard
  <2>2. ~Undealt(c, q)
    BY <2>1 DEF MayPlay, Undealt
  <2>3. d.lastTotal = c.lastTotal
    BY <1>3, <2>1 DEF Play, IsClient
  <2>4. EndsInTotal(c, q) => EndsInTotal(d, r)
    BY <2>1, <2>3 DEF EndsInTotal
  <2>5. QED
    BY <1>1, <1>3, <1>4, <1>7, <2>2, <2>4, PlayingOn
<1>8. ASSUME ConnectionEnds(fd) PROVE Won(fd)'
  <2>1. PICK status : /\ d = [c EXCEPT !.status = status] /\ r = q /\ q = <<>>
                      /\ status = Verdict(c) \/ up[fd] # <<>>
    BY <1>3, <1>8 DEF ConnectionEnds, Ends
  <2>2. gameOver \/ pc[fd] = "done"
    BY <1>1, <1>8 DEF ConnectionEnds, AtPeace, AliveInv, Alive, Running
  <2>3. up[fd] = <<>>
    <3>1. SUFFICES ASSUME up[fd] # <<>> PROVE FALSE
      OBVIOUS
    <3>2. View(fd).turn
      BY <1>1, <3>1 DEF SyncAt, InStep, Pending
    <3>3. QED
      BY <1>1, <2>2, <3>2, ViewFacts, PlacesSeated
  <2>4. /\ d.status = Verdict(c) /\ d.lastTotal = c.lastTotal /\ d.hand = c.hand
        /\ d.lastPlayedTrick = c.lastPlayedTrick /\ d.serverTrick = c.serverTrick
    BY <1>3, <2>1, <2>3 DEF IsClient
  <2>5. (Undealt(d, r) <=> Undealt(c, q)) /\ (EndsInTotal(d, r) <=> EndsInTotal(c, q))
    BY <2>1, <2>4 DEF Undealt, EndsInTotal
  <2>6. ASSUME Verdict(c) = "failure" PROVE Undealt(c, q)
    <3>1. ~EndsInTotal(c, q)
      BY <2>1, <2>6 DEF Verdict, EndsInTotal
    <3>2. gameOver => ToldTotal(fd)
      BY <1>1 DEF DealInv, ToldTotal
    <3>3. QED
      BY <1>3, <2>2, <3>1, <3>2 DEF Won, Served
  <2>7. QED
    BY <1>2, <1>3, <2>2, <2>4, <2>5, <2>6 DEF vars, Won, Served, ToldTotal, Passed
<1>9. Won(fd)'
  BY <1>5, <1>6, <1>7, <1>8
<1>10. \A f \in DOMAIN client' : Won(f)'
  <2> SUFFICES ASSUME NEW f \in DOMAIN client, f # fd PROVE Won(f)'
    BY <1>3, <1>9
  <2>1. f \in Fds
    BY <1>1 DEF EndsInv, RoomInv
  <2>2. client'[f] = client[f] /\ down'[f] = down[f]
    BY <1>1, <2>1, ClientElsewhere DEF ClientStep
  <2>3. QED
    BY <1>2, <2>2, WonStays DEF vars, WonInv
<1>11. QED
  BY <1>2, <1>10 DEF vars, WonInv

\* Every step of the system.
LEMMA WonStep ==
  SyncInv /\ SyncInv' /\ AliveInv /\ (drops = 0 => WonInv) /\ [SystemNext]_allVars
  => (drops = 0 => WonInv)'
<1> SUFFICES ASSUME SyncInv, SyncInv', AliveInv, drops = 0 => WonInv, [SystemNext]_allVars,
                    drops' = 0
             PROVE  WonInv'
  OBVIOUS
<1>1. SystemInv /\ EndsInv /\ drops \in Nat
  BY DEF SyncInv, SystemInv
<1>2. [Next]_vars \/ Crash
  BY <1>1, SystemStep DEF SystemInv
<1>3. drops = 0 /\ InSync /\ InSync' /\ Alive /\ WonInv
  <2>1. CASE [Next]_vars
    BY <1>1, <2>1, DropsGrow DEF SyncInv, AliveInv
  <2>2. CASE Crash
    BY <2>2 DEF Crash, DrawsFromNothing, SyncInv, AliveInv
  <2>3. QED
    BY <1>2, <2>1, <2>2
<1>4. /\ ~Crash /\ ServerInv /\ ServerInv' /\ RoomInv /\ RoomInv' /\ DealInv
  <2>1. ServerInv /\ ServerInv'
    BY DEF SyncInv, SystemInv
  <2>2. QED
    BY <1>3, <2>1, NeverCrashes DEF ServerInv
<1>5. blocks' = 0
  BY <1>3, SystemAssumption DEF InSync, QuietServer, BoundType
<1>6. CASE MainStep /\ UNCHANGED ends
  BY <1>3, <1>4, <1>6, WonMainStep
<1>7. CASE ServerAccepts
  BY <1>3, <1>4, <1>7, WonAccepts
<1>8. CASE ServerDeals
  BY <1>3, <1>4, <1>5, <1>8, WonDeals
<1>9. ASSUME NEW fd \in Fds, ServerPlays(fd) PROVE WonInv'
  BY <1>3, <1>4, <1>9, WonPlays
<1>10. ASSUME NEW fd \in Fds, ClientStep(fd) \/ \E card \in Card : Types(fd, card) PROVE WonInv'
  <2>1. ~DrawsFromNothing(fd)
    BY <1>4 DEF Crash
  <2>2. QED
    BY <1>3, <1>4, <1>10, <2>1, WonClients DEF ClientStep
<1>11. ASSUME NEW fd \in Fds, Leaves(fd) PROVE FALSE
  BY <1>3, <1>11 DEF Leaves, ClientCloses
<1>12. CASE UNCHANGED allVars
  <2>1. UNCHANGED <<pc, seat, client, down, gameOver, dealPc, it, totalScores>>
    BY <1>12 DEF allVars, vars, ends
  <2>2. QED
    BY <1>3, <2>1, WonStays DEF WonInv
<1>13. QED
  BY <1>6, <1>7, <1>8, <1>9, <1>10, <1>11, <1>12 DEF SystemNext

\* While no client leaves, a client that was dealt a card and whose connection comes
\* to its end reports success: the last message to every seat is the TOTAL of the
\* last deal, it names all seats, and it is read before the end of the connection.
THEOREM PlayersAlwaysSucceed == SystemSpec => [](drops = 0 => PlayersSucceed)
<1>1. SystemInit => AliveInv /\ WonInv
  BY AliveInit, WonInit DEF SystemInit
<1>2. SyncInv /\ SyncInv' /\ AliveInv /\ [SystemNext]_allVars => AliveInv'
  BY AliveStep
<1>3. SyncInv /\ SyncInv' /\ AliveInv /\ (drops = 0 => WonInv) /\ [SystemNext]_allVars
      => (drops = 0 => WonInv)'
  BY WonStep
<1>4. (drops = 0 => WonInv) => (drops = 0 => PlayersSucceed)
  BY DEF WonInv, Won, Undealt, PlayersSucceed
<1>5. QED
  BY SyncStart, SyncStep, <1>1, <1>2, <1>3, <1>4, PTL DEF SystemSpec
=============================================================================
