# A verification project for the Hearts server and client

The repository holds a server that conducts the card game Hearts (*kierki*) for
four clients over TCP, and a client that plays automatically or relays a user.
The server is a multi-threaded C++ program: the game is a short algorithm, and
the difficulty is that it has to go on while clients arrive, leave, return,
stay silent, send nonsense or stop reading. This project models the game, the
whole server, the client, the two together and the transport under them in
TLA+, checks them with TLC and proves what matters most with TLAPS. File names
such as `server.cpp:123` are those of `src/src/`.

## 1. The system

| Component | Source | State | Operations |
|---|---|---|---|
| Deal | `game.cpp`, `game.hpp` | hands, table, turn, trick number, highest card, scores, tricks taken | `nextPlayer`, `isLegal`, `playCard`, `getScore`, `isOver`, `nextTrick` |
| Server, main thread | `server.cpp` `start` | `deals`, `currentDeal`, `gameOver` | one deal after another, then shutdown |
| Server, deal thread | `server.cpp` `dealThread` | `dealStarted`, `trickDone`, `fdExpectedTrick`, `totalScores` | waits for four players, sends DEAL, asks for every card, ends tricks, sends SCORE and TOTAL |
| Server, player threads | `server.cpp` `playerThread`, `handleIAM`, `handleTRICK` | `player_fds`, `dealSuspended`, the thread's seat | one thread per connection: takes a seat, catches up after a suspension, handles cards, gives the seat back |
| ServerNetworker | `network_server.cpp` | listening sockets, `clients`, `disconnected`, `threads` | `startAccepting` (the accept thread), `stopAccepting`, `disconnectOne`, `disconnectAll`, `joinClients`, `getClientInfo` |
| ServerProtocol | `protocol_server.cpp` | none | builds, sends, logs and parses messages |
| Message transport | `network_common.cpp` | the bytes left of a message, the time left for one | `writen` (partial writes, gives the lock away while the send buffer is full), `recvMessage` (framing, limit, timeout) |
| Game file | `server.cpp` `parseFile` | none | reads the deals; its content is assumed to be correct |
| Card strings | `common.cpp` | none | ranks, suits, search and deletion in strings of cards, the automatic choice |
| Client | `client.cpp` | hand, last card and trick played, last trick asked, tricks taken, last message was TOTAL | `handleServer`, `handleInput`, `connectToGame`, `getAutoCard` |
| ClientProtocol, ClientNetworker | `protocol_client.cpp`, `network_client.cpp` | socket | parses and displays, connects |
| Argument parsers, programs, errors | `arg_parser.cpp`, `kierki-*.cpp`, `error.cpp` | configuration | command line, exit codes |

How they interact. The main thread starts the accept thread and then one deal
thread per deal, and waits for it. The accept thread starts a player thread per
connection. Deal thread and player threads share the members of `Server` under
`Server::mtx` and wait for each other on three condition variables: `cvReady`
(four seats taken), `cvTrick` (the awaited card, with a timeout), `cvSuspended`
(a suspension is over). Sends happen with the lock held; a send that would
block releases it for a second. When a client is lost during a deal its thread
sets `dealSuspended`; the next client to take a free seat is told the deal and
the tricks so far, is asked for a card if it is its turn, and ends the
suspension. A client keeps its own copy of the game, made of the messages it
reads. At the end the main thread shuts the listening sockets down, joins the
accept thread, shuts all connections down and joins the player threads; a
client that finds its connection at its end after a TOTAL reports success.

What is hard, and what makes each component correct:

- *Deal*: nobody loses or doubles a card, revokes, or takes a trick that is not
  theirs; a deal stops exactly when no points are left. State is kept
  incrementally (`highestCard`, `trickSuit`), so a forgotten reset shows only
  some tricks later.
- *Deal thread against player threads*: repeated asks and late answers, a lock
  that is released in the middle of a critical section, seats that change hands
  in mid-trick, messages sent to clients that are gone, flags that survive the
  deal they belong to.
- *Accepting and shutting down*: a connection that arrives while the server
  stops, threads that wait while the main thread joins them.
- *Client against server*: asks, answers, refusals and TAKEN cross on the way;
  the client's hand and tricks must stay those of the server, a WRONG must give
  the refused card back once, and the end of the connection must not be taken
  for the end of the game.
- *Transport*: messages cut anywhere by partial writes, the limit on their
  length, the time that is left after each piece.

Every such hazard is listed with its line in `PROJECT.json`, with the properties
whose runs reach it, or with the reason why none does.

## 2. The modules

| Module | Models |
|---|---|
| `Cards` | seats, cards, `LastTrick` (13 in the code), `SeventhTrick` (7), the clockwise successor |
| `Deal` | class `Deal` as a record, one operator per method |
| `DealProperties` | what must hold of that record at every moment |
| `HeartsRules` | the abstract specification: the deals of the game without the bookkeeping of the code |
| `DealPlay` | one deal played as `dealThread` and `handleTRICK` drive it, by players who always answer |
| `HeartsServer` | the server: all threads, the lock, the connections, arbitrary clients |
| `ServerProperties` | the promises of the server |
| `HeartsClient` | class `Client` as a record, one operator per message and for the automatic choice |
| `HeartsSystem` | the server of `HeartsServer` and its clients, joined by queues of messages |
| `SystemProperties` | what server and clients keep together |
| `Framing` | one direction of a connection, byte by byte: `writen` and `recvMessage` |
| `FramingProperties` | what a connection promises |
| `MCDealPlay`, `MCHeartsServer`, `MCHeartsSystem`, `MCFraming` | the instances TLC checks |
| `DealLemmas` | lemmas about the operators of `Deal` and of `HeartsRules`, for every machine that uses them |
| `DealPlayProofs`, `HeartsServerProofs`, `ServerSeatsProofs`, `ServerRulesProofs`, `FramingProofs`, `SystemProofs`, `SyncProofs` | the theorems |

```
Cards <- Deal <- DealProperties <- DealPlay
                      ^                 HeartsRules (INSTANCE in DealPlay, ServerProperties)
                      +-- HeartsServer <- ServerProperties <-+
         Deal <- HeartsClient <------------------------------+- HeartsSystem <- SystemProperties
Framing <- FramingProperties

DealProperties <- DealLemmas
DealPlay, DealLemmas <- DealPlayProofs
ServerProperties, DealLemmas <- HeartsServerProofs <- ServerSeatsProofs <- ServerRulesProofs
FramingProperties <- FramingProofs
SystemProperties, ServerRulesProofs <- SystemProofs <- SyncProofs
```

**Deal.** A card is a record of rank and suit instead of a substring. A hand
string becomes a set, because the server only searches it and erases from it;
the table stays a sequence, and `scores` stays a map whose keys appear when
they are written. `HeartsRules` computes the same game another way: the turn
from the leader and the number of cards on the table, the winner from the whole
trick, the points of a trick as a sum over its cards, the end of a deal as "the
cards and tricks that remain are worth nothing". `PlaysHearts` says that the
code implements it, in `DealPlay` with the fairness of `HeartsRules!Spec`, in
`HeartsServer` as a safety property under a mapping that counts a full table as
a trick taken (the deal thread ends the trick a few steps after the last card).

**HeartsServer.** Each thread has a place (`mainPc`, `acceptPc`, `dealPc`,
`pc[fd]`), named after the call or loop it is in. A critical section of
`Server::mtx` is one step from one send to the next, `mtx` says who holds the
lock between two steps, and `out[thread]` is the message being sent. A send
succeeds (`Delivers`), fails (`Breaks`) or blocks and releases the lock
(`Blocks`). A wait on a condition variable is the guard of the step after it.
`Timeout` is the end of `cvTrick.wait_for` without a card, possible at any time.
Each action names its part of the code by its name and `PROJECT.json`'s map.

Clients are arbitrary here: they may take any seat, name any card and any trick
number at any moment, send a message that does not parse, close, or not read.
The content of a message is chosen when the server handles it, which allows
every content a client could have sent before.

Details that matter and are kept: `operator[]` inserting descriptor 0 for an
absent seat, `logMessage` inserting it in turn among the clients that
`disconnectAll` shuts down, the failing shutdown of a descriptor that is no
socket; absent keys of `scores` and `totalScores`; the Error that leaves a
thread and ends the process (`aborted` says where); flags that are not reset
between deals; the null `currentDeal` before the first deal; a card that came
while the ask was blocked.

**HeartsClient.** The client is a record with the members of the class. The
hand string is a bag, since an append of a wrong card would double it.
`Parses` keeps what the regular expressions of `tryParse...` demand of the
numbers of cards, seats and tricks (13 cards in DEAL, at most three cards in
TRICK, tricks 1 to 13): a message outside is ignored. `Read` is `handleServer`
for one message, `Play` is the sending of a card, `AutoCards` are the cards
`getAutoCard` may choose, `Verdict` is the exit code of `connectToGame`.
`lastPlayedTrick` keeps its width of a byte.

**HeartsSystem.** Every connection of `HeartsServer` has a client process behind
it and a queue of messages in each direction; every action is an action of the
server together with what it does to the queues (`Carries` puts a message that
was sent completely into the queue of a client that can read it), or an action
of one client. The choices `HeartsServer` leaves to arbitrary clients are bound
to these programs: the IAM names the client's seat, a TRICK is the head of its
queue, a read fails only at the end of the connection. Automatic clients answer
in the step that reads the ask; the user of another client types any card of
the hand whenever `handleInput` accepts it, also before being asked anew or out
of suit. A client that draws a card from an empty hand crashes. `Leavers` are the
connections whose clients may leave.

**Framing.** Several threads send messages over one connection under one lock, a
write takes as many bytes as fit, gives the lock away when none does
(`WaitsFor`), and `recvMessage` reads byte by byte with its limit, its
remaining time in truncated milliseconds, and the product of the option `-t`
with 1000 in an int of `IntSize` values. A message is a sequence of bytes here
and only here, because the cut at CR LF is what the properties are about.

Abstractions, and why they are harmless:

- What a message of `HeartsSystem` says is read when its send ends (`Content`);
  the code fixes it when it calls the send. Between the two the sender holds the
  lock, and only the write of `currentDeal` without it can fall there. What a
  returning client is still told of the last deal then shows the new one, where
  the code tells it of the last; the DEAL of the new one follows in both, and no
  property depends on the difference.
- The two listening sockets are one: both are polled and shut down together.
- The text of messages is left out, and in `HeartsServer` DEAL carries only
  which deal it is; `HeartsSystem` gives messages the content clients use.
- `currentDeal` is written without the lock (`server.cpp:51`). The model writes
  it in one step, that is, assumes the race on the pointer has no other effect.
- `disconnectAll` shuts all connections down in one step, although it sleeps
  between two: a connection's thread only ever sees its own.
- In `HeartsServer` a partial write is part of the write that completes or
  fails; `Framing` shows what becomes of its parts.
- `ServerNetworker::mtx` is held for one step at a time and never while another
  lock is awaited, so it is not modelled.
- The fourth seat taken by a client whose catching up then fails does not notify
  `cvReady`; the model lets the deal begin all the same, as a spurious wake-up
  would.
- In `HeartsSystem` no write blocks (`MaxBlocks = 0`): a blocked write would need
  the text of its message kept. `HeartsServer` is checked with such writes.
- The clock of `Framing` is steady; the code's `system_clock` can be set.
- The automatic client draws with a fixed seed or takes the first card of the
  suit; the model takes any.

## 3. Runs

All numbers are of the small instances named; every bound is a constant of the
configuration.

| Run | Instance | Checks |
|---|---|---|
| `deal_play` | 4 seats x 2 cards, types 1 to 7, 180 dealings | types, conservation of cards, no revoke, highest card takes, one card each, ends when scored, **implements HeartsRules**, every deal ends |
| `server_quiet` | 3 seats x 2 cards, 2 deals (one may end early), a write may block | while nobody leaves: one card each, turn and table agree, totals add up to the worth of the deals, **implements HeartsRules** |
| `server_drop` | 2 seats x 2 cards, 1 deal, 3 connections, one leaves | no revoke, highest takes, only the seat in turn can answer, everybody is told everything, a suspension can end |
| `server_storm` | 2 seats x 1 card, 2 deals, 3 connections, two failures, a blocked write | types, conservation of cards, exclusive seats, no loop over a dead map entry |
| `server_shutdown` | 2 seats x 1 card, 3 connections, a blocked write | the server stops after the last deal |
| `system_play` | 2 seats x 2 cards, 2 deals, an automatic client, a user, a third client that is refused; 68,547 states | while nobody leaves: hands agree, no automatic client is refused, tricks agree, nobody is asked without cards, success is reported only for a whole game and failure only by a client that got no cards, the game succeeds at every seat |
| `system_return` | the same with automatic clients, one of the first two of which leaves; 1.0 million states | tricks agree also for the client that returned, no success while the server plays |
| `framing` | messages of 1 to 5 bytes with a limit of 4 and CR LF, buffers of 2 bytes, up to 2 full buffers; timeouts that fit into an int, that wrap to a negative number and that wrap to a smaller one; 301,582 states | the stream is cut right, messages stay whole, the timeout is kept from both sides, all arrives |

Why these bounds show something. Two tricks have a leader that changes and a
trick after which hands are empty; the first trick stands for the seventh and
the second for the last, so both scoring tricks occur. Four seats are needed
only for the order of the turns and the early end; two or three are enough for
threads against threads, and the order of the seats in `std::map` differs from
the order around the table in every instance. A third connection is the client
that returns, the second claim of a taken seat, or the stranger that never sends
a card. `MaxDrops` counts clients that leave, reset or send an unparsable
message; with one, every place at which a client can be lost is reached with
the return of another, with two also losing the one that catches up. `MaxBlocks`
counts writes that find the buffer full; one opens every critical section once.
`MaxPending` is the number of unread messages after which a seat is not asked
again: with one, an ask is repeated while the first is unread or its answer on
the way, which is every way an ask and an answer can cross; more asks only
repeat the same. The third client of `system_return` stays, because it is the
same program as the first, for the same seat, and may connect before it. In `Framing` the option takes the values 1, 3, 4 and 9 with a
"second" of two milliseconds and an int of 16 values: 1 and 3 fit, 4 becomes
negative, that is, no timeout, and 9 becomes 2. A millisecond has two ticks, so
that truncation loses something. Deadlock is not checked because the programs
really stop: they exit, end by an Error, or wait for clients that never come.

The properties hold under the condition in the run's name and not beyond it.
`server_quiet` and `system_play` show the promises to the game while nobody
leaves; `server_drop` and `system_return` show what one departure cannot break.
What one departure does break is shown by the runs below. `SuccessMeansOver` is
checked in both: it holds while nobody leaves (`system_play`) and fails when one
client does (`false_success`). `MessagesWhole` has
its condition inside: two senders whose writes wait may mix their messages.

## 4. Where the code and its documentation disagree

Each run finds a violation of one sentence of `README.md`.

| Run | What happens |
|---|---|
| `two_cards` | A seat has played and its client leaves before the deal thread goes on. The next client of the seat is asked again (`server.cpp:204`), and two cards of one seat lie in the trick. It goes on to the other seats, since a trick ends only when the turn is back at the first player (`server.cpp:155`), and has one card too many in the end. |
| `shutdown_hang` | The last deal ends suspended; a player thread waits in `handleTRICK` for an end that never comes, and `joinClients` waits for it (`server.cpp:229`). |
| `empty_hand` | A suspension outlives its deal and ends while the next one is dealt (`server.cpp:212`): the client that returns plays out of step, is asked with an empty hand, and the automatic player draws from nothing (`common.cpp:162`) and crashes. |
| `false_success` | A client is gone while SCORE and TOTAL of the first deal are sent: the Error ends the server (`server.cpp:172`), and another client that has just read TOTAL exits with 0 in the middle of the game (`client.cpp:121`). |

The models have more behaviours of the kind, which no run is spent on:

- a client that is gone when DEAL, TAKEN, SCORE or TOTAL is sent ends the server
  (`server.cpp:113`, `156`, `172`; `BroadcastFails`);
- a client that connects as the game ends makes `accept` fail on a socket that
  was shut down, and the process ends by an uncaught Error after a complete
  game (`network_server.cpp:45`, `AcceptFails`);
- a seat that is empty when the deal ends is missing from SCORE and TOTAL and
  gets no points (`server.cpp:168`);
- a client that leaves while it is told what it missed leaves its seat taken by
  nobody (`server.cpp:192`, `83`);
- `fdExpectedTrick` outlives its deal, and in the next one a client plays from
  the hand of another seat (`server.cpp:206`, `240`);
- a TRICK before the first deal makes the server read a null `currentDeal`
  (`server.cpp:255`, `RefuseTRICK`);
- a client that returns after the last trick of a suspended deal is asked for
  trick 14, and one that returns when its seat filled the table is asked with
  four cards on it; the client's parser knows neither (`server.cpp:207`,
  `protocol_client.cpp:67`);
- when two clients are away, the first to return ends the suspension and the
  second is told nothing (`server.cpp:193`, `HandleIAM`), which is why
  `TableInformed` is checked with one departure;
- a write that waits gives the lock away in the middle of a message, and another
  thread's message for the same client goes into it (`network_common.cpp:167`,
  `Retries`);
- an option `-t` above 2,147,483 overflows: the client is refused too
  early, or waited for without end and then refused (`network_common.cpp:251`, `Wrap`); it is undefined
  behaviour that the usual builds wrap.

## 5. Fairness

`DealPlay!Spec` lets players play on (`WF(Next)`): they always answer by the
module's assumption.

`HeartsServer!Spec` has no fairness. Its `FairSpec` is used for the end of the
program only: the main thread, the deal thread, the accept thread and every
player thread take a step that stays possible, as the scheduler of the operating
system provides; a wait with a timeout ends, and so does the wait for an IAM; a
read from a connection that was shut down returns; a blocked write is retried.
No client is assumed to connect, send or close. Weak fairness is enough: no
thread competes forever for the lock, which is free once the clients are
disconnected.

`HeartsSystem!FairSystem` is used for `GameSucceeds`. Main thread, accepting,
deal thread and clients are weakly fair; the clients connect (they are started)
and automatic ones always answer. Player threads are strongly fair, because the
lock is free only now and then: between two asks the deal thread waits on
`cvTrick` for the seconds of the option `-t` without it, which is ample for a thread that wants
it. A user who may play again and again sooner or later follows suit; without
that a game is refused its card for ever.

`Framing!FairSpec`: the reader goes on and time passes (weak); a writer whose
write waits tries again after each second, and of several the lock passes by
none for ever (strong).

## 6. Proofs

| Theorem | States | Argument |
|---|---|---|
| `DealPlayProofs!TypeCorrect` | `Spec => []TypeOK` | part of `PlayInv`: an empty table has no highest card, another one has a highest player; without that `nextTrick` could credit the empty seat |
| `DealPlayProofs!CardsAlwaysConserved` | `Spec => []CardsConserved` | part of `PlayInv`: a legal card is in the hand of the current player, hence not played yet and in no other hand |
| `DealPlayProofs!NeverRevokes` | `Spec => []NoRevoke` | `TableFollows` and `TricksFollow` |
| `DealPlayProofs!HighestAlwaysTakes` | `Spec => []HighestTakes` | `WonBy` and `TricksWon` |
| `DealPlayProofs!OneCardEachAlways` | `Spec => []OneCardEach` | `TurnInv` |
| `DealPlayProofs!EndsAlwaysWhenScored` | `Spec => []EndsWhenScored` | `EndInv` |
| `DealPlayProofs!PlaysByTheRules` | `Spec => Rules!Safe` | a step of `DealPlay` is a step of `HeartsRules` or none |
| `HeartsServerProofs!SeatsAlwaysExclusive` | `Spec => []SeatExclusive` | `SeatInv` |
| `HeartsServerProofs!IteratorAlwaysValid` | `Spec => []IteratorValid` | `LoopInv` |
| `HeartsServerProofs!ServerConservesCards` | `Spec => []CardsConserved` | `CardInv` |
| `HeartsServerProofs!ServerNeverRevokes` | `Spec => []NoRevoke` | `CardInv` |
| `HeartsServerProofs!ServerHighestTakes` | `Spec => []HighestTakes` | `CardInv` |
| `HeartsServerProofs!ServerOneCardEach` | `Spec => [](drops = 0 => OneCardEach)` | `QuietInv` |
| `HeartsServerProofs!ServerTurnInStep` | `Spec => [](drops = 0 => TurnInStep)` | `QuietInv` |
| `ServerSeatsProofs!ServerTypeCorrect` | `Spec => []TypeOK` | `TypesInv` |
| `ServerSeatsProofs!OnlyOwnerPlays` | `Spec => [](drops = 0 \/ (blocks = 0 /\ di <= 1) => TurnOwner)` | `OwnerInv` |
| `ServerSeatsProofs!SuspensionCanEnd` | `Spec => [](drops <= 1 => SuspensionEnds)` | `OnceInv` |
| `ServerSeatsProofs!TableAlwaysInformed` | `Spec => [](drops <= 1 /\ blocks = 0 => TableInformed)` | `ToldInv` |
| `ServerRulesProofs!ServerPlaysHearts` | `Spec /\ [](drops = 0) => PlaysHearts` | `RulesInv` |
| `ServerRulesProofs!TotalsAlwaysAddUp` | `Spec => [](drops = 0 => TotalsAddUp)` | `TotalsInv` |
| `FramingProofs!NeverTooEarly` | `Spec => []NotTooEarly` | `ClockInv` |
| `FramingProofs!NeverTooLate` | `Spec => []NotTooLate` | `ClockInv` |
| `FramingProofs!StreamAlwaysCut` | `Spec => []StreamCut` | `CutInv` |
| `FramingProofs!MessagesAlwaysWhole` | `Spec => []MessagesWhole` | `WholeInv` |
| `SystemProofs!SystemRunsServer` | `SystemSpec => Init /\ [][Next \/ Crash]_vars` | `SystemInv` |
| `SystemProofs!SuccessAlwaysMeansEnd` | `SystemSpec => []SuccessMeansEnd` | `SystemInv` |
| `SyncProofs!HandsAlwaysAgree` | `SystemSpec => [](drops = 0 => HandsAgree)` | `SyncInv` |
| `SyncProofs!AutoNeverRefused` | `SystemSpec => [](drops = 0 => AutoNeverWrong)` | `SyncInv` |
| `SystemProofs!SystemKeepsGame` | `SystemSpec => [](SeatExclusive /\ IteratorValid /\ CardsConserved /\ NoRevoke /\ HighestTakes)` | `SystemInv` |
| `SystemProofs!ClientsShowTricks` | `SystemSpec => []ShowsOwn` | `ShowInv` |
| `SystemProofs!TricksAgreeIfWhole` | `SystemSpec => [](WholeTricks => TricksAgree)` | `ShowInv` |
| `SyncProofs!NeverAskedEmptyHanded` | `SystemSpec => [](drops = 0 => NeverEmptyHanded)` | `SyncInv` |
| `SyncProofs!TricksAlwaysAgree` | `SystemSpec => [](drops = 0 => TricksAgree)` | `ShowInv`, `SyncInv` |
| `SyncProofs!SystemImplementsServer` | `SystemSpec /\ [](drops = 0) => Spec` | `SyncInv` |
| `SyncProofs!SystemPlaysHearts` | `SystemSpec /\ [](drops = 0) => PlaysHearts` | the theorem before and `ServerPlaysHearts` |
| `SyncProofs!ServerLives` | `SystemSpec => [](drops = 0 /\ ~Running => aborted = "accept" /\ ~listening /\ gameOver)` | `AliveInv` |
| `SyncProofs!SuccessMeansOverIfAllStay` | `SystemSpec => [](drops = 0 => SuccessMeansOver)` | `SuccessAlwaysMeansEnd` and `ServerLives` |
| `SyncProofs!PlayersAlwaysSucceed` | `SystemSpec => [](drops = 0 => PlayersSucceed)` | `WonInv` |

The inductive invariants, and why they are needed:

- `GameInv` (`DealLemmas`), of one deal record. A card off suit on the table
  means that its owner has no card of the suit left (`TableFollows`), and what a
  trick settled about a seat holds of all its later cards and of its hand
  (`TricksFollow`); `NoRevoke` speaks of pairs of tricks only, and no step could
  keep it. `highestCard` beats every card of its suit on the table, and its
  owner is `highestPlayer` (`WonBy`); every trick taken was won that way
  (`TricksWon`). Each method of class `Deal` has one lemma per part.
- `PlayInv` is `GameInv` of the deal that is played.
- `TurnInv` counts places: the i-th card on the table is of the seat i-1 places
  after the leader, and the turn is as many places after the leader as there are
  cards. Since the places of a table are all different (`SeatsCounted`), the turn
  comes back to the leader exactly when all have played.
- `EndInv` of `DealPlay`: every hand has as many cards as there are tricks to
  come, one less once its seat has played (`Sized`), and the loop is over exactly
  when nothing is left to score (`Finished`). The code looks at the table, the
  hands and the trick number; that these three say the same as "the cards and
  tricks that remain are worth nothing" is the lemma `NothingLeft`.
- `SeatInv`: an entry of `player_fds` is written for a free seat only, and erased
  by the thread it names.
- `LoopInv` adds that the message the deal thread is sending goes to the entry at
  which its loop stands. The thread that erases the entry while a write gives
  the lock away disconnects first, so that the retried write fails. That the
  next entry of the loop exists needs a least element of the entries left
  (`WFMin`).
- `CardInv` is `SeatInv`, the entry under which each player thread is registered
  and `GameInv` of `currentDeal`. A card changes the deal in two steps of two
  threads (`handleTRICK` plays, the deal thread ends the trick), and arbitrary
  clients choose when; only what the seat and the hand of the moment allow is
  played, and that is what `GameInv` needs.
- `QuietInv` is about executions in which nobody has left yet (`drops = 0`: no
  client closed, no connection failed, no message was spoilt). `ConnInv`:
  descriptors are handed out in turn, so a new one was never shut down, and every
  thread writes to accepted connections; without it a write could fail although
  nobody left. `PeaceInv` (`AtPeace`): then no player thread gives its seat back
  before the game is over, and no deal is suspended. `LockInv`: from the end of
  one turn to the ask of the next the deal thread keeps the lock, so no player
  thread sees the new turn with the old `fdExpectedTrick`. `TurnsInv`: a card is
  expected only of a seat that has not played, and the cards on the table are as
  many as the places the turn has passed, one more while the seat in turn has
  played and the deal thread has not gone on. The two theorems follow from it by
  `SeatsCounted`; the run `two_cards` shows how one departure breaks the first.
- `SeatsInv` is `QuietInv` and what is needed about clients that leave and
  return. `OwnInv`: a descriptor stays under the seat its thread registered
  under, also in `fdExpectedTrick`. `DealInv`: which places of the deal thread go
  with which flags. `OnceInv` (`Once`): as long as one client at most is lost,
  all seats but one are taken while the deal is suspended, so that one client
  alone is told what it missed, and the deal is suspended as long as that
  lasts; a second departure in the middle of this would leave a suspended deal
  for which nobody comes, as TLC shows in 45,501 states. `MtxInv`: a thread has
  the lock wherever it sends, until a write blocks. `OwnerInv`: whoever is
  expected to play is in turn and has not played. Its condition `di <= 1` is
  needed: `fdExpectedTrick` outlives its deal (section 4), and TLC finds
  `TurnOwner` broken in a second deal after one departure.
- `InformedInv` adds, for `TableInformed`: the trick number says how many tricks
  were taken (`NumberInv`), a thread sends what its place says (`SendInv`), each
  thread has its loop index and each client its knowledge (`FieldsInv`), and what each client knows, by the place of the deal
  thread and by whether its loop over `player_fds` has passed the seat (`ToldInv`); a client that catches
  up knows the tricks before the one it is being told. Without `blocks = 0` TLC
  finds it broken: the client comes back while the deal thread has given the
  lock away.
- `TypesInv` is `SeatsInv` with the types that `TypeOK` lists and
  `RoomInv`: the accept thread accepts only while a descriptor is left.
- `RulesInv` is `QuietInv` with the `EndInv` of the server: the deal thread is
  past its loop exactly when nothing is left to score. The refinement maps a full
  table to the trick taken (`Settled`). The deal thread ends a trick in several
  steps, between which the mapped state stays; a card of `handleTRICK` is the
  one step that plays, and a new deal is the one that deals.
- `TotalsInv`: what the seats have of the deal and what the cards and tricks that
  remain are worth (`Value`) is what the deal was worth at its beginning, and the
  totals add up to the deals counted so far; the end of a deal adds the
  scores of every seat because nobody has left (`AllSeated`).
- `ClockInv` (`BytesOK` and `TimeInv`): the time left plus the time that passed is
  at least the option, and at most the option plus one truncated millisecond for
  every byte of the message so far and every empty read.
- `CutInv`: the message that is being read is within the limit and has no CR LF
  yet (`NoEnd`); without that a CR read before could end a message with an LF
  that comes later.
- `SendersInv` and `WholeInv`: who is in the middle of a message has the lock
  until a write waits; under the condition of `MessagesWhole` (`Calm`) the bytes
  written and the bytes that one thread still has to write are together the
  messages sent. A message is therefore complete in the stream before the next
  begins, and what `recvMessage` cuts off, having one CR LF at its end, is the
  next message sent and not a part of one or two.

- `SystemInv` of server and clients together. `ServerInv`: the parts of the
  invariants above that hold whatever clients do, with `OutInv` (which thread is
  sending what; the deal thread sends to clients that have had a seat).
  `EndsInv`: what is in the queues and what a client is, so that a card it plays
  is a card and a trick it answers is a trick, which makes the step a step of
  `HeartsServer`. `CutInv`: before the game is over only a player thread that
  returns shuts its connection down, and it does so before the client was seated
  or after it closed. `SuccessInv`: a client that has not been seated, or was
  shut down before the end without having closed, has no TOTAL behind it nor on
  its way (`Outside`, `NoTotal`). So nobody takes a refusal or a lost
  connection for the end of the game. The crash of a client is no step of
  `HeartsServer`: the process dies in the middle of reading, with its connection.
- `ShowInv` is about the tricks a client shows, and holds whoever leaves.
  `ToldServer` is what the server has told (`seen` and `Told`): each client the
  tricks one after the other, a client that comes back from the first one on
  (`Heard`, `HeardTricks`). `ReadsOn` says what becomes of it: after the DEAL that
  is still on its way, or after the tricks read so far, the queue has the TAKEN
  of every other trick told, once and in order. `TricksAgree` alone is not
  inductive: it is silent as long as a TAKEN is on its way. Own tricks are counted
  (`ShowsTricks`: the k-th trick shown is the k-th of those the seat took), which
  needs no induction over the sequence of tricks. A client that returns may bring
  two cards of its seat into one trick, of five cards in the end, whose TAKEN the
  parser refuses; this is why the theorem without a condition (`ShowsOwn`) leaves
  out such tricks, and `TricksAgree` needs `WholeTricks` or that nobody has left
  (`AllWhole`, from `OneCardEach`).
- `SyncInv` of a system that no client has left yet. `View` is what the server has
  of one client: whether it expects its card, whether it is refusing one, and the
  trick, the hand and the table it will judge a card by. `InStep` relates it to
  the client, to the messages on their way to it and to its answer on the way. A
  message in the queue is old (the ask or the TAKEN of the trick the client has
  played in, which it does not answer), or gives it cards (DEAL, WRONG), or is an
  ask for the card the server expects now, with the table it will judge it by;
  old ones come first and only such asks follow (`Ordered`). The client has let go
  of at most one card (`Pending`): on its way, being refused, or with the refusal
  on its way, and then no ask that it would answer waits behind it. Its tricks and
  its cards add up to those of the deal, one more while a card is pending
  (`Counts`), so a client that has an ask to answer has a card left. An automatic
  client is never refused (`Playable`): between the ask and the answer neither the
  table nor the hand changes. `HandsAgree` alone is not inductive: that a WRONG
  gives back the right card needs the order of the queue.
  `QuietServer` collects what the proofs about the server show while nobody has
  left; `CalmInv` is what they leave open: clients have the seats they ask for and
  keep them, and a card is expected of one that is there (`HereInv`); each deal is
  told once to each client at the table (`NewsInv`); an ask and a refusal name the
  trick that is played, and the hands are as dealt until all have been told
  (`AskInv`). `NoneCrashed`: no client has crashed, which follows in turn from
  `Counts` and makes every step one of `HeartsServer`.
- `AliveInv`: while nobody has left, every entry of `player_fds` is a connection and
  the standard input is none, and the message of the deal thread is for a client
  at the table (`AtTable`), so that no write fails and `disconnectAll` finds only
  sockets; a card comes only after an ask, hence after the first deal began. What
  remains is the `accept` of a connection during the shutdown.
- `WonInv` says of each client whether cards have come to it (`Undealt`) and what
  it reads last (`EndsInTotal`). Cards go to the table only. While the totals are sent, a
  client at the table has one of the two (`Served`) as soon as the loop over
  `player_fds` has passed it (`ToldTotal`), and so have all when the game is over, when
  nothing else is sent to them: no turn is on, so that no ask and no refusal can
  follow. The totals name every seat, as all seats are taken when they are
  added up, so that the client's parser takes the message. A connection ends only
  when the game is over or for a client that was refused, which was dealt no card.

`MessagesWhole` is about messages with one CR LF, at their end (`OneEnd`). An
attempt at the proof showed that to ask for a CR LF at the end is not enough: a
message with another one inside arrives as two. No program sends such a message.

What holds by induction over data is proved too, from a least counterexample
(`LeastNumber`): that the turn goes round the table, that a sum over a sequence
or a set grows by what is added (`SumsExist`, `FunctionAdds`), that the points
`getScore` adds card by card are the worth of the trick, and that to flatten a
sequence of messages is to join the last one to the rest (`FlattenAppend`).

They hold for any table of seats, any number of tricks, any proper deals, for
the server any number of connections, departures and blocked writes and
arbitrary clients, and for the transport any messages, buffer and clock. Where a
theorem has a condition on `drops`, `blocks` or `di`, these count what happened
so far in an execution that is not bound otherwise; the runs that check the
same property bound the constants instead. The
assumptions are those of the modules: seats are distinct strings other than the
empty one, there is at least one trick, the game file deals disjoint hands of
`LastTrick` cards, and an int has an even number of
values (`CardsAssumption`, `DealPlayAssumption`, `ServerAssumption`,
`FramingAssumption`); the system has no bound on the cards clients may name,
and its writes do not block (`SystemAssumption`), and since clients count tricks in a
byte (`client.hpp:23`), there are fewer than 256: a `lastPlayedTrick` that wraps
would meet its first trick again.

Only model-checked: that a deal goes on until its end, the fairness part of
`PlaysHearts` in `DealPlay`, and the liveness properties (`DealEnds`,
`ShutdownEnds`, `GameSucceeds`, `AllArrives`), which are out of the prover's
reach. Every other property of a run that passes is the subject of a theorem.
The theorems have the conditions of the runs as formulas, with one exception:
`system_return` checks `TricksAgree` with one departure as it stands, and the
theorem about departures (`TricksAgreeIfWhole`) has the condition `WholeTricks`.

## 7. Not modelled, and what could follow

Not modelled: address resolution and socket set-up (`network_client.cpp`,
constructor of `ServerNetworker`), one sequence of system calls before the game;
logging and the display of cards (layout); the reading of the game file (its
content is assumed correct); the command line besides the range of `-t`
(sequential, done by a library).

What could follow: the system with blocked writes, which needs the text of a
message to be kept by the thread that sends it; `TricksAgree` after one departure
without the condition `WholeTricks`.
