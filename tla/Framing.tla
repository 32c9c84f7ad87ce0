------------------------------ MODULE Framing ------------------------------
(***************************************************************************)
(* One direction of a connection, byte by byte: the threads that call      *)
(* writen on it and the thread that calls recvMessage.                     *)
(*                                                                         *)
(* A write takes as many bytes as fit.  When none does, the lock is given  *)
(* away until the next try.  The first message that is read is the one     *)
(* with a timeout, as in recvIAM; poll is the only place where time        *)
(* passes, and the clock is taken to be steady.                            *)
(***************************************************************************)
EXTENDS Integers, FiniteSets, SequencesExt

CONSTANTS
  Byte,        \* what a message is made of
  Writers,     \* the threads that send over the connection
  Scripts,     \* what they may send: for each thread a sequence of messages
  Timeouts,    \* the values of the option -t
  MaxSize,     \* MAX_MSG_SIZE
  Second,      \* the milliseconds of a second
  IntSize,     \* the number of values of an int
  Fine,        \* the ticks of the clock in a millisecond
  Capacity,    \* the bytes the buffers of the connection hold
  MaxBlocks,   \* bound: writes that find the buffers full
  MaxAgain,    \* bound: reads that find nothing after poll
  MaxClock     \* bound: ticks of a wait without an end

CR == "\r"
LF == "\n"
CRLF == <<CR, LF>>
Unlocked == "unlocked"

ASSUME FramingAssumption ==
  /\ Unlocked \notin Writers
  /\ CR \in Byte /\ LF \in Byte
  /\ Scripts \subseteq [Writers -> Seq(Seq(Byte) \ {<<>>})]
  /\ Timeouts \subseteq Nat \ {0}
  /\ {MaxSize, Second, Fine, Capacity} \subseteq Nat \ {0}
  /\ IntSize \in Nat \ {0} /\ IntSize % 2 = 0
  /\ {MaxBlocks, MaxAgain, MaxClock} \subseteq Nat

VARIABLES
  lines,     \* the messages still to send, by thread
  left,      \* the bytes left of the message a thread is sending
  mtx,       \* the lock of the senders
  pipe,      \* the bytes on the way
  option,    \* the timeout in seconds
  pc,        \* recvMessage: "poll", "read", or how it ended
  message, timeout, start,   \* its variables
  received,  \* the messages it has returned
  now,       \* the clock, from the call of recvIAM
  order,     \* the messages in the order in which their sending began
  stream,    \* all bytes written
  blocks, again              \* uses of the bounds

senders == <<lines, left, mtx, order, stream, blocks>>
reader  == <<option, pc, message, timeout, start, received, now, again>>
vars    == <<senders, pipe, reader>>

\* A product of ints is cut to their width.
Wrap(n) == ((n + IntSize \div 2) % IntSize) - IntSize \div 2

Init ==
  /\ lines \in Scripts /\ left = [w \in Writers |-> <<>>]
  /\ mtx = Unlocked /\ pipe = <<>>
  /\ option \in Timeouts
  /\ pc = "poll" /\ message = <<>> /\ timeout = Wrap(option * Second)
  /\ start = 0 /\ now = 0 /\ received = <<>>
  /\ order = <<>> /\ stream = <<>> /\ blocks = 0 /\ again = 0

\* The connection is open.
Open == pc \in {"poll", "read"}
\* The timeout applies to the message that is read.
timeout_mode == received = <<>>
-----------------------------------------------------------------------------
\* writen.

Sends(w) ==
  /\ Open /\ mtx = Unlocked /\ left[w] = <<>> /\ lines[w] # <<>>
  /\ mtx' = w
  /\ left' = [left EXCEPT ![w] = Head(lines[w])]
  /\ lines' = [lines EXCEPT ![w] = Tail(@)]
  /\ order' = Append(order, [by |-> w, line |-> Head(lines[w])])
  /\ UNCHANGED <<pipe, stream, blocks, reader>>

\* Mutant of Remaining: the pointer is not moved past the bytes written.
FromTheStart(bytes, n) == SubSeq(bytes, 1, Len(bytes) - n)

\* What is left once n bytes have been written.
Remaining(bytes, n) == SubSeq(bytes, n + 1, Len(bytes))

Writes(w) ==
  /\ Open /\ mtx = w
  /\ \E n \in 1..Len(left[w]) :
       /\ Len(pipe) + n <= Capacity
       /\ pipe' = pipe \o SubSeq(left[w], 1, n)
       /\ stream' = stream \o SubSeq(left[w], 1, n)
       /\ left' = [left EXCEPT ![w] = Remaining(@, n)]
       /\ mtx' = IF n = Len(left[w]) THEN Unlocked ELSE w
  /\ UNCHANGED <<lines, order, blocks, reader>>

\* EAGAIN: wait_for gives the lock away.
WaitsFor(w) ==
  /\ Open /\ mtx = w /\ Len(pipe) = Capacity /\ blocks < MaxBlocks
  /\ mtx' = Unlocked /\ blocks' = blocks + 1
  /\ UNCHANGED <<lines, left, order, stream, pipe, reader>>

\* Mutant of Retries: a wait that nobody ends.
NeverNotified(w) == FALSE

Retries(w) ==
  /\ Open /\ mtx = Unlocked /\ left[w] # <<>>
  /\ mtx' = w
  /\ UNCHANGED <<lines, left, order, stream, blocks, pipe, reader>>
-----------------------------------------------------------------------------
\* recvMessage.

\* The writers have sent all and closed the connection.
AtEnd == pipe = <<>> /\ \A w \in Writers : lines[w] = <<>> /\ left[w] = <<>>

\* Nothing to read yet, and the time poll was given is not over.
Tick ==
  /\ pc = "poll" /\ timeout_mode /\ pipe = <<>> /\ ~AtEnd
  /\ IF timeout < 0 THEN now < MaxClock ELSE now - start < timeout * Fine
  /\ now' = now + 1
  /\ UNCHANGED <<senders, pipe, option, pc, message, timeout, start, received, again>>

PollTimesOut ==
  /\ pc = "poll" /\ timeout_mode /\ pipe = <<>> /\ ~AtEnd
  /\ timeout >= 0 /\ now - start >= timeout * Fine
  /\ pc' = "refused"
  /\ UNCHANGED <<senders, pipe, option, message, timeout, start, received, now, again>>

\* Mutants of Spent: no time is taken off, or the time since the call.
Untimed == 0
SinceTheCall == now \div Fine

\* duration_cast to milliseconds truncates.
Spent == (now - start) \div Fine

PollReturns ==
  /\ pc = "poll" /\ (pipe # <<>> \/ AtEnd)
  /\ timeout' = IF timeout_mode THEN timeout - Spent ELSE timeout
  /\ pc' = IF timeout_mode /\ timeout' <= 0 THEN "refused" ELSE "read"
  /\ UNCHANGED <<senders, pipe, option, message, start, received, now, again>>

\* Mutant of Ends: a line feed alone ends a message.
EndsInLF(bytes) == bytes[Len(bytes)] = LF

Ends(bytes) == IsSuffix(CRLF, bytes)

\* One byte is read; a message that is too long is ended here.
Reads ==
  LET bytes == Append(message, Head(pipe)) IN
  /\ pc = "read" /\ pipe # <<>>
  /\ pipe' = Tail(pipe)
  /\ IF Ends(bytes) \/ Len(bytes) > MaxSize
     THEN /\ received' = Append(received, IF Ends(bytes) THEN bytes ELSE bytes \o CRLF)
          /\ message' = <<>>
     ELSE message' = bytes /\ UNCHANGED received
  /\ pc' = "poll" /\ start' = now
  /\ UNCHANGED <<senders, option, timeout, now, again>>

\* EAGAIN after all: the loop goes on.
ReadsNothing ==
  /\ pc = "read" /\ pipe # <<>> /\ again < MaxAgain
  /\ pc' = "poll" /\ start' = now /\ again' = again + 1
  /\ UNCHANGED <<senders, pipe, option, message, timeout, received, now>>

\* The end of the connection is an Error, and the bytes of an unfinished message
\* are dropped with it.
ReadsEnd ==
  /\ pc = "read" /\ AtEnd
  /\ pc' = "ended"
  /\ UNCHANGED <<senders, pipe, option, message, timeout, start, received, now, again>>
-----------------------------------------------------------------------------
Next ==
  \/ \E w \in Writers : Sends(w) \/ Writes(w) \/ WaitsFor(w) \/ Retries(w)
  \/ Tick \/ PollTimesOut \/ PollReturns \/ Reads \/ ReadsNothing \/ ReadsEnd

Spec == Init /\ [][Next]_vars

\* Each thread and the reader go on, and time passes.
FairSpec ==
  /\ Spec
  /\ \A w \in Writers : SF_vars(Sends(w) \/ Writes(w) \/ Retries(w))
  /\ WF_vars(Tick \/ PollTimesOut \/ PollReturns \/ Reads \/ ReadsEnd)
=============================================================================
