------------------------- MODULE FramingProperties -------------------------
(***************************************************************************)
(* What a connection promises to those who send and receive over it.       *)
(***************************************************************************)
EXTENDS Framing

\* The bytes of a message that came over the connection.
FromStream(m) == SubSeq(m, 1, IF Len(m) > MaxSize + 1 THEN MaxSize + 1 ELSE Len(m))

\* CR LF ends the message and is nowhere else in it.
OneEnd(m) ==
  /\ Len(m) >= 2
  /\ \A k \in 1..Len(m) - 1 : SubSeq(m, k, k + 1) = CRLF <=> k = Len(m) - 1

\* Whatever the bytes and however they are chopped on the way, recvMessage cuts
\* the stream into messages, each with one CR LF that ends it, and no byte is lost,
\* doubled or moved, also where a message is cut for its length.
StreamCut ==
  /\ FlattenSeq([i \in DOMAIN received |-> FromStream(received[i])]) \o message \o pipe
       = stream
  /\ \A i \in DOMAIN received : OneEnd(received[i])

\* The messages programs send: short enough, and with one CR LF.
Proper(m) == Len(m) <= MaxSize + 1 /\ OneEnd(m)

\* Messages that are short enough arrive as they were sent and in that order, if
\* one thread sends them all or no write has to wait.  (A second thread may get
\* the lock while a write waits, and its message goes into the middle of the other.)
MessagesWhole ==
  /\ \A i \in DOMAIN order : Proper(order[i].line)
  /\ blocks = 0 \/ Cardinality({order[i].by : i \in DOMAIN order}) <= 1
  => IsPrefix(received, [i \in DOMAIN order |-> order[i].line])

\* The option in milliseconds fits into an int.
Fits == Wrap(option * Second) = option * Second

\* Nobody is refused before the time of the option is over, however many pieces
\* the message comes in.
NotTooEarly == pc = "refused" /\ Fits => now >= option * Second * Fine

\* And nobody keeps the thread longer by sending slowly: each read gives away less
\* than a millisecond.
NotTooLate ==
  Open /\ timeout_mode /\ Fits =>
    now <= option * Second * Fine + (Len(message) + again) * (Fine - 1)

\* A write that waits goes on: in the end everything sent has been read, or the
\* client was refused.
AllArrives == <>(pc = "refused" \/ pc = "ended")
=============================================================================
