---------------------------- MODULE FramingProofs ---------------------------
(***************************************************************************)
(* Proofs about a connection, for every message and every way the network  *)
(* chops it into pieces: the timeout of recvMessage, for every option -t   *)
(* whose milliseconds fit into an int and every resolution of the clock,   *)
(* how it cuts the stream into messages, and when these are the ones that  *)
(* were sent.                                                              *)
(***************************************************************************)
EXTENDS FramingProperties, SequenceTheorems, FiniteSetTheorems, WellFoundedInduction, TLAPS

\* The bytes keep their types.
BytesOK ==
  /\ lines \in [Writers -> Seq(Seq(Byte))]
  /\ left \in [Writers -> Seq(Byte)]
  /\ pipe \in Seq(Byte)
  /\ message \in Seq(Byte)
  /\ received \in Seq(Seq(Byte))

\* At first nothing is on the way.
LEMMA BytesInit == Init => BytesOK
<1> SUFFICES ASSUME Init PROVE BytesOK
  OBVIOUS
<1>1. lines \in [Writers -> Seq(Seq(Byte))]
  <2>1. lines \in [Writers -> Seq(Seq(Byte) \ {<<>>})]
    BY FramingAssumption DEF Init
  <2>2. \A w \in Writers : lines[w] \in Seq(Seq(Byte))
    <3>1. ASSUME NEW s \in Seq(Seq(Byte) \ {<<>>}) PROVE s \in Seq(Seq(Byte))
      BY <3>1, SeqDef
    <3>2. QED
      BY <2>1, <3>1
  <2>3. QED
    BY <2>1, <2>2
<1>2. <<>> \in Seq(Byte) /\ <<>> \in Seq(Seq(Byte))
  OBVIOUS
<1>3. QED
  BY <1>1, <1>2 DEF Init, BytesOK

\* The end of a message.
LEMMA LineEnd == CRLF \in Seq(Byte)
BY FramingAssumption DEF CRLF

\* Cutting and joining sequences of bytes gives sequences of bytes.
LEMMA BytesStep == BytesOK /\ [Next]_vars => BytesOK'
<1> SUFFICES ASSUME BytesOK, [Next]_vars PROVE BytesOK'
  OBVIOUS
<1> USE DEF BytesOK, senders, reader
<1>1. ASSUME NEW w \in Writers, Sends(w) PROVE BytesOK'
  <2>1. lines[w] \in Seq(Seq(Byte)) /\ lines[w] # <<>>
    BY <1>1 DEF Sends
  <2>2. Head(lines[w]) \in Seq(Byte) /\ Tail(lines[w]) \in Seq(Seq(Byte))
    BY <2>1, HeadTailProperties
  <2>3. QED
    BY <1>1, <2>2 DEF Sends
<1>2. ASSUME NEW w \in Writers, Writes(w) PROVE BytesOK'
  <2>1. PICK n \in 1..Len(left[w]) :
          /\ pipe' = pipe \o SubSeq(left[w], 1, n)
          /\ left' = [left EXCEPT ![w] = Remaining(@, n)]
    BY <1>2 DEF Writes
  <2>2. left[w] \in Seq(Byte) /\ Len(left[w]) \in Nat
    BY LenProperties
  <2>3. SubSeq(left[w], 1, n) \in Seq(Byte)
    BY <2>2, SubSeqProperties
  <2>4. SubSeq(left[w], n + 1, Len(left[w])) \in Seq(Byte)
    BY <2>2, SubSeqProperties
  <2>5. pipe' \in Seq(Byte)
    BY <2>1, <2>3, ConcatProperties
  <2>6. QED
    BY <1>2, <2>1, <2>4, <2>5 DEF Writes, Remaining
<1>3. ASSUME NEW w \in Writers, WaitsFor(w) \/ Retries(w) PROVE BytesOK'
  BY <1>3 DEF WaitsFor, Retries
<1>4. CASE Tick \/ PollTimesOut \/ PollReturns \/ ReadsNothing \/ ReadsEnd
  BY <1>4 DEF Tick, PollTimesOut, PollReturns, ReadsNothing, ReadsEnd
<1>5. CASE Reads
  <2> DEFINE bytes == Append(message, Head(pipe))
  <2>1. Head(pipe) \in Byte /\ Tail(pipe) \in Seq(Byte)
    BY <1>5, HeadTailProperties DEF Reads
  <2>2. bytes \in Seq(Byte) /\ bytes \o CRLF \in Seq(Byte)
    <3>1. bytes \in Seq(Byte)
      BY <2>1, AppendProperties
    <3> HIDE DEF bytes
    <3>2. QED
      BY <3>1, LineEnd, ConcatProperties
  <2>3. <<>> \in Seq(Byte)
    OBVIOUS
  <2>4. /\ pipe' = Tail(pipe) /\ UNCHANGED <<lines, left>>
        /\ \/ /\ message' = <<>>
              /\ received' = Append(received, bytes)
                 \/ received' = Append(received, bytes \o CRLF)
           \/ message' = bytes /\ received' = received
    BY <1>5 DEF Reads
  <2> HIDE DEF bytes
  <2>5. received' \in Seq(Seq(Byte))
    <3>1. /\ Append(received, bytes) \in Seq(Seq(Byte))
          /\ Append(received, bytes \o CRLF) \in Seq(Seq(Byte))
      BY <2>2, AppendProperties
    <3>2. QED
      BY <2>4, <3>1
  <2>6. message' \in Seq(Byte)
    BY <2>2, <2>3, <2>4
  <2>7. QED
    BY <2>1, <2>4, <2>5, <2>6
<1>6. CASE UNCHANGED vars
  BY <1>6 DEF vars
<1>7. QED
  BY <1>1, <1>2, <1>3, <1>4, <1>5, <1>6 DEF Next
-----------------------------------------------------------------------------
\* What has been taken off the timeout, in ticks of the clock.
Taken == Fine * (option * Second - timeout)
\* The polls that have returned.
Polls == Len(message) + again

\* The time taken off the timeout lags behind the clock, by less than a millisecond
\* for each poll, and poll never waits past the time it was given.
TimeInv ==
  /\ option \in Nat /\ timeout \in Int /\ again \in Nat
  /\ start \in Int /\ now \in Int
  /\ Fits =>
       /\ pc = "poll" /\ timeout_mode =>
            /\ timeout > 0
            /\ Taken <= start /\ start <= Taken + Polls * (Fine - 1)
            /\ start <= now /\ now <= start + timeout * Fine
       /\ pc = "read" /\ timeout_mode =>
            /\ timeout > 0
            /\ Taken <= now /\ now <= Taken + (Polls + 1) * (Fine - 1)
       /\ pc = "refused" => now >= option * Second * Fine

ClockInv == BytesOK /\ TimeInv

\* The milliseconds a duration is cast to.
LEMMA Truncates ==
  ASSUME NEW a \in Nat, NEW f \in Nat \ {0}
  PROVE  a \div f \in Nat /\ f * (a \div f) <= a /\ a <= f * (a \div f) + (f - 1)
OBVIOUS

\* The whole timeout is left at first.
LEMMA TimeInit == Init => TimeInv
<1> SUFFICES ASSUME Init PROVE TimeInv
  OBVIOUS
<1>1. /\ option \in Nat \ {0} /\ timeout = Wrap(option * Second)
      /\ start = 0 /\ now = 0 /\ again = 0 /\ pc = "poll" /\ Len(message) = 0
  BY FramingAssumption DEF Init
<1>2. Second \in Nat \ {0} /\ Fine \in Nat \ {0} /\ IntSize \in Nat \ {0}
  BY FramingAssumption
<1>3. option * Second \in Nat /\ option * Second > 0
  BY <1>1, <1>2
<1>4. timeout \in Int
  BY <1>1, <1>2, <1>3 DEF Wrap
<1>5. ASSUME Fits PROVE timeout = option * Second
  BY <1>1, <1>5 DEF Fits
<1>6. Fits => Taken = 0 /\ timeout * Fine >= 0
  BY <1>2, <1>3, <1>5 DEF Taken
<1>7. Polls * (Fine - 1) = 0
  BY <1>1, <1>2 DEF Polls
<1>8. QED
  BY <1>1, <1>2, <1>3, <1>4, <1>5, <1>6, <1>7 DEF TimeInv

\* Products are linear in each factor.
LEMMA Distributes ==
  ASSUME NEW a \in Int, NEW b \in Int, NEW c \in Int
  PROVE  /\ a * b \in Int /\ a * (b + c) = a * b + a * c
         /\ a * (b - c) = a * b - a * c /\ a * b = b * a
OBVIOUS

\* A product of naturals is one.
LEMMA Grows ==
  ASSUME NEW a \in Nat, NEW b \in Nat
  PROVE  a * b >= 0
OBVIOUS

\* A poll that returns at tick n: f ticks a millisecond, L the whole timeout, t what
\* was left at tick s, k the milliseconds taken off now, p the polls before.
LEMMA PollTakes ==
  ASSUME NEW f \in Nat \ {0}, NEW L \in Int, NEW t \in Int, NEW k \in Nat, NEW p \in Nat,
         NEW s \in Int, NEW n \in Int,
         f * (L - t) <= s, s <= f * (L - t) + p * (f - 1),
         f * k <= n - s, n - s <= f * k + (f - 1)
  PROVE  /\ f * (L - (t - k)) <= n
         /\ n <= f * (L - (t - k)) + (p + 1) * (f - 1)
         /\ t - k <= 0 => n >= L * f
<1>1. f * (L - (t - k)) = f * (L - t) + f * k
  <2>1. L - (t - k) = (L - t) + k
    OBVIOUS
  <2>2. f * ((L - t) + k) = f * (L - t) + f * k
    BY Distributes
  <2>3. QED
    BY <2>1, <2>2
<1>2. (p + 1) * (f - 1) = p * (f - 1) + (f - 1)
  <2>1. (f - 1) * (p + 1) = (f - 1) * p + (f - 1) * 1
    BY Distributes
  <2>2. (f - 1) * p = p * (f - 1) /\ (f - 1) * (p + 1) = (p + 1) * (f - 1)
    BY Distributes
  <2>3. QED
    BY <2>1, <2>2
<1>3. f * (L - t) \in Int /\ f * k \in Int /\ p * (f - 1) \in Int
  BY Distributes
<1>4. ASSUME t - k <= 0 PROVE n >= L * f
  <2>1. f * (L + (k - t)) = f * L + f * (k - t) /\ f * L = L * f
    BY Distributes
  <2>2. f * (k - t) >= 0
    BY <1>4, Grows
  <2>3. L - (t - k) = L + (k - t)
    OBVIOUS
  <2>4. f * L \in Int /\ f * (k - t) \in Int
    BY Distributes
  <2>5. f * (L - (t - k)) <= n
    BY <1>1, <1>3
  <2>6. QED
    BY <2>1, <2>2, <2>3, <2>4, <2>5
<1>5. QED
  BY <1>1, <1>2, <1>3, <1>4

\* poll takes the time it waited off the timeout, and a read starts it again.
LEMMA TimeStep == ClockInv /\ [Next]_vars => TimeInv'
<1> SUFFICES ASSUME ClockInv, [Next]_vars PROVE TimeInv'
  OBVIOUS
<1> DEFINE L == option * Second
<1>0. /\ BytesOK /\ TimeInv
      /\ Second \in Nat \ {0} /\ Fine \in Nat \ {0} /\ option \in Nat /\ L \in Nat
      /\ Len(message) \in Nat /\ again \in Nat /\ Polls \in Nat
      /\ timeout \in Int /\ start \in Int /\ now \in Int
  BY FramingAssumption, LenProperties DEF ClockInv, TimeInv, BytesOK, Polls
<1>1. Taken \in Int /\ Polls * (Fine - 1) \in Int /\ timeout * Fine \in Int /\ L * Fine \in Int
  BY <1>0 DEF Taken
<1>2. CASE UNCHANGED reader
  BY <1>0, <1>2 DEF reader, TimeInv, Taken, Polls, Fits, timeout_mode
<1>3. CASE Tick
  <2>1. /\ pc = "poll" /\ timeout_mode /\ now' = now + 1
        /\ UNCHANGED <<option, pc, message, timeout, start, received, again>>
        /\ timeout > 0 => now - start < timeout * Fine
    BY <1>0, <1>1, <1>3 DEF Tick
  <2>2. Taken' = Taken /\ Polls' = Polls /\ (Fits' <=> Fits) /\ timeout_mode'
    BY <2>1 DEF Taken, Polls, Fits, timeout_mode
  <2>3. QED
    BY <1>0, <1>1, <2>1, <2>2 DEF TimeInv
<1>4. CASE PollTimesOut
  <2>1. /\ pc = "poll" /\ timeout_mode /\ pc' = "refused"
        /\ UNCHANGED <<option, message, timeout, start, received, now, again>>
        /\ now - start >= timeout * Fine
    BY <1>4 DEF PollTimesOut
  <2>2. (Fits' <=> Fits)
    BY <2>1 DEF Fits
  <2>3. Taken = L * Fine - timeout * Fine
    BY <1>0, Distributes DEF Taken
  <2>4. Fits => now >= L * Fine
    BY <1>0, <1>1, <2>1, <2>3 DEF TimeInv
  <2>5. QED
    BY <1>0, <2>1, <2>2, <2>4 DEF TimeInv
<1>5. CASE PollReturns
  <2>1. /\ pc = "poll"
        /\ UNCHANGED <<option, message, start, received, now, again>>
        /\ timeout' = IF timeout_mode THEN timeout - Spent ELSE timeout
        /\ pc' = IF timeout_mode /\ timeout' <= 0 THEN "refused" ELSE "read"
    BY <1>5 DEF PollReturns
  <2>2. (Fits' <=> Fits) /\ (timeout_mode' <=> timeout_mode) /\ Polls' = Polls
    BY <2>1 DEF Fits, timeout_mode, Polls
  <2>3. CASE ~timeout_mode
    BY <1>0, <2>1, <2>2, <2>3 DEF TimeInv
  <2>4. CASE timeout_mode
    <3>1. timeout' = timeout - Spent /\ Spent \in Int
      BY <1>0, <2>1, <2>4 DEF Spent
    <3>2. CASE ~Fits
      BY <1>0, <2>1, <2>2, <3>1, <3>2 DEF TimeInv
    <3>3. CASE Fits
      <4>1. /\ Taken <= start /\ start <= Taken + Polls * (Fine - 1) /\ start <= now
        BY <1>0, <2>1, <2>4, <3>3 DEF TimeInv
      <4>2. /\ Spent \in Nat /\ Fine * Spent <= now - start
            /\ now - start <= Fine * Spent + (Fine - 1)
        <5>1. now - start \in Nat
          BY <1>0, <4>1, <1>1
        <5>2. QED
          BY <1>0, <5>1, Truncates DEF Spent
      <4>3. Taken = Fine * (L - timeout) /\ Taken' = Fine * (L - (timeout - Spent))
        BY <2>1, <3>1 DEF Taken
      <4> HIDE DEF L
      <4>4. /\ Fine * (L - (timeout - Spent)) <= now
            /\ now <= Fine * (L - (timeout - Spent)) + (Polls + 1) * (Fine - 1)
            /\ timeout - Spent <= 0 => now >= L * Fine
        BY <1>0, <4>1, <4>2, <4>3, PollTakes
      <4>5. timeout' \in Int
        BY <1>0, <3>1
      <4>6. CASE timeout' <= 0
        BY <1>0, <2>1, <2>2, <2>4, <3>1, <4>4, <4>5, <4>6 DEF TimeInv, L
      <4>7. CASE timeout' > 0
        <5>1. pc' = "read" /\ Taken' <= now' /\ now' <= Taken' + (Polls' + 1) * (Fine - 1)
          BY <2>1, <2>2, <2>4, <4>3, <4>4, <4>5, <4>7
        <5>2. QED
          BY <1>0, <2>1, <4>5, <4>7, <5>1 DEF TimeInv
      <4>8. QED
        BY <4>5, <4>6, <4>7
    <3>4. QED
      BY <3>2, <3>3
  <2>5. QED
    BY <2>3, <2>4
<1>6. ASSUME pc = "read", pc' = "poll", start' = now,
             UNCHANGED <<option, timeout, now>>, again' \in Nat,
             timeout_mode' => timeout_mode /\ Polls' = Polls + 1
      PROVE  TimeInv'
  <2>1. Taken' = Taken /\ (Fits' <=> Fits)
    BY <1>6 DEF Taken, Fits
  <2>2. ASSUME Fits, timeout_mode'
        PROVE  /\ timeout > 0 /\ Taken <= now /\ now <= Taken + Polls' * (Fine - 1)
    BY <1>0, <1>6, <2>2 DEF TimeInv
  <2>3. timeout > 0 => timeout * Fine >= 0
    BY <1>0, Grows
  <2>4. QED
    BY <1>0, <1>1, <1>6, <2>1, <2>2, <2>3 DEF TimeInv
<1>7. CASE Reads
  <2> DEFINE bytes == Append(message, Head(pipe))
  <2>1. /\ pc = "read" /\ pc' = "poll" /\ start' = now
        /\ UNCHANGED <<option, timeout, now, again>>
        /\ \/ received' = Append(received, bytes)
           \/ received' = Append(received, bytes \o CRLF)
           \/ message' = bytes /\ received' = received
    BY <1>7 DEF Reads
  <2>2. Len(bytes) = Len(message) + 1
    <3>1. Head(pipe) \in Byte
      BY <1>0, <1>7, HeadTailProperties DEF Reads, BytesOK
    <3>2. QED
      BY <1>0, <3>1, AppendProperties DEF BytesOK
  <2>3. bytes \in Seq(Byte) /\ bytes \o CRLF \in Seq(Byte)
    <3>1. Head(pipe) \in Byte
      BY <1>0, <1>7, HeadTailProperties DEF Reads, BytesOK
    <3>2. bytes \in Seq(Byte)
      BY <1>0, <3>1, AppendProperties DEF BytesOK
    <3> HIDE DEF bytes
    <3>3. QED
      BY <3>2, LineEnd, ConcatProperties
  <2> HIDE DEF bytes
  <2>4. Append(received, bytes) # <<>> /\ Append(received, bytes \o CRLF) # <<>>
    <3>1. received \in Seq(Seq(Byte))
      BY <1>0 DEF BytesOK
    <3>2. \A m \in Seq(Byte) : Append(received, m) # <<>>
      BY <3>1, AppendProperties
    <3>3. QED
      BY <2>3, <3>2
  <2>5. timeout_mode' => timeout_mode /\ Polls' = Polls + 1
    BY <1>0, <2>1, <2>2, <2>4 DEF timeout_mode, Polls
  <2>6. QED
    BY <1>0, <1>6, <2>1, <2>5
<1>8. CASE ReadsNothing
  <2>1. /\ pc = "read" /\ pc' = "poll" /\ start' = now /\ again' = again + 1
        /\ UNCHANGED <<option, message, timeout, received, now>>
    BY <1>8 DEF ReadsNothing
  <2>2. timeout_mode' => timeout_mode /\ Polls' = Polls + 1
    BY <1>0, <2>1 DEF timeout_mode, Polls
  <2>3. QED
    BY <1>0, <1>6, <2>1, <2>2
<1>9. CASE ReadsEnd
  BY <1>0, <1>9 DEF ReadsEnd, TimeInv, Fits
<1>10. QED
  <2>1. ASSUME NEW w \in Writers, Sends(w) \/ Writes(w) \/ WaitsFor(w) \/ Retries(w)
        PROVE  UNCHANGED reader
    BY <2>1 DEF Sends, Writes, WaitsFor, Retries
  <2>2. UNCHANGED vars => UNCHANGED reader
    BY DEF vars
  <2>3. QED
    BY <1>2, <1>3, <1>4, <1>5, <1>7, <1>8, <1>9, <2>1, <2>2 DEF Next

\* The clock and the timeout agree whatever the network does.
LEMMA ClockAlways == Spec => []ClockInv
<1>1. Init => ClockInv
  BY BytesInit, TimeInit DEF ClockInv
<1>2. ClockInv /\ [Next]_vars => ClockInv'
  BY BytesStep, TimeStep DEF ClockInv
<1>3. QED
  BY <1>1, <1>2, PTL DEF Spec

\* A client that has the time of the option left is never refused: what is taken
\* off for the pieces of its message is no more than the time that went by.
THEOREM NeverTooEarly == Spec => []NotTooEarly
<1>1. ClockInv => NotTooEarly
  BY DEF ClockInv, TimeInv, NotTooEarly
<1>2. QED
  BY ClockAlways, <1>1, PTL

\* A client that sends slowly does not get around the timeout: what the casts to
\* milliseconds give away is bounded by the bytes of one message.
THEOREM NeverTooLate == Spec => []NotTooLate
<1>1. ASSUME ClockInv, Open, timeout_mode, Fits
      PROVE  now <= option * Second * Fine + (Len(message) + again) * (Fine - 1)
  <2> DEFINE L == option * Second
             slack == Polls * (Fine - 1)
  <2>1. /\ Second \in Nat \ {0} /\ Fine \in Nat \ {0} /\ L \in Nat /\ Polls \in Nat
        /\ timeout \in Int /\ start \in Int /\ now \in Int /\ timeout > 0
    <3>1. /\ option \in Nat /\ again \in Nat /\ message \in Seq(Byte)
          /\ timeout \in Int /\ start \in Int /\ now \in Int
          /\ Second \in Nat \ {0} /\ Fine \in Nat \ {0}
      BY <1>1, FramingAssumption DEF ClockInv, TimeInv, BytesOK
    <3>2. Polls \in Nat
      BY <3>1, LenProperties DEF Polls
    <3>3. timeout > 0
      BY <1>1 DEF ClockInv, TimeInv, Open
    <3>4. QED
      BY <3>1, <3>2, <3>3
  <2>2. /\ Taken = L * Fine - timeout * Fine
        /\ L * Fine \in Int /\ timeout * Fine \in Int /\ slack \in Int
    BY <2>1, Distributes DEF Taken
  <2>3. now <= L * Fine + slack
    <3>1. CASE pc = "poll"
      <4>1. start <= Taken + slack /\ now <= start + timeout * Fine
        BY <1>1, <3>1 DEF ClockInv, TimeInv
      <4> HIDE DEF L, slack
      <4>2. QED
        BY <2>1, <2>2, <4>1
    <3>2. CASE pc = "read"
      <4>1. now <= Taken + (Polls + 1) * (Fine - 1)
        BY <1>1, <3>2 DEF ClockInv, TimeInv
      <4>2. (Polls + 1) * (Fine - 1) = slack + (Fine - 1)
        <5>1. (Fine - 1) * (Polls + 1) = (Fine - 1) * Polls + (Fine - 1) * 1
          BY <2>1, Distributes
        <5>2. /\ (Fine - 1) * Polls = Polls * (Fine - 1)
              /\ (Fine - 1) * (Polls + 1) = (Polls + 1) * (Fine - 1)
          BY <2>1, Distributes
        <5>3. QED
          BY <2>1, <5>1, <5>2
      <4>3. timeout * Fine >= Fine
        <5>1. (timeout - 1) * Fine >= 0
          BY <2>1, Grows
        <5>2. Fine * (timeout - 1) = Fine * timeout - Fine * 1
          BY <2>1, Distributes
        <5>3. /\ Fine * timeout = timeout * Fine
              /\ Fine * (timeout - 1) = (timeout - 1) * Fine
          BY <2>1, Distributes
        <5>4. QED
          BY <2>1, <2>2, <5>1, <5>2, <5>3
      <4> HIDE DEF L, slack
      <4>4. QED
        BY <2>1, <2>2, <4>1, <4>2, <4>3
    <3>3. QED
      BY <1>1, <3>1, <3>2 DEF Open
  <2>4. QED
    BY <2>3 DEF Polls
<1>2. ClockInv => NotTooLate
  BY <1>1 DEF NotTooLate
<1>3. QED
  BY ClockAlways, <1>2, PTL
-----------------------------------------------------------------------------
\* The least number of a set.
LEMMA LeastNumber ==
  ASSUME NEW T, T \subseteq Nat, T # {}
  PROVE  \E n \in T : \A m \in T : n <= m
<1>1. PICK n \in T : \A m \in T : ~(<<m, n>> \in OpToRel(<, Nat))
  BY NatLessThanWellFounded, WFMin
<1>2. \A m \in T : ~(m < n)
  BY <1>1 DEF OpToRel
<1>3. QED
  BY <1>2

\* f[i] is the first i sequences of s, one after the other.
Joins(f, s, n) == \A i \in 1..n : f[i] = IF i = 1 THEN s[i] ELSE f[i - 1] \o s[i]

\* Such a function exists, however long s is.
LEMMA JoinExists ==
  ASSUME NEW S, NEW s \in Seq(S), NEW n \in 0..Len(s)
  PROVE  \E f : f = [i \in 1..n |-> IF i = 1 THEN s[i] ELSE f[i - 1] \o s[i]]
<1> DEFINE Joined(k) == \E f : f = [i \in 1..k |-> IF i = 1 THEN s[i] ELSE f[i - 1] \o s[i]]
           bad == {k \in 0..Len(s) : ~Joined(k)}
<1>0. Len(s) \in Nat
  BY LenProperties
<1>1. Joined(0)
  <2> WITNESS <<>>
  <2>1. QED
    OBVIOUS
<1>2. ASSUME NEW k \in 1..Len(s), Joined(k - 1) PROVE Joined(k)
  <2>1. PICK f : f = [i \in 1..k - 1 |-> IF i = 1 THEN s[i] ELSE f[i - 1] \o s[i]]
    BY <1>2
  <2> DEFINE g == [i \in 1..k |-> IF i = k THEN IF i = 1 THEN s[i] ELSE f[i - 1] \o s[i] ELSE f[i]]
  <2>2. \A i \in 1..k : g[i] = IF i = 1 THEN s[i] ELSE g[i - 1] \o s[i]
    <3>1. \A i \in 1..k - 1 : g[i] = f[i]
      BY <1>0
    <3>2. g[k] = IF k = 1 THEN s[k] ELSE f[k - 1] \o s[k]
      BY <1>0
    <3>3. \A i \in 1..k - 1 : f[i] = IF i = 1 THEN s[i] ELSE f[i - 1] \o s[i]
      BY <2>1
    <3> HIDE DEF g
    <3>4. QED
      BY <1>0, <3>1, <3>2, <3>3
  <2>3. g = [i \in 1..k |-> IF i = 1 THEN s[i] ELSE g[i - 1] \o s[i]]
    <3>1. g = [i \in 1..k |-> g[i]]
      OBVIOUS
    <3> HIDE DEF g
    <3>2. QED
      BY <2>2, <3>1
  <2> HIDE DEF g
  <2>4. QED
    BY <2>3
<1> HIDE DEF Joined
<1>3. bad = {}
  <2> SUFFICES ASSUME bad # {} PROVE FALSE
    OBVIOUS
  <2>1. bad \subseteq Nat
    BY <1>0
  <2>2. PICK k \in bad : \A m \in bad : k <= m
    <3> HIDE DEF bad
    <3>1. QED
      BY <2>1, LeastNumber
  <2>3. k # 0 /\ k - 1 \notin bad
    BY <1>0, <1>1, <2>2
  <2>4. QED
    BY <1>0, <1>2, <2>2, <2>3
<1>4. Joined(n)
  BY <1>3
<1>5. QED
  BY <1>4 DEF Joined

\* The recursion of FlattenSeq.
LEMMA FlattenJoins ==
  ASSUME NEW S, NEW s \in Seq(S), Len(s) # 0
  PROVE  \E f : Joins(f, s, Len(s)) /\ FlattenSeq(s) = f[Len(s)]
<1> DEFINE f == CHOOSE g : g = [i \in 1..Len(s) |-> IF i = 1 THEN s[i] ELSE g[i - 1] \o s[i]]
<1>1. f = [i \in 1..Len(s) |-> IF i = 1 THEN s[i] ELSE f[i - 1] \o s[i]]
  <2>1. Len(s) \in 0..Len(s)
    BY LenProperties
  <2>2. \E g : g = [i \in 1..Len(s) |-> IF i = 1 THEN s[i] ELSE g[i - 1] \o s[i]]
    BY <2>1, JoinExists
  <2>3. QED
    BY <2>2, Zenon
<1>2. FlattenSeq(s) = f[Len(s)]
  BY DEF FlattenSeq
<1> HIDE DEF f
<1>3. Joins(f, s, Len(s))
  BY <1>1 DEF Joins
<1>4. QED
  BY <1>2, <1>3

\* Only one function does that.
LEMMA JoinIsOne ==
  ASSUME NEW n \in Nat, NEW s, NEW t, NEW f, NEW g,
         \A i \in 1..n : s[i] = t[i], Joins(f, s, n), Joins(g, t, n)
  PROVE  \A i \in 1..n : f[i] = g[i]
<1> DEFINE bad == {i \in 1..n : f[i] # g[i]}
<1> SUFFICES ASSUME bad # {} PROVE FALSE
  OBVIOUS
<1>0. bad \subseteq Nat
  OBVIOUS
<1>1. PICK i \in bad : \A m \in bad : i <= m
  <2> HIDE DEF bad
  <2>1. QED
    BY <1>0, LeastNumber
<1>2. f[i - 1] = g[i - 1] \/ i = 1
  BY <1>1
<1>3. QED
  BY <1>1, <1>2 DEF Joins

\* The sequences joined are a sequence.
LEMMA JoinType ==
  ASSUME NEW B, NEW n \in Nat, NEW s, \A i \in 1..n : s[i] \in Seq(B),
         NEW f, Joins(f, s, n)
  PROVE  \A i \in 1..n : f[i] \in Seq(B)
<1> DEFINE bad == {i \in 1..n : f[i] \notin Seq(B)}
<1> SUFFICES ASSUME bad # {} PROVE FALSE
  OBVIOUS
<1>0. bad \subseteq Nat
  OBVIOUS
<1>1. PICK i \in bad : \A m \in bad : i <= m
  <2> HIDE DEF bad
  <2>1. QED
    BY <1>0, LeastNumber
<1>2. f[i - 1] \in Seq(B) \/ i = 1
  BY <1>1
<1>3. f[i] = IF i = 1 THEN s[i] ELSE f[i - 1] \o s[i]
  BY <1>1 DEF Joins
<1>4. i # 1 => f[i - 1] \o s[i] \in Seq(B)
  BY <1>1, <1>2, ConcatProperties
<1>5. QED
  BY <1>1, <1>3, <1>4

\* One more sequence comes at the end of the others.
LEMMA FlattenAppend ==
  ASSUME NEW B, NEW s \in Seq(Seq(B)), NEW x \in Seq(B)
  PROVE  /\ FlattenSeq(<<>>) = <<>> /\ FlattenSeq(s) \in Seq(B)
         /\ FlattenSeq(Append(s, x)) = FlattenSeq(s) \o x
<1> DEFINE t == Append(s, x)
           n == Len(s)
<1>0. /\ n \in Nat /\ t \in Seq(Seq(B)) /\ Len(t) = n + 1
      /\ \A i \in 1..n : t[i] = s[i]
      /\ t[n + 1] = x
  BY AppendProperties, LenProperties
<1>1. FlattenSeq(<<>>) = <<>>
  BY DEF FlattenSeq
<1>2. PICK g : Joins(g, t, n + 1) /\ FlattenSeq(t) = g[n + 1]
  <2> HIDE DEF t, n
  <2>1. QED
    BY <1>0, FlattenJoins
<1> HIDE DEF t
<1>3. CASE n = 0
  <2>1. s = <<>>
    BY <1>3, EmptySeq
  <2>2. g[1] = x
    BY <1>0, <1>2, <1>3 DEF Joins
  <2>3. FlattenSeq(t) = <<>> \o x
    BY <1>2, <1>3, <2>2, ConcatEmptySeq
  <2>4. FlattenSeq(s) = <<>> /\ <<>> \in Seq(B)
    BY <1>1, <2>1
  <2>5. QED
    BY <1>1, <2>3, <2>4 DEF t
<1>4. CASE n # 0
  <2>1. PICK f : Joins(f, s, n) /\ FlattenSeq(s) = f[n]
    BY <1>4, FlattenJoins
  <2>2. Joins(g, t, n)
    <3>1. \A i \in 1..n : i \in 1..n + 1
      BY <1>0
    <3>2. QED
      BY <1>2, <3>1 DEF Joins
  <2>3. n \in 1..n /\ n + 1 \in 1..n + 1 /\ n + 1 # 1 /\ (n + 1) - 1 = n
    BY <1>0, <1>4
  <2>4. \A i \in 1..n : s[i] \in Seq(B)
    BY <1>0, ElementOfSeq
  <2>5. g[n + 1] = g[n] \o t[n + 1]
    <3>1. g[n + 1] = IF n + 1 = 1 THEN t[n + 1] ELSE g[(n + 1) - 1] \o t[n + 1]
      BY <1>2, <2>3 DEF Joins
    <3>2. QED
      BY <2>3, <3>1
  <2> HIDE DEF n
  <2>6. f[n] = g[n]
    <3>1. \A i \in 1..n : s[i] = t[i]
      BY <1>0
    <3>2. \A i \in 1..n : f[i] = g[i]
      <4>1. n \in Nat /\ Joins(f, s, n) /\ Joins(g, t, n)
        BY <1>0, <2>1, <2>2
      <4> HIDE DEF t
      <4>2. QED
        BY <4>1, <3>1, JoinIsOne
    <3>3. QED
      BY <2>3, <3>2
  <2>7. f[n] \in Seq(B)
    <3>1. \A i \in 1..n : f[i] \in Seq(B)
      BY <1>0, <2>1, <2>4, JoinType
    <3>2. QED
      BY <2>3, <3>1
  <2>8. QED
    BY <1>0, <1>1, <1>2, <2>1, <2>6, <2>5, <2>7 DEF t
<1>5. QED
  BY <1>3, <1>4
-----------------------------------------------------------------------------
\* A function on 1..n is a sequence of length n.
LEMMA FunctionIsSeq ==
  ASSUME NEW S, NEW n \in Nat, NEW f \in [1..n -> S]
  PROVE  f \in Seq(S) /\ Len(f) = n
<1>1. f \in Seq(S)
  BY SeqDef
<1>2. Len(f) \in Nat /\ 1..Len(f) = 1..n
  BY <1>1, LenProperties
<1>3. QED
  BY <1>1, <1>2

\* Where a message ends.
EndAt(m, k) == m[k] = CR /\ m[k + 1] = LF
NoEnd(m) == \A k \in 1..Len(m) - 1 : ~EndAt(m, k)

\* Two bytes that are CR LF.
LEMMA PairIsEnd ==
  ASSUME NEW m \in Seq(Byte), NEW k \in 1..Len(m) - 1
  PROVE  SubSeq(m, k, k + 1) = CRLF <=> EndAt(m, k)
<1>1. Len(m) \in Nat /\ k \in Int /\ k + 1 \in Int
  BY LenProperties
<1>2. \A i \in k..k + 1 : m[i] \in Byte
  BY <1>1, ElementOfSeq
<1>3. /\ SubSeq(m, k, k + 1) \in Seq(Byte) /\ Len(SubSeq(m, k, k + 1)) = 2
      /\ SubSeq(m, k, k + 1)[1] = m[k] /\ SubSeq(m, k, k + 1)[2] = m[k + 1]
  BY <1>1, <1>2, SubSeqProperties
<1>4. Len(CRLF) = 2 /\ CRLF[1] = CR /\ CRLF[2] = LF
  BY DEF CRLF
<1>5. ASSUME EndAt(m, k) PROVE SubSeq(m, k, k + 1) = CRLF
  <2>1. \A i \in 1..2 : SubSeq(m, k, k + 1)[i] = CRLF[i]
    BY <1>3, <1>4, <1>5 DEF EndAt
  <2>2. QED
    BY <1>3, <1>4, <2>1, LineEnd, SeqEqual
<1>6. QED
  BY <1>3, <1>4, <1>5 DEF EndAt

\* The comparison of the last two bytes.
LEMMA EndsAtEnd ==
  ASSUME NEW m \in Seq(Byte)
  PROVE  Ends(m) <=> Len(m) >= 2 /\ EndAt(m, Len(m) - 1)
<1> DEFINE n == Len(m)
           r == Reverse(m)
           c == Reverse(CRLF)
<1>1. n \in Nat /\ Len(CRLF) = 2 /\ CRLF[1] = CR /\ CRLF[2] = LF
  BY LenProperties DEF CRLF
<1>2. r = [i \in 1..n |-> m[(n - i) + 1]] /\ c = [i \in 1..2 |-> CRLF[(2 - i) + 1]]
  BY <1>1 DEF Reverse
<1>3. \A i \in 1..n : m[i] \in Byte
  BY ElementOfSeq
<1>4. r \in Seq(Byte) /\ Len(r) = n
  <2>1. \A i \in 1..n : r[i] \in Byte /\ r[i] = m[(n - i) + 1]
    BY <1>1, <1>2, <1>3
  <2>2. r \in [1..n -> Byte]
    BY <1>2, <2>1
  <2>3. QED
    BY <1>1, <2>2, FunctionIsSeq
<1>5. c = <<LF, CR>>
  BY <1>1, <1>2
<1>6. c \in Seq(Byte) /\ Len(c) = 2 /\ c[1] = LF /\ c[2] = CR
  BY <1>5, FramingAssumption
<1>7. Ends(m) <=> 2 <= n /\ SubSeq(c, 1, 2) = SubSeq(r, 1, 2)
  BY <1>4, <1>6 DEF Ends, IsSuffix, IsPrefix
<1>8. ASSUME 2 <= n PROVE r[1] = m[n] /\ r[2] = m[n - 1]
  BY <1>1, <1>2, <1>8
<1> HIDE DEF r, c, n
<1>9. SubSeq(c, 1, 2) = c
  BY <1>6, SubSeqFull
<1>10. ASSUME 2 <= n PROVE SubSeq(r, 1, 2) = c <=> r[1] = LF /\ r[2] = CR
  <2>1. /\ SubSeq(r, 1, 2) \in Seq(Byte) /\ Len(SubSeq(r, 1, 2)) = 2
        /\ \A i \in 1..2 : SubSeq(r, 1, 2)[i] = r[i]
    <3>1. \A i \in 1..2 : r[i] \in Byte
      BY <1>1, <1>4, <1>10, ElementOfSeq
    <3>2. QED
      BY <3>1, SubSeqProperties
  <2>2. ASSUME r[1] = LF, r[2] = CR PROVE SubSeq(r, 1, 2) = c
    <3>1. \A i \in 1..2 : SubSeq(r, 1, 2)[i] = c[i]
      BY <1>6, <2>1, <2>2
    <3>2. QED
      BY <1>6, <2>1, <3>1, SeqEqual
  <2>3. QED
    BY <1>6, <2>1, <2>2
<1>11. QED
  BY <1>1, <1>7, <1>8, <1>9, <1>10 DEF EndAt, n

\* One end, byte by byte.
LEMMA OneEndBytes ==
  ASSUME NEW m \in Seq(Byte)
  PROVE  OneEnd(m) <=> Len(m) >= 2 /\ \A k \in 1..Len(m) - 1 : EndAt(m, k) <=> k = Len(m) - 1
BY PairIsEnd DEF OneEnd

\* A byte more: the message ends with it, is too long, or goes on.
LEMMA ByteMore ==
  ASSUME NEW m \in Seq(Byte), NoEnd(m), Len(m) <= MaxSize, NEW b \in Byte
  PROVE  LET bytes == Append(m, b)
             cut   == bytes \o CRLF
         IN  /\ bytes \in Seq(Byte) /\ cut \in Seq(Byte) /\ Len(bytes) = Len(m) + 1
             /\ Ends(bytes) => OneEnd(bytes) /\ FromStream(bytes) = bytes
             /\ ~Ends(bytes) => NoEnd(bytes)
             /\ ~Ends(bytes) /\ Len(bytes) > MaxSize =>
                  OneEnd(cut) /\ FromStream(cut) = bytes
<1> DEFINE bytes == Append(m, b)
           cut   == bytes \o CRLF
           n     == Len(m)
<1>0. n \in Nat /\ MaxSize \in Nat /\ Len(CRLF) = 2 /\ CRLF[1] = CR /\ CRLF[2] = LF
  BY LenProperties, FramingAssumption DEF CRLF
<1>1. /\ bytes \in Seq(Byte) /\ Len(bytes) = n + 1
      /\ \A i \in 1..n : bytes[i] = m[i]
  BY AppendProperties
<1> HIDE DEF bytes
<1>2. /\ cut \in Seq(Byte) /\ Len(cut) = n + 3
      /\ \A i \in 1..n + 1 : cut[i] = bytes[i]
      /\ cut[n + 2] = CR /\ cut[n + 3] = LF
  <2>1. /\ cut \in Seq(Byte) /\ Len(cut) = Len(bytes) + Len(CRLF)
        /\ \A i \in 1..Len(bytes) + Len(CRLF) :
             cut[i] = IF i <= Len(bytes) THEN bytes[i] ELSE CRLF[i - Len(bytes)]
    BY <1>1, LineEnd, ConcatProperties
  <2> HIDE DEF cut
  <2>2. (n + 2) - (n + 1) = 1 /\ (n + 3) - (n + 1) = 2 /\ (n + 1) + 2 = n + 3
    BY <1>0
  <2>3. QED
    BY <1>0, <1>1, <2>1, <2>2
<1> HIDE DEF cut
<1>3. \A k \in 1..n - 1 : ~EndAt(bytes, k)
  BY <1>0, <1>1 DEF NoEnd, EndAt
<1>4. Ends(bytes) <=> n >= 1 /\ EndAt(bytes, n)
  <2>1. Len(bytes) - 1 = n /\ (Len(bytes) >= 2 <=> n >= 1)
    BY <1>0, <1>1
  <2>2. QED
    BY <1>1, <2>1, EndsAtEnd
<1>5. ASSUME Ends(bytes) PROVE OneEnd(bytes) /\ FromStream(bytes) = bytes
  <2>1. OneEnd(bytes)
    BY <1>0, <1>1, <1>3, <1>4, <1>5, OneEndBytes
  <2>2. ~(Len(bytes) > MaxSize + 1)
    BY <1>0, <1>1
  <2>3. QED
    BY <1>1, <2>1, <2>2, SubSeqFull DEF FromStream
<1>6. ~Ends(bytes) => NoEnd(bytes)
  BY <1>0, <1>1, <1>3, <1>4 DEF NoEnd
<1>7. ASSUME ~Ends(bytes), Len(bytes) > MaxSize PROVE OneEnd(cut) /\ FromStream(cut) = bytes
  <2>1. \A k \in 1..n + 2 : EndAt(cut, k) <=> k = n + 2
    <3>1. \A k \in 1..n : ~EndAt(cut, k)
      BY <1>0, <1>1, <1>2, <1>3, <1>4, <1>7 DEF EndAt
    <3>2. ~EndAt(cut, n + 1) /\ EndAt(cut, n + 2)
      <4>1. (n + 1) + 1 = n + 2 /\ (n + 2) + 1 = n + 3 /\ CR # LF
        BY <1>0 DEF CR, LF
      <4>2. QED
        BY <1>2, <4>1 DEF EndAt
    <3>3. QED
      BY <1>0, <3>1, <3>2
  <2>2. OneEnd(cut)
    <3>1. Len(cut) >= 2 /\ Len(cut) - 1 = n + 2
      BY <1>0, <1>2
    <3>2. \A k \in 1..Len(cut) - 1 : EndAt(cut, k) <=> k = Len(cut) - 1
      BY <2>1, <3>1
    <3>3. QED
      BY <1>2, <3>1, <3>2, OneEndBytes
  <2>3. MaxSize + 1 = n + 1 /\ Len(cut) > MaxSize + 1
    BY <1>0, <1>1, <1>2, <1>7
  <2>4. FromStream(cut) = SubSeq(cut, 1, n + 1)
    BY <2>3 DEF FromStream
  <2>5. SubSeq(cut, 1, n + 1) = bytes
    <3>1. \A i \in 1..n + 1 : cut[i] \in Byte
      BY <1>0, <1>2, ElementOfSeq
    <3>2. /\ SubSeq(cut, 1, n + 1) \in Seq(Byte) /\ Len(SubSeq(cut, 1, n + 1)) = n + 1
          /\ \A i \in 1..n + 1 : SubSeq(cut, 1, n + 1)[i] = cut[i]
      BY <1>0, <3>1, SubSeqProperties
    <3>3. QED
      BY <1>0, <1>1, <1>2, <3>2, SeqEqual
  <2>6. QED
    BY <2>2, <2>4, <2>5
<1>8. QED
  BY <1>1, <1>2, <1>5, <1>6, <1>7 DEF bytes, cut

-----------------------------------------------------------------------------
\* The messages as they were in the stream, one after the other.
Cuts(ms) == [i \in DOMAIN ms |-> FromStream(ms[i])]
Joined(ms) == FlattenSeq(Cuts(ms))

\* What is read of the stream has been cut into messages, and the rest has no end.
CutInv ==
  /\ Len(message) <= MaxSize /\ NoEnd(message)
  /\ StreamCut
  /\ stream \in Seq(Byte)

\* A message taken from the stream is made of its bytes.
LEMMA FromStreamType ==
  ASSUME NEW m \in Seq(Byte)
  PROVE  FromStream(m) \in Seq(Byte)
<1> DEFINE n == IF Len(m) > MaxSize + 1 THEN MaxSize + 1 ELSE Len(m)
<1>1. Len(m) \in Nat /\ MaxSize \in Nat
  BY LenProperties, FramingAssumption
<1>2. \A i \in 1..n : m[i] \in Byte
  BY <1>1, ElementOfSeq
<1>3. n \in Int
  BY <1>1
<1> HIDE DEF n
<1>4. SubSeq(m, 1, n) \in Seq(Byte)
  BY <1>2, <1>3, SubSeqProperties
<1>5. QED
  BY <1>4 DEF FromStream, n

\* One message more.
LEMMA JoinedAppend ==
  ASSUME NEW ms \in Seq(Seq(Byte)), NEW m \in Seq(Byte)
  PROVE  /\ Joined(ms) \in Seq(Byte)
         /\ Joined(Append(ms, m)) = Joined(ms) \o FromStream(m)
<1> DEFINE t == Append(ms, m)
<1>1. /\ Len(ms) \in Nat /\ DOMAIN ms = 1..Len(ms)
      /\ \A i \in 1..Len(ms) : ms[i] \in Seq(Byte)
  BY LenProperties, ElementOfSeq
<1>2. /\ t \in Seq(Seq(Byte)) /\ Len(t) = Len(ms) + 1 /\ DOMAIN t = 1..Len(ms) + 1
      /\ \A i \in 1..Len(ms) : t[i] = ms[i]
      /\ t[Len(ms) + 1] = m
  <2>1. t \in Seq(Seq(Byte)) /\ Len(t) = Len(ms) + 1
    BY AppendProperties
  <2>2. DOMAIN t = 1..Len(t)
    BY <2>1, LenProperties
  <2>3. QED
    BY <2>1, <2>2, AppendProperties
<1> HIDE DEF t
<1>3. Cuts(ms) \in Seq(Seq(Byte)) /\ Len(Cuts(ms)) = Len(ms)
  <2>1. Cuts(ms) \in [1..Len(ms) -> Seq(Byte)]
    BY <1>1, FromStreamType DEF Cuts
  <2>2. QED
    BY <1>1, <2>1, FunctionIsSeq
<1>4. FromStream(m) \in Seq(Byte)
  BY FromStreamType
<1>5. Cuts(t) = Append(Cuts(ms), FromStream(m))
  <2> DEFINE a == Append(Cuts(ms), FromStream(m))
  <2>1. /\ a \in Seq(Seq(Byte)) /\ Len(a) = Len(ms) + 1
        /\ \A i \in 1..Len(ms) : a[i] = Cuts(ms)[i]
        /\ a[Len(ms) + 1] = FromStream(m)
    BY <1>3, <1>4, AppendProperties
  <2> HIDE DEF a
  <2>2. Cuts(t) \in [1..Len(ms) + 1 -> Seq(Byte)]
    <3>1. \A i \in 1..Len(ms) + 1 : t[i] \in Seq(Byte)
      BY <1>2, ElementOfSeq
    <3>2. QED
      BY <1>2, <3>1, FromStreamType DEF Cuts
  <2>3. Cuts(t) \in Seq(Seq(Byte)) /\ Len(Cuts(t)) = Len(ms) + 1
    BY <1>1, <2>2, FunctionIsSeq
  <2>4. \A i \in 1..Len(ms) + 1 : Cuts(t)[i] = a[i]
    <3>1. \A i \in 1..Len(ms) : Cuts(t)[i] = a[i]
      BY <1>1, <1>2, <2>1 DEF Cuts
    <3>2. Cuts(t)[Len(ms) + 1] = a[Len(ms) + 1]
      BY <1>1, <1>2, <2>1 DEF Cuts
    <3>3. ASSUME NEW i \in 1..Len(ms) + 1 PROVE i \in 1..Len(ms) \/ i = Len(ms) + 1
      BY <1>1
    <3>4. QED
      BY <3>1, <3>2, <3>3, Zenon
  <2>5. Cuts(t) = a
    BY <2>1, <2>3, <2>4, SeqEqual
  <2>6. QED
    BY <2>5 DEF a
<1>6. /\ FlattenSeq(Cuts(ms)) \in Seq(Byte)
      /\ FlattenSeq(Append(Cuts(ms), FromStream(m))) = FlattenSeq(Cuts(ms)) \o FromStream(m)
  BY <1>3, <1>4, FlattenAppend
<1>7. QED
  BY <1>5, <1>6 DEF Joined, t

\* Bytes may be joined in either order.
LEMMA BytesAssociate ==
  \A a \in Seq(Byte), b \in Seq(Byte), c \in Seq(Byte) : (a \o b) \o c = a \o (b \o c)
BY ConcatAssociative

\* The first byte and the others.
LEMMA HeadAndTail ==
  ASSUME NEW p \in Seq(Byte), p # <<>>
  PROVE  p = <<Head(p)>> \o Tail(p)
<1>1. /\ Head(p) \in Byte /\ Tail(p) \in Seq(Byte) /\ Len(p) \in Nat \ {0}
      /\ Len(Tail(p)) = Len(p) - 1 /\ \A i \in 1..Len(p) - 1 : Tail(p)[i] = p[i + 1]
      /\ Head(p) = p[1]
  BY HeadTailProperties, EmptySeq
<1> DEFINE h == <<Head(p)>>
<1>2. h \in Seq(Byte) /\ Len(h) = 1 /\ h[1] = p[1]
  BY <1>1
<1> HIDE DEF h
<1>3. /\ h \o Tail(p) \in Seq(Byte) /\ Len(h \o Tail(p)) = Len(p)
      /\ \A i \in 1..Len(p) : (h \o Tail(p))[i] = IF i <= 1 THEN h[i] ELSE Tail(p)[i - 1]
  <2>1. /\ h \o Tail(p) \in Seq(Byte) /\ Len(h \o Tail(p)) = Len(h) + Len(Tail(p))
        /\ \A i \in 1..Len(h) + Len(Tail(p)) :
             (h \o Tail(p))[i] = IF i <= Len(h) THEN h[i] ELSE Tail(p)[i - Len(h)]
    BY <1>1, <1>2, ConcatProperties, ZenonT(40)
  <2>2. QED
    BY <1>1, <1>2, <2>1
<1>4. \A i \in 1..Len(p) : (h \o Tail(p))[i] = p[i]
  BY <1>1, <1>2, <1>3
<1>5. p = h \o Tail(p)
  BY <1>3, <1>4, SeqEqual
<1>6. QED
  BY <1>5 DEF h

\* A byte goes from the rest to the message.
LEMMA ByteMoves ==
  ASSUME NEW a \in Seq(Byte), NEW m \in Seq(Byte), NEW b \in Byte, NEW t \in Seq(Byte)
  PROVE  a \o m \o (<<b>> \o t) = a \o Append(m, b) \o t
<1> DEFINE h == <<b>>
<1>1. h \in Seq(Byte) /\ Append(m, b) = m \o h
  BY AppendIsConcat
<1> HIDE DEF h
<1>2. a \o m \in Seq(Byte)
  BY ConcatProperties
<1>3. (a \o m) \o (h \o t) = ((a \o m) \o h) \o t
  BY <1>1, <1>2, BytesAssociate
<1>4. (a \o m) \o h = a \o (m \o h)
  BY <1>1, BytesAssociate
<1>5. QED
  BY <1>1, <1>3, <1>4 DEF h

\* Bytes are added at one end of the pipe and cut off at the other.
LEMMA CutStep == BytesOK /\ CutInv /\ [Next]_vars => CutInv'
<1> SUFFICES ASSUME BytesOK, CutInv, [Next]_vars PROVE CutInv'
  OBVIOUS
<1>0. /\ received \in Seq(Seq(Byte)) /\ message \in Seq(Byte) /\ pipe \in Seq(Byte)
      /\ stream \in Seq(Byte) /\ Joined(received) \in Seq(Byte) /\ MaxSize \in Nat
      /\ Joined(received) \o message \o pipe = stream
      /\ \A i \in DOMAIN received : OneEnd(received[i])
  <2>1. received \in Seq(Seq(Byte)) /\ <<>> \in Seq(Byte)
    BY DEF BytesOK
  <2>2. QED
    BY <2>1, JoinedAppend, FramingAssumption DEF BytesOK, CutInv, StreamCut, Joined, Cuts
<1>1. ASSUME UNCHANGED <<message, received, pipe, stream>> PROVE CutInv'
  BY <1>1 DEF CutInv, StreamCut, NoEnd
<1>2. ASSUME NEW w \in Writers, Writes(w) PROVE CutInv'
  <2>1. PICK n \in 1..Len(left[w]) :
          /\ pipe' = pipe \o SubSeq(left[w], 1, n)
          /\ stream' = stream \o SubSeq(left[w], 1, n)
    BY <1>2 DEF Writes
  <2> DEFINE s == SubSeq(left[w], 1, n)
  <2>2. s \in Seq(Byte)
    <3>1. left[w] \in Seq(Byte) /\ Len(left[w]) \in Nat
      BY LenProperties DEF BytesOK
    <3>2. \A i \in 1..n : left[w][i] \in Byte
      BY <3>1, ElementOfSeq
    <3>3. QED
      BY <3>1, <3>2, SubSeqProperties
  <2>3. pipe' = pipe \o s /\ stream' = stream \o s
    BY <2>1
  <2> HIDE DEF s
  <2>4. UNCHANGED <<message, received>>
    BY <1>2 DEF Writes, reader
  <2>5. Joined(received) \o message \in Seq(Byte)
    BY <1>0, ConcatProperties
  <2>6. Joined(received) \o message \o (pipe \o s) = stream \o s
    BY <1>0, <2>2, <2>5, BytesAssociate, ZenonT(40)
  <2>7. stream' \in Seq(Byte)
    BY <1>0, <2>2, <2>3, ConcatProperties
  <2>8. QED
    BY <1>0, <2>3, <2>4, <2>6, <2>7 DEF CutInv, StreamCut, NoEnd, Joined, Cuts
<1>3. CASE Reads
  <2> DEFINE b     == Head(pipe)
             bytes == Append(message, b)
             cut   == bytes \o CRLF
             m     == IF Ends(bytes) THEN bytes ELSE cut
  <2>1. b \in Byte /\ Tail(pipe) \in Seq(Byte) /\ pipe # <<>>
    BY <1>0, <1>3, HeadTailProperties DEF Reads
  <2>2. NoEnd(message) /\ Len(message) <= MaxSize /\ Len(message) \in Nat
    BY <1>0, LenProperties DEF CutInv
  <2>3. Joined(received) \o bytes \o Tail(pipe) = stream
    <3>1. pipe = <<b>> \o Tail(pipe)
      BY <1>0, <2>1, HeadAndTail
    <3>2. Joined(received) \o message \o (<<b>> \o Tail(pipe))
            = Joined(received) \o bytes \o Tail(pipe)
      <4> DEFINE j == Joined(received)
                 t == Tail(pipe)
      <4>1. j \in Seq(Byte) /\ message \in Seq(Byte) /\ t \in Seq(Byte) /\ b \in Byte
        BY <1>0, <2>1
      <4> HIDE DEF b, j, t
      <4>2. j \o message \o (<<b>> \o t) = j \o Append(message, b) \o t
        BY <4>1, ByteMoves, ZenonT(40)
      <4>3. QED
        BY <4>2 DEF j, t
    <3>3. QED
      BY <1>0, <3>1, <3>2
  <2>4. pipe' = Tail(pipe) /\ stream' = stream
    BY <1>3 DEF Reads, senders
  <2>5. /\ bytes \in Seq(Byte) /\ cut \in Seq(Byte) /\ Len(bytes) = Len(message) + 1
        /\ Ends(bytes) => OneEnd(bytes) /\ FromStream(bytes) = bytes
        /\ ~Ends(bytes) => NoEnd(bytes)
        /\ ~Ends(bytes) /\ Len(bytes) > MaxSize => OneEnd(cut) /\ FromStream(cut) = bytes
    <3> HIDE DEF b
    <3>1. QED
      BY <1>0, <2>1, <2>2, ByteMore
  <2>6. \/ /\ Ends(bytes) \/ Len(bytes) > MaxSize
           /\ received' = Append(received, m) /\ message' = <<>>
        \/ /\ ~(Ends(bytes) \/ Len(bytes) > MaxSize)
           /\ message' = bytes /\ received' = received
    BY <1>3 DEF Reads
  <2> HIDE DEF bytes, cut
  <2>7. CASE ~(Ends(bytes) \/ Len(bytes) > MaxSize)
    <3>1. NoEnd(bytes) /\ Len(bytes) <= MaxSize /\ message' = bytes /\ received' = received
      BY <1>0, <2>2, <2>5, <2>6, <2>7
    <3>2. NoEnd(message') /\ Len(message') <= MaxSize
      BY <3>1
    <3>3. QED
      BY <1>0, <2>3, <2>4, <3>1, <3>2 DEF CutInv, StreamCut, NoEnd, Joined, Cuts
  <2>8. CASE Ends(bytes) \/ Len(bytes) > MaxSize
    <3>1. received' = Append(received, m) /\ message' = <<>>
      BY <2>6, <2>8
    <3>2. m \in Seq(Byte) /\ OneEnd(m) /\ FromStream(m) = bytes
      BY <2>5, <2>8
    <3> HIDE DEF m
    <3>3. Joined(received') = Joined(received) \o bytes
      BY <1>0, <3>1, <3>2, JoinedAppend
    <3>4. (Joined(received) \o bytes) \o <<>> = Joined(received) \o bytes
      <4>1. Joined(received) \o bytes \in Seq(Byte)
        BY <1>0, <2>5, ConcatProperties
      <4>2. QED
        BY <4>1, ConcatEmptySeq
    <3>5. Joined(received') \o message' \o pipe' = stream'
      BY <2>3, <2>4, <3>1, <3>3, <3>4
    <3>6. \A i \in DOMAIN received' : OneEnd(received'[i])
      <4>1. /\ Len(received) \in Nat /\ DOMAIN received = 1..Len(received)
            /\ received' \in Seq(Seq(Byte)) /\ Len(received') = Len(received) + 1
            /\ \A i \in 1..Len(received) : received'[i] = received[i]
            /\ received'[Len(received) + 1] = m
        BY <1>0, <3>1, <3>2, AppendProperties, LenProperties
      <4>2. DOMAIN received' = 1..Len(received) + 1
        BY <4>1, LenProperties
      <4>3. \A i \in 1..Len(received) : OneEnd(received'[i])
        BY <1>0, <4>1
      <4>4. OneEnd(received'[Len(received) + 1])
        BY <3>2, <4>1
      <4>5. QED
        BY <4>1, <4>2, <4>3, <4>4
    <3>7. NoEnd(<<>>) /\ Len(<<>>) <= MaxSize
      BY <1>0 DEF NoEnd
    <3>8. NoEnd(message') /\ Len(message') <= MaxSize
      BY <3>1, <3>7
    <3>9. QED
      BY <1>0, <2>4, <3>5, <3>6, <3>8 DEF CutInv, StreamCut, Joined, Cuts
  <2>9. QED
    BY <2>7, <2>8
<1>4. CASE ~Reads /\ \A w \in Writers : ~Writes(w)
  BY <1>1, <1>4 DEF Next, Sends, WaitsFor, Retries, Tick, PollTimesOut, PollReturns,
     ReadsNothing, ReadsEnd, reader, senders, vars
<1>5. QED
  BY <1>2, <1>3, <1>4

\* At first nothing is on the way.
LEMMA CutInit == Init => CutInv
<1> SUFFICES ASSUME Init PROVE CutInv
  OBVIOUS
<1>1. received = <<>> /\ message = <<>> /\ pipe = <<>> /\ stream = <<>> /\ MaxSize \in Nat
  BY FramingAssumption DEF Init
<1>2. Cuts(<<>>) = <<>>
  BY DEF Cuts
<1>3. Joined(<<>>) = <<>>
  BY <1>2, <<>> \in Seq(Seq(Byte)), <<>> \in Seq(Byte), FlattenAppend DEF Joined
<1>4. <<>> \o <<>> \o <<>> = <<>>
  OBVIOUS
<1>5. StreamCut
  BY <1>1, <1>3, <1>4 DEF StreamCut, Joined, Cuts
<1>6. QED
  BY <1>1, <1>5 DEF CutInv, NoEnd

\* Whatever the bytes, the writers and the pieces, no byte is lost, doubled or moved,
\* and every message that recvMessage returns has one CR LF, at its end.
THEOREM StreamAlwaysCut == Spec => []StreamCut
<1>1. Init => BytesOK /\ CutInv
  BY BytesInit, CutInit
<1>2. BytesOK /\ CutInv /\ [Next]_vars => (BytesOK /\ CutInv)'
  BY BytesStep, CutStep
<1>3. CutInv => StreamCut
  BY DEF CutInv
<1>4. QED
  BY <1>1, <1>2, <1>3, PTL DEF Spec
-----------------------------------------------------------------------------
\* The messages sent so far.
Sent == [i \in DOMAIN order |-> order[i].line]

\* One thread alone has sent them.
Alone == \A i, j \in DOMAIN order : order[i].by = order[j].by

\* The condition of MessagesWhole: messages are proper, and cannot mix.
Calm == (\A i \in DOMAIN order : Proper(order[i].line)) /\ (blocks = 0 \/ Alone)

\* A thread that is in the middle of a message has begun it, and keeps the lock
\* unless a write has waited.
SendersInv ==
  /\ order \in Seq([by : Writers, line : Seq(Byte)]) /\ blocks \in Nat
  /\ \A w \in Writers : left[w] # <<>> =>
       /\ \E i \in DOMAIN order : order[i].by = w
       /\ blocks = 0 => mtx = w

\* The bytes still to be written belong to one message, and what has been read is
\* what has been sent.
WholeInv ==
  Calm =>
    /\ \E rest \in Seq(Byte) :
         /\ stream \o rest = FlattenSeq(Sent)
         /\ \A w \in Writers : left[w] # <<>> => rest = left[w]
         /\ (\A w \in Writers : left[w] = <<>>) => rest = <<>>
    /\ Len(received) <= Len(order)
    /\ \A i \in 1..Len(received) : received[i] = order[i].line

\* What comes after the same beginning is the same.
LEMMA BytesCancel ==
  ASSUME NEW a \in Seq(Byte), NEW b \in Seq(Byte), NEW c \in Seq(Byte), a \o b = a \o c
  PROVE  b = c
<1>1. /\ Len(a) \in Nat /\ Len(b) \in Nat /\ Len(c) \in Nat
      /\ Len(a \o b) = Len(a) + Len(b) /\ Len(a \o c) = Len(a) + Len(c)
      /\ \A i \in 1..Len(a) + Len(b) :
           (a \o b)[i] = IF i <= Len(a) THEN a[i] ELSE b[i - Len(a)]
      /\ \A i \in 1..Len(a) + Len(c) :
           (a \o c)[i] = IF i <= Len(a) THEN a[i] ELSE c[i - Len(a)]
  BY LenProperties, ConcatProperties
<1>2. Len(b) = Len(c)
  BY <1>1
<1>3. ASSUME NEW i \in 1..Len(b) PROVE b[i] = c[i]
  <2>1. /\ Len(a) + i \in 1..Len(a) + Len(b) /\ ~(Len(a) + i <= Len(a))
        /\ (Len(a) + i) - Len(a) = i
    BY <1>1
  <2>2. (a \o b)[Len(a) + i] = b[i] /\ (a \o c)[Len(a) + i] = c[i]
    BY <1>1, <1>2, <2>1
  <2>3. QED
    BY <2>2
<1>4. QED
  BY <1>2, <1>3, SeqEqual

\* What is joined so far is the beginning of what is joined in the end.
LEMMA FlattenPrefix ==
  ASSUME NEW B, NEW s \in Seq(Seq(B)), NEW n \in 0..Len(s)
  PROVE  \E u \in Seq(B) : FlattenSeq(s) = FlattenSeq(SubSeq(s, 1, n)) \o u
<1> DEFINE First(k) == SubSeq(s, 1, k)
           Begins(k) == \E u \in Seq(B) : FlattenSeq(First(k)) = FlattenSeq(First(n)) \o u
           bad == {k \in n..Len(s) : ~Begins(k)}
<1>0. Len(s) \in Nat /\ n \in Nat /\ n <= Len(s)
  BY LenProperties
<1>1. ASSUME NEW k \in 0..Len(s)
      PROVE  First(k) \in Seq(Seq(B)) /\ FlattenSeq(First(k)) \in Seq(B)
  <2>1. \A i \in 1..k : s[i] \in Seq(B)
    BY <1>0, ElementOfSeq
  <2>2. First(k) \in Seq(Seq(B))
    BY <1>0, <2>1, SubSeqProperties
  <2>3. <<>> \in Seq(B)
    OBVIOUS
  <2> HIDE DEF First
  <2>4. QED
    BY <2>2, <2>3, FlattenAppend
<1>2. ASSUME NEW k \in 1..Len(s)
      PROVE  First(k) = Append(First(k - 1), s[k])
  <2>1. First(k) = First(k - 1) \o <<s[k]>>
    BY <1>0, SubSeqRecursiveSecond
  <2>2. s[k] \in Seq(B)
    BY <1>0, ElementOfSeq
  <2>3. First(k - 1) \in Seq(Seq(B))
    BY <1>0, <1>1
  <2> HIDE DEF First
  <2>4. QED
    BY <2>1, <2>2, <2>3, AppendIsConcat
<1> HIDE DEF First
<1>3. Begins(n)
  <2>1. FlattenSeq(First(n)) = FlattenSeq(First(n)) \o <<>>
    BY <1>1, ConcatEmptySeq
  <2>2. <<>> \in Seq(B)
    OBVIOUS
  <2>3. QED
    BY <2>1, <2>2
<1>4. ASSUME NEW k \in n + 1..Len(s), Begins(k - 1) PROVE Begins(k)
  <2>1. PICK u \in Seq(B) : FlattenSeq(First(k - 1)) = FlattenSeq(First(n)) \o u
    BY <1>4
  <2>2. /\ k \in 1..Len(s) /\ k - 1 \in 0..Len(s) /\ s[k] \in Seq(B)
    BY <1>0, ElementOfSeq
  <2> DEFINE x == s[k]
             f == FlattenSeq(First(n))
  <2>3. FlattenSeq(First(k)) = FlattenSeq(First(k - 1)) \o x
    BY <1>1, <1>2, <2>2, FlattenAppend
  <2>4. x \in Seq(B) /\ f \in Seq(B)
    BY <1>1, <2>2
  <2>5. FlattenSeq(First(k)) = (f \o u) \o x
    BY <2>1, <2>3
  <2> HIDE DEF x, f
  <2>6. u \o x \in Seq(B) /\ (f \o u) \o x = f \o (u \o x)
    BY <2>4, ConcatProperties, ConcatAssociative, SMTT(30)
  <2>7. QED
    BY <2>5, <2>6 DEF f
<1> HIDE DEF Begins
<1>5. bad = {}
  <2> SUFFICES ASSUME bad # {} PROVE FALSE
    OBVIOUS
  <2>1. bad \subseteq Nat
    BY <1>0
  <2>2. PICK k \in bad : \A m \in bad : k <= m
    <3> HIDE DEF bad
    <3>1. QED
      BY <2>1, LeastNumber
  <2>3. k # n /\ k - 1 \notin bad
    BY <1>0, <1>3, <2>2
  <2>4. QED
    BY <1>0, <1>4, <2>2, <2>3
<1>6. Begins(Len(s))
  BY <1>0, <1>5
<1>7. First(Len(s)) = s
  BY SubSeqFull DEF First
<1>8. QED
  BY <1>6, <1>7 DEF Begins, First

\* Reading a byte of messages that are proper: it ends the next one, or the next
\* one goes on.
LEMMA NextMessage ==
  ASSUME NEW s \in Seq(Seq(Byte)), \A i \in 1..Len(s) : Proper(s[i]),
         NEW n \in 0..Len(s), NEW m \in Seq(Byte), NoEnd(m), NEW b \in Byte,
         NEW t \in Seq(Byte),
         FlattenSeq(SubSeq(s, 1, n)) \o (Append(m, b) \o t) = FlattenSeq(s)
  PROVE  /\ Ends(Append(m, b)) => n < Len(s) /\ Append(m, b) = s[n + 1]
         /\ ~Ends(Append(m, b)) => Len(Append(m, b)) <= MaxSize
<1> DEFINE bytes == Append(m, b)
           r == SubSeq(s, 1, n)
           f == FlattenSeq(r)
           x == s[n + 1]
<1>0. Len(s) \in Nat /\ n \in Nat /\ n <= Len(s) /\ Len(m) \in Nat /\ MaxSize \in Nat
  BY LenProperties, FramingAssumption
<1>1. /\ bytes \in Seq(Byte) /\ Len(bytes) = Len(m) + 1
      /\ \A i \in 1..Len(m) : bytes[i] = m[i]
  BY AppendProperties
<1>2. r \in Seq(Seq(Byte)) /\ f \in Seq(Byte)
  <2>1. \A i \in 1..n : s[i] \in Seq(Byte)
    BY <1>0, ElementOfSeq
  <2>2. r \in Seq(Seq(Byte)) /\ <<>> \in Seq(Byte)
    BY <1>0, <2>1, SubSeqProperties
  <2> HIDE DEF r
  <2>3. QED
    BY <2>2, FlattenAppend
<1>3. f \o (bytes \o t) = FlattenSeq(s)
  OBVIOUS
<1> HIDE DEF bytes
<1>4. bytes \o t \in Seq(Byte) /\ Len(bytes \o t) >= Len(bytes)
      /\ \A i \in 1..Len(bytes) : (bytes \o t)[i] = bytes[i]
  <2>1. Len(t) \in Nat /\ Len(bytes) \in Nat
    BY <1>1, LenProperties
  <2>2. QED
    BY <1>1, <2>1, ConcatProperties
<1>5. n < Len(s)
  <2> SUFFICES ASSUME n = Len(s) PROVE FALSE
    BY <1>0
  <2>1. r = s
    BY SubSeqFull
  <2>2. f \o (bytes \o t) = f
    BY <1>3, <2>1
  <2> HIDE DEF f
  <2>3. bytes \o t = <<>>
    BY <1>2, <1>4, <2>2, ConcatEqualIffEmpty
  <2>4. QED
    BY <1>0, <1>1, <1>4, <2>3
<1>6. PICK u \in Seq(Byte) : bytes \o t = x \o u
  <2>1. n + 1 \in 1..Len(s)
    BY <1>0, <1>5
  <2>2. x \in Seq(Byte)
    BY <2>1, ElementOfSeq
  <2>3. SubSeq(s, 1, n + 1) = Append(r, x)
    <3>1. SubSeq(s, 1, n + 1) = SubSeq(s, 1, (n + 1) - 1) \o <<x>>
      BY <1>0, <2>1, SubSeqRecursiveSecond
    <3>2. (n + 1) - 1 = n
      BY <1>0
    <3>3. SubSeq(s, 1, n + 1) = r \o <<x>>
      BY <3>1, <3>2
    <3> HIDE DEF r, x
    <3>4. QED
      BY <1>2, <2>2, <3>3, AppendIsConcat
  <2>4. FlattenSeq(Append(r, x)) = f \o x
    <3> HIDE DEF r, x
    <3>1. QED
      BY <1>2, <2>2, FlattenAppend
  <2>5. PICK u \in Seq(Byte) : FlattenSeq(s) = FlattenSeq(SubSeq(s, 1, n + 1)) \o u
    <3>1. n + 1 \in 0..Len(s)
      BY <1>0, <1>5
    <3>2. QED
      BY <3>1, FlattenPrefix
  <2>6. FlattenSeq(s) = (f \o x) \o u
    BY <2>3, <2>4, <2>5
  <2> HIDE DEF f, x
  <2>7. (f \o x) \o u = f \o (x \o u) /\ x \o u \in Seq(Byte)
    <3>1. f \in Seq(Byte) /\ x \in Seq(Byte)
      BY <1>2, <2>2
    <3>2. (f \o x) \o u = f \o (x \o u)
      BY <3>1, BytesAssociate, ZenonT(40)
    <3>3. x \o u \in Seq(Byte)
      BY <3>1, ConcatProperties
    <3>4. QED
      BY <3>2, <3>3
  <2>8. f \o (bytes \o t) = f \o (x \o u)
    BY <1>3, <2>6, <2>7
  <2>9. bytes \o t = x \o u
    <3> DEFINE c == bytes \o t
               d == x \o u
    <3>1. f \in Seq(Byte) /\ c \in Seq(Byte) /\ d \in Seq(Byte) /\ f \o c = f \o d
      BY <1>2, <1>4, <2>7, <2>8
    <3> HIDE DEF c, d
    <3>2. c = d
      BY <3>1, BytesCancel
    <3>3. QED
      BY <3>2 DEF c, d
  <2>10. QED
    BY <2>9 DEF x
<1>7. x \in Seq(Byte) /\ Proper(x)
  <2>1. n + 1 \in 1..Len(s)
    BY <1>0, <1>5
  <2>2. QED
    BY <2>1, ElementOfSeq
<1> HIDE DEF x
<1>8. /\ Len(x) \in Nat /\ Len(x) >= 2 /\ Len(x) <= MaxSize + 1
      /\ \A k \in 1..Len(x) - 1 : EndAt(x, k) <=> k = Len(x) - 1
  BY <1>7, OneEndBytes, LenProperties DEF Proper
<1>9. \A i \in 1..Len(x) : i <= Len(bytes) => bytes[i] = x[i]
  <2>1. Len(u) \in Nat
    BY LenProperties
  <2>2. \A i \in 1..Len(x) : (x \o u)[i] = x[i]
    BY <1>7, <1>8, <2>1, ConcatProperties
  <2>3. QED
    BY <1>0, <1>1, <1>4, <1>6, <1>8, <2>2
<1>10. Len(m) < Len(x)
  <2> SUFFICES ASSUME Len(m) >= Len(x) PROVE FALSE
    BY <1>0, <1>8
  <2>1. ASSUME NEW i \in 1..Len(x) PROVE m[i] = x[i]
    <3>1. i \in 1..Len(m) /\ i <= Len(bytes)
      BY <1>0, <1>1, <1>8
    <3>2. bytes[i] = m[i]
      BY <1>1, <3>1
    <3>3. bytes[i] = x[i]
      BY <1>9, <3>1
    <3>4. QED
      BY <3>2, <3>3
  <2>2. EndAt(x, Len(x) - 1) /\ Len(x) - 1 \in 1..Len(x) /\ (Len(x) - 1) + 1 \in 1..Len(x)
    BY <1>8
  <2>3. EndAt(m, Len(x) - 1)
    BY <2>2, <2>1 DEF EndAt
  <2>4. QED
    BY <1>0, <1>8, <2>3 DEF NoEnd
<1>11. Ends(bytes) <=> Len(bytes) >= 2 /\ EndAt(bytes, Len(bytes) - 1)
  BY <1>1, EndsAtEnd
<1>12. Len(bytes) >= 2 => (EndAt(bytes, Len(bytes) - 1) <=> EndAt(x, Len(bytes) - 1))
  <2>1. ASSUME Len(bytes) >= 2
        PROVE  EndAt(bytes, Len(bytes) - 1) <=> EndAt(x, Len(bytes) - 1)
    <3>1. /\ Len(bytes) - 1 \in 1..Len(x) /\ Len(bytes) \in 1..Len(x)
          /\ (Len(bytes) - 1) + 1 = Len(bytes) /\ Len(bytes) - 1 <= Len(bytes)
      BY <1>0, <1>1, <1>8, <1>10, <2>1
    <3>2. /\ bytes[Len(bytes) - 1] = x[Len(bytes) - 1]
          /\ bytes[Len(bytes)] = x[Len(bytes)]
      BY <1>0, <1>1, <1>9, <3>1
    <3>3. QED
      BY <3>1, <3>2 DEF EndAt
  <2>2. QED
    BY <2>1
<1>13. Ends(bytes) <=> Len(bytes) = Len(x)
  <2>1. Len(bytes) >= 2 => Len(bytes) - 1 \in 1..Len(x) - 1
    BY <1>0, <1>1, <1>8, <1>10
  <2>2. Len(bytes) >= 2 => (EndAt(x, Len(bytes) - 1) <=> Len(bytes) - 1 = Len(x) - 1)
    BY <1>8, <2>1
  <2>3. Len(bytes) - 1 = Len(x) - 1 <=> Len(bytes) = Len(x)
    BY <1>0, <1>1, <1>8
  <2>4. QED
    BY <1>8, <1>11, <1>12, <2>2, <2>3
<1>14. ASSUME Ends(bytes) PROVE bytes = x
  <2>1. Len(bytes) = Len(x) /\ \A i \in 1..Len(bytes) : bytes[i] = x[i]
    BY <1>8, <1>9, <1>13, <1>14
  <2>2. QED
    BY <1>1, <1>7, <2>1, SeqEqual
<1>15. ~Ends(bytes) => Len(bytes) <= MaxSize
  BY <1>0, <1>1, <1>8, <1>10, <1>13
<1>16. QED
  BY <1>5, <1>14, <1>15 DEF bytes, x
-----------------------------------------------------------------------------
\* A message more is sent.
LEMMA SentAppend ==
  ASSUME SendersInv, NEW w \in Writers, NEW line \in Seq(Byte),
         order' = Append(order, [by |-> w, line |-> line])
  PROVE  /\ Sent \in Seq(Seq(Byte)) /\ Len(Sent) = Len(order) /\ Len(order) \in Nat
         /\ Sent' = Append(Sent, line)
         /\ DOMAIN order = 1..Len(order) /\ DOMAIN order' = 1..Len(order) + 1
         /\ \A i \in 1..Len(order) : order'[i] = order[i]
         /\ order'[Len(order) + 1] = [by |-> w, line |-> line]
         /\ order' \in Seq([by : Writers, line : Seq(Byte)])
<1> DEFINE Entry == [by : Writers, line : Seq(Byte)]
           e == [by |-> w, line |-> line]
           n == Len(order)
<1>1. order \in Seq(Entry) /\ e \in Entry /\ e.line = line
  BY DEF SendersInv
<1> HIDE DEF e
<1>2. n \in Nat /\ DOMAIN order = 1..n /\ \A i \in 1..n : order[i] \in Entry
  BY <1>1, LenProperties, ElementOfSeq
<1>3. /\ order' \in Seq(Entry) /\ Len(order') = n + 1
      /\ \A i \in 1..n : order'[i] = order[i]
      /\ order'[n + 1] = e
  <2>1. order' = Append(order, e)
    BY DEF e
  <2>2. QED
    BY <1>1, <2>1, AppendProperties
<1>4. DOMAIN order' = 1..n + 1
  BY <1>3, LenProperties
<1>5. Sent \in Seq(Seq(Byte)) /\ Len(Sent) = n
  <2>1. Sent \in [1..n -> Seq(Byte)]
    BY <1>2 DEF Sent
  <2>2. QED
    BY <1>2, <2>1, FunctionIsSeq
<1>6. Sent' = Append(Sent, line)
  <2> DEFINE a == Append(Sent, line)
  <2>1. /\ a \in Seq(Seq(Byte)) /\ Len(a) = n + 1
        /\ \A i \in 1..n : a[i] = Sent[i]
        /\ a[n + 1] = line
    BY <1>5, AppendProperties
  <2>2. Sent' \in [1..n + 1 -> Seq(Byte)]
    BY <1>1, <1>2, <1>3, <1>4 DEF Sent
  <2>3. Sent' \in Seq(Seq(Byte)) /\ Len(Sent') = n + 1
    <3>1. n + 1 \in Nat
      BY <1>2
    <3>2. QED
      BY <2>2, <3>1, FunctionIsSeq
  <2> HIDE DEF a
  <2>4. \A i \in 1..n : Sent'[i] = a[i]
    BY <1>2, <1>3, <1>4, <2>1 DEF Sent
  <2>5. Sent'[n + 1] = a[n + 1]
    BY <1>1, <1>2, <1>3, <1>4, <2>1 DEF Sent
  <2>6. \A i \in 1..n + 1 : Sent'[i] = a[i]
    <3>1. \A i \in 1..n + 1 : i \in 1..n \/ i = n + 1
      BY <1>2
    <3>2. QED
      BY <2>4, <2>5, <3>1, Zenon
  <2>7. Sent' = a
    BY <2>1, <2>3, <2>6, SeqEqual
  <2>8. QED
    BY <2>7 DEF a
<1>7. QED
  BY <1>2, <1>3, <1>4, <1>5, <1>6 DEF e

\* The message a thread takes.
LEMMA LineIsBytes ==
  ASSUME BytesOK, NEW w \in Writers, Sends(w)
  PROVE  Head(lines[w]) \in Seq(Byte)
<1>1. lines[w] \in Seq(Seq(Byte)) /\ lines[w] # <<>>
  BY DEF BytesOK, Sends
<1>2. QED
  BY <1>1, HeadTailProperties

\* Threads begin messages with the lock, and give it away for a wait only.
LEMMA SendersStep == BytesOK /\ SendersInv /\ [Next]_vars => SendersInv'
<1> SUFFICES ASSUME BytesOK, SendersInv, [Next]_vars PROVE SendersInv'
  OBVIOUS
<1>0. left \in [Writers -> Seq(Byte)] /\ Unlocked \notin Writers
  BY FramingAssumption DEF BytesOK
<1>1. ASSUME NEW w \in Writers, Sends(w) PROVE SendersInv'
  <2> DEFINE line == Head(lines[w])
  <2>1. /\ mtx = Unlocked /\ mtx' = w /\ left' = [left EXCEPT ![w] = line]
        /\ order' = Append(order, [by |-> w, line |-> line])
        /\ blocks' = blocks
    BY <1>1 DEF Sends
  <2>2. line \in Seq(Byte)
    BY <1>1, LineIsBytes
  <2> HIDE DEF line
  <2>3. /\ Len(order) \in Nat
        /\ DOMAIN order = 1..Len(order) /\ DOMAIN order' = 1..Len(order) + 1
        /\ \A i \in 1..Len(order) : order'[i] = order[i]
        /\ order'[Len(order) + 1].by = w
        /\ order' \in Seq([by : Writers, line : Seq(Byte)])
    <3>1. [by |-> w, line |-> line].by = w
      OBVIOUS
    <3>2. QED
      BY <2>1, <2>2, <3>1, SentAppend, Zenon
  <2>4. ASSUME NEW v \in Writers, left'[v] # <<>>
        PROVE  (\E i \in DOMAIN order' : order'[i].by = v) /\ (blocks' = 0 => mtx' = v)
    <3>1. CASE v = w
      BY <2>1, <2>3, <3>1
    <3>2. CASE v # w
      <4>1. left[v] # <<>>
        BY <1>0, <2>1, <2>4, <3>2
      <4>2. (\E i \in DOMAIN order : order[i].by = v) /\ (blocks = 0 => mtx = v)
        BY <4>1 DEF SendersInv
      <4>3. QED
        BY <1>0, <2>1, <2>3, <4>2
    <3>3. QED
      BY <3>1, <3>2
  <2>5. QED
    BY <2>1, <2>3, <2>4 DEF SendersInv
<1>2. ASSUME NEW w \in Writers, Writes(w) PROVE SendersInv'
  <2>1. PICK n \in 1..Len(left[w]) :
          /\ left' = [left EXCEPT ![w] = Remaining(@, n)]
          /\ mtx' = IF n = Len(left[w]) THEN Unlocked ELSE w
    BY <1>2 DEF Writes
  <2>2. mtx = w /\ UNCHANGED <<order, blocks>>
    BY <1>2 DEF Writes
  <2>3. left[w] \in Seq(Byte) /\ Len(left[w]) \in Nat /\ left[w] # <<>>
    <3>1. left[w] \in Seq(Byte) /\ Len(left[w]) \in Nat /\ Len(<<>>) = 0
      BY <1>0, LenProperties
    <3>2. QED
      BY <2>1, <3>1
  <2>4. n = Len(left[w]) => left'[w] = <<>>
    BY <1>0, <2>1, <2>3, SubSeqEmpty DEF Remaining
  <2>5. ASSUME NEW v \in Writers, left'[v] # <<>>
        PROVE  left[v] # <<>> /\ (v = w => mtx' = w)
    BY <1>0, <2>1, <2>3, <2>4, <2>5
  <2>6. ASSUME NEW v \in Writers, left'[v] # <<>>, blocks' = 0
        PROVE  mtx' = v
    <3>1. mtx = v
      BY <2>2, <2>5, <2>6 DEF SendersInv
    <3>2. QED
      BY <2>2, <2>5, <2>6, <3>1
  <2>7. QED
    BY <2>2, <2>5, <2>6 DEF SendersInv
<1>3. ASSUME NEW w \in Writers, WaitsFor(w) PROVE SendersInv'
  <2>1. /\ blocks' = blocks + 1 /\ UNCHANGED <<left, order>> /\ blocks \in Nat
    BY <1>3 DEF WaitsFor, SendersInv
  <2>2. blocks' # 0 /\ blocks' \in Nat
    BY <2>1
  <2>3. QED
    BY <2>1, <2>2 DEF SendersInv
<1>4. ASSUME NEW w \in Writers, Retries(w) PROVE SendersInv'
  <2>1. mtx = Unlocked /\ left[w] # <<>> /\ UNCHANGED <<left, order, blocks>>
    BY <1>4 DEF Retries
  <2>2. blocks # 0
    BY <1>0, <2>1 DEF SendersInv
  <2>3. QED
    BY <2>1, <2>2 DEF SendersInv
<1>5. CASE UNCHANGED senders
  BY <1>5 DEF senders, SendersInv
<1>6. QED
  BY <1>1, <1>2, <1>3, <1>4, <1>5 DEF Next, vars, Tick, PollTimesOut, PollReturns, Reads,
     ReadsNothing, ReadsEnd

\* In that case one thread at most is in the middle of a message.
LEMMA OneSends ==
  ASSUME SendersInv, Calm, NEW v \in Writers, NEW w \in Writers,
         left[v] # <<>>, left[w] # <<>>
  PROVE  v = w
BY DEF SendersInv, Calm, Alone

\* Once messages may mix, they may for ever.
LEMMA CalmBefore == SendersInv /\ BytesOK /\ [Next]_vars /\ Calm' => Calm
<1> SUFFICES ASSUME SendersInv, BytesOK, [Next]_vars, Calm' PROVE Calm
  OBVIOUS
<1>1. ASSUME NEW w \in Writers, Sends(w) PROVE Calm
  <2> DEFINE line == Head(lines[w])
  <2>1. order' = Append(order, [by |-> w, line |-> line]) /\ blocks' = blocks
    BY <1>1 DEF Sends
  <2>2. line \in Seq(Byte)
    BY <1>1, LineIsBytes
  <2> HIDE DEF line
  <2>3. /\ Len(order) \in Nat
        /\ DOMAIN order = 1..Len(order) /\ DOMAIN order' = 1..Len(order) + 1
        /\ \A i \in 1..Len(order) : order'[i] = order[i]
    BY <2>1, <2>2, SentAppend
  <2>4. \A i \in DOMAIN order : i \in DOMAIN order' /\ order'[i] = order[i]
    BY <2>3
  <2>5. \A i \in DOMAIN order' : Proper(order'[i].line)
    BY DEF Calm, Proper, OneEnd
  <2>6. \A i \in DOMAIN order : Proper(order[i].line)
    BY <2>4, <2>5
  <2>7. blocks = 0 \/ Alone
    BY <2>1, <2>4 DEF Calm, Alone
  <2>8. QED
    BY <2>6, <2>7 DEF Calm
<1>2. ASSUME NEW w \in Writers, WaitsFor(w) PROVE Calm
  <2>1. blocks \in Nat /\ blocks' = blocks + 1 /\ order' = order
    BY <1>2 DEF WaitsFor, SendersInv
  <2>2. blocks' # 0
    BY <2>1
  <2>3. QED
    BY <2>1, <2>2 DEF Calm, Alone, Proper, OneEnd
<1>3. CASE UNCHANGED <<order, blocks>>
  BY <1>3 DEF Calm, Alone, Proper, OneEnd
<1>4. QED
  BY <1>1, <1>2, <1>3 DEF Next, Writes, Retries, Tick, PollTimesOut, PollReturns, Reads,
     ReadsNothing, ReadsEnd, senders, vars
-----------------------------------------------------------------------------
\* The condition depends on order and blocks alone.
LEMMA SameWeather ==
  ASSUME UNCHANGED <<order, blocks>>
  PROVE  /\ Calm' <=> Calm
         /\ Sent' = Sent
BY DEF Calm, Alone, Proper, OneEnd, Sent

\* A message begins: what was begun before is in the stream.
LEMMA WholeSends ==
  ASSUME BytesOK, CutInv, SendersInv, WholeInv, Calm, Calm', NEW w \in Writers, Sends(w)
  PROVE  WholeInv'
<1> DEFINE line == Head(lines[w])
<1>0. left \in [Writers -> Seq(Byte)] /\ Unlocked \notin Writers
  BY FramingAssumption DEF BytesOK
<1>1. /\ mtx = Unlocked /\ left[w] = <<>> /\ left' = [left EXCEPT ![w] = line]
      /\ order' = Append(order, [by |-> w, line |-> line])
      /\ blocks' = blocks /\ stream' = stream /\ received' = received
  BY DEF Sends, reader
<1>2. line \in Seq(Byte)
  BY LineIsBytes
<1> HIDE DEF line
<1>3. /\ Sent \in Seq(Seq(Byte)) /\ Len(order) \in Nat
      /\ Sent' = Append(Sent, line)
      /\ DOMAIN order = 1..Len(order) /\ DOMAIN order' = 1..Len(order) + 1
      /\ \A i \in 1..Len(order) : order'[i] = order[i]
      /\ order'[Len(order) + 1] = [by |-> w, line |-> line]
      /\ order' \in Seq([by : Writers, line : Seq(Byte)])
  BY <1>1, <1>2, SentAppend, Zenon
<1>4. Len(order') = Len(order) + 1
  BY <1>3, LenProperties
<1>5. line # <<>>
  <2>1. order'[Len(order) + 1].line = line /\ Len(order) + 1 \in DOMAIN order'
    BY <1>3
  <2>2. \A i \in DOMAIN order' : Len(order'[i].line) >= 2
    BY DEF Calm, Proper, OneEnd
  <2>3. Len(line) >= 2
    BY <2>1, <2>2
  <2>4. QED
    BY <2>3
<1>6. \A v \in Writers : left[v] = <<>>
  <2> SUFFICES ASSUME NEW v \in Writers, left[v] # <<>> PROVE FALSE
    OBVIOUS
  <2>1. mtx # v /\ v # w
    BY <1>0, <1>1
  <2>2. blocks # 0
    BY <2>1 DEF SendersInv
  <2>3. PICK i \in DOMAIN order : order[i].by = v
    BY DEF SendersInv
  <2>4. order'[i].by = v /\ order'[Len(order) + 1].by = w
    BY <1>3, <2>3
  <2>5. i \in DOMAIN order' /\ Len(order) + 1 \in DOMAIN order'
    BY <1>3
  <2>6. \A j, k \in DOMAIN order' : order'[j].by = order'[k].by
    BY <1>1, <2>2 DEF Calm, Alone
  <2>7. QED
    BY <2>1, <2>4, <2>5, <2>6
<1>7. stream \in Seq(Byte) /\ stream = FlattenSeq(Sent)
  <2>1. PICK rest \in Seq(Byte) : stream \o rest = FlattenSeq(Sent) /\ rest = <<>>
    BY <1>6 DEF WholeInv
  <2>2. stream \in Seq(Byte)
    BY DEF CutInv
  <2>3. QED
    BY <2>1, <2>2, ConcatEmptySeq
<1>8. stream' \o line = FlattenSeq(Sent')
  BY <1>1, <1>2, <1>3, <1>7, FlattenAppend
<1>9. \A v \in Writers : left'[v] # <<>> => line = left'[v]
  BY <1>0, <1>1, <1>6
<1>10. ~(\A v \in Writers : left'[v] = <<>>)
  BY <1>0, <1>1, <1>5
<1>11. /\ Len(received') <= Len(order')
       /\ \A i \in 1..Len(received') : received'[i] = order'[i].line
  <2>1. received \in Seq(Seq(Byte))
    BY DEF BytesOK
  <2>2. Len(received) \in Nat /\ Len(received) <= Len(order)
        /\ \A i \in 1..Len(received) : received[i] = order[i].line
    BY <2>1, LenProperties DEF WholeInv
  <2>3. QED
    BY <1>1, <1>3, <1>4, <2>2
<1>12. QED
  BY <1>1, <1>2, <1>7, <1>8, <1>9, <1>10, <1>11 DEF WholeInv

\* Bytes go from what is left to the stream.
LEMMA WholeWrites ==
  ASSUME BytesOK, CutInv, SendersInv, WholeInv, Calm, NEW w \in Writers, Writes(w)
  PROVE  WholeInv'
<1>0. left \in [Writers -> Seq(Byte)]
  BY DEF BytesOK
<1>1. PICK n \in 1..Len(left[w]) :
        /\ stream' = stream \o SubSeq(left[w], 1, n)
        /\ left' = [left EXCEPT ![w] = Remaining(@, n)]
  BY DEF Writes
<1>2. UNCHANGED <<order, blocks, received>>
  BY DEF Writes, reader
<1> DEFINE a == SubSeq(left[w], 1, n)
           b == Remaining(left[w], n)
<1>3. left[w] \in Seq(Byte) /\ Len(left[w]) \in Nat /\ left[w] # <<>>
  <2>1. left[w] \in Seq(Byte) /\ Len(left[w]) \in Nat /\ Len(<<>>) = 0
    BY <1>0, LenProperties
  <2>2. QED
    BY <1>1, <2>1
<1>4. a \in Seq(Byte) /\ b \in Seq(Byte) /\ a \o b = left[w]
  <2>1. \A i \in 1..Len(left[w]) : left[w][i] \in Byte
    BY <1>3, ElementOfSeq
  <2>2. a \in Seq(Byte) /\ b \in Seq(Byte)
    BY <1>1, <1>3, <2>1, SubSeqProperties DEF Remaining
  <2>3. a \o b = left[w]
    <3> DEFINE s == left[w]
    <3>1. /\ Len(a) = n /\ \A i \in 1..n : a[i] = s[i]
          /\ Len(b) = Len(s) - n /\ \A i \in 1..Len(s) - n : b[i] = s[n + i]
      BY <1>1, <1>3, <2>1, SubSeqProperties DEF Remaining
    <3> HIDE DEF a, b, s
    <3>2. /\ a \o b \in Seq(Byte) /\ Len(a \o b) = Len(a) + Len(b)
          /\ \A i \in 1..Len(a) + Len(b) :
               (a \o b)[i] = IF i <= Len(a) THEN a[i] ELSE b[i - Len(a)]
      BY <2>2, ConcatProperties
    <3>3. Len(s) \in Nat /\ n \in Nat /\ n <= Len(s) /\ s \in Seq(Byte)
      BY <1>1, <1>3 DEF s
    <3>4. \A i \in 1..Len(s) : (a \o b)[i] = s[i]
      BY <3>1, <3>2, <3>3
    <3>5. Len(a \o b) = Len(s)
      BY <3>1, <3>2, <3>3
    <3>6. a \o b = s
      BY <3>2, <3>3, <3>4, <3>5, SeqEqual
    <3>7. QED
      BY <3>6 DEF s
  <2>4. QED
    BY <2>2, <2>3
<1>5. stream' = stream \o a /\ left' = [left EXCEPT ![w] = b]
  BY <1>1
<1> HIDE DEF a, b
<1>6. stream \in Seq(Byte) /\ stream \o left[w] = FlattenSeq(Sent)
  BY <1>3 DEF CutInv, WholeInv
<1>7. stream' \o b = FlattenSeq(Sent')
  <2>1. (stream \o a) \o b = stream \o (a \o b)
    BY <1>4, <1>6, BytesAssociate
  <2>2. QED
    BY <1>2, <1>4, <1>5, <1>6, <2>1, SameWeather
<1>8. ASSUME NEW v \in Writers, left'[v] # <<>> PROVE b = left'[v]
  <2>1. v # w => left[v] # <<>>
    BY <1>0, <1>5, <1>8
  <2>2. v = w
    BY <1>3, <2>1, OneSends
  <2>3. QED
    BY <1>0, <1>5, <2>2
<1>9. (\A v \in Writers : left'[v] = <<>>) => b = <<>>
  BY <1>0, <1>5
<1>10. stream' \in Seq(Byte)
  BY <1>4, <1>5, <1>6, ConcatProperties
<1>11. QED
  BY <1>2, <1>4, <1>7, <1>8, <1>9, <1>10 DEF WholeInv

\* A message that is not too long is taken from the stream as it is.
LEMMA ProperFromStream ==
  ASSUME NEW m \in Seq(Byte), Proper(m)
  PROVE  FromStream(m) = m
<1>1. Len(m) \in Nat /\ MaxSize \in Nat /\ Len(m) <= MaxSize + 1
  BY LenProperties, FramingAssumption DEF Proper
<1>2. ~(Len(m) > MaxSize + 1)
  BY <1>1
<1>3. FromStream(m) = SubSeq(m, 1, Len(m))
  BY <1>2 DEF FromStream
<1>4. QED
  BY <1>3, SubSeqFull

\* The bytes that are read are those of the next message.
LEMMA WholeReads ==
  ASSUME BytesOK, CutInv, SendersInv, WholeInv, Calm, Reads
  PROVE  WholeInv'
<1> DEFINE b     == Head(pipe)
           t     == Tail(pipe)
           bytes == Append(message, b)
           n     == Len(received)
           s     == Sent
           f     == Joined(received)
           Entry == [by : Writers, line : Seq(Byte)]
<1>0. /\ received \in Seq(Seq(Byte)) /\ message \in Seq(Byte) /\ pipe \in Seq(Byte)
      /\ stream \in Seq(Byte) /\ f \in Seq(Byte) /\ NoEnd(message)
      /\ f \o message \o pipe = stream
      /\ n \in Nat /\ order \in Seq(Entry) /\ Len(order) \in Nat
      /\ \A i \in 1..Len(order) : order[i] \in Entry
      /\ DOMAIN order = 1..Len(order) /\ DOMAIN received = 1..n
      /\ \A i \in 1..n : received[i] \in Seq(Byte)
  <2>1. received \in Seq(Seq(Byte)) /\ <<>> \in Seq(Byte) /\ order \in Seq(Entry)
    BY DEF BytesOK, SendersInv
  <2>2. /\ n \in Nat /\ Len(order) \in Nat
        /\ DOMAIN order = 1..Len(order) /\ DOMAIN received = 1..n
    BY <2>1, LenProperties
  <2>3. /\ \A i \in 1..Len(order) : order[i] \in Entry
        /\ \A i \in 1..n : received[i] \in Seq(Byte)
    BY <2>1, ElementOfSeq
  <2>4. f \in Seq(Byte)
    BY <2>1, JoinedAppend
  <2>5. QED
    BY <2>1, <2>2, <2>3, <2>4 DEF BytesOK, CutInv, StreamCut, Joined, Cuts
<1>1. /\ s \in Seq(Seq(Byte)) /\ Len(s) = Len(order)
      /\ \A i \in 1..Len(order) : s[i] = order[i].line
  <2>1. Sent \in [1..Len(order) -> Seq(Byte)]
    BY <1>0 DEF Sent
  <2>2. QED
    BY <1>0, <2>1, FunctionIsSeq DEF Sent
<1>2. \A i \in 1..Len(s) : Proper(s[i])
  BY <1>0, <1>1 DEF Calm
<1>3. n <= Len(s) /\ \A i \in 1..n : received[i] = s[i]
  <2>1. n <= Len(order) /\ \A i \in 1..n : received[i] = order[i].line
    BY DEF WholeInv
  <2>2. \A i \in 1..n : i \in 1..Len(order)
    BY <1>0, <2>1
  <2> HIDE DEF n, s
  <2>3. QED
    BY <1>1, <2>1, <2>2
<1>4. f = FlattenSeq(SubSeq(s, 1, n))
  <2>1. Cuts(received) \in [1..n -> Seq(Byte)]
    BY <1>0, FromStreamType DEF Cuts
  <2>2. Cuts(received) \in Seq(Seq(Byte)) /\ Len(Cuts(received)) = n
    BY <1>0, <2>1, FunctionIsSeq
  <2>3. \A i \in 1..n : Cuts(received)[i] = s[i]
    <3>1. \A i \in 1..n : i \in 1..Len(s)
      BY <1>0, <1>1, <1>3
    <3>2. \A i \in 1..n : FromStream(received[i]) = received[i]
      BY <1>0, <1>2, <1>3, <3>1, ProperFromStream
    <3>3. QED
      BY <1>0, <1>3, <3>2 DEF Cuts
  <2>4. \A i \in 1..n : s[i] \in Seq(Byte)
    BY <1>0, <1>3
  <2> HIDE DEF n, s
  <2>5. /\ SubSeq(s, 1, n) \in Seq(Seq(Byte)) /\ Len(SubSeq(s, 1, n)) = n
        /\ \A i \in 1..n : SubSeq(s, 1, n)[i] = s[i]
    BY <1>0, <1>1, <1>3, <2>4, SubSeqProperties
  <2>6. Cuts(received) = SubSeq(s, 1, n)
    BY <2>2, <2>3, <2>5, SeqEqual
  <2>7. QED
    BY <2>6 DEF Joined
<1>5. b \in Byte /\ t \in Seq(Byte) /\ pipe # <<>> /\ pipe = <<b>> \o t
  BY <1>0, HeadTailProperties, HeadAndTail DEF Reads
<1>6. PICK rest \in Seq(Byte) : stream \o rest = FlattenSeq(s)
  BY DEF WholeInv
<1> DEFINE u == t \o rest
<1>7. bytes \in Seq(Byte) /\ u \in Seq(Byte)
  <2>1. bytes \in Seq(Byte)
    BY <1>0, <1>5, AppendProperties
  <2> HIDE DEF t
  <2>2. u \in Seq(Byte)
    BY <1>5, <1>6, ConcatProperties
  <2>3. QED
    BY <2>1, <2>2
<1>8. f \o (bytes \o u) = FlattenSeq(s)
  <2>1. f \o message \o (<<b>> \o t) = f \o bytes \o t
    <3>1. f \in Seq(Byte) /\ message \in Seq(Byte) /\ b \in Byte /\ t \in Seq(Byte)
      BY <1>0, <1>5
    <3> HIDE DEF f, b, t
    <3>2. f \o message \o (<<b>> \o t) = f \o Append(message, b) \o t
      BY <3>1, ByteMoves, ZenonT(40)
    <3>3. QED
      BY <3>2
  <2>2. (f \o bytes \o t) \o rest = FlattenSeq(s)
    BY <1>0, <1>5, <1>6, <2>1
  <2> HIDE DEF f, bytes, t
  <2>3. f \o bytes \in Seq(Byte)
    BY <1>0, <1>7, ConcatProperties
  <2>4. (f \o bytes \o t) \o rest = (f \o bytes) \o (t \o rest)
    BY <1>5, <1>6, <2>3, BytesAssociate
  <2>5. (f \o bytes) \o u = f \o (bytes \o u)
    <3>1. f \in Seq(Byte) /\ bytes \in Seq(Byte) /\ u \in Seq(Byte)
      BY <1>0, <1>7
    <3> HIDE DEF u
    <3>2. QED
      BY <3>1, BytesAssociate
  <2>6. QED
    BY <2>2, <2>4, <2>5 DEF u
<1>9. /\ Ends(bytes) => n < Len(s) /\ bytes = s[n + 1]
      /\ ~Ends(bytes) => Len(bytes) <= MaxSize
  <2>1. n \in 0..Len(s)
    BY <1>0, <1>1, <1>3
  <2>2. FlattenSeq(SubSeq(s, 1, n)) \o (Append(message, b) \o u) = FlattenSeq(s)
    BY <1>4, <1>8
  <2> HIDE DEF b, u, n, s
  <2>3. QED
    BY <1>0, <1>1, <1>2, <1>5, <1>7, <2>1, <2>2, NextMessage
<1>10. UNCHANGED <<order, left, stream, blocks>>
  BY DEF Reads, senders
<1>11. \/ Ends(bytes) /\ received' = Append(received, bytes)
       \/ received' = received
  <2>1. MaxSize \in Nat /\ Len(bytes) \in Nat
    BY <1>7, LenProperties, FramingAssumption
  <2>2. Ends(bytes) \/ ~(Len(bytes) > MaxSize)
    BY <1>9, <2>1
  <2> HIDE DEF bytes
  <2>3. QED
    BY <2>2 DEF Reads, bytes
<1>12. /\ Len(received') <= Len(order')
       /\ \A i \in 1..Len(received') : received'[i] = order'[i].line
  <2>1. CASE Ends(bytes) /\ received' = Append(received, bytes)
    <3>1. /\ Len(received') = n + 1 /\ \A i \in 1..n : received'[i] = received[i]
          /\ received'[n + 1] = bytes
      <4> HIDE DEF bytes
      <4>1. QED
        BY <1>0, <1>7, <2>1, AppendProperties
    <3>2. n + 1 \in 1..Len(order) /\ order[n + 1].line = bytes
      <4>1. n + 1 \in 1..Len(order)
        BY <1>0, <1>1, <1>9, <2>1
      <4>2. QED
        BY <1>1, <1>9, <2>1, <4>1
    <3>3. \A i \in 1..n + 1 : i \in 1..n \/ i = n + 1
      BY <1>0
    <3> HIDE DEF n, bytes, s
    <3>4. \A i \in 1..n : received'[i] = order[i].line
      BY <3>1 DEF WholeInv, n
    <3>5. \A i \in 1..n + 1 : received'[i] = order[i].line
      BY <3>1, <3>2, <3>3, <3>4, Zenon
    <3>6. QED
      BY <1>0, <1>10, <3>1, <3>2, <3>5
  <2>2. CASE received' = received
    BY <1>10, <2>2 DEF WholeInv
  <2>3. QED
    BY <1>11, <2>1, <2>2
<1>13. \E r \in Seq(Byte) :
         /\ stream' \o r = FlattenSeq(Sent')
         /\ \A v \in Writers : left'[v] # <<>> => r = left'[v]
         /\ (\A v \in Writers : left'[v] = <<>>) => r = <<>>
  BY <1>10, SameWeather DEF WholeInv
<1>14. QED
  BY <1>12, <1>13 DEF WholeInv

\* Whatever a step does, messages stay whole where the condition holds.
LEMMA WholeStep ==
  BytesOK /\ CutInv /\ SendersInv /\ WholeInv /\ [Next]_vars => WholeInv'
<1> SUFFICES ASSUME BytesOK, CutInv, SendersInv, WholeInv, [Next]_vars, Calm'
             PROVE  WholeInv'
  BY DEF WholeInv
<1>0. Calm
  BY CalmBefore
<1>1. ASSUME NEW w \in Writers, Sends(w) PROVE WholeInv'
  BY <1>0, <1>1, WholeSends
<1>2. ASSUME NEW w \in Writers, Writes(w) PROVE WholeInv'
  BY <1>0, <1>2, WholeWrites
<1>3. ASSUME UNCHANGED <<order, left, stream, received>> PROVE WholeInv'
  BY <1>0, <1>3 DEF WholeInv, Sent
<1>4. CASE Reads
  BY <1>0, <1>4, WholeReads
<1>5. QED
  BY <1>1, <1>2, <1>3, <1>4 DEF Next, WaitsFor, Retries, Tick, PollTimesOut, PollReturns,
     ReadsNothing, ReadsEnd, reader, senders, vars

\* At first nothing has been sent.
LEMMA WholeInit == Init => SendersInv /\ WholeInv
<1> SUFFICES ASSUME Init PROVE SendersInv /\ WholeInv
  OBVIOUS
<1>1. /\ left = [w \in Writers |-> <<>>] /\ order = <<>> /\ stream = <<>>
      /\ received = <<>> /\ blocks = 0
  BY DEF Init
<1>2. SendersInv
  BY <1>1 DEF SendersInv
<1>3. Sent = <<>>
  BY <1>1 DEF Sent
<1>4. <<>> \in Seq(Byte) /\ <<>> \o <<>> = <<>> /\ Len(<<>>) = 0
  OBVIOUS
<1>5. FlattenSeq(Sent) = <<>>
  BY <1>3, <<>> \in Seq(Seq(Byte)), <<>> \in Seq(Byte), FlattenAppend
<1>6. \A w \in Writers : left[w] = <<>>
  BY <1>1
<1>7. Len(received) <= Len(order) /\ \A i \in 1..Len(received) : received[i] = order[i].line
  BY <1>1, <1>4
<1>8. \E rest \in Seq(Byte) :
        /\ stream \o rest = FlattenSeq(Sent)
        /\ \A w \in Writers : left[w] # <<>> => rest = left[w]
        /\ (\A w \in Writers : left[w] = <<>>) => rest = <<>>
  <2>1. WITNESS <<>> \in Seq(Byte)
  <2>2. QED
    BY <1>1, <1>4, <1>5, <1>6
<1>9. WholeInv
  BY <1>7, <1>8 DEF WholeInv
<1>10. QED
  BY <1>2, <1>9

\* The messages of one thread, or of threads that never wait.
LEMMA CalmIs ==
  ASSUME order \in Seq([by : Writers, line : Seq(Byte)]),
         Cardinality({order[i].by : i \in DOMAIN order}) <= 1
  PROVE  Alone
<1> DEFINE S == {order[i].by : i \in DOMAIN order}
<1>1. Len(order) \in Nat /\ DOMAIN order = 1..Len(order)
  BY LenProperties
<1>2. IsFiniteSet(S)
  <2>1. IsFiniteSet(1..Len(order))
    BY <1>1, FS_Interval
  <2> DEFINE g == [i \in 1..Len(order) |-> order[i].by]
  <2>2. g \in Surjection(1..Len(order), S)
    BY <1>1 DEF Surjection
  <2>3. QED
    BY <2>1, <2>2, FS_Surjection
<1>3. ASSUME NEW a \in S, NEW b \in S, a # b PROVE FALSE
  <2>1. IsFiniteSet({a, b}) /\ Cardinality({a, b}) = 2
    <3>1. IsFiniteSet({a}) /\ Cardinality({a}) = 1
      BY FS_Singleton
    <3>2. b \notin {a}
      BY <1>3
    <3> DEFINE T == {a}
    <3> HIDE DEF T
    <3>3. IsFiniteSet(T \cup {b}) /\ Cardinality(T \cup {b}) = Cardinality(T) + 1
      BY <3>1, <3>2, FS_AddElement DEF T
    <3>4. T \cup {b} = {a, b}
      BY DEF T
    <3>5. Cardinality(T) = 1
      BY <3>1 DEF T
    <3>6. Cardinality(T \cup {b}) = 2
      BY <3>3, <3>5
    <3>7. QED
      BY <3>3, <3>4, <3>6, Zenon
  <2>2. Cardinality({a, b}) <= Cardinality(S)
    <3>1. {a, b} \subseteq S
      OBVIOUS
    <3> HIDE DEF S
    <3>2. QED
      BY <1>2, <3>1, FS_Subset
  <2>3. Cardinality(S) \in Nat
    <3> HIDE DEF S
    <3>1. QED
      BY <1>2, FS_CardinalityType
  <2>4. QED
    BY <2>1, <2>2, <2>3
<1>4. QED
  BY <1>3 DEF Alone

\* What is received is the beginning of what was sent.
LEMMA WholeIsPrefix == BytesOK /\ SendersInv /\ WholeInv => MessagesWhole
<1> SUFFICES ASSUME BytesOK, SendersInv, WholeInv,
                    \A i \in DOMAIN order : Proper(order[i].line),
                    blocks = 0 \/ Cardinality({order[i].by : i \in DOMAIN order}) <= 1
             PROVE  IsPrefix(received, Sent)
  BY DEF MessagesWhole, Sent
<1>1. order \in Seq([by : Writers, line : Seq(Byte)]) /\ received \in Seq(Seq(Byte))
  BY DEF SendersInv, BytesOK
<1>2. Calm
  <2>1. blocks = 0 \/ Alone
    BY <1>1, CalmIs
  <2>2. QED
    BY <2>1 DEF Calm
<1>3. /\ Len(received) \in Nat /\ Len(order) \in Nat /\ Len(received) <= Len(order)
      /\ \A i \in 1..Len(received) : received[i] = order[i].line
  BY <1>1, <1>2, LenProperties DEF WholeInv
<1>4. /\ Sent \in Seq(Seq(Byte)) /\ Len(Sent) = Len(order)
      /\ \A i \in 1..Len(order) : Sent[i] = order[i].line
  <2>1. DOMAIN order = 1..Len(order)
    BY <1>1, LenProperties
  <2>2. \A i \in 1..Len(order) : order[i] \in [by : Writers, line : Seq(Byte)]
    BY <1>1, ElementOfSeq
  <2>3. Sent \in [1..Len(order) -> Seq(Byte)]
    BY <2>1, <2>2 DEF Sent
  <2>4. QED
    BY <1>3, <2>1, <2>3, FunctionIsSeq DEF Sent
<1> DEFINE n == Len(received)
<1>5. SubSeq(received, 1, n) = received
  BY <1>1, SubSeqFull
<1>6. SubSeq(Sent, 1, n) = received
  <2>1. \A i \in 1..n : Sent[i] \in Seq(Byte)
    BY <1>3, <1>4, ElementOfSeq
  <2>2. n \in Nat /\ \A i \in 1..n : Sent[i] = received[i]
    BY <1>3, <1>4
  <2>3. Len(received) = n
    OBVIOUS
  <2> HIDE DEF n
  <2>4. /\ SubSeq(Sent, 1, n) \in Seq(Seq(Byte)) /\ Len(SubSeq(Sent, 1, n)) = n
        /\ \A i \in 1..n : SubSeq(Sent, 1, n)[i] = Sent[i]
    BY <2>1, <2>2, SubSeqProperties
  <2>5. QED
    BY <1>1, <2>2, <2>3, <2>4, SeqEqual
<1>7. QED
  BY <1>3, <1>4, <1>5, <1>6 DEF IsPrefix

\* Messages that are proper arrive whole and in order, for every number of threads,
\* every size of the buffers and every way their bytes are chopped, unless a second
\* thread sends while a write of the first waits.
THEOREM MessagesAlwaysWhole == Spec => []MessagesWhole
<1> DEFINE Inv == BytesOK /\ CutInv /\ SendersInv /\ WholeInv
<1>1. Init => Inv
  BY BytesInit, CutInit, WholeInit
<1>2. Inv /\ [Next]_vars => Inv'
  BY BytesStep, CutStep, SendersStep, WholeStep
<1>3. Inv => MessagesWhole
  BY WholeIsPrefix
<1>4. QED
  BY <1>1, <1>2, <1>3, PTL DEF Spec
=============================================================================
