-------------------------- MODULE LogStream_proofs --------------------------
(***************************************************************************)
(* Proofs about LogStream, for every set of readers, any size of a         *)
(* subscriber's channel and any length of the log.                         *)
(***************************************************************************)
EXTENDS LogStream, SequenceTheorems, TLAPS

-----------------------------------------------------------------------------
(* The inductive invariant *)

\* The record of the deployment: it holds what was logged until it was
\* replaced, and after FinishDeployment it is in the history if it had not
\* been. No channel is closed before the run has ended.
RecordFacts ==
    /\ run = "send" => written > 0
    /\ logs = Lines(1, Len(logs))
    /\ Len(logs) <= written
    /\ last \/ recorded => Len(logs) = written
    /\ recorded => run \in {"close", "ended"}
    /\ run \in {"close", "ended"} /\ last => recorded
    /\ \A r \in Reader : chan[r].closed => run = "ended"

\* What reader r has been shown and will be from what is in its channel
Flow(r) == reader[r].shown \o chan[r].buf

\* No line has run ahead of those sent, but the last one of the copy may have.
Bounded(s, copied, sent, stored) ==
    \A i \in 1..Len(s) : s[i] <= sent \/ (i = copied /\ s[i] <= stored)

Ordered(s, copied) ==
    \A i \in 1..(Len(s) - 1) :
        s[i] < s[i + 1] \/ (s[i] = s[i + 1] /\ i = copied)

ReaderFacts(r) ==
    LET d == reader[r]
    IN /\ d.pc \in {"idle", "copied"} =>
             r \notin subs /\ ~ chan[r].closed /\ chan[r].buf = <<>>
       /\ d.pc = "copied" => d.shown = Lines(1, d.copied) /\ d.copied <= written
       /\ d.pc = "attached" /\ run # "ended" => r \in subs
       /\ d.pc = "done" => chan[r].closed /\ chan[r].buf = <<>>
       /\ d.pc \in {"attached", "done"} => d.from <= Sent
       /\ d.pc \in {"attached", "done"} /\ ~ d.lossy =>
             Flow(r) = Lines(1, d.copied) \o Lines(d.from + 1, Sent)
       /\ Bounded(Flow(r), d.copied, Sent, written)
       /\ Ordered(Flow(r), d.copied)

StreamInv ==
    /\ TypeOK
    /\ RecordFacts
    /\ \A r \in Reader : ReaderFacts(r)

-----------------------------------------------------------------------------
(* Sequences of lines *)

\* Lines(i, j) counts from i to j; it is empty when j is i - 1.
LEMMA LinesEntries ==
    ASSUME NEW i \in Nat \ {0}, NEW j \in Nat, i <= j + 1
    PROVE  /\ Lines(i, j) \in Seq(Nat)
           /\ Len(Lines(i, j)) = j - i + 1
           /\ DOMAIN Lines(i, j) = 1..(j - i + 1)
           /\ \A k \in 1..(j - i + 1) : Lines(i, j)[k] = i + k - 1
<1> DEFINE n == j - i + 1
<1>1. n \in Nat /\ (IF j < i THEN 0 ELSE j - i + 1) = n
      OBVIOUS
<1>2. Lines(i, j) = [k \in 1..n |-> i + k - 1]
      BY <1>1 DEF Lines
<1>3. \A k \in 1..n : i + k - 1 \in Nat
      OBVIOUS
<1> HIDE DEF n
<1>4. Lines(i, j) \in [1..n -> Nat]
      BY <1>2, <1>3
<1>5. Lines(i, j) \in Seq(Nat)
      BY <1>1, <1>4, SeqDef
<1>6. Len(Lines(i, j)) = n
      BY <1>1, <1>4, <1>5, LenProperties
<1>   QED BY <1>2, <1>5, <1>6 DEF n

\* Lines of the log are lines of the log.
LEMMA LinesType ==
    ASSUME NEW i \in Nat \ {0}, NEW j \in 0..MaxLines, i <= j + 1
    PROVE  Lines(i, j) \in Seq(1..MaxLines)
<1>1. MaxLines \in Nat /\ j \in Nat
      BY StreamAssumption
<1>2. /\ Lines(i, j) \in Seq(Nat)
      /\ Len(Lines(i, j)) = j - i + 1
      /\ \A k \in 1..(j - i + 1) : Lines(i, j)[k] = i + k - 1
      BY <1>1, LinesEntries
<1>3. /\ Lines(i, j) \in [1..Len(Lines(i, j)) -> Nat]
      /\ Len(Lines(i, j)) \in Nat
      BY <1>2, LenProperties
<1>4. \A k \in 1..Len(Lines(i, j)) : Lines(i, j)[k] \in 1..MaxLines
      BY <1>1, <1>2
<1>5. Lines(i, j) \in [1..Len(Lines(i, j)) -> 1..MaxLines]
      BY <1>3, <1>4
<1>   QED BY <1>3, <1>5, SeqDef

LEMMA LinesAppend ==
    ASSUME NEW i \in Nat \ {0}, NEW j \in Nat, i <= j + 1
    PROVE  Append(Lines(i, j), j + 1) = Lines(i, j + 1)
<1> DEFINE s == Lines(i, j)
           t == Lines(i, j + 1)
           a == Append(s, j + 1)
<1>1. /\ s \in Seq(Nat) /\ Len(s) = j - i + 1
      /\ \A k \in 1..(j - i + 1) : s[k] = i + k - 1
      BY LinesEntries
<1>2. /\ t \in Seq(Nat) /\ Len(t) = j + 1 - i + 1
      /\ \A k \in 1..(j + 1 - i + 1) : t[k] = i + k - 1
      BY LinesEntries
<1> HIDE DEF s, t
<1>3. /\ a \in Seq(Nat) /\ Len(a) = Len(s) + 1
      /\ \A k \in 1..Len(s) : a[k] = s[k]
      /\ a[Len(s) + 1] = j + 1
      BY <1>1, AppendProperties
<1> HIDE DEF a
<1>4. ASSUME NEW k \in 1..Len(a) PROVE a[k] = t[k]
  <2>1. CASE k = Len(s) + 1
        BY <1>1, <1>2, <1>3, <2>1
  <2>2. CASE k # Len(s) + 1
        BY <1>1, <1>2, <1>3, <2>2
  <2>   QED BY <2>1, <2>2
<1>5. Len(a) = Len(t)
      BY <1>1, <1>2, <1>3
<1>6. a = t
      BY <1>2, <1>3, <1>4, <1>5, SeqEqual
<1>   QED BY <1>6 DEF a, s, t

\* A line that enters the channel follows what is there.
LEMMA ConcatAppend ==
    ASSUME NEW S, NEW s \in Seq(S), NEW t \in Seq(S), NEW x \in S
    PROVE  s \o Append(t, x) = Append(s \o t, x)
<1>1. Append(t, x) = t \o <<x>> /\ <<x>> \in Seq(S)
      BY AppendIsConcat
<1>2. s \o t \in Seq(S)
      BY ConcatProperties
<1>3. Append(s \o t, x) = (s \o t) \o <<x>>
      BY <1>2, AppendIsConcat
<1>   QED BY <1>1, <1>3, ConcatAssociative

\* A line that is received changes nothing of the whole.
LEMMA ConcatReceive ==
    ASSUME NEW S, NEW s \in Seq(S), NEW t \in Seq(S), t # <<>>
    PROVE  /\ Append(s, Head(t)) \in Seq(S)
           /\ Tail(t) \in Seq(S)
           /\ Len(Tail(t)) = Len(t) - 1
           /\ Append(s, Head(t)) \o Tail(t) = s \o t
<1> DEFINE a == Append(s, Head(t))
           u == Tail(t)
<1>1. /\ Head(t) \in S /\ Head(t) = t[1]
      /\ u \in Seq(S)
      /\ Len(u) = Len(t) - 1
      /\ \A i \in 1..Len(u) : u[i] = t[i + 1]
      BY HeadTailProperties
<1>2. /\ a \in Seq(S)
      /\ Len(a) = Len(s) + 1
      /\ \A i \in 1..Len(s) : a[i] = s[i]
      /\ a[Len(s) + 1] = t[1]
      BY <1>1, AppendProperties
<1>3. Len(s) \in Nat /\ Len(t) \in Nat \ {0}
      BY LenProperties, EmptySeq
<1> HIDE DEF a, u
<1>4. /\ a \o u \in Seq(S)
      /\ Len(a \o u) = Len(a) + Len(u)
      /\ \A i \in 1..Len(a) + Len(u) :
            (a \o u)[i] = IF i <= Len(a) THEN a[i] ELSE u[i - Len(a)]
      BY <1>1, <1>2, ConcatProperties
<1>5. /\ s \o t \in Seq(S)
      /\ Len(s \o t) = Len(s) + Len(t)
      /\ \A i \in 1..Len(s) + Len(t) :
            (s \o t)[i] = IF i <= Len(s) THEN s[i] ELSE t[i - Len(s)]
      BY ConcatProperties
<1>6. Len(a \o u) = Len(s \o t)
      BY <1>1, <1>2, <1>3, <1>4, <1>5
<1>7. ASSUME NEW i \in 1..Len(a \o u) PROVE (a \o u)[i] = (s \o t)[i]
  <2>1. i \in 1..Len(a) + Len(u) /\ i \in 1..Len(s) + Len(t)
        BY <1>4, <1>5, <1>6
  <2>2. CASE i <= Len(s)
        BY <1>2, <1>3, <1>4, <1>5, <2>1, <2>2
  <2>3. CASE i = Len(s) + 1
        BY <1>2, <1>3, <1>4, <1>5, <2>1, <2>3
  <2>4. CASE i > Len(s) + 1
    <3>1. /\ i - Len(a) \in 1..Len(u)
          /\ (i - Len(a)) + 1 = i - Len(s)
          BY <1>1, <1>2, <1>3, <2>1, <2>4
    <3>2. u[i - Len(a)] = t[i - Len(s)]
          BY <1>1, <3>1
    <3>   QED BY <1>2, <1>3, <1>4, <1>5, <2>1, <2>4, <3>2
  <2>   QED BY <1>3, <2>1, <2>2, <2>3, <2>4
<1>8. a \o u = s \o t
      BY <1>4, <1>5, <1>6, <1>7, SeqEqual
<1>   QED BY <1>1, <1>2, <1>8 DEF a, u

\* A line that is sent after those that were sent keeps the order; only the
\* last line of the copy may be the same one.
LEMMA OrderedAppend ==
    ASSUME NEW s \in Seq(Nat), NEW c \in Nat, NEW w \in Nat \ {0},
           Bounded(s, c, w - 1, w), Ordered(s, c)
    PROVE  Bounded(Append(s, w), c, w, w) /\ Ordered(Append(s, w), c)
<1> DEFINE t == Append(s, w)
<1>1. /\ t \in Seq(Nat) /\ Len(t) = Len(s) + 1
      /\ \A i \in 1..Len(s) : t[i] = s[i]
      /\ t[Len(s) + 1] = w
      BY AppendProperties
<1>2. Len(s) \in Nat /\ \A i \in 1..Len(s) : s[i] \in Nat
      BY LenProperties, ElementOfSeq
<1> HIDE DEF t
<1>3. \A i \in 1..Len(s) : s[i] <= w - 1 \/ (i = c /\ s[i] <= w)
      BY DEF Bounded
<1>4. Bounded(t, c, w, w)
  <2> SUFFICES ASSUME NEW i \in 1..Len(t) PROVE t[i] <= w
      BY DEF Bounded
  <2>1. CASE i = Len(s) + 1
        BY <1>1, <2>1
  <2>2. CASE i # Len(s) + 1
    <3>1. i \in 1..Len(s)
          BY <1>1, <1>2, <2>2
    <3>2. t[i] = s[i] /\ s[i] \in Nat
          BY <1>1, <1>2, <3>1
    <3>3. s[i] <= w - 1 \/ s[i] <= w
          BY <1>3, <3>1
    <3>   QED BY <3>2, <3>3
  <2>   QED BY <2>1, <2>2
<1>5. ASSUME NEW i \in 1..(Len(t) - 1)
      PROVE  t[i] < t[i + 1] \/ (t[i] = t[i + 1] /\ i = c)
  <2>1. i \in 1..Len(s)
        BY <1>1, <1>2
  <2>2. CASE i = Len(s)
    <3>1. t[i] = s[i] /\ t[i + 1] = w /\ s[i] \in Nat
          BY <1>1, <1>2, <2>1, <2>2
    <3>2. s[i] <= w - 1 \/ (i = c /\ s[i] <= w)
          BY <1>3, <2>1
    <3>   QED BY <3>1, <3>2
  <2>3. CASE i # Len(s)
    <3>1. i \in 1..(Len(s) - 1) /\ i + 1 \in 1..Len(s)
          BY <1>2, <2>1, <2>3
    <3>   QED BY <1>1, <2>1, <3>1 DEF Ordered
  <2>   QED BY <2>2, <2>3
<1>   QED BY <1>4, <1>5 DEF Ordered, t

\* A copy of the first lines is in order, and at most its last line has not
\* been sent.
LEMMA LinesOrdered ==
    ASSUME NEW n \in Nat, NEW w \in Nat, n <= w, NEW sent \in Int, w - 1 <= sent
    PROVE  Bounded(Lines(1, n), n, sent, w) /\ Ordered(Lines(1, n), n)
<1> DEFINE s == Lines(1, n)
<1>1. Len(s) = n /\ \A k \in 1..n : s[k] = k
  <2>1. 1 \in Nat \ {0} /\ 1 <= n + 1 /\ n - 1 + 1 = n
        OBVIOUS
  <2>2. Len(s) = n - 1 + 1 /\ \A k \in 1..(n - 1 + 1) : s[k] = 1 + k - 1
        BY <2>1, LinesEntries
  <2>   QED BY <2>1, <2>2
<1> HIDE DEF s
<1>2. Bounded(s, n, sent, w)
      BY <1>1 DEF Bounded
<1>3. Ordered(s, n)
      BY <1>1 DEF Ordered
<1>   QED BY <1>2, <1>3 DEF s

-----------------------------------------------------------------------------
(* The record *)

\* What the types give: numbers are numbers and flows are sequences.
LEMMA Numbers ==
    ASSUME StreamInv
    PROVE  /\ written \in Nat /\ written <= MaxLines /\ MaxLines \in Nat
           /\ Sent \in 0..MaxLines /\ Sent <= written /\ written - 1 <= Sent
           /\ run # "send" => Sent = written
           /\ run = "send" => Sent = written - 1 /\ written > 0
           /\ Len(logs) \in Nat
BY StreamAssumption, LenProperties DEF StreamInv, TypeOK, RecordFacts, Sent

LEMMA Flows ==
    ASSUME StreamInv, NEW r \in Reader
    PROVE  /\ reader[r] \in ReaderState /\ chan[r] \in Channel
           /\ reader[r].shown \in Seq(1..MaxLines)
           /\ chan[r].buf \in Seq(1..MaxLines)
           /\ Flow(r) \in Seq(1..MaxLines)
           /\ Flow(r) \in Seq(Nat)
           /\ Len(Flow(r)) \in Nat
           /\ \A i \in 1..Len(Flow(r)) : Flow(r)[i] \in Nat
<1>1. reader[r] \in ReaderState /\ chan[r] \in Channel
      BY DEF StreamInv, TypeOK
<1>2. reader[r].shown \in Seq(1..MaxLines) /\ chan[r].buf \in Seq(1..MaxLines)
      BY <1>1 DEF ReaderState, Channel
<1>3. Flow(r) \in Seq(1..MaxLines)
      BY <1>2, ConcatProperties DEF Flow
<1>4. 1..MaxLines \subseteq Nat
      OBVIOUS
<1>5. Flow(r) \in Seq(Nat)
      BY <1>3, <1>4, SeqMonotonic
<1>   QED BY <1>1, <1>2, <1>3, <1>5, LenProperties, ElementOfSeq

\* A reader and its channel stay as they are while the deployment goes on.
LEMMA ReaderFrame ==
    ASSUME StreamInv, NEW r \in Reader,
           reader'[r] = reader[r], chan'[r] = chan[r], r \in subs' <=> r \in subs,
           run' = "ended" <=> run = "ended",
           Sent' = Sent, written' \in Nat, written <= written'
    PROVE  ReaderFacts(r)'
<1>1. ReaderFacts(r)
      BY DEF StreamInv
<1>2. Flow(r)' = Flow(r)
      BY DEF Flow
<1>3. Bounded(Flow(r), reader[r].copied, Sent, written')
      BY <1>1, Numbers, Flows DEF ReaderFacts, Bounded
<1>4. reader[r].copied <= written => reader[r].copied <= written'
      BY Numbers, Flows DEF ReaderState
<1> HIDE DEF Flow
<1>   QED BY <1>1, <1>2, <1>3, <1>4 DEF ReaderFacts

LEMMA StoreLineStep ==
    ASSUME StreamInv, StoreLine PROVE StreamInv'
<1>1. /\ run = "log" /\ run' = "send" /\ written' = written + 1
      /\ written < MaxLines
      /\ logs' = IF last THEN Append(logs, written + 1) ELSE logs
      /\ UNCHANGED <<last, recorded, subs, chan, reader>>
      BY DEF StoreLine
<1>2. /\ logs \in Seq(1..MaxLines) /\ logs = Lines(1, Len(logs))
      /\ Len(logs) <= written /\ Len(logs) \in Nat
      /\ last => Len(logs) = written
      /\ ~ recorded
      BY <1>1, LenProperties DEF StreamInv, TypeOK, RecordFacts
<1>3. /\ written + 1 \in 1..MaxLines /\ written' \in Nat /\ written \in Nat
      /\ 1 \in Nat \ {0} /\ 1 <= written + 1 /\ 1 <= written + 1 + 1
      BY <1>1, Numbers
<1>4. CASE last
  <2>1. logs' = Append(Lines(1, written), written + 1)
        BY <1>1, <1>2, <1>4
  <2>2. logs' = Lines(1, written + 1)
    <3>1. Append(Lines(1, written), written + 1) = Lines(1, written + 1)
          BY <1>3, LinesAppend
    <3>   QED BY <2>1, <3>1
  <2>3. Len(logs') = written + 1
    <3>1. Len(Lines(1, written + 1)) = written + 1 - 1 + 1
          BY <1>3, LinesEntries
    <3>   QED BY <1>3, <2>2, <3>1
  <2>4. logs' \in Seq(1..MaxLines)
        BY <1>1, <1>2, <1>3, <1>4, AppendProperties
  <2>5. TypeOK'
        BY <1>1, <1>3, <2>4 DEF StreamInv, TypeOK
  <2>6. RecordFacts'
    <3>1. \A r \in Reader : ~ chan[r].closed
          BY <1>1 DEF StreamInv, RecordFacts
    <3>2. logs' = Lines(1, Len(logs')) /\ Len(logs') = written'
          BY <1>1, <2>2, <2>3
    <3>3. written' > 0 /\ written' <= written'
          BY <1>1, <1>3
    <3>4. /\ run' = "send" /\ chan' = chan
          /\ recorded' = FALSE
          BY <1>1, <1>2 DEF StreamInv, TypeOK
    <3>   QED BY <3>1, <3>2, <3>3, <3>4 DEF RecordFacts
  <2>7. Sent' = Sent
        BY <1>1, <1>3 DEF Sent
  <2>   QED BY <1>1, <1>3, <2>5, <2>6, <2>7, ReaderFrame DEF StreamInv
<1>5. CASE ~ last
  <2>1. TypeOK'
        BY <1>1, <1>3, <1>5 DEF StreamInv, TypeOK
  <2>2. RecordFacts'
        BY <1>1, <1>2, <1>3, <1>5 DEF StreamInv, RecordFacts
  <2>3. Sent' = Sent
        BY <1>1, <1>3 DEF Sent
  <2>   QED BY <1>1, <1>3, <2>1, <2>2, <2>3, ReaderFrame DEF StreamInv
<1>   QED BY <1>4, <1>5

LEMMA OvertakeStep ==
    ASSUME StreamInv, Overtake PROVE StreamInv'
<1>1. TypeOK' /\ RecordFacts'
      BY DEF StreamInv, TypeOK, RecordFacts, Overtake
<1>2. Sent' = Sent /\ written \in Nat /\ written <= written
      BY Numbers DEF Overtake, Sent
<1>   QED BY <1>1, <1>2, ReaderFrame DEF StreamInv, Overtake

LEMMA FinishRecordStep ==
    ASSUME StreamInv, FinishRecord PROVE StreamInv'
<1>1. TypeOK' /\ RecordFacts'
      BY DEF StreamInv, TypeOK, RecordFacts, FinishRecord
<1>2. Sent' = Sent /\ written \in Nat /\ written <= written
      BY Numbers DEF FinishRecord, Sent
<1>   QED BY <1>1, <1>2, ReaderFrame DEF StreamInv, FinishRecord

LEMMA CloseSubsStep ==
    ASSUME StreamInv, CloseSubs PROVE StreamInv'
<1>1. /\ run = "close" /\ run' = "ended" /\ chan' = ClosedAll /\ subs' = {}
      /\ UNCHANGED <<written, last, recorded, logs, reader>>
      BY DEF CloseSubs
<1>2. ASSUME NEW r \in Reader
      PROVE  /\ chan'[r] \in Channel
             /\ chan'[r].buf = chan[r].buf
             /\ chan'[r].closed = (r \in subs \/ chan[r].closed)
      BY <1>1, Flows DEF ClosedAll, Channel
<1>3. TypeOK'
  <2>1. chan' \in [Reader -> Channel]
        BY <1>1, <1>2 DEF ClosedAll
  <2>   QED BY <1>1, <1>2, <2>1 DEF StreamInv, TypeOK
<1>4. RecordFacts'
      BY <1>1 DEF StreamInv, RecordFacts
<1>5. Sent' = Sent
      BY <1>1 DEF Sent
<1>6. ASSUME NEW r \in Reader PROVE ReaderFacts(r)'
  <2>1. Flow(r)' = Flow(r)
        BY <1>1, <1>2 DEF Flow
  <2>2. ReaderFacts(r)
        BY DEF StreamInv
  <2> HIDE DEF Flow
  <2>   QED BY <1>1, <1>2, <1>5, <2>1, <2>2 DEF ReaderFacts
<1>   QED BY <1>3, <1>4, <1>6 DEF StreamInv

LEMMA SendLineStep ==
    ASSUME StreamInv, SendLine PROVE StreamInv'
<1>1. /\ run = "send" /\ run' = "log"
      /\ chan' = [r \in Reader |->
                     IF r \in subs /\ ~ Full(r)
                     THEN [chan[r] EXCEPT !.buf = Append(@, written)] ELSE chan[r]]
      /\ reader' = [r \in Reader |->
                       [reader[r] EXCEPT !.lossy = @ \/ (r \in subs /\ Full(r))]]
      /\ UNCHANGED <<written, last, recorded, logs, subs>>
      BY DEF SendLine
<1>2. /\ written \in Nat \ {0} /\ written \in 1..MaxLines
      /\ Sent = written - 1 /\ Sent' = written
      BY <1>1, Numbers DEF Sent
<1>3. ASSUME NEW r \in Reader
      PROVE  /\ reader'[r] \in ReaderState
             /\ reader'[r].pc = reader[r].pc
             /\ reader'[r].shown = reader[r].shown
             /\ reader'[r].copied = reader[r].copied
             /\ reader'[r].from = reader[r].from
             /\ reader'[r].lossy = (reader[r].lossy \/ (r \in subs /\ Full(r)))
  <2>1. reader'[r] = [reader[r] EXCEPT !.lossy = @ \/ (r \in subs /\ Full(r))]
        BY <1>1
  <2>   QED BY <2>1, Flows DEF ReaderState
<1>4. ASSUME NEW r \in Reader, r \in subs, ~ Full(r)
      PROVE  /\ chan'[r] \in Channel
             /\ chan'[r].closed = chan[r].closed
             /\ chan'[r].buf = Append(chan[r].buf, written)
             /\ Len(chan'[r].buf) <= BufferCap
  <2>1. chan'[r] = [chan[r] EXCEPT !.buf = Append(@, written)]
        BY <1>1, <1>4
  <2>2. /\ chan[r].buf \in Seq(1..MaxLines)
        /\ Append(chan[r].buf, written) \in Seq(1..MaxLines)
        /\ Len(Append(chan[r].buf, written)) = Len(chan[r].buf) + 1
        BY <1>2, Flows, AppendProperties
  <2>3. Len(chan[r].buf) < BufferCap /\ Len(chan[r].buf) \in Nat
        BY <1>4, <2>2, LenProperties, StreamAssumption DEF Full
  <2>4. /\ chan'[r] \in Channel
        /\ chan'[r].closed = chan[r].closed
        /\ chan'[r].buf = Append(chan[r].buf, written)
        BY <2>1, <2>2, Flows DEF Channel
  <2>   QED BY <2>2, <2>3, <2>4, StreamAssumption
<1>5. ASSUME NEW r \in Reader, ~ (r \in subs /\ ~ Full(r)) PROVE chan'[r] = chan[r]
      BY <1>1, <1>5
<1>6. TypeOK'
  <2>1. \A r \in Reader : chan'[r] \in Channel /\ Len(chan'[r].buf) <= BufferCap
        BY <1>4, <1>5, Flows DEF StreamInv, TypeOK
  <2>2. chan' \in [Reader -> Channel] /\ reader' \in [Reader -> ReaderState]
        BY <1>1, <1>3, <2>1
  <2>   QED BY <1>1, <2>1, <2>2 DEF StreamInv, TypeOK
<1>7. RecordFacts'
  <2>1. \A r \in Reader : ~ chan'[r].closed
        BY <1>1, <1>4, <1>5 DEF StreamInv, RecordFacts
  <2>   QED BY <1>1, <2>1 DEF StreamInv, RecordFacts
<1>8. ASSUME NEW r \in Reader PROVE ReaderFacts(r)'
  <2> DEFINE d == reader[r]
  <2>1. ReaderFacts(r) /\ ~ chan[r].closed
        BY <1>1 DEF StreamInv, RecordFacts
  <2>2. d.pc # "done" /\ (d.pc = "attached" => r \in subs)
        BY <1>1, <2>1 DEF ReaderFacts
  <2>3. d.copied \in Nat /\ d.from \in Nat
        BY Flows, StreamAssumption DEF ReaderState
  <2>4. CASE r \in subs /\ ~ Full(r)
    <3>1. Flow(r)' = Append(Flow(r), written)
      <4> DEFINE S == 1..MaxLines
                 x == d.shown
                 y == chan[r].buf
      <4>1. x \in Seq(S) /\ y \in Seq(S) /\ written \in S
            BY <1>2, Flows
      <4>2. reader'[r].shown = x /\ chan'[r].buf = Append(y, written)
            BY <1>3, <1>4, <2>4
      <4>3. Flow(r) = x \o y /\ Flow(r)' = x \o Append(y, written)
            BY <4>2 DEF Flow
      <4> HIDE DEF S, x, y
      <4>4. x \o Append(y, written) = Append(x \o y, written)
            BY <4>1, ConcatAppend
      <4>   QED BY <4>3, <4>4
    <3>2. Bounded(Flow(r), d.copied, written - 1, written) /\ Ordered(Flow(r), d.copied)
          BY <1>2, <2>1 DEF ReaderFacts
    <3>3. /\ Bounded(Append(Flow(r), written), d.copied, written, written)
          /\ Ordered(Append(Flow(r), written), d.copied)
          BY <1>2, <2>3, <3>2, Flows, OrderedAppend
    <3>4. ASSUME d.pc = "attached", ~ d.lossy
          PROVE  Append(Flow(r), written) =
                    Lines(1, d.copied) \o Lines(d.from + 1, written)
      <4>1. /\ Flow(r) = Lines(1, d.copied) \o Lines(d.from + 1, written - 1)
            /\ d.from <= written - 1
            BY <1>2, <2>1, <3>4 DEF ReaderFacts
      <4>2. /\ d.from + 1 \in Nat \ {0} /\ written - 1 \in Nat
            /\ d.from + 1 <= (written - 1) + 1 /\ (written - 1) + 1 = written
            /\ 1 \in Nat \ {0} /\ 1 <= d.copied + 1
            BY <1>2, <2>3, <4>1
      <4>3. /\ Lines(1, d.copied) \in Seq(Nat)
            /\ Lines(d.from + 1, written - 1) \in Seq(Nat)
            BY <2>3, <4>2, LinesEntries
      <4>4. Append(Lines(d.from + 1, written - 1), written) = Lines(d.from + 1, written)
        <5>1. Append(Lines(d.from + 1, written - 1), (written - 1) + 1) =
                 Lines(d.from + 1, (written - 1) + 1)
              BY <4>2, LinesAppend
        <5>   QED BY <4>2, <5>1
      <4>5. Lines(1, d.copied) \o Append(Lines(d.from + 1, written - 1), written) =
               Append(Lines(1, d.copied) \o Lines(d.from + 1, written - 1), written)
            BY <1>2, <4>3, ConcatAppend
      <4>   QED BY <4>1, <4>4, <4>5
    <3>5. d.pc = "attached" => d.from <= written
          BY <1>2, <2>1, <2>3 DEF ReaderFacts
    <3>6. d.pc \notin {"idle", "copied"}
          BY <2>1, <2>4 DEF ReaderFacts
    <3> HIDE DEF Flow
    <3>   QED BY <1>1, <1>2, <1>3, <2>1, <2>2, <2>4, <3>1, <3>3, <3>4, <3>5, <3>6
              DEF ReaderFacts
  <2>5. CASE ~ (r \in subs /\ ~ Full(r))
    <3>1. chan'[r] = chan[r] /\ Flow(r)' = Flow(r)
          BY <1>3, <1>5, <2>5 DEF Flow
    <3>2. Bounded(Flow(r), d.copied, written, written)
      <4>1. Bounded(Flow(r), d.copied, written - 1, written)
            BY <1>2, <2>1 DEF ReaderFacts
      <4>   QED BY <1>2, <4>1, Flows DEF Bounded
    <3>3. d.pc = "attached" => reader'[r].lossy /\ d.from <= written
      <4>1. d.pc = "attached" => r \in subs /\ Full(r)
            BY <2>2, <2>5
      <4>2. d.pc = "attached" => reader'[r].lossy
            BY <1>3, <4>1
      <4>3. d.pc = "attached" => d.from <= written
            BY <1>2, <2>1, <2>3 DEF ReaderFacts
      <4>   QED BY <4>2, <4>3
    <3>4. /\ reader'[r].pc = d.pc /\ reader'[r].shown = d.shown
          /\ reader'[r].copied = d.copied /\ reader'[r].from = d.from
          BY <1>3
    <3> HIDE DEF Flow
    <3>   QED BY <1>1, <1>2, <2>1, <2>2, <3>1, <3>2, <3>3, <3>4 DEF ReaderFacts
  <2>   QED BY <2>4, <2>5
<1>   QED BY <1>6, <1>7, <1>8 DEF StreamInv

-----------------------------------------------------------------------------
(* The readers *)

\* A step of reader r leaves the record and the other readers alone.
LEMMA ReaderStepInv ==
    ASSUME StreamInv, NEW r \in Reader,
           UNCHANGED <<run, written, last, recorded, logs>>,
           \A q \in Reader \ {r} : /\ reader'[q] = reader[q]
                                   /\ chan'[q] = chan[q]
                                   /\ q \in subs' <=> q \in subs,
           chan'[r].closed = chan[r].closed,
           TypeOK', ReaderFacts(r)'
    PROVE  StreamInv'
<1>1. RecordFacts'
  <2>1. \A q \in Reader : chan'[q].closed = chan[q].closed
        OBVIOUS
  <2>   QED BY <2>1 DEF StreamInv, RecordFacts
<1>2. Sent' = Sent /\ written' \in Nat /\ written <= written'
      BY Numbers DEF Sent
<1>3. \A q \in Reader : ReaderFacts(q)'
      BY <1>2, ReaderFrame
<1>   QED BY <1>1, <1>3 DEF StreamInv

\* What Subscribe copies is a beginning of the log.
LEMMA ExistingLines ==
    ASSUME StreamInv
    PROVE  /\ Existing \in Seq(1..MaxLines)
           /\ Len(Existing) \in 0..MaxLines
           /\ Existing = Lines(1, Len(Existing))
           /\ Len(Existing) <= written
<1>1. CASE last \/ recorded
      BY <1>1, Numbers DEF Existing, StreamInv, TypeOK, RecordFacts
<1>2. CASE ~ (last \/ recorded)
  <2>1. Existing = <<>> /\ Len(<<>>) = 0 /\ <<>> \in Seq(1..MaxLines)
        BY <1>2, EmptySeq DEF Existing
  <2>2. Lines(1, 0) \in Seq(Nat) /\ Len(Lines(1, 0)) = 0
    <3>1. 1 \in Nat \ {0} /\ 0 \in Nat /\ 1 <= 0 + 1 /\ 0 - 1 + 1 = 0
          OBVIOUS
    <3>   QED BY <3>1, LinesEntries
  <2>3. Lines(1, 0) = <<>>
        BY <2>2, EmptySeq
  <2>   QED BY <2>1, <2>3, Numbers
<1>   QED BY <1>1, <1>2

LEMMA CopiedReader ==
    ASSUME NEW x \in ReaderState, NEW s \in Seq(1..MaxLines), NEW n \in 0..MaxLines
    PROVE  [x EXCEPT !.pc = "copied", !.copied = n, !.shown = s] \in ReaderState
<1> DEFINE S == Seq(1..MaxLines)
           N == 0..MaxLines
<1>1. x \in [pc : {"idle", "copied", "attached", "done", "gone"}, shown : S,
              copied : N, from : N, lossy : BOOLEAN]
      BY DEF ReaderState
<1>2. s \in S /\ n \in N
      OBVIOUS
<1> HIDE DEF S, N
<1>3. [x EXCEPT !.pc = "copied", !.copied = n, !.shown = s]
         \in [pc : {"idle", "copied", "attached", "done", "gone"}, shown : S,
              copied : N, from : N, lossy : BOOLEAN]
      BY <1>1, <1>2
<1>   QED BY <1>3 DEF ReaderState, S, N

LEMMA CopyExistingStep ==
    ASSUME StreamInv, NEW r \in Reader, CopyExisting(r) PROVE StreamInv'
<1> DEFINE d == [reader[r] EXCEPT !.pc = "copied", !.copied = Len(Existing),
                                  !.shown = Existing]
           e == Existing
<1>1. /\ reader[r].pc = "idle" /\ reader' = [reader EXCEPT ![r] = d]
      /\ UNCHANGED <<run, written, last, recorded, logs, subs, chan>>
      BY DEF CopyExisting
<1>2. /\ e \in Seq(1..MaxLines) /\ Len(e) \in 0..MaxLines
      /\ e = Lines(1, Len(e)) /\ Len(e) <= written
      BY ExistingLines
<1>3. reader[r] \in ReaderState
      BY Flows
<1> HIDE DEF e
<1>4. /\ d.pc = "copied" /\ d.shown = e /\ d.copied = Len(e)
      BY <1>3 DEF ReaderState, e
<1>5. d \in ReaderState
  <2>1. e \in Seq(1..MaxLines) /\ Len(e) \in 0..MaxLines
        BY <1>2
  <2>2. d \in ReaderState
        BY <1>3, <2>1, CopiedReader DEF e
  <2>   QED BY <2>2
<1> HIDE DEF d
<1>6. reader'[r] = d /\ \A q \in Reader \ {r} : reader'[q] = reader[q]
      BY <1>1 DEF StreamInv, TypeOK
<1>7. TypeOK'
      BY <1>1, <1>5 DEF StreamInv, TypeOK
<1>8. r \notin subs /\ ~ chan[r].closed /\ chan[r].buf = <<>>
      BY <1>1 DEF StreamInv, ReaderFacts
<1>9. Flow(r)' = Lines(1, d.copied)
  <2>1. e \o <<>> = e
        BY <1>2, ConcatEmptySeq
  <2>   QED BY <1>1, <1>2, <1>4, <1>6, <1>8, <2>1 DEF Flow
<1>10. /\ Bounded(Lines(1, d.copied), d.copied, Sent, written)
       /\ Ordered(Lines(1, d.copied), d.copied)
  <2>1. d.copied \in Nat /\ written \in Nat /\ d.copied <= written
        BY <1>2, <1>4, Numbers
  <2>2. Sent \in Int /\ written - 1 <= Sent
        BY Numbers
  <2>   QED BY <2>1, <2>2, LinesOrdered
<1>11. Sent' = Sent
      BY <1>1 DEF Sent
<1>12. ReaderFacts(r)'
      BY <1>1, <1>2, <1>4, <1>6, <1>8, <1>9, <1>10, <1>11 DEF ReaderFacts
<1>   QED BY <1>1, <1>6, <1>7, <1>12, ReaderStepInv

LEMMA RegisterStep ==
    ASSUME StreamInv, NEW r \in Reader, Register(r) PROVE StreamInv'
<1> DEFINE d == [reader[r] EXCEPT !.pc = "attached", !.from = Sent]
<1>1. /\ reader[r].pc = "copied" /\ reader' = [reader EXCEPT ![r] = d]
      /\ subs' = subs \cup {r}
      /\ UNCHANGED <<run, written, last, recorded, logs, chan>>
      BY DEF Register
<1>2. reader[r] \in ReaderState /\ Sent \in 0..MaxLines /\ Sent \in Nat
      BY Flows, Numbers
<1>3. /\ d.pc = "attached" /\ d.shown = reader[r].shown
      /\ d.copied = reader[r].copied /\ d.from = Sent
      /\ d \in ReaderState
      BY <1>2 DEF ReaderState
<1> HIDE DEF d
<1>4. reader'[r] = d /\ \A q \in Reader \ {r} : reader'[q] = reader[q]
      BY <1>1 DEF StreamInv, TypeOK
<1>5. TypeOK'
      BY <1>1, <1>3 DEF StreamInv, TypeOK
<1>6. /\ ~ chan[r].closed /\ chan[r].buf = <<>>
      /\ d.shown = Lines(1, d.copied)
      /\ ReaderFacts(r)
      BY <1>1, <1>3 DEF StreamInv, ReaderFacts
<1>7. Sent' = Sent
      BY <1>1 DEF Sent
<1>8. Flow(r)' = Flow(r)
      BY <1>1, <1>3, <1>4 DEF Flow
<1>9. Flow(r) = Lines(1, d.copied) \o Lines(d.from + 1, Sent)
  <2>1. Lines(Sent + 1, Sent) \in Seq(Nat) /\ Len(Lines(Sent + 1, Sent)) = 0
    <3>1. Sent + 1 \in Nat \ {0} /\ Sent + 1 <= Sent + 1 /\ Sent - (Sent + 1) + 1 = 0
          BY <1>2
    <3>   QED BY <1>2, <3>1, LinesEntries
  <2>2. Lines(Sent + 1, Sent) = <<>>
        BY <2>1, EmptySeq
  <2>   QED BY <1>3, <1>6, <2>2 DEF Flow
<1>10. ReaderFacts(r)'
  <2> HIDE DEF Flow
  <2>   QED BY <1>1, <1>2, <1>3, <1>4, <1>6, <1>7, <1>8, <1>9 DEF ReaderFacts
<1>   QED BY <1>1, <1>4, <1>5, <1>10, ReaderStepInv

LEMMA ReceiveStep ==
    ASSUME StreamInv, NEW r \in Reader, Receive(r) PROVE StreamInv'
<1>1. /\ reader[r].pc = "attached"
      /\ UNCHANGED <<run, written, last, recorded, logs, subs>>
      BY DEF Receive
<1>2. /\ reader[r] \in ReaderState /\ chan[r] \in Channel
      /\ ReaderFacts(r) /\ Len(chan[r].buf) <= BufferCap
      BY Flows DEF StreamInv, TypeOK
<1>3. Sent' = Sent
      BY <1>1 DEF Sent
<1>4. CASE /\ chan[r].buf # <<>>
           /\ reader' = [reader EXCEPT ![r].shown = Append(@, Head(chan[r].buf))]
           /\ chan' = [chan EXCEPT ![r].buf = Tail(@)]
  <2> DEFINE S == 1..MaxLines
             x == reader[r].shown
             y == chan[r].buf
             d == [reader[r] EXCEPT !.shown = Append(x, Head(y))]
             c == [chan[r] EXCEPT !.buf = Tail(y)]
  <2>1. reader' = [reader EXCEPT ![r] = d] /\ chan' = [chan EXCEPT ![r] = c]
        BY <1>4 DEF StreamInv, TypeOK
  <2>2. x \in Seq(S) /\ y \in Seq(S) /\ y # <<>>
        BY <1>4, Flows
  <2>3. Flow(r) = x \o y
        BY DEF Flow
  <2>4. /\ Append(x, Head(y)) \in Seq(S)
        /\ Tail(y) \in Seq(S)
        /\ Len(Tail(y)) = Len(y) - 1
        /\ Append(x, Head(y)) \o Tail(y) = x \o y
    <3> HIDE DEF S, x, y
    <3>   QED BY <2>2, ConcatReceive
  <2>5. /\ d \in ReaderState /\ d.shown = Append(x, Head(y))
        /\ d.pc = "attached" /\ d.copied = reader[r].copied
        /\ d.from = reader[r].from /\ d.lossy = reader[r].lossy
        BY <1>1, <1>2, <2>4 DEF ReaderState
  <2>6. c \in Channel /\ c.buf = Tail(y) /\ c.closed = chan[r].closed
        BY <1>2, <2>4 DEF Channel
  <2>7. Len(c.buf) <= BufferCap
    <3>1. Len(y) \in Nat
          BY <2>2, LenProperties
    <3>   QED BY <1>2, <2>4, <2>6, <3>1, StreamAssumption
  <2> HIDE DEF d, c
  <2>8. reader'[r] = d /\ chan'[r] = c
        BY <2>1 DEF StreamInv, TypeOK
  <2>9. \A q \in Reader \ {r} : reader'[q] = reader[q] /\ chan'[q] = chan[q]
        BY <2>1 DEF StreamInv, TypeOK
  <2>10. TypeOK'
    <3>1. reader' \in [Reader -> ReaderState] /\ chan' \in [Reader -> Channel]
          BY <2>1, <2>5, <2>6 DEF StreamInv, TypeOK
    <3>2. \A q \in Reader : Len(chan'[q].buf) <= BufferCap
          BY <2>7, <2>8, <2>9 DEF StreamInv, TypeOK
    <3>   QED BY <1>1, <3>1, <3>2 DEF StreamInv, TypeOK
  <2>11. Flow(r)' = Flow(r)
        BY <2>3, <2>4, <2>5, <2>6, <2>8 DEF Flow
  <2>12. ReaderFacts(r)'
    <3> HIDE DEF Flow, x, y
    <3>   QED BY <1>1, <1>2, <1>3, <2>5, <2>6, <2>8, <2>11 DEF ReaderFacts
  <2>   QED BY <1>1, <2>6, <2>8, <2>9, <2>10, <2>12, ReaderStepInv
<1>5. CASE /\ chan[r].buf = <<>> /\ chan[r].closed
           /\ reader' = [reader EXCEPT ![r].pc = "done"]
           /\ UNCHANGED chan
  <2> DEFINE d == [reader[r] EXCEPT !.pc = "done"]
  <2>1. reader' = [reader EXCEPT ![r] = d]
        BY <1>5 DEF StreamInv, TypeOK
  <2>2. /\ d \in ReaderState /\ d.shown = reader[r].shown
        /\ d.pc = "done" /\ d.copied = reader[r].copied
        /\ d.from = reader[r].from /\ d.lossy = reader[r].lossy
        BY <1>2 DEF ReaderState
  <2> HIDE DEF d
  <2>3. reader'[r] = d /\ \A q \in Reader \ {r} : reader'[q] = reader[q]
        BY <2>1 DEF StreamInv, TypeOK
  <2>4. TypeOK'
        BY <1>1, <1>5, <2>1, <2>2 DEF StreamInv, TypeOK
  <2>5. Flow(r)' = Flow(r)
        BY <1>5, <2>2, <2>3 DEF Flow
  <2>6. ReaderFacts(r)'
    <3> HIDE DEF Flow
    <3>   QED BY <1>1, <1>2, <1>3, <1>5, <2>2, <2>3, <2>5 DEF ReaderFacts
  <2>   QED BY <1>1, <1>5, <2>3, <2>4, <2>6, ReaderStepInv
<1>   QED BY <1>4, <1>5 DEF Receive

LEMMA LeaveStep ==
    ASSUME StreamInv, NEW r \in Reader, Leave(r) PROVE StreamInv'
<1> DEFINE d == [reader[r] EXCEPT !.pc = "gone"]
<1>1. /\ reader' = [reader EXCEPT ![r] = d]
      /\ UNCHANGED <<run, written, last, recorded, logs, subs, chan>>
      BY DEF StreamInv, TypeOK, Leave
<1>2. /\ d \in ReaderState /\ d.shown = reader[r].shown
      /\ d.pc = "gone" /\ d.copied = reader[r].copied
      BY Flows DEF ReaderState
<1> HIDE DEF d
<1>3. reader'[r] = d /\ \A q \in Reader \ {r} : reader'[q] = reader[q]
      BY <1>1 DEF StreamInv, TypeOK
<1>4. TypeOK'
      BY <1>1, <1>2 DEF StreamInv, TypeOK
<1>5. Flow(r)' = Flow(r) /\ Sent' = Sent
      BY <1>1, <1>2, <1>3 DEF Flow, Sent
<1>6. ReaderFacts(r)'
  <2> HIDE DEF Flow
  <2>   QED BY <1>1, <1>2, <1>3, <1>5 DEF StreamInv, ReaderFacts
<1>   QED BY <1>1, <1>3, <1>4, <1>6, ReaderStepInv

-----------------------------------------------------------------------------
(* The theorems *)

LEMMA InitStreamInv == Init => StreamInv
<1> SUFFICES ASSUME Init PROVE StreamInv
    OBVIOUS
<1>1. <<>> \in Seq(1..MaxLines) /\ Len(<<>>) = 0
      BY EmptySeq
<1>2. TypeOK
  <2>1. NewReader \in ReaderState /\ [buf |-> <<>>, closed |-> FALSE] \in Channel
        BY <1>1, StreamAssumption DEF NewReader, ReaderState, Channel
  <2>2. /\ chan \in [Reader -> Channel] /\ reader \in [Reader -> ReaderState]
        /\ \A r \in Reader : Len(chan[r].buf) = 0
        BY <1>1, <2>1 DEF Init
  <2>3. 0 \in 0..MaxLines /\ 0 <= BufferCap
        BY StreamAssumption
  <2>   QED BY <1>1, <2>2, <2>3 DEF Init, TypeOK
<1>3. Lines(1, 0) = <<>>
  <2>1. 1 \in Nat \ {0} /\ 0 \in Nat /\ 1 <= 0 + 1 /\ 0 - 1 + 1 = 0
        OBVIOUS
  <2>2. Lines(1, 0) \in Seq(Nat) /\ Len(Lines(1, 0)) = 0
        BY <2>1, LinesEntries
  <2>   QED BY <2>2, EmptySeq
<1>4. RecordFacts
      BY <1>1, <1>3 DEF Init, RecordFacts
<1>5. ASSUME NEW r \in Reader PROVE ReaderFacts(r)
  <2>1. /\ reader[r].pc = "idle" /\ reader[r].shown = <<>>
        /\ chan[r].buf = <<>> /\ ~ chan[r].closed /\ r \notin subs
        BY DEF Init, NewReader
  <2>2. Flow(r) = <<>>
    <3>1. <<>> \o <<>> = <<>>
          BY <1>1, ConcatEmptySeq
    <3>   QED BY <2>1, <3>1 DEF Flow
  <2>3. Bounded(<<>>, reader[r].copied, Sent, written) /\ Ordered(<<>>, reader[r].copied)
        BY <1>1 DEF Bounded, Ordered
  <2> HIDE DEF Flow
  <2>   QED BY <2>1, <2>2, <2>3 DEF ReaderFacts
<1>   QED BY <1>2, <1>4, <1>5 DEF StreamInv

LEMMA NextStreamInv == StreamInv /\ [Next]_vars => StreamInv'
<1> SUFFICES ASSUME StreamInv, [Next]_vars PROVE StreamInv'
    OBVIOUS
<1>1. CASE RunStep
      BY <1>1, StoreLineStep, SendLineStep, FinishRecordStep, CloseSubsStep DEF RunStep
<1>2. CASE \E r \in Reader : ReaderStep(r)
      BY <1>2, CopyExistingStep, RegisterStep, ReceiveStep, LeaveStep DEF ReaderStep
<1>3. CASE UNCHANGED vars
  <2>1. TypeOK' /\ RecordFacts'
        BY <1>3 DEF StreamInv, TypeOK, RecordFacts, vars
  <2>2. Sent' = Sent /\ written \in Nat /\ written <= written
        BY <1>3, Numbers DEF vars, Sent
  <2>   QED BY <1>3, <2>1, <2>2, ReaderFrame DEF StreamInv, vars
<1>   QED BY <1>1, <1>2, <1>3, OvertakeStep DEF Next

\* Whatever the order in which the deployment logs, ends and is overtaken and
\* its readers subscribe, receive and leave, what a reader was shown and what
\* is in its channel is one copy of the first lines and then every line that
\* was offered since it registered.
THEOREM StreamInvariant == Spec => []StreamInv
BY InitStreamInv, NextStreamInv, PTL DEF Spec

\* The record, the channels and the readers hold values of their kinds, and no
\* channel holds more than its capacity: AppendLog offers a line only to a
\* channel that has room.
THEOREM StreamTypes == Spec => []TypeOK
<1>1. StreamInv => TypeOK
      BY DEF StreamInv
<1>   QED BY <1>1, StreamInvariant, PTL

\* A reader that got the end of its stream, and lost no line to a full channel,
\* was shown the whole log but what was sent between the two halves of
\* Subscribe: FinishDeployment closes the channels after the last line.
THEOREM SeamOnly == Spec => []SeamIsTheOnlyGap
<1>1. ASSUME StreamInv, NEW r \in Reader, reader[r].pc = "done", ~ reader[r].lossy
      PROVE  reader[r].shown = Lines(1, reader[r].copied)
                                  \o Lines(reader[r].from + 1, written)
  <2>1. /\ chan[r].closed /\ chan[r].buf = <<>>
        /\ Flow(r) = Lines(1, reader[r].copied) \o Lines(reader[r].from + 1, Sent)
        BY <1>1 DEF StreamInv, ReaderFacts
  <2>2. run = "ended"
        BY <1>1, <2>1 DEF StreamInv, RecordFacts
  <2>3. Sent = written
        BY <2>2 DEF Sent
  <2>4. Flow(r) = reader[r].shown
        BY <1>1, <2>1, Flows, ConcatEmptySeq DEF Flow
  <2> HIDE DEF Flow
  <2>   QED BY <2>1, <2>3, <2>4
<1>2. StreamInv => SeamIsTheOnlyGap
      BY <1>1 DEF SeamIsTheOnlyGap
<1>   QED BY <1>2, StreamInvariant, PTL

\* Lines are shown in the order they were logged and none twice, but for the
\* last line of the copy when Subscribe read it before it was sent.
THEOREM InOrder == Spec => []ShownInOrder
<1>1. ASSUME StreamInv, NEW r \in Reader
      PROVE  Ordered(reader[r].shown, reader[r].copied)
  <2> DEFINE s == reader[r].shown
             b == chan[r].buf
             f == Flow(r)
  <2>1. s \in Seq(1..MaxLines) /\ b \in Seq(1..MaxLines)
        BY <1>1, Flows
  <2>2. f = s \o b
        BY DEF Flow
  <2>3. Ordered(f, reader[r].copied)
    <3>1. ReaderFacts(r)
          BY <1>1 DEF StreamInv
    <3> HIDE DEF Flow
    <3>   QED BY <3>1 DEF ReaderFacts
  <2> HIDE DEF s, b, f
  <2>4. /\ Len(s) \in Nat /\ Len(b) \in Nat /\ Len(f) = Len(s) + Len(b)
        /\ \A i \in 1..Len(s) + Len(b) :
              f[i] = IF i <= Len(s) THEN s[i] ELSE b[i - Len(s)]
        BY <2>1, <2>2, ConcatProperties, LenProperties
  <2>5. \A i \in 1..Len(s) : f[i] = s[i]
        BY <2>4
  <2>6. \A i \in 1..(Len(s) - 1) :
           /\ i \in 1..(Len(f) - 1)
           /\ f[i] = s[i] /\ f[i + 1] = s[i + 1]
        BY <2>4, <2>5
  <2>7. Ordered(s, reader[r].copied)
        BY <2>3, <2>6 DEF Ordered
  <2>   QED BY <2>7 DEF s
<1>2. StreamInv => ShownInOrder
      BY <1>1 DEF ShownInOrder, Ordered
<1>   QED BY <1>2, StreamInvariant, PTL

\* A client that was told "done" and asks again finds the final record with the
\* whole log: FinishDeployment writes the record before it closes the channels.
THEOREM DoneRecorded == Spec => []DoneIsRecorded
<1>1. StreamInv => DoneIsRecorded
      BY DEF StreamInv, RecordFacts, ReaderFacts, DoneIsRecorded
<1>   QED BY <1>1, StreamInvariant, PTL

=============================================================================
