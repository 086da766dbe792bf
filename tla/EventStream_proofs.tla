-------------------------- MODULE EventStream_proofs --------------------------
(***************************************************************************)
(* Proofs about EventStream, for any number of streams, sessions and       *)
(* goroutines that push, any size of a channel and any limits of the store.*)
(***************************************************************************)
EXTENDS EventStream, FiniteSetTheorems, SequenceTheorems, TLAPS

-----------------------------------------------------------------------------
(* The inductive invariant *)

EventState == [pc : {"idle", "saved", "send"},
               event : [n : 0..MaxEvents, about : Report \cup {NoReport}]]

StreamState == [pc : {"idle", "listed", "live"},
                listed : Seq(Event), unsent : SUBSET (1..MaxEvents),
                seam : SUBSET (1..MaxEvents)]

Kinds ==
    /\ EvTypeOK
    /\ evBuf \in [Subscriber -> Seq(Event)]
    /\ got \in [Subscriber -> Seq(Event)]
    /\ lossy \in [Subscriber -> BOOLEAN]
    /\ pusher \in [Pusher -> EventState]
    /\ stream \in [Stream -> StreamState]

\* What subscriber c took from its channel and what is left in it
Flow(c) == got[c] \o evBuf[c]

Sends(p) == pusher[p].pc = "send"

Rising(s) == \A i, j \in DOMAIN s : i < j => s[i].n < s[j].n

\* Events are numbered as they are stored, and the trim keeps the newest.
\* What is on its way has a number of its own, and nobody has seen it.
Numbered ==
    /\ Rising(events)
    /\ \A p \in Pusher : Sends(p) => pusher[p].event.n \in 1..LastEvent
    /\ \A p, q \in Pusher :
          Sends(p) /\ Sends(q) /\ pusher[p].event.n = pusher[q].event.n => p = q
    /\ \A c \in Subscriber : \A i \in DOMAIN Flow(c) :
          /\ Flow(c)[i].n <= LastEvent
          /\ \A p \in Pusher : Sends(p) => Flow(c)[i].n # pusher[p].event.n

\* A build has one entry; some entry is the last report.
One(s) ==
    /\ \A i, j \in DOMAIN s : s[i].build = s[j].build => i = j
    /\ s # <<>> =>
          \E i \in DOMAIN s : \A j \in DOMAIN s : s[j].report <= s[i].report

OneEach == One(builds)

\* The builds have that report or a later one of its build, or they are full
\* of other ones. No report is ahead of the builds.
KeptBy(s, r) ==
    \/ \E j \in DOMAIN s : s[j].build = r.build /\ s[j].report >= r.report
    \/ /\ \A j \in DOMAIN s : s[j].build # r.build
       /\ Len(s) = MaxBuilds

Held(r) == r # NoReport => r.report <= LastReport /\ KeptBy(builds, r)

AllHeld ==
    /\ \A p \in Pusher : Held(pusher[p].event.about)
    /\ \A c \in Subscriber : \A i \in DOMAIN Flow(c) : Held(Flow(c)[i].about)

\* No two sequences of events have a pair of them in different orders.
Agree(f, g) ==
    \A i, j \in DOMAIN f : \A k, l \in DOMAIN g :
        f[i] = g[k] /\ f[j] = g[l] /\ i < j => k < l

InOrder == \A c, d \in Subscriber : Agree(Flow(c), Flow(d))

Live(c) ==
    stream[c].pc = "live" =>
        /\ c \in evSubs
        /\ ~ lossy[c] =>
              Stored \subseteq Numbers(stream[c].listed) \cup stream[c].seam
                                  \cup Pending \cup Numbers(Flow(c))

\* What comes through the channel of c is newer than its list, or had not been
\* sent then
Newer(c, n) ==
    n \in stream[c].unsent \/ \A m \in Numbers(stream[c].listed) : m < n

Listed(c) ==
    /\ Rising(stream[c].listed)
    /\ \A m \in Numbers(stream[c].listed) : m <= LastEvent
    /\ \A n \in Pending : Newer(c, n)
    /\ stream[c].pc = "live" => \A n \in Numbers(Flow(c)) : Newer(c, n)

EvInv ==
    /\ Kinds
    /\ Numbered
    /\ OneEach
    /\ AllHeld
    /\ InOrder
    /\ \A c \in Stream : Live(c) /\ Listed(c)

-----------------------------------------------------------------------------
(* Sequences of events *)

\* What is taken from a channel stays in the flow.
LEMMA TakeKeeps ==
    ASSUME NEW S, NEW s \in Seq(S), NEW t \in Seq(S), t # <<>>
    PROVE  /\ Append(s, Head(t)) \in Seq(S)
           /\ Tail(t) \in Seq(S)
           /\ Len(Tail(t)) = Len(t) - 1
           /\ Append(s, Head(t)) \o Tail(t) = s \o t
<1> DEFINE h == Head(t)
           u == Tail(t)
<1>1. /\ h \in S /\ h = t[1] /\ u \in Seq(S) /\ Len(u) = Len(t) - 1
      /\ u = SubSeq(t, 2, Len(t))
      BY HeadTailProperties, TailIsSubSeq
<1>2. 1 \in 1..Len(t) /\ Len(t) \in 1..Len(t) /\ 1 + 1 = 2
  <2>1. Len(t) \in Nat \ {0}
        BY EmptySeq
  <2>   QED BY <2>1
<1>3. SubSeq(t, 1, Len(t)) = <<t[1]>> \o SubSeq(t, 1 + 1, Len(t))
      BY <1>2, SubSeqRecursiveFirst
<1>4. t = <<h>> \o u
      BY <1>1, <1>2, <1>3, SubSeqFull
<1> HIDE DEF h, u
<1> DEFINE w == <<h>>
<1>5. w \in Seq(S)
      BY <1>1
<1>6. /\ Append(s, h) \in Seq(S)
      /\ Append(s, h) = s \o w
      BY <1>1, AppendProperties, AppendIsConcat
<1>7. t = w \o u
      BY <1>4
<1> HIDE DEF w
<1>8. (s \o w) \o u = s \o (w \o u)
  <2>1. s \in Seq(S) /\ w \in Seq(S) /\ u \in Seq(S)
        BY <1>1, <1>5
  <2>   QED BY ONLY <2>1, ConcatAssociative
<1>9. Append(s, h) \o u = s \o t
  <2>1. (s \o w) \o u = s \o t
        BY <1>7, <1>8
  <2>   QED BY <1>6, <2>1
<1>   QED BY <1>1, <1>6, <1>9 DEF h, u

\* What is sent to a channel ends the flow.
LEMMA SendAppends ==
    ASSUME NEW S, NEW s \in Seq(S), NEW t \in Seq(S), NEW x \in S
    PROVE  s \o Append(t, x) = Append(s \o t, x)
<1>1. Append(t, x) = t \o <<x>> /\ <<x>> \in Seq(S)
      BY AppendIsConcat
<1>2. s \o t \in Seq(S)
      BY ConcatProperties
<1>3. Append(s \o t, x) = (s \o t) \o <<x>>
      BY <1>2, AppendIsConcat
<1>   QED BY <1>1, <1>3, ConcatAssociative

\* The end of a sequence that Newest keeps.
LEMMA NewestKeeps ==
    ASSUME NEW S, NEW s \in Seq(S), s # <<>>, NEW m \in Nat \ {0}
    PROVE  /\ Newest(s, m) \in Seq(S)
           /\ Len(Newest(s, m)) \in 1..m
           /\ Len(s) - Len(Newest(s, m)) \in Nat
           /\ Len(s) <= m => Newest(s, m) = s
           /\ Len(s) >= m => Len(Newest(s, m)) = m
           /\ \A i \in 1..Len(Newest(s, m)) :
                 Newest(s, m)[i] = s[i + (Len(s) - Len(Newest(s, m)))]
<1>1. Len(s) \in Nat \ {0}
      BY EmptySeq
<1>2. CASE Len(s) <= m
  <2>1. Newest(s, m) = s
        BY <1>1, <1>2 DEF Newest
  <2>2. \A i \in 1..Len(s) : i + (Len(s) - Len(s)) = i
        BY <1>1
  <2>   QED BY <1>1, <1>2, <2>1, <2>2
<1>3. CASE Len(s) > m
  <2> DEFINE a == Len(s) - m + 1
             n == Len(s)
             t == SubSeq(s, a, n)
  <2>1. Newest(s, m) = t
        BY <1>3 DEF Newest
  <2>2. a \in Int /\ n \in Int /\ a <= n /\ n - a + 1 = m /\ a \in 1..n
        BY <1>1, <1>3
  <2>3. \A i \in a..n : s[i] \in S
        BY <2>2, ElementOfSeq
  <2> HIDE DEF a
  <2>4. /\ t \in Seq(S)
        /\ Len(t) = n - a + 1
        /\ \A i \in 1..(n - a + 1) : t[i] = s[a + i - 1]
        BY <2>2, <2>3, SubSeqProperties
  <2>5. Len(t) = m /\ n - m \in Nat
        BY <1>1, <1>3, <2>2, <2>4
  <2>6. \A i \in 1..m : a + i - 1 = i + (n - m)
        BY <2>2
  <2> HIDE DEF t
  <2>7. \A i \in 1..m : t[i] = s[i + (n - m)]
        BY <2>2, <2>4, <2>6
  <2>   QED BY <1>1, <1>3, <2>1, <2>4, <2>5, <2>7
<1>   QED BY <1>1, <1>2, <1>3

\* A number that no other exceeds is the greatest.
LEMMA MaxIs ==
    ASSUME NEW S, S \subseteq Int, NEW x \in S, \A y \in S : x >= y
    PROVE  Max(S) = x
<1>1. Max(S) \in S /\ \A y \in S : Max(S) >= y
      BY DEF Max
<1>2. Max(S) >= x /\ x >= Max(S) /\ Max(S) \in Int /\ x \in Int
      BY <1>1
<1>   QED BY <1>2

LEMMA ConcatNumbers ==
    ASSUME NEW f \in Seq(Event), NEW g \in Seq(Event)
    PROVE  Numbers(f \o g) = Numbers(f) \cup Numbers(g)
<1> DEFINE h == f \o g
<1>1. /\ h \in Seq(Event) /\ Len(h) = Len(f) + Len(g)
      /\ \A i \in 1..Len(f) + Len(g) :
            h[i] = IF i <= Len(f) THEN f[i] ELSE g[i - Len(f)]
      BY ConcatProperties
<1>2. /\ Len(f) \in Nat /\ Len(g) \in Nat
      /\ DOMAIN f = 1..Len(f) /\ DOMAIN g = 1..Len(g)
      BY LenProperties
<1>3. DOMAIN h = 1..Len(f) + Len(g)
      BY <1>1, LenProperties
<1> HIDE DEF h
<1>4. ASSUME NEW i \in DOMAIN h PROVE h[i].n \in Numbers(f) \cup Numbers(g)
  <2>1. CASE i <= Len(f)
        BY <1>1, <1>2, <1>3, <2>1 DEF Numbers
  <2>2. CASE i > Len(f)
    <3>1. h[i] = g[i - Len(f)] /\ i - Len(f) \in DOMAIN g
          BY <1>1, <1>2, <1>3, <2>2
    <3>   QED BY <3>1 DEF Numbers
  <2>   QED BY <1>2, <1>3, <2>1, <2>2
<1>5. ASSUME NEW i \in DOMAIN f PROVE f[i].n \in Numbers(h)
  <2>1. i \in DOMAIN h /\ h[i] = f[i]
        BY <1>1, <1>2, <1>3
  <2>   QED BY <2>1 DEF Numbers
<1>6. ASSUME NEW i \in DOMAIN g PROVE g[i].n \in Numbers(h)
  <2>1. i + Len(f) \in DOMAIN h /\ i + Len(f) > Len(f) /\ (i + Len(f)) - Len(f) = i
        BY <1>2, <1>3
  <2>2. h[i + Len(f)] = g[i]
        BY <1>1, <1>2, <1>3, <2>1
  <2>   QED BY <2>1, <2>2 DEF Numbers
<1>7. Numbers(h) = Numbers(f) \cup Numbers(g)
      BY <1>4, <1>5, <1>6 DEF Numbers
<1>   QED BY <1>7 DEF h

\* An event that neither of two sequences has may end both of them or one.
LEMMA AgreeAppend ==
    ASSUME NEW f \in Seq(Event), NEW g \in Seq(Event), NEW e \in Event,
           \A i \in DOMAIN f : f[i] # e, \A i \in DOMAIN g : g[i] # e,
           Agree(f, g),
           NEW u \in {f, Append(f, e)}, NEW v \in {g, Append(g, e)}
    PROVE  Agree(u, v)
<1>1. /\ Len(f) \in Nat /\ Len(g) \in Nat
      /\ DOMAIN f = 1..Len(f) /\ DOMAIN g = 1..Len(g)
      BY LenProperties
<1>2. \A i \in DOMAIN u : (i \in DOMAIN f /\ u[i] = f[i])
                          \/ (i = Len(f) + 1 /\ u[i] = e)
  <2>1. CASE u = f
        BY <2>1
  <2>2. CASE u = Append(f, e)
    <3>1. /\ Append(f, e) \in Seq(Event) /\ Len(Append(f, e)) = Len(f) + 1
          /\ \A i \in 1..Len(f) : Append(f, e)[i] = f[i]
          /\ Append(f, e)[Len(f) + 1] = e
          BY AppendProperties
    <3>2. DOMAIN u = 1..Len(f) + 1
          BY <2>2, <3>1, LenProperties
    <3>   QED BY <1>1, <2>2, <3>1, <3>2
  <2>   QED BY <2>1, <2>2
<1>3. \A i \in DOMAIN v : (i \in DOMAIN g /\ v[i] = g[i])
                          \/ (i = Len(g) + 1 /\ v[i] = e)
  <2>1. CASE v = g
        BY <2>1
  <2>2. CASE v = Append(g, e)
    <3>1. /\ Append(g, e) \in Seq(Event) /\ Len(Append(g, e)) = Len(g) + 1
          /\ \A i \in 1..Len(g) : Append(g, e)[i] = g[i]
          /\ Append(g, e)[Len(g) + 1] = e
          BY AppendProperties
    <3>2. DOMAIN v = 1..Len(g) + 1
          BY <2>2, <3>1, LenProperties
    <3>   QED BY <1>1, <2>2, <3>1, <3>2
  <2>   QED BY <2>1, <2>2
<1>4. ASSUME NEW i \in DOMAIN u, NEW j \in DOMAIN u, NEW k \in DOMAIN v,
             NEW l \in DOMAIN v, u[i] = v[k], u[j] = v[l], i < j
      PROVE  k < l
  <2>1. i \in DOMAIN f /\ u[i] = f[i]
        BY <1>1, <1>2, <1>4
  <2>2. k \in DOMAIN g /\ v[k] = g[k]
        BY <1>3, <1>4, <2>1
  <2>3. CASE j \in DOMAIN f /\ u[j] = f[j]
    <3>1. l \in DOMAIN g /\ v[l] = g[l]
          BY <1>3, <1>4, <2>3
    <3>   QED BY <1>4, <2>1, <2>2, <2>3, <3>1 DEF Agree
  <2>4. CASE j = Len(f) + 1 /\ u[j] = e
    <3>1. l = Len(g) + 1
          BY <1>3, <1>4, <2>4
    <3>   QED BY <1>1, <2>2, <3>1
  <2>   QED BY <1>2, <2>3, <2>4
<1>   QED BY <1>4 DEF Agree

-----------------------------------------------------------------------------
(* What the types give *)

LEMMA FlowType ==
    ASSUME Kinds, NEW c \in Subscriber
    PROVE  /\ evBuf[c] \in Seq(Event) /\ got[c] \in Seq(Event)
           /\ Flow(c) \in Seq(Event)
           /\ Len(Flow(c)) \in Nat
           /\ DOMAIN Flow(c) = 1..Len(Flow(c))
           /\ \A i \in DOMAIN Flow(c) : Flow(c)[i] \in Event
<1>1. evBuf[c] \in Seq(Event) /\ got[c] \in Seq(Event)
      BY DEF Kinds
<1>2. Flow(c) \in Seq(Event)
      BY <1>1, ConcatProperties DEF Flow
<1>   QED BY <1>1, <1>2, LenProperties, ElementOfSeq

\* The last of the stored events has the greatest number.
LEMMA TopNumber ==
    ASSUME NEW s \in Seq(Event), Rising(s)
    PROVE  LET top == Max({0} \cup {s[i].n : i \in DOMAIN s})
           IN /\ s # <<>> => top = s[Len(s)].n
              /\ top \in 0..MaxEvents
              /\ \A i \in DOMAIN s : s[i].n <= top
<1> DEFINE T == {0} \cup {s[i].n : i \in DOMAIN s}
<1>1. /\ Len(s) \in Nat /\ DOMAIN s = 1..Len(s)
      /\ \A i \in DOMAIN s : s[i] \in Event
      BY LenProperties, ElementOfSeq
<1>2. \A i \in DOMAIN s : s[i].n \in 1..MaxEvents
      BY <1>1 DEF Event
<1>3. T \subseteq Int /\ 0 \in T /\ \A i \in DOMAIN s : s[i].n \in T
      BY <1>2
<1>4. CASE s = <<>>
  <2>1. T = {0}
        BY <1>4
  <2> HIDE DEF T
  <2>2. Max(T) = 0
        BY <1>3, <2>1, MaxIs
  <2>   QED BY <1>4, <2>2, EventAssumption DEF T
<1>5. CASE s # <<>>
  <2>1. Len(s) \in DOMAIN s
    <3>1. Len(s) \in Nat \ {0}
          BY <1>5, EmptySeq
    <3>   QED BY <1>1, <3>1
  <2>2. \A i \in DOMAIN s : s[Len(s)].n >= s[i].n
    <3> SUFFICES ASSUME NEW i \in DOMAIN s PROVE s[Len(s)].n >= s[i].n
        OBVIOUS
    <3>1. i = Len(s) \/ i < Len(s)
          BY <1>1
    <3>   QED BY <1>2, <2>1, <3>1 DEF Rising
  <2>3. \A x \in T : s[Len(s)].n >= x
        BY <1>2, <2>1, <2>2
  <2>4. s[Len(s)].n \in T
        BY <1>3, <2>1
  <2> HIDE DEF T
  <2>5. Max(T) = s[Len(s)].n
        BY <1>3, <2>3, <2>4, MaxIs
  <2>6. s[Len(s)].n \in 0..MaxEvents
        BY <1>2, <2>1
  <2>   QED BY <1>5, <2>2, <2>5, <2>6 DEF T
<1>   QED BY <1>4, <1>5

\* The greatest number of a report is that of an entry no other exceeds.
LEMMA TopReport ==
    ASSUME NEW s \in Seq(Report), NEW x \in DOMAIN s,
           \A i \in DOMAIN s : s[i].report <= s[x].report
    PROVE  Max({0} \cup {s[i].report : i \in DOMAIN s}) = s[x].report
<1> DEFINE T == {0} \cup {s[i].report : i \in DOMAIN s}
<1>1. \A i \in DOMAIN s : s[i].report \in 1..MaxReports
  <2>1. DOMAIN s = 1..Len(s) /\ \A i \in DOMAIN s : s[i] \in Report
        BY LenProperties, ElementOfSeq
  <2>   QED BY <2>1 DEF Report
<1>2. T \subseteq Int /\ s[x].report \in T
      BY <1>1
<1>3. \A y \in T : s[x].report >= y
      BY <1>1
<1> HIDE DEF T
<1>4. Max(T) = s[x].report
      BY <1>2, <1>3, MaxIs
<1>   QED BY <1>4 DEF T

LEMMA LastReportIs ==
    ASSUME EvInv
    PROVE  /\ LastReport \in 0..MaxReports
           /\ \A i \in DOMAIN builds : builds[i].report <= LastReport
<1>1. /\ builds \in Seq(Report) /\ DOMAIN builds = 1..Len(builds)
      /\ \A i \in DOMAIN builds : builds[i] \in Report
  <2>1. builds \in Seq(Report)
        BY DEF EvInv, Kinds, EvTypeOK
  <2>   QED BY <2>1, LenProperties, ElementOfSeq
<1>2. CASE builds = <<>>
  <2> DEFINE T == {0} \cup {builds[i].report : i \in DOMAIN builds}
  <2>1. T = {0}
        BY <1>2
  <2> HIDE DEF T
  <2>2. T \subseteq Int /\ 0 \in T /\ \A y \in T : 0 >= y
        BY <2>1
  <2>3. Max(T) = 0
        BY <2>2, MaxIs
  <2>   QED BY <1>2, <2>3, EventAssumption DEF LastReport, T
<1>3. CASE builds # <<>>
  <2>1. PICK x \in DOMAIN builds :
           \A i \in DOMAIN builds : builds[i].report <= builds[x].report
        BY <1>3 DEF EvInv, OneEach, One
  <2>2. LastReport = builds[x].report
        BY <1>1, <2>1, TopReport DEF LastReport
  <2>3. builds[x].report \in 1..MaxReports
        BY <1>1, <2>1 DEF Report
  <2>   QED BY <2>1, <2>2, <2>3
<1>   QED BY <1>2, <1>3

\* The facts about the flows do not change when flows stay or are dropped.
LEMMA FlowsFrame ==
    ASSUME EvInv, UNCHANGED <<events, builds, pusher>>,
           \A c \in Subscriber : Flow(c)' = Flow(c) \/ Flow(c)' = <<>>
    PROVE  Numbered' /\ OneEach' /\ AllHeld' /\ InOrder'
<1>1. LastEvent' = LastEvent /\ LastReport' = LastReport
      BY DEF LastEvent, Stored, Numbers, LastReport
<1>2. \A p \in Pusher : Sends(p)' = Sends(p)
      BY DEF Sends
<1>3. \A r : Held(r)' = Held(r)
      BY <1>1 DEF Held, KeptBy
<1>4. OneEach'
      BY DEF EvInv, OneEach, One
<1> HIDE DEF Flow
<1>5. Numbered'
      BY <1>1, <1>2 DEF EvInv, Numbered
<1>6. AllHeld'
      BY <1>3 DEF EvInv, AllHeld
<1>7. InOrder'
      BY DEF EvInv, InOrder, Agree
<1>   QED BY <1>4, <1>5, <1>6, <1>7

\* A stream that nothing happens to stays informed.
LEMMA LiveFrame ==
    ASSUME EvInv, NEW c \in Stream, stream'[c] = stream[c],
           c \in evSubs => c \in evSubs', lossy'[c] = lossy[c],
           Numbers(Flow(c))' = Numbers(Flow(c)),
           Stored' = Stored, Pending' = Pending
    PROVE  Live(c)'
<1>1. Live(c)
      BY DEF EvInv
<1>   QED BY <1>1 DEF Live

LEMMA LastEventIs ==
    ASSUME EvInv
    PROVE  /\ LastEvent \in 0..MaxEvents /\ LastEvent \in Nat
           /\ \A i \in DOMAIN events : events[i].n <= LastEvent
<1>1. events \in Seq(Event) /\ Rising(events)
      BY DEF EvInv, Kinds, EvTypeOK, Numbered
<1>   QED BY <1>1, TopNumber DEF LastEvent, Stored, Numbers

\* A stream keeps what it knows of its list, as long as what is pending was
\* pending before or is new, and its channel gets nothing but pending events.
LEMMA ListedFrame ==
    ASSUME EvInv, NEW c \in Stream, stream'[c] = stream[c],
           LastEvent' \in Nat, LastEvent <= LastEvent',
           \A n \in Pending' : n \in Pending \/ (n \in Nat /\ n > LastEvent),
           Numbers(Flow(c))' \subseteq Numbers(Flow(c)) \cup Pending
    PROVE  Listed(c)'
<1>1. Listed(c) /\ LastEvent \in Nat
      BY LastEventIs DEF EvInv
<1>2. \A m \in Numbers(stream[c].listed) : m \in Nat
  <2>1. stream[c].listed \in Seq(Event)
        BY DEF EvInv, Kinds, StreamState
  <2>2. \A i \in DOMAIN stream[c].listed : stream[c].listed[i] \in Event
        BY <2>1, LenProperties, ElementOfSeq
  <2>   QED BY <2>2 DEF Numbers, Event
<1>3. \A n : Newer(c, n)' = Newer(c, n)
      BY DEF Newer, Numbers
<1>4. \A n : n \in Nat /\ n > LastEvent => Newer(c, n)
      BY <1>1, <1>2 DEF Newer, Listed
<1>5. \A m \in Numbers(stream'[c].listed) : m <= LastEvent'
      BY <1>1, <1>2 DEF Listed
<1> HIDE DEF Flow
<1>6. Rising(stream'[c].listed) /\ stream'[c].pc = stream[c].pc
      BY <1>1 DEF Listed
<1>7. \A n \in Pending' : Newer(c, n)'
      BY <1>1, <1>3, <1>4 DEF Listed
<1>8. stream[c].pc = "live" => \A n \in Numbers(Flow(c))' : Newer(c, n)'
      BY <1>1, <1>3 DEF Listed
<1>   QED BY <1>5, <1>6, <1>7, <1>8 DEF Listed, Rising, Numbers

-----------------------------------------------------------------------------
(* The subscribers *)

LEMMA StoredType ==
    ASSUME EvInv PROVE Stored \subseteq 1..MaxEvents
<1>1. events \in Seq(Event)
      BY DEF EvInv, Kinds, EvTypeOK
<1>2. \A i \in DOMAIN events : events[i] \in Event
      BY <1>1, LenProperties, ElementOfSeq
<1>   QED BY <1>2 DEF Stored, Numbers, Event

\* A channel that is made anew, or dropped.
LEMMA ChannelReset ==
    ASSUME EvInv, NEW c \in Subscriber, SubscribeEvents(c) \/ UnsubscribeEvents(c),
           UNCHANGED <<events, builds, pusher>>, stream' \in [Stream -> StreamState],
           \A d \in Stream \ {c} : stream'[d] = stream[d],
           c \in Stream => Live(c)' /\ Listed(c)'
    PROVE  EvInv'
<1>1. /\ evBuf' = [evBuf EXCEPT ![c] = <<>>]
      /\ got' = [got EXCEPT ![c] = <<>>]
      /\ lossy' = [lossy EXCEPT ![c] = FALSE]
      /\ evSubs' \subseteq Subscriber
      /\ \A d \in Stream \ {c} : d \in evSubs => d \in evSubs'
      BY DEF SubscribeEvents, UnsubscribeEvents, EvInv, Kinds, EvTypeOK
<1>2. <<>> \in Seq(Event) /\ Len(<<>>) = 0 /\ 0 <= EvCap
      BY EmptySeq, EventAssumption
<1>3. Kinds
      BY DEF EvInv
<1>4. /\ evBuf' \in [Subscriber -> Seq(Event)]
      /\ got' \in [Subscriber -> Seq(Event)]
      /\ lossy' \in [Subscriber -> BOOLEAN]
      BY <1>1, <1>2, <1>3 DEF Kinds
<1>5. /\ evBuf'[c] = <<>> /\ got'[c] = <<>>
      /\ \A d \in Subscriber \ {c} :
            evBuf'[d] = evBuf[d] /\ got'[d] = got[d] /\ lossy'[d] = lossy[d]
      BY <1>1, <1>3 DEF Kinds
<1>6. \A d \in Subscriber : Len(evBuf'[d]) <= EvCap
      BY <1>2, <1>3, <1>5 DEF Kinds, EvTypeOK
<1>7. Kinds'
  <2>1. EvTypeOK'
        BY <1>1, <1>3, <1>4, <1>6 DEF Kinds, EvTypeOK, StreamState
  <2>   QED BY <1>3, <1>4, <2>1 DEF Kinds
<1>8. Flow(c)' = <<>> /\ \A d \in Subscriber \ {c} : Flow(d)' = Flow(d)
  <2>1. <<>> \o <<>> = <<>>
        BY <1>2, ConcatEmptySeq
  <2>   QED BY <1>5, <2>1 DEF Flow
<1>9. Numbered' /\ OneEach' /\ AllHeld' /\ InOrder'
  <2> HIDE DEF Flow
  <2>   QED BY <1>8, FlowsFrame
<1>10. \A d \in Stream : Live(d)' /\ Listed(d)'
  <2>1. /\ Stored' = Stored /\ Pending' = Pending
        /\ LastEvent' = LastEvent /\ LastEvent \in Nat
        BY LastEventIs DEF Stored, Numbers, Pending, LastEvent
  <2> SUFFICES ASSUME NEW d \in Stream, d # c PROVE Live(d)' /\ Listed(d)'
      OBVIOUS
  <2>2. d \in Subscriber \ {c}
        BY DEF Subscriber
  <2>3. Numbers(Flow(d))' = Numbers(Flow(d))
        BY <1>8, <2>2 DEF Numbers
  <2>4. Live(d)'
        BY <1>1, <1>5, <2>1, <2>2, <2>3, LiveFrame
  <2>5. Listed(d)'
        BY <2>1, <2>3, ListedFrame
  <2>   QED BY <2>4, <2>5
<1>   QED BY <1>7, <1>9, <1>10 DEF EvInv

LEMMA TakeStep ==
    ASSUME EvInv, NEW c \in Subscriber, Take(c),
           UNCHANGED <<events, builds, evSubs, pusher, stream, lossy>>
    PROVE  EvInv'
<1> DEFINE x == got[c]
           y == evBuf[c]
           S == Event
<1>1. Kinds
      BY DEF EvInv
<1>2. x \in Seq(S) /\ y \in Seq(S) /\ y # <<>> /\ Len(y) <= EvCap
      BY <1>1, FlowType DEF Take, EvInv, Kinds, EvTypeOK
<1>3. /\ evBuf' = [evBuf EXCEPT ![c] = Tail(y)]
      /\ got' = [got EXCEPT ![c] = Append(x, Head(y))]
      BY DEF Take
<1>4. /\ Append(x, Head(y)) \in Seq(S)
      /\ Tail(y) \in Seq(S)
      /\ Len(Tail(y)) = Len(y) - 1
      /\ Append(x, Head(y)) \o Tail(y) = x \o y
  <2> HIDE DEF x, y, S
  <2>   QED BY <1>2, TakeKeeps
<1>5. Len(Tail(y)) <= EvCap
  <2>1. Len(y) \in Nat
        BY <1>2, LenProperties
  <2>   QED BY <1>2, <1>4, <2>1, EventAssumption
<1>6. /\ evBuf'[c] = Tail(y) /\ got'[c] = Append(x, Head(y))
      /\ \A d \in Subscriber \ {c} : evBuf'[d] = evBuf[d] /\ got'[d] = got[d]
      BY <1>1, <1>3 DEF Kinds
<1>7. Kinds'
  <2>1. /\ evBuf' \in [Subscriber -> Seq(Event)]
        /\ got' \in [Subscriber -> Seq(Event)]
        BY <1>1, <1>3, <1>4 DEF Kinds
  <2>2. \A d \in Subscriber : Len(evBuf'[d]) <= EvCap
        BY <1>1, <1>5, <1>6 DEF Kinds, EvTypeOK
  <2>3. EvTypeOK'
        BY <1>1, <2>1, <2>2 DEF Kinds, EvTypeOK
  <2>   QED BY <1>1, <2>1, <2>3 DEF Kinds
<1>8. \A d \in Subscriber : Flow(d)' = Flow(d)
  <2>1. Flow(c)' = Flow(c)
    <3>1. Flow(c)' = Append(x, Head(y)) \o Tail(y)
          BY <1>6 DEF Flow
    <3>2. Flow(c) = x \o y
          BY DEF Flow
    <3>   QED BY <1>4, <3>1, <3>2
  <2>2. \A d \in Subscriber \ {c} : Flow(d)' = Flow(d)
        BY <1>6 DEF Flow
  <2>   QED BY <2>1, <2>2
<1>9. Numbered' /\ OneEach' /\ AllHeld' /\ InOrder'
  <2> HIDE DEF Flow
  <2>   QED BY <1>8, FlowsFrame
<1>10. \A d \in Stream : Live(d)' /\ Listed(d)'
  <2>1. /\ Stored' = Stored /\ Pending' = Pending
        /\ LastEvent' = LastEvent /\ LastEvent \in Nat
        BY LastEventIs DEF Stored, Numbers, Pending, LastEvent
  <2> SUFFICES ASSUME NEW d \in Stream PROVE Live(d)' /\ Listed(d)'
      OBVIOUS
  <2>2. d \in Subscriber
        BY DEF Subscriber
  <2>3. Numbers(Flow(d))' = Numbers(Flow(d))
        BY <1>8, <2>2 DEF Numbers
  <2>4. Live(d)'
        BY <2>1, <2>3, LiveFrame
  <2>5. Listed(d)'
        BY <2>1, <2>3, ListedFrame
  <2>   QED BY <2>4, <2>5
<1>   QED BY <1>7, <1>9, <1>10 DEF EvInv

LEMMA ListEventsStep ==
    ASSUME EvInv, NEW c \in Stream, ListEvents(c) PROVE EvInv'
<1> DEFINE d == [pc |-> "listed", listed |-> events, unsent |-> Pending,
                 seam |-> {}]
<1>0. /\ events \in Seq(Event) /\ Rising(events)
      /\ Pending \subseteq 1..MaxEvents
  <2>1. LastEvent \in 0..MaxEvents /\ MaxEvents \in Nat
        BY LastEventIs, EventAssumption
  <2>2. \A p \in Pusher : Sends(p) => pusher[p].event.n \in 1..LastEvent
        BY DEF EvInv, Numbered
  <2>   QED BY <2>1, <2>2 DEF EvInv, Kinds, EvTypeOK, Numbered, Pending, Sends
<1>1. /\ stream' = [stream EXCEPT ![c] = d]
      /\ UNCHANGED <<events, builds, evSubs, evBuf, pusher, got, lossy>>
      BY DEF ListEvents
<1>2. /\ Kinds /\ d \in StreamState /\ d.pc = "listed"
      /\ d.listed = events /\ d.unsent = Pending
      BY <1>0 DEF EvInv, StreamState
<1> HIDE DEF d
<1>3. stream' \in [Stream -> StreamState] /\ stream'[c] = d
      /\ \A b \in Stream \ {c} : stream'[b] = stream[b]
      BY <1>1, <1>2 DEF Kinds
<1>4. Kinds'
      BY <1>1, <1>2, <1>3 DEF Kinds, EvTypeOK, StreamState
<1>5. \A b \in Subscriber : Flow(b)' = Flow(b)
      BY <1>1 DEF Flow
<1>6. Numbered' /\ OneEach' /\ AllHeld' /\ InOrder'
  <2> HIDE DEF Flow
  <2>   QED BY <1>1, <1>5, FlowsFrame
<1>7. \A b \in Stream : Live(b)' /\ Listed(b)'
  <2>1. /\ Stored' = Stored /\ Pending' = Pending
        /\ LastEvent' = LastEvent /\ LastEvent \in Nat
        /\ \A i \in DOMAIN events : events[i].n <= LastEvent
        BY <1>1, LastEventIs DEF Stored, Numbers, Pending, LastEvent
  <2> SUFFICES ASSUME NEW b \in Stream PROVE Live(b)' /\ Listed(b)'
      OBVIOUS
  <2>2. Numbers(Flow(b))' = Numbers(Flow(b))
        BY <1>1 DEF Numbers, Flow
  <2>3. CASE b = c
    <3>1. Live(b)'
          BY <1>2, <1>3, <2>3 DEF Live
    <3>2. Rising(stream'[b].listed) /\ stream'[b].unsent = Pending
          BY <1>0, <1>2, <1>3, <2>3
    <3>3. \A m \in Numbers(stream'[b].listed) : m <= LastEvent
          BY <1>2, <1>3, <2>1, <2>3 DEF Numbers
    <3>4. stream'[b].pc # "live"
          BY <1>2, <1>3, <2>3
    <3> HIDE DEF Flow
    <3>   QED BY <2>1, <3>1, <3>2, <3>3, <3>4 DEF Listed, Newer, Rising, Numbers
  <2>4. CASE b # c
    <3>1. Live(b)'
          BY <1>1, <1>3, <2>1, <2>2, <2>4, LiveFrame
    <3>2. Listed(b)'
          BY <1>3, <2>1, <2>2, <2>4, ListedFrame
    <3>   QED BY <3>1, <3>2
  <2>   QED BY <2>3, <2>4
<1>   QED BY <1>4, <1>6, <1>7 DEF EvInv

LEMMA SubscribeStreamStep ==
    ASSUME EvInv, NEW c \in Stream, SubscribeStream(c) PROVE EvInv'
<1> DEFINE seam == Stored \ (Numbers(stream[c].listed) \cup Pending)
           d == [stream[c] EXCEPT !.pc = "live", !.seam = seam]
<1>1. /\ SubscribeEvents(c) /\ UNCHANGED <<events, builds, pusher>>
      /\ stream' = [stream EXCEPT ![c].pc = "live", ![c].seam = seam]
      BY DEF SubscribeStream
<1>2. stream \in [Stream -> StreamState] /\ stream[c] \in StreamState
      /\ seam \in SUBSET (1..MaxEvents) /\ c \in Subscriber
      BY StoredType DEF EvInv, Kinds, Subscriber
<1>3. stream' = [stream EXCEPT ![c] = d]
      BY <1>1, <1>2
<1>4. d \in StreamState /\ d.pc = "live" /\ d.seam = seam
      /\ d.listed = stream[c].listed /\ d.unsent = stream[c].unsent
      BY <1>2 DEF StreamState
<1> HIDE DEF d
<1>5. stream' \in [Stream -> StreamState] /\ stream'[c] = d
      /\ \A b \in Stream \ {c} : stream'[b] = stream[b]
      BY <1>2, <1>3, <1>4
<1>6. Live(c)'
  <2>1. c \in evSubs'
        BY <1>1 DEF SubscribeEvents
  <2>2. Stored' = Stored /\ Pending' = Pending
        BY <1>1 DEF Stored, Numbers, Pending
  <2>3. Numbers(stream'[c].listed) = Numbers(stream[c].listed)
        BY <1>4, <1>5
  <2>4. stream'[c].seam = Stored \ (Numbers(stream[c].listed) \cup Pending)
        BY <1>4, <1>5
  <2>5. Live(c)' <=>
           (stream'[c].pc = "live" =>
              /\ c \in evSubs'
              /\ ~ lossy'[c] =>
                    Stored' \subseteq Numbers(stream'[c].listed) \cup stream'[c].seam
                                         \cup Pending' \cup Numbers(Flow(c))')
        BY DEF Live, Numbers
  <2>   QED BY <2>1, <2>2, <2>3, <2>4, <2>5
<1>7. Listed(c)'
  <2>1. Pending' = Pending /\ LastEvent' = LastEvent
        BY <1>1 DEF LastEvent, Stored, Numbers, Pending
  <2>2. Listed(c)
        BY DEF EvInv
  <2>3. /\ stream'[c].listed = stream[c].listed
        /\ stream'[c].unsent = stream[c].unsent
        BY <1>4, <1>5
  <2>4. Flow(c)' = <<>>
    <3>1. evBuf'[c] = <<>> /\ got'[c] = <<>>
          BY <1>1, <1>2 DEF SubscribeEvents, EvInv, Kinds
    <3>2. <<>> \o <<>> = <<>>
          BY EmptySeq, ConcatEmptySeq
    <3>   QED BY <3>1, <3>2 DEF Flow
  <2>5. Numbers(Flow(c))' = {}
    <3>1. DOMAIN <<>> = {}
          BY EmptySeq
    <3>   QED BY <2>4, <3>1 DEF Numbers
  <2> HIDE DEF Flow
  <2>   QED BY <2>1, <2>2, <2>3, <2>5 DEF Listed, Newer, Rising, Numbers
<1>   QED BY <1>1, <1>2, <1>5, <1>6, <1>7, ChannelReset

\* A stream that is not listed yet knows nothing that could be wrong.
LEMMA EmptyListed ==
    ASSUME NEW c \in Stream, stream'[c] = NewStream
    PROVE  Listed(c)'
<1>1. DOMAIN <<>> = {}
      BY EmptySeq
<1>2. stream'[c].listed = <<>> /\ stream'[c].pc = "idle"
      BY DEF NewStream
<1>   QED BY <1>1, <1>2 DEF Listed, Newer, Rising, Numbers

LEMMA LeaveStreamStep ==
    ASSUME EvInv, NEW c \in Stream, LeaveStream(c) PROVE EvInv'
<1>1. /\ UnsubscribeEvents(c) /\ UNCHANGED <<events, builds, pusher>>
      /\ stream' = [stream EXCEPT ![c] = NewStream]
      BY DEF LeaveStream
<1>2. stream \in [Stream -> StreamState] /\ c \in Subscriber
      /\ NewStream \in StreamState /\ NewStream.pc = "idle"
      /\ NewStream.listed = <<>>
      BY EmptySeq DEF EvInv, Kinds, Subscriber, NewStream, StreamState
<1>3. stream' \in [Stream -> StreamState] /\ stream'[c] = NewStream
      /\ \A b \in Stream \ {c} : stream'[b] = stream[b]
      BY <1>1, <1>2
<1>4. Live(c)' /\ Listed(c)'
      BY <1>2, <1>3, EmptyListed DEF Live
<1>   QED BY <1>1, <1>2, <1>3, <1>4, ChannelReset

LEMMA ShowEventStep ==
    ASSUME EvInv, NEW c \in Stream, ShowEvent(c) PROVE EvInv'
BY TakeStep DEF ShowEvent, Subscriber

-----------------------------------------------------------------------------
(* The pushers *)

\* A trim drops entries only from a full list; what it keeps are entries.
TrimOf(t, s, x, m, S) ==
    /\ t \in Seq(S) /\ Len(t) \in 1..m /\ DOMAIN t = 1..Len(t)
    /\ Len(t) \in Nat
    /\ t[Len(t)] = x
    /\ \/ /\ Len(t) = Len(s) + 1
          /\ \A i \in 1..Len(s) : t[i] = s[i]
       \/ /\ Len(t) = m /\ Len(s) = m
          /\ \A i \in 1..(m - 1) : t[i] = s[i + 1]

LEMMA Trimmed ==
    ASSUME NEW S, NEW s \in Seq(S), NEW x \in S, NEW m \in Nat \ {0}, Len(s) <= m
    PROVE  TrimOf(Newest(Append(s, x), m), s, x, m, S)
<1> DEFINE a == Append(s, x)
           t == Newest(a, m)
<1>1. /\ a \in Seq(S) /\ a # <<>> /\ Len(a) = Len(s) + 1
      /\ \A i \in 1..Len(s) : a[i] = s[i]
      /\ a[Len(s) + 1] = x
      BY AppendProperties
<1>2. Len(s) \in Nat
      BY LenProperties
<1> HIDE DEF a
<1>3. /\ t \in Seq(S) /\ Len(t) \in 1..m
      /\ Len(a) <= m => t = a
      /\ Len(a) >= m => Len(t) = m
      /\ \A i \in 1..Len(t) : t[i] = a[i + (Len(a) - Len(t))]
      BY <1>1, NewestKeeps
<1> HIDE DEF t
<1>4. DOMAIN t = 1..Len(t) /\ Len(t) \in Nat
      BY <1>3, LenProperties
<1>5. t[Len(t)] = x
  <2>1. Len(t) \in 1..Len(t) /\ Len(t) + (Len(a) - Len(t)) = Len(s) + 1
        BY <1>1, <1>2, <1>3
  <2>   QED BY <1>1, <1>3, <2>1
<1>6. CASE Len(s) < m
  <2>1. t = a
        BY <1>1, <1>2, <1>3, <1>6
  <2>   QED BY <1>1, <1>3, <1>4, <1>5, <2>1 DEF t, a, TrimOf
<1>7. CASE Len(s) = m
  <2>1. Len(t) = m /\ Len(a) - Len(t) = 1
        BY <1>1, <1>2, <1>3, <1>7
  <2>2. \A i \in 1..(m - 1) : t[i] = s[i + 1]
    <3> SUFFICES ASSUME NEW i \in 1..(m - 1) PROVE t[i] = s[i + 1]
        OBVIOUS
    <3>1. i \in 1..Len(t) /\ i + 1 \in 1..Len(s)
          BY <1>7, <2>1
    <3>   QED BY <1>1, <1>3, <2>1, <3>1
  <2>   QED BY <1>3, <1>4, <1>5, <1>7, <2>1, <2>2 DEF t, a, TrimOf
<1>   QED BY <1>2, <1>6, <1>7

\* An event with the next number is the greatest, whatever the trim drops.
LEMMA NextNumber ==
    ASSUME NEW s \in Seq(Event), Rising(s), Len(s) <= MaxStored,
           NEW e \in Event, NEW top \in Nat, e.n = top + 1,
           \A i \in DOMAIN s : s[i].n <= top
    PROVE  LET t == Newest(Append(s, e), MaxStored)
           IN /\ t \in Seq(Event) /\ Len(t) <= MaxStored
              /\ Rising(t)
              /\ Max({0} \cup {t[i].n : i \in DOMAIN t}) = top + 1
              /\ {t[i].n : i \in DOMAIN t}
                    \subseteq {s[i].n : i \in DOMAIN s} \cup {top + 1}
<1> DEFINE t == Newest(Append(s, e), MaxStored)
           n == Len(t)
<1>1. /\ DOMAIN s = 1..Len(s) /\ Len(s) \in Nat
      /\ \A i \in DOMAIN s : s[i] \in Event
      BY LenProperties, ElementOfSeq
<1>2. MaxStored \in Nat \ {0}
      BY EventAssumption
<1>3. TrimOf(t, s, e, MaxStored, Event)
      BY <1>2, Trimmed
<1> HIDE DEF t
<1>4. t \in Seq(Event) /\ n \in Nat /\ n <= MaxStored /\ n # 0
  <2>1. t \in Seq(Event) /\ n \in 1..MaxStored
        BY <1>3, Zenon DEF n, TrimOf
  <2>   QED BY <1>2, <2>1
<1>5. DOMAIN t = 1..n /\ t[n] = e
      BY <1>3, Zenon DEF n, TrimOf
<1>6. \A i \in DOMAIN s : s[i].n \in Nat /\ s[i].n <= top
      BY <1>1 DEF Event
<1>7. t[n].n = top + 1
      BY <1>5
<1>8. \/ n = Len(s) + 1 /\ \A i \in 1..Len(s) : t[i] = s[i]
      \/ /\ n = MaxStored /\ Len(s) = MaxStored
         /\ \A i \in 1..(MaxStored - 1) : t[i] = s[i + 1]
      BY <1>3, Zenon DEF n, TrimOf
<1>9. PICK o \in {0, 1} :
         \A i \in 1..(n - 1) : t[i] = s[i + o] /\ i + o \in DOMAIN s
  <2>1. CASE n = Len(s) + 1 /\ \A i \in 1..Len(s) : t[i] = s[i]
    <3>1. \A i \in 1..(n - 1) : t[i] = s[i + 0] /\ i + 0 \in DOMAIN s
          BY <1>1, <2>1
    <3>   QED BY <3>1
  <2>2. CASE /\ n = MaxStored /\ Len(s) = MaxStored
             /\ \A i \in 1..(MaxStored - 1) : t[i] = s[i + 1]
    <3>1. \A i \in 1..(n - 1) : t[i] = s[i + 1] /\ i + 1 \in DOMAIN s
          BY <1>1, <1>2, <2>2
    <3>   QED BY <3>1
  <2>   QED BY <1>8, <2>1, <2>2
<1> HIDE DEF n
<1>10. Rising(t)
  <2> SUFFICES ASSUME NEW i \in 1..n, NEW j \in 1..n, i < j
               PROVE  t[i].n < t[j].n
      BY <1>5 DEF Rising
  <2>1. i \in 1..(n - 1) /\ i \in Nat /\ j \in Nat
        BY <1>4
  <2>2. t[i] = s[i + o] /\ i + o \in DOMAIN s
        BY <1>9, <2>1
  <2>3. CASE j = n
    <3>1. s[i + o].n <= top /\ s[i + o].n \in Nat
          BY <1>6, <2>2
    <3>   QED BY <1>7, <2>2, <2>3, <3>1
  <2>4. CASE j # n
    <3>1. j \in 1..(n - 1)
          BY <1>4, <2>4
    <3>2. t[j] = s[j + o] /\ j + o \in DOMAIN s /\ i + o < j + o
          BY <1>9, <2>1, <3>1
    <3>3. s[i + o].n < s[j + o].n
          BY <2>2, <3>2 DEF Rising
    <3>   QED BY <2>2, <3>2, <3>3
  <2>   QED BY <2>3, <2>4
<1>11. Max({0} \cup {t[i].n : i \in DOMAIN t}) = top + 1
  <2>1. t # <<>>
    <3>1. Len(<<>>) = 0
          BY EmptySeq
    <3>   QED BY <1>4, <3>1 DEF n
  <2>2. Max({0} \cup {t[i].n : i \in DOMAIN t}) = t[Len(t)].n
        BY <1>4, <1>10, <2>1, TopNumber
  <2>   QED BY <1>7, <2>2 DEF n
<1>12. {t[i].n : i \in DOMAIN t} \subseteq {s[i].n : i \in DOMAIN s} \cup {top + 1}
  <2> SUFFICES ASSUME NEW i \in 1..n
               PROVE  t[i].n \in {s[j].n : j \in DOMAIN s} \cup {top + 1}
      BY <1>5
  <2>1. CASE i = n
        BY <1>7, <2>1
  <2>2. CASE i # n
    <3>1. i \in 1..(n - 1)
          BY <1>4, <2>2
    <3>   QED BY <1>9, <3>1
  <2>   QED BY <2>1, <2>2
<1>   QED BY <1>4, <1>10, <1>11, <1>12 DEF t, n

LEMMA StoreEventStep ==
    ASSUME EvInv, NEW p \in Pusher, StoreEvent(p) PROVE EvInv'
<1> DEFINE e == [pusher[p].event EXCEPT !.n = LastEvent + 1]
           q == [pc |-> "send", event |-> e]
<1>1. /\ pusher[p].pc \in {"idle", "saved"} /\ LastEvent < MaxEvents
      /\ events' = Newest(Append(events, e), MaxStored)
      /\ pusher' = [pusher EXCEPT ![p] = q]
      /\ UNCHANGED <<builds, evSubs, evBuf, stream, got, lossy>>
      BY DEF StoreEvent
<1>2. /\ Kinds /\ pusher \in [Pusher -> EventState] /\ pusher[p] \in EventState
      /\ events \in Seq(Event) /\ Len(events) <= MaxStored /\ Rising(events)
      BY DEF EvInv, Kinds, EvTypeOK, Numbered
<1>3. LastEvent + 1 \in 1..MaxEvents /\ LastEvent \in Nat /\ MaxEvents \in Nat
      BY <1>1, LastEventIs, EventAssumption
<1>4. /\ e \in Event /\ e.n = LastEvent + 1 /\ e.about = pusher[p].event.about
      /\ q \in EventState /\ q.pc = "send" /\ q.event = e
      BY <1>2, <1>3 DEF Event, EventState
<1> HIDE DEF e, q
<1>5. /\ events' \in Seq(Event) /\ Len(events') <= MaxStored
      /\ Rising(events')
      /\ LastEvent' = LastEvent + 1
      /\ Stored' \subseteq Stored \cup {LastEvent + 1}
  <2>1. \A i \in DOMAIN events : events[i].n <= LastEvent
        BY LastEventIs
  <2>2. LET t == Newest(Append(events, e), MaxStored)
        IN /\ t \in Seq(Event) /\ Len(t) <= MaxStored
           /\ Rising(t)
           /\ Max({0} \cup {t[i].n : i \in DOMAIN t}) = LastEvent + 1
           /\ {t[i].n : i \in DOMAIN t}
                 \subseteq {events[i].n : i \in DOMAIN events} \cup {LastEvent + 1}
        BY <1>2, <1>3, <1>4, <2>1, NextNumber
  <2>   QED BY <1>1, <2>2, Zenon DEF LastEvent, Stored, Numbers
<1>6. pusher'[p] = q /\ pusher' \in [Pusher -> EventState]
      /\ \A x \in Pusher \ {p} : pusher'[x] = pusher[x]
      BY <1>1, <1>2, <1>4
<1>7. Kinds'
  <2>1. EvTypeOK'
        BY <1>1, <1>2, <1>5, <1>6 DEF Kinds, EvTypeOK, EventState
  <2>   QED BY <1>1, <1>2, <1>6, <2>1 DEF Kinds
<1>8. \A c \in Subscriber : Flow(c)' = Flow(c)
      BY <1>1 DEF Flow
<1>9. /\ \A x \in Pusher : Sends(x) => pusher[x].event.n \in 1..LastEvent
      /\ \A x, y \in Pusher :
            Sends(x) /\ Sends(y) /\ pusher[x].event.n = pusher[y].event.n => x = y
      /\ \A c \in Subscriber : \A i \in DOMAIN Flow(c) :
            /\ Flow(c)[i].n <= LastEvent
            /\ \A x \in Pusher : Sends(x) => Flow(c)[i].n # pusher[x].event.n
      BY DEF EvInv, Numbered
<1>10. /\ Sends(p)' /\ pusher'[p].event.n = LastEvent + 1
       /\ \A x \in Pusher \ {p} :
             Sends(x)' = Sends(x) /\ pusher'[x].event.n = pusher[x].event.n
      BY <1>4, <1>6 DEF Sends
<1>11. ASSUME NEW c \in Subscriber, NEW i \in DOMAIN Flow(c)
       PROVE  Flow(c)[i].n \in Nat
  <2>1. Flow(c)[i] \in Event
        BY <1>2, FlowType
  <2>   QED BY <2>1 DEF Event
<1> HIDE DEF Flow
<1>12. Numbered'
  <2>1. \A x \in Pusher : Sends(x)' => pusher'[x].event.n \in 1..(LastEvent + 1)
        BY <1>3, <1>9, <1>10
  <2>2. ASSUME NEW x \in Pusher, NEW y \in Pusher, Sends(x)', Sends(y)',
               pusher'[x].event.n = pusher'[y].event.n
        PROVE  x = y
        BY <1>3, <1>9, <1>10, <2>2
  <2>3. ASSUME NEW c \in Subscriber, NEW i \in DOMAIN Flow(c)
        PROVE  /\ Flow(c)[i].n <= LastEvent + 1
               /\ \A x \in Pusher : Sends(x)' => Flow(c)[i].n # pusher'[x].event.n
        BY <1>3, <1>9, <1>10, <1>11
  <2>   QED BY <1>5, <1>8, <2>1, <2>2, <2>3 DEF Numbered
<1>13. OneEach'
      BY <1>1 DEF EvInv, OneEach, One
<1>14. AllHeld'
  <2>1. \A x \in Pusher : pusher'[x].event.about = pusher[x].event.about
        BY <1>4, <1>6
  <2>2. ASSUME NEW x \in Pusher PROVE Held(pusher[x].event.about)'
        BY <1>1, <2>1 DEF EvInv, AllHeld, Held, KeptBy, LastReport
  <2>3. ASSUME NEW c \in Subscriber, NEW i \in DOMAIN Flow(c)'
        PROVE  Held(Flow(c)[i].about)'
        BY <1>1, <1>8 DEF EvInv, AllHeld, Held, KeptBy, LastReport
  <2>   QED BY <2>2, <2>3 DEF AllHeld
<1>15. InOrder'
      BY <1>8 DEF EvInv, InOrder, Agree
<1>16. ASSUME NEW c \in Stream PROVE Live(c)' /\ Listed(c)'
  <2>1. /\ Pending \subseteq Pending' /\ LastEvent + 1 \in Pending'
        /\ Pending' \subseteq Pending \cup {LastEvent + 1}
    <3>1. Pending = {pusher[x].event.n : x \in {y \in Pusher : Sends(y)}}
          BY DEF Pending, Sends
    <3>2. Pending' = {pusher'[x].event.n : x \in {y \in Pusher : Sends(y)'}}
          BY DEF Pending, Sends
    <3>3. ~ Sends(p)
          BY <1>1 DEF Sends
    <3>   QED BY <1>10, <3>1, <3>2, <3>3
  <2>2. c \in Subscriber
        BY DEF Subscriber
  <2>3. Numbers(Flow(c))' = Numbers(Flow(c))
        BY <1>8, <2>2 DEF Numbers
  <2>4. Live(c)
        BY DEF EvInv
  <2>5. Live(c)'
        BY <1>1, <1>5, <2>1, <2>3, <2>4 DEF Live
  <2>6. Listed(c)'
    <3>1. \A n \in Pending' : n \in Pending \/ (n \in Nat /\ n > LastEvent)
          BY <1>3, <2>1
    <3>   QED BY <1>1, <1>3, <1>5, <2>3, <3>1, ListedFrame
  <2>   QED BY <2>5, <2>6
<1>   QED BY <1>7, <1>12, <1>13, <1>14, <1>15, <1>16 DEF EvInv

LEMMA AppendNumbers ==
    ASSUME NEW f \in Seq(Event), NEW e \in Event
    PROVE  Numbers(f) \cup {e.n} \subseteq Numbers(Append(f, e))
<1> DEFINE t == Append(f, e)
<1>1. /\ t \in Seq(Event) /\ Len(t) = Len(f) + 1
      /\ \A i \in 1..Len(f) : t[i] = f[i]
      /\ t[Len(f) + 1] = e
      BY AppendProperties
<1>2. DOMAIN f = 1..Len(f) /\ Len(f) \in Nat
      BY LenProperties
<1> HIDE DEF t
<1>3. DOMAIN t = 1..Len(f) + 1
      BY <1>1, LenProperties
<1>4. Numbers(f) \cup {e.n} \subseteq Numbers(t)
  <2>1. \A i \in 1..Len(f) : f[i].n \in Numbers(t)
        BY <1>1, <1>2, <1>3 DEF Numbers
  <2>2. Len(f) + 1 \in DOMAIN t
        BY <1>2, <1>3
  <2>3. e.n \in Numbers(t)
        BY <1>1, <2>2, Zenon DEF Numbers
  <2>   QED BY <1>2, <2>1, <2>3 DEF Numbers
<1>   QED BY <1>4 DEF t

\* The entries of a sequence with one more.
LEMMA AppendEntries ==
    ASSUME NEW f \in Seq(Event), NEW e \in Event
    PROVE  /\ Append(f, e) \in Seq(Event)
           /\ \A i \in DOMAIN Append(f, e) :
                 Append(f, e)[i] = e
                 \/ (i \in DOMAIN f /\ Append(f, e)[i] = f[i])
<1> DEFINE t == Append(f, e)
<1>1. /\ t \in Seq(Event) /\ Len(t) = Len(f) + 1
      /\ \A i \in 1..Len(f) : t[i] = f[i]
      /\ t[Len(f) + 1] = e
      BY AppendProperties
<1>2. DOMAIN f = 1..Len(f) /\ Len(f) \in Nat
      BY LenProperties
<1> HIDE DEF t
<1>3. DOMAIN t = 1..Len(f) + 1
      BY <1>1, LenProperties
<1>4. ASSUME NEW i \in DOMAIN t
      PROVE  t[i] = e \/ (i \in DOMAIN f /\ t[i] = f[i])
  <2>1. i = Len(f) + 1 \/ i \in 1..Len(f)
        BY <1>2, <1>3
  <2>   QED BY <1>1, <1>2, <2>1, Zenon
<1>   QED BY <1>1, <1>4 DEF t

LEMMA DeliverStep ==
    ASSUME EvInv, NEW p \in Pusher, Deliver(p) PROVE EvInv'
<1> DEFINE e == pusher[p].event
<1>1. /\ Sends(p)
      /\ evBuf' = Offered(evSubs, e) /\ lossy' = Dropping(evSubs)
      /\ pusher' = [pusher EXCEPT ![p] = Idle]
      /\ UNCHANGED <<events, builds, evSubs, stream, got>>
      BY DEF Deliver, Sends
<1>2. /\ Kinds /\ pusher \in [Pusher -> EventState] /\ pusher[p] \in EventState
      /\ LastEvent \in 0..MaxEvents /\ MaxEvents \in Nat
      BY LastEventIs, EventAssumption DEF EvInv, Kinds
<1>3. e.n \in 1..LastEvent
      BY <1>1 DEF EvInv, Numbered
<1>4. e \in Event
      BY <1>2, <1>3 DEF Event, EventState
<1>5. Idle \in EventState /\ Idle.pc = "idle" /\ Idle.event.about = NoReport
      BY EventAssumption DEF Idle, EventState, NoReport
<1>6. pusher'[p] = Idle /\ pusher' \in [Pusher -> EventState]
      /\ \A x \in Pusher \ {p} : pusher'[x] = pusher[x]
      BY <1>1, <1>2, <1>5
<1>7. ~ Sends(p)' /\ \A x \in Pusher \ {p} : Sends(x)' = Sends(x)
      BY <1>5, <1>6 DEF Sends
<1> HIDE DEF e
<1>8. ASSUME NEW c \in Subscriber
      PROVE  /\ evBuf'[c] = IF c \in evSubs /\ ~ Full(c) THEN Append(evBuf[c], e)
                                                         ELSE evBuf[c]
             /\ lossy'[c] = (lossy[c] \/ (c \in evSubs /\ Full(c)))
      BY <1>1 DEF Offered, Dropping
<1>9. ASSUME NEW c \in Subscriber
      PROVE  evBuf'[c] \in Seq(Event) /\ Len(evBuf'[c]) <= EvCap
  <2>1. /\ evBuf[c] \in Seq(Event) /\ Len(evBuf[c]) <= EvCap
        /\ Len(evBuf[c]) \in Nat
        BY <1>2, FlowType, LenProperties DEF Kinds, EvTypeOK
  <2>2. CASE c \in evSubs /\ ~ Full(c)
    <3>1. /\ Append(evBuf[c], e) \in Seq(Event)
          /\ Len(Append(evBuf[c], e)) = Len(evBuf[c]) + 1
          BY <1>4, <2>1, AppendProperties
    <3>2. Len(evBuf[c]) + 1 <= EvCap
          BY <2>1, <2>2, EventAssumption DEF Full
    <3>   QED BY <1>8, <2>2, <3>1, <3>2
  <2>3. CASE ~ (c \in evSubs /\ ~ Full(c))
        BY <1>8, <2>1, <2>3
  <2>   QED BY <2>2, <2>3
<1>10. Kinds'
  <2>1. evBuf' \in [Subscriber -> Seq(Event)] /\ lossy' \in [Subscriber -> BOOLEAN]
        BY <1>1, <1>2, <1>9 DEF Offered, Dropping, Kinds
  <2>2. EvTypeOK'
        BY <1>1, <1>2, <1>6, <1>9, <2>1 DEF Kinds, EvTypeOK, EventState
  <2>   QED BY <1>1, <1>2, <1>6, <2>1, <2>2 DEF Kinds
<1>11. ASSUME NEW c \in Subscriber
       PROVE  /\ c \in evSubs /\ ~ Full(c) => Flow(c)' = Append(Flow(c), e)
              /\ ~ (c \in evSubs /\ ~ Full(c)) => Flow(c)' = Flow(c)
  <2>1. CASE c \in evSubs /\ ~ Full(c)
    <3> DEFINE S == Event
               x == got[c]
               y == evBuf[c]
    <3>1. x \in Seq(S) /\ y \in Seq(S) /\ e \in S
          BY <1>2, <1>4, FlowType
    <3>2. got'[c] = x /\ evBuf'[c] = Append(y, e)
          BY <1>1, <1>8, <2>1
    <3>3. Flow(c) = x \o y /\ Flow(c)' = x \o Append(y, e)
          BY <3>2 DEF Flow
    <3> HIDE DEF S, x, y
    <3>4. x \o Append(y, e) = Append(x \o y, e)
          BY <3>1, SendAppends
    <3>   QED BY <2>1, <3>3, <3>4
  <2>2. CASE ~ (c \in evSubs /\ ~ Full(c))
        BY <1>1, <1>8, <2>2 DEF Flow
  <2>   QED BY <2>1, <2>2
<1>12. ASSUME NEW c \in Subscriber
       PROVE  /\ Flow(c) \in Seq(Event)
              /\ \A i \in DOMAIN Flow(c) : Flow(c)[i] # e /\ Flow(c)[i].n \in Nat
  <2>1. /\ Flow(c) \in Seq(Event)
        /\ \A i \in DOMAIN Flow(c) : Flow(c)[i] \in Event
        BY <1>2, FlowType
  <2>2. \A i \in DOMAIN Flow(c) : Flow(c)[i].n # pusher[p].event.n
        BY <1>1 DEF EvInv, Numbered
  <2>   QED BY <2>1, <2>2 DEF Event, e
<1> HIDE DEF Flow
<1>13. ASSUME NEW c \in Subscriber, NEW i \in DOMAIN Flow(c)'
       PROVE  Flow(c)'[i] = e \/ (i \in DOMAIN Flow(c) /\ Flow(c)'[i] = Flow(c)[i])
  <2>1. CASE c \in evSubs /\ ~ Full(c)
    <3>1. \A j \in DOMAIN Append(Flow(c), e) :
             Append(Flow(c), e)[j] = e
             \/ (j \in DOMAIN Flow(c) /\ Append(Flow(c), e)[j] = Flow(c)[j])
          BY <1>4, <1>12, AppendEntries
    <3>2. Flow(c)' = Append(Flow(c), e)
          BY <1>11, <2>1
    <3>   QED BY <3>1, <3>2, Zenon
  <2>2. CASE ~ (c \in evSubs /\ ~ Full(c))
        BY <1>11, <2>2
  <2>   QED BY <2>1, <2>2
<1>14. Numbered'
  <2>1. LastEvent' = LastEvent /\ Rising(events)'
        BY <1>1 DEF LastEvent, Stored, Numbers, EvInv, Numbered, Rising
  <2>2. \A x \in Pusher : Sends(x)' => /\ Sends(x) /\ x # p
                                       /\ pusher'[x].event.n = pusher[x].event.n
        BY <1>6, <1>7
  <2>3. /\ \A x \in Pusher : Sends(x) => pusher[x].event.n \in 1..LastEvent
        /\ \A x, y \in Pusher :
              Sends(x) /\ Sends(y) /\ pusher[x].event.n = pusher[y].event.n => x = y
        /\ \A c \in Subscriber : \A i \in DOMAIN Flow(c) :
              /\ Flow(c)[i].n <= LastEvent
              /\ \A x \in Pusher : Sends(x) => Flow(c)[i].n # pusher[x].event.n
        BY DEF EvInv, Numbered
  <2>4. /\ e.n <= LastEvent
        /\ \A x \in Pusher : Sends(x) /\ x # p => e.n # pusher[x].event.n
        BY <1>1, <1>2, <1>3, <2>3 DEF e
  <2>5. ASSUME NEW c \in Subscriber, NEW i \in DOMAIN Flow(c)'
        PROVE  /\ Flow(c)'[i].n <= LastEvent
               /\ \A x \in Pusher : Sends(x)' => Flow(c)'[i].n # pusher'[x].event.n
    <3>1. CASE Flow(c)'[i] = e
          BY <2>2, <2>4, <3>1
    <3>2. CASE i \in DOMAIN Flow(c) /\ Flow(c)'[i] = Flow(c)[i]
          BY <2>2, <2>3, <3>2
    <3>   QED BY <1>13, <3>1, <3>2
  <2>   QED BY <2>1, <2>2, <2>3, <2>5 DEF Numbered
<1>15. OneEach'
      BY <1>1 DEF EvInv, OneEach, One
<1>16. AllHeld'
  <2>1. ASSUME NEW x \in Pusher PROVE Held(pusher[x].event.about)'
    <3>1. CASE x = p
          BY <1>5, <1>6, <3>1 DEF Held, KeptBy
    <3>2. CASE x # p
          BY <1>1, <1>6, <3>2 DEF EvInv, AllHeld, Held, KeptBy, LastReport
    <3>   QED BY <3>1, <3>2
  <2>2. ASSUME NEW c \in Subscriber, NEW i \in DOMAIN Flow(c)'
        PROVE  Held(Flow(c)[i].about)'
    <3>1. CASE Flow(c)'[i] = e
      <4>1. Held(e.about)
            BY DEF EvInv, AllHeld, e
      <4>   QED BY <1>1, <3>1, <4>1 DEF Held, KeptBy, LastReport
    <3>2. CASE i \in DOMAIN Flow(c) /\ Flow(c)'[i] = Flow(c)[i]
      <4>1. Held(Flow(c)[i].about)
            BY <3>2 DEF EvInv, AllHeld
      <4>   QED BY <1>1, <3>2, <4>1 DEF Held, KeptBy, LastReport
    <3>   QED BY <1>13, <3>1, <3>2
  <2>   QED BY <2>1, <2>2 DEF AllHeld
<1>17. InOrder'
  <2> SUFFICES ASSUME NEW c \in Subscriber, NEW d \in Subscriber
               PROVE  Agree(Flow(c)', Flow(d)')
      BY DEF InOrder, Agree
  <2>1. Agree(Flow(c), Flow(d))
        BY DEF EvInv, InOrder
  <2>2. /\ Flow(c)' \in {Flow(c), Append(Flow(c), e)}
        /\ Flow(d)' \in {Flow(d), Append(Flow(d), e)}
        BY <1>11
  <2>   QED BY <1>4, <1>12, <2>1, <2>2, AgreeAppend
<1>18. ASSUME NEW c \in Stream PROVE Live(c)' /\ Listed(c)'
  <2>1. /\ c \in Subscriber /\ Stored' = Stored /\ Live(c)
        BY <1>1 DEF Subscriber, Stored, Numbers, EvInv
  <2>2. Pending \subseteq Pending' \cup {e.n}
        BY <1>6, <1>7 DEF Pending, Sends, e
  <2>6. Listed(c)'
    <3>1. Pending' \subseteq Pending /\ e.n \in Pending
      <4>1. /\ Pending = {pusher[x].event.n : x \in {y \in Pusher : Sends(y)}}
            /\ Pending' = {pusher'[x].event.n : x \in {y \in Pusher : Sends(y)'}}
            BY DEF Pending, Sends
      <4>2. \A x \in Pusher : Sends(x)' => Sends(x) /\ x # p
            BY <1>7
      <4>3. \A x \in Pusher \ {p} : pusher'[x].event.n = pusher[x].event.n
            BY <1>6
      <4>4. Sends(p) /\ e.n = pusher[p].event.n
            BY <1>1 DEF e
      <4>   QED BY <4>1, <4>2, <4>3, <4>4
    <3>2. LastEvent' = LastEvent /\ LastEvent \in Nat
          BY <1>1, LastEventIs DEF LastEvent, Stored, Numbers
    <3>3. Numbers(Flow(c))' \subseteq Numbers(Flow(c)) \cup {e.n}
      <4>1. Numbers(Flow(c))' = {Flow(c)'[i].n : i \in DOMAIN Flow(c)'}
            BY DEF Numbers
      <4>2. ASSUME NEW i \in DOMAIN Flow(c)'
            PROVE  Flow(c)'[i].n \in Numbers(Flow(c)) \cup {e.n}
            BY <1>13, <2>1, <4>2 DEF Numbers
      <4>   QED BY <4>1, <4>2
    <3>4. \A n \in Pending' : n \in Pending
          BY <3>1
    <3>5. Numbers(Flow(c))' \subseteq Numbers(Flow(c)) \cup Pending
          BY <3>1, <3>3
    <3>6. stream'[c] = stream[c] /\ LastEvent <= LastEvent' /\ LastEvent' \in Nat
          BY <1>1, <3>2
    <3>   QED BY <3>4, <3>5, <3>6, ListedFrame
  <2> SUFFICES Live(c)'
      BY <2>6
  <2>3. CASE c \in evSubs /\ ~ Full(c)
    <3>1. Numbers(Flow(c)) \cup {e.n} \subseteq Numbers(Flow(c))'
      <4>1. Numbers(Flow(c)) \cup {e.n} \subseteq Numbers(Append(Flow(c), e))
            BY <1>4, <1>12, <2>1, AppendNumbers
      <4>2. Flow(c)' = Append(Flow(c), e)
            BY <1>11, <2>1, <2>3
      <4>3. Numbers(Flow(c))' = Numbers(Append(Flow(c), e))
            BY <4>2 DEF Numbers
      <4>   QED BY <4>1, <4>3
    <3>2. lossy'[c] = lossy[c]
          BY <1>2, <1>8, <2>1, <2>3 DEF Kinds
    <3>   QED BY <1>1, <2>1, <2>2, <3>1, <3>2 DEF Live
  <2>4. CASE c \in evSubs /\ Full(c)
    <3>1. lossy'[c]
          BY <1>8, <2>1, <2>4
    <3>   QED BY <1>1, <2>1, <2>4, <3>1 DEF Live
  <2>5. CASE c \notin evSubs
        BY <1>1, <2>1, <2>5 DEF Live
  <2>   QED BY <2>3, <2>4, <2>5
<1>   QED BY <1>10, <1>14, <1>15, <1>16, <1>17, <1>18 DEF EvInv

\* Builds t come after builds s by the report r: it is the last one, and what
\* was kept by s is kept.
Saves(t, s, r) ==
    /\ t \in Seq(Report) /\ Len(t) <= MaxBuilds /\ One(t)
    /\ \E i \in DOMAIN t :
          t[i] = r /\ \A j \in DOMAIN t : t[j].report <= t[i].report
    /\ \A x \in Report : x.report < r.report /\ KeptBy(s, x) => KeptBy(t, x)

\* The entry of a build is replaced where it is.
LEMMA ReplacedBuild ==
    ASSUME NEW s \in Seq(Report), Len(s) <= MaxBuilds, One(s),
           NEW r \in Report, \A i \in DOMAIN s : s[i].report < r.report,
           NEW o \in DOMAIN s, s[o].build = r.build
    PROVE  Saves([i \in DOMAIN s |-> IF s[i].build = r.build THEN r ELSE s[i]], s, r)
<1> DEFINE t == [i \in DOMAIN s |-> IF s[i].build = r.build THEN r ELSE s[i]]
<1>1. /\ DOMAIN s = 1..Len(s) /\ Len(s) \in Nat
      /\ \A i \in DOMAIN s : s[i] \in Report
      BY LenProperties, ElementOfSeq
<1>2. \A i \in DOMAIN s : s[i].report \in Nat /\ r.report \in Nat
      BY <1>1 DEF Report
<1>3. /\ DOMAIN t = DOMAIN s /\ t[o] = r
      /\ \A i \in DOMAIN s : t[i].build = s[i].build
      /\ \A i \in DOMAIN s : t[i] = r \/ t[i] = s[i]
      OBVIOUS
<1>4. t \in Seq(Report)
  <2>1. t \in [1..Len(s) -> Report]
        BY <1>1
  <2>   QED BY <1>1, <2>1, SeqDef
<1> HIDE DEF t
<1>5. Len(t) = Len(s)
  <2>1. DOMAIN t = 1..Len(t) /\ Len(t) \in Nat
        BY <1>4, LenProperties
  <2>   QED BY <1>1, <1>3, <2>1
<1>6. \A i \in DOMAIN t : t[i].report <= r.report /\ s[i].report <= t[i].report
  <2> SUFFICES ASSUME NEW i \in DOMAIN s
               PROVE  t[i].report <= r.report /\ s[i].report <= t[i].report
      BY <1>3
  <2>1. CASE t[i] = r
        BY <1>2, <2>1
  <2>2. CASE t[i] = s[i]
        BY <1>2, <2>2
  <2>   QED BY <1>3, <2>1, <2>2
<1>7. One(t)
  <2>1. \A i, j \in DOMAIN t : t[i].build = t[j].build => i = j
        BY <1>3 DEF One
  <2>2. \A j \in DOMAIN t : t[j].report <= t[o].report
        BY <1>3, <1>6
  <2>   QED BY <1>3, <2>1, <2>2 DEF One
<1>8. ASSUME NEW x \in Report, KeptBy(s, x) PROVE KeptBy(t, x)
  <2>1. x.report \in Nat
        BY DEF Report
  <2>2. CASE \E j \in DOMAIN s : s[j].build = x.build /\ s[j].report >= x.report
    <3>1. PICK j \in DOMAIN s : s[j].build = x.build /\ s[j].report >= x.report
          BY <2>2
    <3>2. t[j].report \in Nat
      <4>1. t[j] = r \/ t[j] = s[j]
            BY <1>3
      <4>   QED BY <1>2, <4>1
    <3>3. t[j].report >= x.report
          BY <1>2, <1>3, <1>6, <2>1, <3>1, <3>2
    <3>   QED BY <1>3, <3>1, <3>3 DEF KeptBy
  <2>3. CASE (\A j \in DOMAIN s : s[j].build # x.build) /\ Len(s) = MaxBuilds
        BY <1>3, <1>5, <2>3 DEF KeptBy
  <2>   QED BY <1>8, <2>2, <2>3 DEF KeptBy
<1>9. \A j \in DOMAIN t : t[j].report <= t[o].report
      BY <1>3, <1>6
<1>10. Saves(t, s, r)
      BY <1>3, <1>4, <1>5, <1>7, <1>8, <1>9 DEF Saves
<1>   QED BY <1>10 DEF t

\* A build is appended and the oldest may be dropped.
LEMMA Appended ==
    ASSUME NEW s \in Seq(Report), Len(s) <= MaxBuilds, One(s),
           NEW r \in Report, \A i \in DOMAIN s : s[i].report < r.report,
           \A i \in DOMAIN s : s[i].build # r.build
    PROVE  Saves(Newest(Append(s, r), MaxBuilds), s, r)
<1> DEFINE t == Newest(Append(s, r), MaxBuilds)
           n == Len(t)
<1>1. /\ DOMAIN s = 1..Len(s) /\ Len(s) \in Nat
      /\ \A i \in DOMAIN s : s[i] \in Report
      BY LenProperties, ElementOfSeq
<1>2. MaxBuilds \in Nat \ {0}
      BY EventAssumption
<1>3. \A i \in DOMAIN s : s[i].report \in Nat /\ r.report \in Nat
      BY <1>1 DEF Report
<1>4. TrimOf(t, s, r, MaxBuilds, Report)
      BY <1>2, Trimmed
<1> HIDE DEF t
<1>5. t \in Seq(Report) /\ n \in Nat /\ n <= MaxBuilds /\ n # 0
  <2>1. t \in Seq(Report) /\ n \in 1..MaxBuilds
        BY <1>4, Zenon DEF n, TrimOf
  <2>   QED BY <1>2, <2>1
<1>6. DOMAIN t = 1..n /\ t[n] = r
      BY <1>4, Zenon DEF n, TrimOf
<1>7. \/ n = Len(s) + 1 /\ \A i \in 1..Len(s) : t[i] = s[i]
      \/ /\ n = MaxBuilds /\ Len(s) = MaxBuilds
         /\ \A i \in 1..(MaxBuilds - 1) : t[i] = s[i + 1]
      BY <1>4, Zenon DEF n, TrimOf
<1>8. PICK o \in {0, 1} :
         /\ Len(s) = n - 1 + o
         /\ o = 1 => n = MaxBuilds
         /\ \A i \in 1..(n - 1) : t[i] = s[i + o] /\ i + o \in DOMAIN s
  <2>1. CASE n = Len(s) + 1 /\ \A i \in 1..Len(s) : t[i] = s[i]
    <3>1. \A i \in 1..(n - 1) : t[i] = s[i + 0] /\ i + 0 \in DOMAIN s
          BY <1>1, <2>1
    <3>2. Len(s) = n - 1 + 0
          BY <1>1, <2>1
    <3>   QED BY <3>1, <3>2
  <2>2. CASE /\ n = MaxBuilds /\ Len(s) = MaxBuilds
             /\ \A i \in 1..(MaxBuilds - 1) : t[i] = s[i + 1]
    <3>1. \A i \in 1..(n - 1) : t[i] = s[i + 1] /\ i + 1 \in DOMAIN s
          BY <1>1, <1>2, <2>2
    <3>   QED BY <1>2, <2>2, <3>1
  <2>   QED BY <1>7, <2>1, <2>2
<1> HIDE DEF n
<1>9. ASSUME NEW i \in 1..n
      PROVE  (i = n /\ t[i] = r)
             \/ (i \in 1..(n - 1) /\ i + o \in DOMAIN s /\ t[i] = s[i + o])
  <2>1. i = n \/ i \in 1..(n - 1)
        BY <1>5
  <2>   QED BY <1>6, <1>8, <2>1
<1>10. \A i \in 1..n : t[i].report <= r.report
  <2> SUFFICES ASSUME NEW i \in 1..n PROVE t[i].report <= r.report
      OBVIOUS
  <2>1. r.report \in Nat
        BY DEF Report
  <2>2. CASE t[i] = r
        BY <2>1, <2>2
  <2>3. CASE i + o \in DOMAIN s /\ t[i] = s[i + o]
        BY <1>3, <2>3
  <2>   QED BY <1>9, <2>2, <2>3
<1>11. \A i, j \in 1..n : t[i].build = t[j].build => i = j
  <2> SUFFICES ASSUME NEW i \in 1..n, NEW j \in 1..n, t[i].build = t[j].build
               PROVE  i = j
      OBVIOUS
  <2>1. CASE i = n /\ t[i] = r
    <3>1. ~ (j + o \in DOMAIN s /\ t[j] = s[j + o])
          BY <2>1
    <3>   QED BY <1>9, <2>1, <3>1
  <2>2. CASE i \in 1..(n - 1) /\ i + o \in DOMAIN s /\ t[i] = s[i + o]
    <3>1. t[j] # r
          BY <2>2
    <3>2. j + o \in DOMAIN s /\ t[j] = s[j + o]
          BY <1>9, <3>1
    <3>3. i + o = j + o
          BY <2>2, <3>2 DEF One
    <3>   QED BY <3>3
  <2>   QED BY <1>9, <2>1, <2>2
<1>12. n \in 1..n
       BY <1>5
<1>13. One(t)
       BY <1>6, <1>10, <1>11, <1>12 DEF One
<1>14. ASSUME NEW x \in Report, x.report < r.report, KeptBy(s, x) PROVE KeptBy(t, x)
  <2>1. x.report \in Nat /\ r.report \in Nat
        BY DEF Report
  <2>2. CASE x.build = r.build
    <3>1. t[n].build = x.build /\ t[n].report >= x.report
          BY <1>6, <1>14, <2>1, <2>2
    <3>   QED BY <1>6, <1>12, <3>1 DEF KeptBy
  <2>3. CASE /\ x.build # r.build
             /\ \E j \in DOMAIN s : s[j].build = x.build /\ s[j].report >= x.report
    <3>1. PICK j \in DOMAIN s : s[j].build = x.build /\ s[j].report >= x.report
          BY <2>3
    <3>2. CASE j - o \in 1..(n - 1)
      <4>1. t[j - o] = s[j] /\ j - o \in 1..n
        <5>1. (j - o) + o = j
              BY <1>1
        <5>2. t[j - o] = s[(j - o) + o]
              BY <1>8, <3>2
        <5>   QED BY <1>5, <3>2, <5>1, <5>2
      <4>   QED BY <1>6, <3>1, <4>1 DEF KeptBy
    <3>3. CASE j - o \notin 1..(n - 1)
      <4>1. o = 1 /\ j = 1 /\ n = MaxBuilds
            BY <1>1, <1>5, <1>8, <3>3
      <4>2. \A i \in 1..n : t[i].build # x.build
        <5> SUFFICES ASSUME NEW i \in 1..n, t[i].build = x.build PROVE FALSE
            OBVIOUS
        <5>1. i + o \in DOMAIN s /\ t[i] = s[i + o]
              BY <1>9, <2>3
        <5>2. i + o = j
              BY <3>1, <5>1 DEF One
        <5>   QED BY <4>1, <5>2
      <4>3. Len(t) = MaxBuilds
            BY <4>1 DEF n
      <4>   QED BY <1>6, <4>2, <4>3 DEF KeptBy
    <3>   QED BY <3>2, <3>3
  <2>4. CASE /\ x.build # r.build
             /\ (\A j \in DOMAIN s : s[j].build # x.build) /\ Len(s) = MaxBuilds
    <3>1. n = MaxBuilds
          BY <1>2, <1>5, <1>8, <2>4
    <3>2. \A i \in 1..n : t[i].build # x.build
          BY <1>9, <2>4
    <3>   QED BY <1>6, <3>1, <3>2 DEF KeptBy, n
  <2>   QED BY <1>14, <2>2, <2>3, <2>4 DEF KeptBy
<1>15. \E i \in DOMAIN t : t[i] = r /\ \A j \in DOMAIN t : t[j].report <= t[i].report
       BY <1>6, <1>10, <1>12
<1>16. Len(t) <= MaxBuilds
       BY <1>5 DEF n
<1>17. Saves(t, s, r)
       BY <1>5, <1>13, <1>14, <1>15, <1>16 DEF Saves
<1>    QED BY <1>17 DEF t

\* The builds after a report of build k: it is the last one, and whatever they
\* held they hold still, or they are full of other builds.
LEMMA SavedBuilds ==
    ASSUME EvInv, NEW k \in Build, LastReport < MaxReports,
           NEW r, r = [build |-> k, report |-> LastReport + 1],
           builds' = Saved(r)
    PROVE  /\ r \in Report
           /\ builds' \in Seq(Report) /\ Len(builds') <= MaxBuilds
           /\ OneEach'
           /\ LastReport' = LastReport + 1
           /\ \E i \in DOMAIN builds' : builds'[i] = r
           /\ \A x \in Report : Held(x) => Held(x)'
<1>1. /\ LastReport \in Nat
      /\ \A i \in DOMAIN builds : builds[i].report <= LastReport
      BY LastReportIs, EventAssumption
<1>2. r \in Report /\ r.report = LastReport + 1 /\ r.build = k
      BY <1>1, EventAssumption DEF Report
<1>3. builds \in Seq(Report) /\ Len(builds) <= MaxBuilds /\ One(builds)
      BY DEF EvInv, Kinds, EvTypeOK, OneEach
<1>4. \A i \in DOMAIN builds : builds[i].report < r.report
  <2>1. \A i \in DOMAIN builds : builds[i].report \in Nat
    <3>1. \A i \in DOMAIN builds : builds[i] \in Report
          BY <1>3, LenProperties, ElementOfSeq
    <3>   QED BY <3>1 DEF Report
  <2>   QED BY <1>1, <1>2, <2>1
<1>5. Saves(builds', builds, r)
  <2>1. CASE {i \in DOMAIN builds : builds[i].build = r.build} = {}
    <3>1. builds' = Newest(Append(builds, r), MaxBuilds)
          BY <2>1 DEF Saved
    <3>2. \A i \in DOMAIN builds : builds[i].build # r.build
          BY <2>1
    <3>3. Saves(Newest(Append(builds, r), MaxBuilds), builds, r)
          BY <1>2, <1>3, <1>4, <3>2, Appended
    <3>   QED BY <3>1, <3>3
  <2>2. CASE {i \in DOMAIN builds : builds[i].build = r.build} # {}
    <3> DEFINE t == [i \in DOMAIN builds |->
                       IF builds[i].build = r.build THEN r ELSE builds[i]]
    <3>1. builds' = t
          BY <2>2 DEF Saved
    <3>2. PICK o \in DOMAIN builds : builds[o].build = r.build
          BY <2>2
    <3>3. Saves(t, builds, r)
          BY <1>2, <1>3, <1>4, <3>2, ReplacedBuild
    <3> HIDE DEF t
    <3>   QED BY <3>1, <3>3
  <2>   QED BY <2>1, <2>2
<1>6. LastReport' = LastReport + 1
  <2>1. PICK i \in DOMAIN builds' :
           /\ builds'[i] = r
           /\ \A j \in DOMAIN builds' : builds'[j].report <= builds'[i].report
        BY <1>5 DEF Saves
  <2>2. Max({0} \cup {builds'[j].report : j \in DOMAIN builds'}) = builds'[i].report
        BY <1>5, <2>1, TopReport DEF Saves
  <2>   QED BY <1>2, <2>1, <2>2 DEF LastReport
<1>7. ASSUME NEW x \in Report, Held(x) PROVE Held(x)'
  <2>1. x # NoReport
        BY EventAssumption DEF Report, NoReport
  <2>2. x.report <= LastReport /\ KeptBy(builds, x) /\ x.report \in Nat
        BY <1>7, <2>1 DEF Held, Report
  <2>3. KeptBy(builds', x) /\ x.report <= LastReport'
        BY <1>1, <1>2, <1>5, <1>6, <2>2 DEF Saves
  <2>   QED BY <2>3 DEF Held
<1>   QED BY <1>2, <1>5, <1>6, <1>7 DEF OneEach, Saves

LEMMA SaveBuildStep ==
    ASSUME EvInv, NEW p \in Pusher, NEW k \in Build, SaveBuild(p, k) PROVE EvInv'
<1> PICK r : r = [build |-> k, report |-> LastReport + 1]
    OBVIOUS
<1> DEFINE q == [pusher[p] EXCEPT !.pc = "saved", !.event.about = r]
<1>1. /\ LastReport < MaxReports /\ pusher[p].pc = "idle"
      /\ builds' = Saved(r)
      /\ pusher' = [pusher EXCEPT ![p].pc = "saved", ![p].event.about = r]
      /\ UNCHANGED <<events, evSubs, evBuf, stream, got, lossy>>
      BY DEF SaveBuild
<1>2. Kinds /\ pusher \in [Pusher -> EventState] /\ pusher[p] \in EventState
      BY DEF EvInv, Kinds
<1>3. pusher' = [pusher EXCEPT ![p] = q]
      BY <1>1, <1>2
<1>4. /\ r \in Report
      /\ builds' \in Seq(Report) /\ Len(builds') <= MaxBuilds
      /\ OneEach'
      /\ LastReport' = LastReport + 1
      /\ \E i \in DOMAIN builds' : builds'[i] = r
      /\ \A x \in Report : Held(x) => Held(x)'
      BY <1>1, SavedBuilds
<1>5. /\ q \in EventState /\ q.pc = "saved" /\ q.event.about = r
      /\ q.event.n = pusher[p].event.n
      BY <1>2, <1>4 DEF EventState
<1> HIDE DEF q
<1>6. pusher'[p] = q /\ pusher' \in [Pusher -> EventState]
      /\ \A x \in Pusher \ {p} : pusher'[x] = pusher[x]
      BY <1>2, <1>3, <1>5
<1>7. \A x \in Pusher : Sends(x)' = Sends(x) /\ pusher'[x].event.n = pusher[x].event.n
      BY <1>1, <1>5, <1>6 DEF Sends
<1>8. Kinds'
  <2>1. EvTypeOK'
        BY <1>1, <1>2, <1>4, <1>6 DEF Kinds, EvTypeOK, EventState
  <2>   QED BY <1>1, <1>2, <1>6, <2>1 DEF Kinds
<1>9. \A c \in Subscriber : Flow(c)' = Flow(c)
      BY <1>1 DEF Flow
<1>10. ASSUME NEW c \in Subscriber, NEW i \in DOMAIN Flow(c)
       PROVE  Flow(c)[i].about \in Report \cup {NoReport}
      BY <1>2, FlowType DEF Event
<1> HIDE DEF Flow
<1>11. Numbered'
  <2>1. LastEvent' = LastEvent /\ Rising(events)'
        BY <1>1 DEF LastEvent, Stored, Numbers, EvInv, Numbered, Rising
  <2>   QED BY <1>7, <1>9, <2>1 DEF EvInv, Numbered
<1>12. AllHeld'
  <2>1. ASSUME NEW x \in Report \cup {NoReport}, Held(x) PROVE Held(x)'
        BY <1>4, <2>1 DEF Held, KeptBy
  <2>2. Held(r)'
    <3>1. PICK i \in DOMAIN builds' : builds'[i] = r
          BY <1>4
    <3>2. r.build = k /\ r.report = LastReport + 1 /\ LastReport \in Nat
          BY LastReportIs, EventAssumption
    <3>   QED BY <1>4, <3>1, <3>2 DEF Held, KeptBy
  <2>3. ASSUME NEW x \in Pusher PROVE Held(pusher[x].event.about)'
    <3> DEFINE b == pusher[x].event.about
    <3>1. CASE x = p
          BY <1>5, <1>6, <2>2, <3>1 DEF Held, KeptBy
    <3>2. CASE x # p
      <4>1. Held(b) /\ b \in Report \cup {NoReport}
            BY <1>2 DEF EvInv, AllHeld, EventState
      <4>   QED BY <1>6, <2>1, <3>2, <4>1 DEF Held, KeptBy
    <3>   QED BY <3>1, <3>2
  <2>4. ASSUME NEW c \in Subscriber, NEW i \in DOMAIN Flow(c)'
        PROVE  Held(Flow(c)[i].about)'
    <3>1. i \in DOMAIN Flow(c) /\ Flow(c)'[i] = Flow(c)[i]
          BY <1>9
    <3>2. Held(Flow(c)[i].about)
          BY <3>1 DEF EvInv, AllHeld
    <3>   QED BY <1>10, <2>1, <3>1, <3>2 DEF Held, KeptBy
  <2>   QED BY <2>3, <2>4 DEF AllHeld
<1>13. InOrder'
      BY <1>9 DEF EvInv, InOrder, Agree
<1>14. ASSUME NEW c \in Stream PROVE Live(c)' /\ Listed(c)'
  <2>1. Stored' = Stored /\ c \in Subscriber
        BY <1>1 DEF Stored, Numbers, Subscriber
  <2>2. Pending' = Pending
        BY <1>7 DEF Pending, Sends
  <2>3. Numbers(Flow(c))' = Numbers(Flow(c))
        BY <1>9, <2>1 DEF Numbers
  <2>4. LastEvent' = LastEvent /\ LastEvent \in Nat
        BY <1>1, LastEventIs DEF LastEvent, Stored, Numbers
  <2>5. Live(c)'
        BY <1>1, <2>1, <2>2, <2>3, LiveFrame
  <2>6. Listed(c)'
        BY <1>1, <2>2, <2>3, <2>4, ListedFrame
  <2>   QED BY <2>5, <2>6
<1>   QED BY <1>4, <1>8, <1>11, <1>12, <1>13, <1>14 DEF EvInv

-----------------------------------------------------------------------------
(* The theorems *)

LEMMA UnchangedEvents ==
    ASSUME EvInv, UNCHANGED evVars PROVE EvInv'
<1>1. Kinds'
      BY DEF EvInv, Kinds, EvTypeOK, evVars
<1>2. \A c \in Subscriber : Flow(c)' = Flow(c)
      BY DEF Flow, evVars
<1> HIDE DEF Flow
<1>3. Numbered' /\ OneEach' /\ AllHeld' /\ InOrder'
      BY <1>2, FlowsFrame DEF evVars
<1>4. ASSUME NEW c \in Stream PROVE Live(c)' /\ Listed(c)'
  <2>1. /\ Stored' = Stored /\ Pending' = Pending /\ c \in Subscriber
        /\ LastEvent' = LastEvent /\ LastEvent \in Nat
        BY LastEventIs DEF Stored, Numbers, Pending, LastEvent, evVars, Subscriber
  <2>2. Numbers(Flow(c))' = Numbers(Flow(c))
        BY <1>2, <2>1 DEF Numbers
  <2>3. Live(c)'
        BY <2>1, <2>2, LiveFrame DEF evVars
  <2>4. Listed(c)'
        BY <2>1, <2>2, ListedFrame DEF evVars
  <2>   QED BY <2>3, <2>4
<1>   QED BY <1>1, <1>3, <1>4 DEF EvInv

LEMMA InitEvInv == EvInit => EvInv
<1> SUFFICES ASSUME EvInit PROVE EvInv
    OBVIOUS
<1>1. /\ <<>> \in Seq(Event) /\ <<>> \in Seq(Report) /\ Len(<<>>) = 0
      /\ DOMAIN <<>> = {}
      BY EmptySeq
<1>2. Kinds
  <2>1. Idle \in EventState /\ Idle.pc = "idle"
        BY EventAssumption DEF Idle, EventState, NoReport
  <2>2. NewStream \in StreamState /\ NewStream.pc = "idle"
        BY <1>1 DEF NewStream, StreamState
  <2>3. 0 <= EvCap /\ 0 <= MaxStored /\ 0 <= MaxBuilds
        BY EventAssumption
  <2>4. /\ evBuf \in [Subscriber -> Seq(Event)] /\ got \in [Subscriber -> Seq(Event)]
        /\ lossy \in [Subscriber -> BOOLEAN]
        /\ pusher \in [Pusher -> EventState] /\ stream \in [Stream -> StreamState]
        /\ \A c \in Subscriber : evBuf[c] = <<>>
        /\ \A p \in Pusher : pusher[p].pc = "idle"
        /\ \A c \in Stream : stream[c].pc = "idle"
        BY <1>1, <2>1, <2>2 DEF EvInit
  <2>5. EvTypeOK
        BY <1>1, <2>3, <2>4 DEF EvInit, EvTypeOK
  <2>   QED BY <2>4, <2>5 DEF Kinds
<1>3. \A c \in Subscriber : Flow(c) = <<>>
  <2>1. <<>> \o <<>> = <<>>
        BY <1>1, ConcatEmptySeq
  <2>   QED BY <2>1 DEF EvInit, Flow
<1>4. \A p \in Pusher : pusher[p].pc = "idle" /\ pusher[p].event.about = NoReport
      BY DEF EvInit, Idle
<1> HIDE DEF Flow
<1>5. Numbered
      BY <1>1, <1>3, <1>4 DEF EvInit, Numbered, Rising, Sends
<1>6. OneEach
      BY <1>1 DEF EvInit, OneEach, One
<1>7. AllHeld
      BY <1>1, <1>3, <1>4 DEF AllHeld, Held
<1>8. InOrder
      BY <1>1, <1>3 DEF InOrder, Agree
<1>9. \A c \in Stream : Live(c)
      BY DEF EvInit, NewStream, Live
<1>10. \A c \in Stream : Listed(c)
  <2>1. \A c \in Stream : stream[c].listed = <<>> /\ stream[c].pc = "idle"
        BY DEF EvInit, NewStream
  <2>   QED BY <1>1, <2>1 DEF Listed, Newer, Rising, Numbers
<1>   QED BY <1>2, <1>5, <1>6, <1>7, <1>8, <1>9, <1>10 DEF EvInv

LEMMA NextEvInv == EvInv /\ [EvNext]_evVars => EvInv'
BY StoreEventStep, DeliverStep, SaveBuildStep, ListEventsStep, SubscribeStreamStep,
   ShowEventStep, LeaveStreamStep, UnchangedEvents DEF EvNext

\* Events are numbered as they are stored, every subscriber's flow agrees with
\* every other's, what is announced is among the builds and what is stored is on
\* its way to every live stream: whatever PushEvent, the webhook and the
\* handlers of event streams do between each other's critical sections.
THEOREM EventInvariant == EvSpec => []EvInv
BY InitEvInv, NextEvInv, PTL DEF EvSpec

\* The lists of events and builds and the channels stay within their limits,
\* with events and reports in them.
THEOREM EventTypes == EvSpec => []EvTypeOK
<1>1. EvInv => EvTypeOK
      BY DEF EvInv, Kinds
<1>   QED BY <1>1, EventInvariant, PTL

LEMMA GotIsFlow ==
    ASSUME EvInv, NEW c \in Subscriber, NEW i \in DOMAIN got[c]
    PROVE  i \in DOMAIN Flow(c) /\ Flow(c)[i] = got[c][i] /\ got[c][i] \in Event
<1> DEFINE x == got[c]
           y == evBuf[c]
           f == x \o y
<1>1. x \in Seq(Event) /\ y \in Seq(Event)
      BY FlowType DEF EvInv
<1>2. /\ Len(x) \in Nat /\ Len(y) \in Nat /\ DOMAIN x = 1..Len(x)
      /\ \A j \in DOMAIN x : x[j] \in Event
      BY <1>1, LenProperties, ElementOfSeq
<1>3. i \in 1..Len(x)
      BY <1>2
<1> HIDE DEF x, y
<1>4. /\ f \in Seq(Event) /\ Len(f) = Len(x) + Len(y)
      /\ \A j \in 1..Len(x) + Len(y) :
            f[j] = IF j <= Len(x) THEN x[j] ELSE y[j - Len(x)]
      BY <1>1, ConcatProperties
<1>5. DOMAIN f = 1..Len(x) + Len(y)
      BY <1>4, LenProperties
<1> HIDE DEF f
<1>6. i \in DOMAIN f /\ f[i] = x[i] /\ x[i] \in Event
      BY <1>2, <1>3, <1>4, <1>5
<1>   QED BY <1>6 DEF f, x, y, Flow

\* What two subscribers took from their channels is the beginning of their flows.
LEMMA AllInOneOrder == EvInv => OneOrder
<1> SUFFICES ASSUME EvInv, NEW c \in Subscriber, NEW d \in Subscriber,
                    NEW i \in DOMAIN got[c], NEW j \in DOMAIN got[c],
                    NEW k \in DOMAIN got[d], NEW l \in DOMAIN got[d],
                    got[c][i] = got[d][k], got[c][j] = got[d][l], i < j
             PROVE  k < l
    BY DEF OneOrder
<1>1. Agree(Flow(c), Flow(d))
      BY DEF EvInv, InOrder
<1>2. /\ i \in DOMAIN Flow(c) /\ Flow(c)[i] = got[c][i]
      /\ j \in DOMAIN Flow(c) /\ Flow(c)[j] = got[c][j]
      /\ k \in DOMAIN Flow(d) /\ Flow(d)[k] = got[d][k]
      /\ l \in DOMAIN Flow(d) /\ Flow(d)[l] = got[d][l]
      BY GotIsFlow
<1> HIDE DEF Flow
<1>   QED BY <1>1, <1>2 DEF Agree

\* No two channels bring two events in different orders, and none brings an event
\* twice: PushEvent offers an event to all of them in one critical section. A
\* stream shows stored events before those of its channel: ListedThenNews.
THEOREM ChannelsInOneOrder == EvSpec => []OneOrder
BY AllInOneOrder, EventInvariant, PTL

LEMMA AllListedThenNews == EvInv => ListThenNews
<1> SUFFICES ASSUME EvInv, NEW c \in Stream, stream[c].pc = "live"
             PROVE  /\ Rising(stream[c].listed)
                    /\ \A n \in Numbers(got[c]) \ stream[c].unsent :
                          \A m \in Numbers(stream[c].listed) : m < n
    BY DEF ListThenNews, Rising
<1>1. Listed(c) /\ c \in Subscriber
      BY DEF EvInv, Subscriber
<1>2. Numbers(got[c]) \subseteq Numbers(Flow(c))
  <2> HIDE DEF Flow
  <2>   QED BY <1>1, GotIsFlow DEF Numbers
<1> HIDE DEF Flow
<1>   QED BY <1>1, <1>2 DEF Listed, Newer

\* What handleEventsStream shows: the stored events in their order, then newer
\* ones. Only an event that had been stored and not sent when the list was made
\* comes out of turn, and it is the only one that can come twice.
THEOREM ListedThenNews == EvSpec => []ListThenNews
BY AllListedThenNews, EventInvariant, PTL

\* A live stream that lost nothing to a full channel has every stored event, or
\* will get it, but for those sent between its list and its subscription.
THEOREM SeamLosesOnly == EvSpec => []SeamIsTheOnlyLoss
<1>1. EvInv => SeamIsTheOnlyLoss
  <2> SUFFICES ASSUME EvInv, NEW c \in Stream, stream[c].pc = "live", ~ lossy[c]
               PROVE  Stored \subseteq Numbers(stream[c].listed) \cup stream[c].seam
                         \cup Pending \cup Numbers(got[c]) \cup Numbers(evBuf[c])
      BY DEF SeamIsTheOnlyLoss
  <2>1. c \in Subscriber
        BY DEF Subscriber
  <2>2. Numbers(Flow(c)) = Numbers(got[c]) \cup Numbers(evBuf[c])
        BY <2>1, FlowType, ConcatNumbers DEF EvInv, Flow
  <2>3. Live(c)
        BY DEF EvInv
  <2>   QED BY <2>2, <2>3 DEF Live
<1>   QED BY <1>1, EventInvariant, PTL

\* What a subscriber was shown is in its flow, and what is announced there is held.
LEMMA AllAnnounced == EvInv => AnnouncedIsStored
<1> SUFFICES ASSUME EvInv, NEW c \in Subscriber, NEW i \in DOMAIN got[c],
                    NEW r, r = got[c][i].about, r # NoReport,
                    NEW at, at = {j \in DOMAIN builds : builds[j].build = r.build}
             PROVE  \/ /\ Cardinality(at) = 1
                       /\ \A j \in at : builds[j].report >= r.report
                    \/ at = {} /\ Len(builds) = MaxBuilds
    BY DEF AnnouncedIsStored
<1>1. i \in DOMAIN Flow(c) /\ Flow(c)[i] = got[c][i]
      BY GotIsFlow
<1>2. KeptBy(builds, r)
  <2> HIDE DEF Flow
  <2>1. Held(Flow(c)[i].about)
        BY <1>1 DEF EvInv, AllHeld
  <2>   QED BY <1>1, <2>1 DEF Held
<1>3. CASE \E j \in DOMAIN builds :
              builds[j].build = r.build /\ builds[j].report >= r.report
  <2>1. PICK j \in DOMAIN builds :
           builds[j].build = r.build /\ builds[j].report >= r.report
        BY <1>3
  <2>2. at = {j}
        BY <2>1 DEF EvInv, OneEach, One
  <2>3. Cardinality(at) = 1
        BY <2>2, FS_Singleton
  <2>   QED BY <2>1, <2>2, <2>3
<1>4. CASE (\A j \in DOMAIN builds : builds[j].build # r.build)
           /\ Len(builds) = MaxBuilds
      BY <1>4
<1>   QED BY <1>2, <1>3, <1>4 DEF KeptBy

\* Who is told of a report and asks for the builds finds its build once, with
\* that report or a later one, unless newer builds have filled the list.
THEOREM AnnouncedStored == EvSpec => []AnnouncedIsStored
BY AllAnnounced, EventInvariant, PTL

=============================================================================
