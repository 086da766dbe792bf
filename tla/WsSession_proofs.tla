--------------------------- MODULE WsSession_proofs ---------------------------
(***************************************************************************)
(* Theorems about WsSession, for any number of connections, workers and    *)
(* channels: no sequence of messages and disconnects closes a channel      *)
(* twice, only the newest worker of a subscription pushes, and sessions    *)
(* that come and go see the events in the order every subscriber does.     *)
(***************************************************************************)
EXTENDS WsSession, EventStream_proofs

-----------------------------------------------------------------------------
(* Definitions *)

\* The invariant of the cancel channels
ChannelsInv == WsTypeOK /\ CloseIsSafe

\* A worker that is not cancelled holds the channel its session holds for that
\* kind, and no other worker has it. The metrics have such a worker while they
\* are subscribed to.
WorkersInv ==
    /\ \A w \in Worker :
          Runs(w) /\ worker[w].cancel \notin closed =>
             LET s == worker[w].session
                 k == worker[w].kind
             IN /\ worker[w].cancel = sess[s].cancel[k]
                /\ worker[w].cancel \in Chan
                /\ sess[s].reading
                /\ sess[s].subbed[k]
    /\ \A w, v \in Worker :
          /\ Runs(w) /\ worker[w].cancel \notin closed
          /\ Runs(v) /\ worker[v].cancel = worker[w].cancel
          => v = w
    /\ \A s \in Session :
          sess[s].reading /\ sess[s].subbed["metrics"] =>
             \E w \in WorkersOf(s) :
                /\ worker[w].kind = "metrics"
                /\ worker[w].cancel = sess[s].cancel["metrics"]

SessionInv == ChannelsInv /\ WorkersInv
-----------------------------------------------------------------------------
(* Channels *)

\* make() returns a channel nobody has.
LEMMA MadeIsUnused ==
    ASSUME Unused # {}
    PROVE  Made \in Unused
BY DEF Made

\* A new session has fresh channels of its own.
LEMMA ConnectChannels ==
    ASSUME ChannelsInv, NEW s \in Session, Connect(s)
    PROVE  ChannelsInv'
<1> USE DEF ChannelsInv
<1> DEFINE l == Made
           m == CHOOSE c \in Unused : c # l
<1>1. l \in Unused /\ m \in Unused /\ l # m
  BY MadeIsUnused DEF Connect
<1>2. Unused \subseteq Chan
  BY DEF Unused
<1> HIDE DEF l, m
<1>3. /\ sess' = [sess EXCEPT ![s] =
                     [NewSession EXCEPT !.conn = "up", !.reading = TRUE,
                                        !.writing = TRUE,
                                        !.cancel["log"] = l,
                                        !.cancel["metrics"] = m]]
      /\ closed' = closed \ Unused
      /\ worker' = worker
  BY DEF Connect, l, m
<1>4. /\ sess'[s].cancel = [k \in Kind |-> IF k = "log" THEN l ELSE m]
      /\ sess'[s].reading
      /\ sess'[s] \in SessionState
      /\ \A t \in Session \ {s} : sess'[t] = sess[t]
  BY <1>1, <1>2, <1>3 DEF WsTypeOK, NewSession, SessionState, Kind
<1>5. WsTypeOK'
  BY <1>3, <1>4 DEF WsTypeOK
<1>6. CloseIsSafe'
  BY <1>1, <1>2, <1>3, <1>4 DEF CloseIsSafe, Unused, Kind
<1> QED
  BY <1>5, <1>6

\* What the session s holds after its channel of kind k was closed and m, which
\* nobody had, was put in place
Replaced(s, k, flag, m) ==
    /\ m \in Chan
    /\ \A t \in Session, j \in Kind : sess[t].cancel[j] # m
    /\ \A w \in Worker : worker[w].cancel # m
    /\ sess' \in [Session -> SessionState]
    /\ \A t \in Session \ {s} : sess'[t] = sess[t]
    /\ sess'[s].reading = TRUE
    /\ \A j \in Kind : sess'[s].cancel[j] = IF j = k THEN m ELSE sess[s].cancel[j]
    /\ \A j \in Kind : sess'[s].subbed[j] = IF j = k THEN flag ELSE sess[s].subbed[j]
    /\ closed' \subseteq (closed \cup {sess[s].cancel[k]}) \ {m}
    /\ sess[s].cancel[k] \in closed'
    /\ \A w \in Worker : worker[w].cancel \in closed => worker[w].cancel \in closed'

\* That is what Recancel does.
LEMMA RecancelReplaces ==
    ASSUME ChannelsInv, NEW s \in Session, NEW k \in Kind, NEW flag \in BOOLEAN,
           sess[s].reading, Recancel(s, k, flag)
    PROVE  Replaced(s, k, flag, Made)
<1> DEFINE m == Made
<1>1. m \in Unused /\ Unused \subseteq Chan
  BY MadeIsUnused DEF Recancel, Unused
<1>2. /\ m \in Chan
      /\ \A t \in Session, j \in Kind : sess[t].cancel[j] # m
      /\ \A w \in Worker : worker[w].cancel # m
  BY <1>1 DEF Unused
<1>3. /\ sess' = [sess EXCEPT ![s].cancel[k] = m, ![s].subbed[k] = flag]
      /\ closed' = (closed \cup {sess[s].cancel[k]}) \ Unused
  BY DEF Recancel
<1>4. sess \in [Session -> SessionState] /\ sess[s].reading = TRUE
  BY DEF ChannelsInv, WsTypeOK, SessionState
<1> HIDE DEF m
<1> DEFINE old == sess[s]
           new == [old EXCEPT !.cancel = [old.cancel EXCEPT ![k] = m],
                              !.subbed = [old.subbed EXCEPT ![k] = flag]]
<1>5. sess' = [sess EXCEPT ![s] = new]
  BY <1>3, <1>4
<1>6. old \in SessionState
  BY <1>4
<1>7. /\ [old.cancel EXCEPT ![k] = m] \in [Kind -> Chan \cup {None}]
      /\ [old.subbed EXCEPT ![k] = flag] \in [Kind -> BOOLEAN]
  BY <1>2, <1>6 DEF SessionState
<1>8. new \in SessionState
  BY <1>6, <1>7 DEF SessionState
<1>9. /\ \A j \in Kind : new.cancel[j] = IF j = k THEN m ELSE old.cancel[j]
      /\ \A j \in Kind : new.subbed[j] = IF j = k THEN flag ELSE old.subbed[j]
      /\ new.reading = old.reading
  BY <1>6 DEF SessionState
<1> HIDE DEF new
<1>10. /\ sess'[s] = new
       /\ \A t \in Session \ {s} : sess'[t] = sess[t]
       /\ sess' \in [Session -> SessionState]
  BY <1>4, <1>5, <1>8
<1>11. /\ closed' \subseteq (closed \cup {sess[s].cancel[k]}) \ {m}
       /\ sess[s].cancel[k] \in closed'
       /\ \A w \in Worker : worker[w].cancel \in closed => worker[w].cancel \in closed'
  BY <1>1, <1>3 DEF Unused
<1> QED
  BY <1>2, <1>4, <1>9, <1>10, <1>11 DEF Replaced, m

\* It keeps the channels apart and those of running readers open.
LEMMA ReplacedChannels ==
    ASSUME ChannelsInv, NEW s \in Session, NEW k \in Kind, NEW flag, NEW m,
           sess[s].reading, Replaced(s, k, flag, m)
    PROVE  CloseIsSafe' /\ closed' \subseteq Chan
<1> USE DEF Replaced, ChannelsInv, CloseIsSafe
<1>1. closed' \subseteq Chan
  BY DEF WsTypeOK
<1>2. ASSUME NEW t \in Session, NEW j \in Kind, sess'[t].reading
      PROVE  sess'[t].cancel[j] \in Chan \ closed'
  <2>1. CASE t = s /\ j = k
    BY <2>1
  <2>2. CASE t # s \/ j # k
    <3>1. sess'[t].cancel[j] = sess[t].cancel[j] /\ sess[t].reading
      BY <1>2, <2>2
    <3> QED
      BY <2>2, <3>1
  <2> QED
    BY <2>1, <2>2
<1>3. ASSUME NEW t \in Session, NEW j \in Kind, sess'[t].reading,
             NEW u \in Session, NEW i \in Kind,
             sess'[u].cancel[i] = sess'[t].cancel[j]
      PROVE  u = t /\ i = j
  <2>1. sess[t].reading
    BY <1>3
  <2> QED
    BY <1>3, <2>1
<1> QED
  BY <1>1, <1>2, <1>3

\* Steps that leave what readers and workers rely on as it is
SameChannels ==
    /\ sess' \in [Session -> SessionState]
    /\ \A t \in Session : /\ sess'[t].reading = sess[t].reading
                          /\ sess'[t].cancel = sess[t].cancel
                          /\ sess'[t].subbed = sess[t].subbed
    /\ closed' = closed

\* A change of the connection, or of the writer, is such a step.
LEMMA ConnectionStep ==
    ASSUME WsTypeOK, NEW s \in Session,
           NEW c \in {"up", "lost", "down"}, NEW b \in BOOLEAN,
           \/ sess' = [sess EXCEPT ![s].conn = c]
           \/ sess' = [sess EXCEPT ![s].writing = b, ![s].conn = c],
           closed' = closed
    PROVE  SameChannels
<1> DEFINE old == sess[s]
           moved == [old EXCEPT !.conn = c]
           ended == [old EXCEPT !.writing = b, !.conn = c]
<1>1. sess \in [Session -> SessionState] /\ old \in SessionState
  BY DEF WsTypeOK
<1>2. /\ moved \in SessionState /\ ended \in SessionState
      /\ \A new \in {moved, ended} : /\ new.reading = old.reading
                                     /\ new.cancel = old.cancel
                                     /\ new.subbed = old.subbed
  BY <1>1 DEF SessionState
<1>3. \E new \in {moved, ended} : sess' = [sess EXCEPT ![s] = new]
  BY <1>1
<1> HIDE DEF moved, ended
<1> QED
  BY <1>1, <1>2, <1>3 DEF SameChannels

\* The steps of EventStream, of the connection and of the writer.
LEMMA QuietStep ==
    ASSUME WsTypeOK,
           \/ EvNext /\ UNCHANGED wsVars
           \/ UNCHANGED allVars
           \/ \E s \in Session : Disconnect(s) \/ Reset(s) \/ Write(s)
    PROVE  SameChannels /\ worker' = worker
<1>1. ASSUME (EvNext /\ UNCHANGED wsVars) \/ UNCHANGED allVars
      PROVE  SameChannels /\ worker' = worker
  BY <1>1 DEF wsVars, allVars, SameChannels, WsTypeOK
<1>2. ASSUME NEW s \in Session, Disconnect(s) \/ Reset(s)
      PROVE  SameChannels /\ worker' = worker
  BY <1>2, ConnectionStep DEF Disconnect, Reset
<1>3. ASSUME NEW s \in Session, Write(s)
      PROVE  SameChannels /\ worker' = worker
  <2>1. closed' = closed /\ worker' = worker
    BY <1>3 DEF Write
  <2>2. CASE sess' = sess
    BY <2>1, <2>2 DEF SameChannels, WsTypeOK
  <2>3. CASE sess' = [sess EXCEPT ![s].writing = FALSE, ![s].conn = "down"]
    BY <2>1, <2>3, ConnectionStep
  <2> QED
    BY <1>3, <2>1, <2>2, <2>3 DEF Write
<1> QED
  BY <1>1, <1>2, <1>3

\* A reader that ends closes its two channels, which are nobody else's.
LEMMA ReadErrorChannels ==
    ASSUME ChannelsInv, NEW s \in Session, ReadError(s)
    PROVE  ChannelsInv'
<1>1. /\ sess' = [sess EXCEPT ![s].reading = FALSE]
      /\ closed' = closed \cup {sess[s].cancel[k] : k \in Kind}
      /\ worker' = worker
      /\ sess[s].reading
  BY DEF ReadError
<1> DEFINE old == sess[s]
           new == [old EXCEPT !.reading = FALSE]
<1>2. sess \in [Session -> SessionState] /\ old \in SessionState
  BY DEF ChannelsInv, WsTypeOK
<1>3. new \in SessionState /\ new.reading = FALSE /\ new.cancel = old.cancel
  BY <1>2 DEF SessionState
<1>4. sess' = [sess EXCEPT ![s] = new]
  BY <1>1
<1> HIDE DEF new
<1>5. /\ sess' \in [Session -> SessionState]
      /\ sess'[s].reading = FALSE
      /\ \A t \in Session \ {s} : sess'[t] = sess[t]
      /\ \A t \in Session : sess'[t].cancel = sess[t].cancel
  BY <1>2, <1>3, <1>4
<1>6. closed' \subseteq Chan
  BY <1>1 DEF ChannelsInv, WsTypeOK, CloseIsSafe
<1>7. WsTypeOK'
  BY <1>1, <1>5, <1>6 DEF ChannelsInv, WsTypeOK
<1>8. CloseIsSafe'
  BY <1>1, <1>5 DEF ChannelsInv, CloseIsSafe
<1> QED
  BY <1>7, <1>8 DEF ChannelsInv

\* The worker that a subscription starts was not running before.
LEMMA Started ==
    ASSUME NEW s, NEW k, Start(s, k)
    PROVE  \E w \in Worker :
              /\ ~ Runs(w)
              /\ worker' = [worker EXCEPT
                               ![w] = [session |-> s, kind |-> k, cancel |-> Made]]
BY DEF Start

\* Every step keeps the channels safe.
LEMMA ChannelsStep ==
    ASSUME ChannelsInv, [WsNext]_allVars
    PROVE  ChannelsInv'
<1> USE DEF ChannelsInv
<1>1. ASSUME SameChannels, worker' = worker
      PROVE  ChannelsInv'
  BY <1>1 DEF SameChannels, WsTypeOK, CloseIsSafe
<1>2. ASSUME NEW s \in Session, NEW k \in Kind, Subscribe(s, k)
      PROVE  ChannelsInv'
  <2>1. sess[s].reading /\ Recancel(s, k, TRUE) /\ Start(s, k)
    BY <1>2 DEF Subscribe
  <2>2. Replaced(s, k, TRUE, Made)
    BY <2>1, RecancelReplaces
  <2>3. CloseIsSafe' /\ closed' \subseteq Chan
    BY <2>1, <2>2, ReplacedChannels
  <2>4. worker' \in [Worker -> WorkerState]
    BY <2>1, <2>2, Started DEF Replaced, WsTypeOK, WorkerState, Kind
  <2> QED
    BY <2>2, <2>3, <2>4 DEF Replaced, WsTypeOK
<1>3. ASSUME NEW s \in Session, NEW k \in Kind, Unsubscribe(s, k)
      PROVE  ChannelsInv'
  <2>1. sess[s].reading /\ Recancel(s, k, FALSE) /\ worker' = worker
    BY <1>3 DEF Unsubscribe
  <2>2. Replaced(s, k, FALSE, Made)
    BY <2>1, RecancelReplaces
  <2>3. CloseIsSafe' /\ closed' \subseteq Chan
    BY <2>1, <2>2, ReplacedChannels
  <2> QED
    BY <2>1, <2>2, <2>3 DEF Replaced, WsTypeOK
<1>4. ASSUME NEW w \in Worker, LogDone(w) \/ Stop(w)
      PROVE  ChannelsInv'
  BY <1>4 DEF LogDone, Stop, NewWorker, WsTypeOK, WorkerState, CloseIsSafe, Kind
<1> QED
  BY <1>1, <1>2, <1>3, <1>4, QuietStep, ConnectChannels, ReadErrorChannels
  DEF WsNext, SessionStep, WorkerStep
-----------------------------------------------------------------------------
(* Workers *)

\* A replaced channel is closed, and the workers that had others keep them.
LEMMA ReplacedWorkers ==
    ASSUME SessionInv, NEW s \in Session, NEW k \in Kind, NEW flag, NEW m,
           sess[s].reading, Replaced(s, k, flag, m),
           NEW w \in Worker, Runs(w), worker[w].cancel \notin closed'
    PROVE  /\ worker[w].cancel \notin closed
           /\ worker[w].session # s \/ worker[w].kind # k
           /\ worker[w].cancel \in Chan
           /\ LET t == worker[w].session
                  j == worker[w].kind
              IN /\ worker[w].cancel = sess'[t].cancel[j]
                 /\ sess'[t].reading
                 /\ sess'[t].subbed[j]
<1>1. worker[w].session \in Session /\ worker[w].kind \in Kind
  BY DEF SessionInv, ChannelsInv, WsTypeOK, WorkerState, Runs
<1>2. worker[w].cancel \notin closed
  BY DEF Replaced
<1>3. LET t == worker[w].session
          j == worker[w].kind
      IN /\ worker[w].cancel = sess[t].cancel[j]
         /\ worker[w].cancel \in Chan
         /\ sess[t].reading
         /\ sess[t].subbed[j]
  BY <1>2 DEF SessionInv, WorkersInv
<1>4. worker[w].session # s \/ worker[w].kind # k
  BY <1>3 DEF Replaced
<1> QED
  BY <1>1, <1>2, <1>3, <1>4 DEF Replaced

\* A new session has no workers.
LEMMA ConnectWorkers ==
    ASSUME SessionInv, NEW s \in Session, Connect(s)
    PROVE  WorkersInv'
<1>1. /\ \A t \in Session \ {s} : sess'[t] = sess[t]
      /\ sess'[s].subbed = [k \in Kind |-> FALSE]
      /\ worker' = worker
      /\ closed' = closed \ Unused
      /\ WorkersOf(s) = {}
  BY DEF Connect, SessionInv, ChannelsInv, WsTypeOK, NewSession, Kind
<1>2. \A w \in Worker : worker[w].cancel \notin Unused
  BY DEF Unused
<1>3. \A w \in Worker : /\ worker[w].session # s
                        /\ Runs(w) => worker[w].session \in Session
  BY <1>1 DEF WorkersOf, Runs, SessionInv, ChannelsInv, WsTypeOK, WorkerState
<1> QED
  BY <1>1, <1>2, <1>3 DEF SessionInv, WorkersInv, Runs, WorkersOf, Kind

\* A reader that ends cancels the workers of its session.
LEMMA ReadErrorWorkers ==
    ASSUME SessionInv, NEW s \in Session, ReadError(s)
    PROVE  WorkersInv'
<1>1. /\ \A t \in Session \ {s} : sess'[t] = sess[t]
      /\ sess'[s].reading = FALSE
      /\ worker' = worker
      /\ closed' = closed \cup {sess[s].cancel[k] : k \in Kind}
  BY DEF ReadError, SessionInv, ChannelsInv, WsTypeOK, SessionState
<1>2. \A w \in Worker : Runs(w) => worker[w].session \in Session /\ worker[w].kind \in Kind
  BY DEF Runs, SessionInv, ChannelsInv, WsTypeOK, WorkerState
<1> QED
  BY <1>1, <1>2 DEF SessionInv, WorkersInv, Runs, WorkersOf

\* A worker that ends was cancelled, or was one for a log.
LEMMA EndWorkers ==
    ASSUME SessionInv, NEW w \in Worker, LogDone(w) \/ Stop(w)
    PROVE  WorkersInv'
<1>1. /\ worker' = [worker EXCEPT ![w] = NewWorker]
      /\ sess' = sess /\ closed' = closed
      /\ worker[w].kind = "log" \/ worker[w].cancel \in closed
  BY DEF LogDone, Stop
<1>2. worker \in [Worker -> WorkerState]
  BY DEF SessionInv, ChannelsInv, WsTypeOK
<1>3. /\ worker'[w].session = None
      /\ \A v \in Worker \ {w} : worker'[v] = worker[v]
  BY <1>1, <1>2 DEF NewWorker
<1>4. ASSUME NEW s \in Session, sess[s].reading
      PROVE  sess[s].cancel["metrics"] \notin closed
  BY <1>4 DEF SessionInv, ChannelsInv, CloseIsSafe, Kind
<1> QED
  BY <1>1, <1>3, <1>4 DEF SessionInv, WorkersInv, Runs, WorkersOf

\* After an unsubscription no worker of the kind is left that is not cancelled.
LEMMA UnsubscribeWorkers ==
    ASSUME SessionInv, NEW s \in Session, NEW k \in Kind, Unsubscribe(s, k)
    PROVE  WorkersInv'
<1> DEFINE m == Made
<1>1. sess[s].reading /\ Recancel(s, k, FALSE) /\ worker' = worker
  BY DEF Unsubscribe
<1>2. Replaced(s, k, FALSE, m)
  BY <1>1, RecancelReplaces DEF SessionInv
<1> HIDE DEF m
<1>3. ASSUME NEW w \in Worker, Runs(w), worker[w].cancel \notin closed'
      PROVE  /\ worker[w].cancel \notin closed
             /\ worker[w].cancel \in Chan
             /\ LET t == worker[w].session
                    j == worker[w].kind
                IN /\ worker[w].cancel = sess'[t].cancel[j]
                   /\ sess'[t].reading
                   /\ sess'[t].subbed[j]
  BY <1>1, <1>2, <1>3, ReplacedWorkers
<1>4. ASSUME NEW t \in Session, sess'[t].reading, sess'[t].subbed["metrics"]
      PROVE  \E w \in WorkersOf(t) :
                /\ worker[w].kind = "metrics"
                /\ worker[w].cancel = sess'[t].cancel["metrics"]
  <2>1. t # s \/ k # "metrics"
    BY <1>2, <1>4 DEF Replaced
  <2>2. /\ sess[t].reading /\ sess[t].subbed["metrics"]
        /\ sess'[t].cancel["metrics"] = sess[t].cancel["metrics"]
    BY <1>1, <1>2, <1>4, <2>1 DEF Replaced, Kind
  <2> QED
    BY <2>2 DEF SessionInv, WorkersInv
<1> QED
  BY <1>1, <1>3, <1>4 DEF SessionInv, WorkersInv, Runs, WorkersOf

\* After a subscription its new worker is the only one.
LEMMA SubscribeWorkers ==
    ASSUME SessionInv, NEW s \in Session, NEW k \in Kind, Subscribe(s, k)
    PROVE  WorkersInv'
<1> DEFINE m == Made
<1>1. sess[s].reading /\ Recancel(s, k, TRUE) /\ Start(s, k)
  BY DEF Subscribe
<1>2. Replaced(s, k, TRUE, m)
  BY <1>1, RecancelReplaces DEF SessionInv
<1>3. PICK n \in Worker :
         /\ ~ Runs(n)
         /\ worker' = [worker EXCEPT
                          ![n] = [session |-> s, kind |-> k, cancel |-> m]]
  BY <1>1, Started
<1> HIDE DEF m
<1>4. /\ worker'[n] = [session |-> s, kind |-> k, cancel |-> m]
      /\ \A v \in Worker \ {n} : worker'[v] = worker[v]
  BY <1>3 DEF SessionInv, ChannelsInv, WsTypeOK
<1>5. /\ m \in Chan /\ m \notin closed'
      /\ sess'[s].cancel[k] = m
      /\ sess'[s].reading /\ sess'[s].subbed[k]
      /\ \A v \in Worker : worker[v].cancel # m
  BY <1>2 DEF Replaced
<1>6. ASSUME NEW w \in Worker \ {n}, Runs(w), worker[w].cancel \notin closed'
      PROVE  /\ worker[w].cancel \notin closed
             /\ worker[w].cancel \in Chan
             /\ LET t == worker[w].session
                    j == worker[w].kind
                IN /\ worker[w].cancel = sess'[t].cancel[j]
                   /\ sess'[t].reading
                   /\ sess'[t].subbed[j]
  BY <1>1, <1>2, <1>6, ReplacedWorkers
<1>7. ASSUME NEW w \in Worker, Runs(w)', worker'[w].cancel \notin closed'
      PROVE  LET t == worker'[w].session
                 j == worker'[w].kind
             IN /\ worker'[w].cancel = sess'[t].cancel[j]
                /\ worker'[w].cancel \in Chan
                /\ sess'[t].reading
                /\ sess'[t].subbed[j]
  <2>1. CASE w = n
    BY <1>4, <1>5, <2>1
  <2>2. CASE w # n
    BY <1>4, <1>6, <1>7, <2>2 DEF Runs
  <2> QED
    BY <2>1, <2>2
<1>8. ASSUME NEW w \in Worker, NEW v \in Worker,
             Runs(w)', worker'[w].cancel \notin closed',
             Runs(v)', worker'[v].cancel = worker'[w].cancel
      PROVE  v = w
  <2>1. CASE w = n \/ v = n
    BY <1>4, <1>5, <1>8, <2>1
  <2>2. CASE w # n /\ v # n
    <3>1. /\ worker'[w] = worker[w] /\ worker'[v] = worker[v]
          /\ Runs(w) /\ Runs(v)
      BY <1>4, <1>8, <2>2 DEF Runs
    <3>2. worker[w].cancel \notin closed
      BY <1>6, <1>8, <2>2, <3>1
    <3> QED
      BY <1>8, <3>1, <3>2 DEF SessionInv, WorkersInv
  <2> QED
    BY <2>1, <2>2
<1>9. ASSUME NEW t \in Session, sess'[t].reading, sess'[t].subbed["metrics"]
      PROVE  \E w \in Worker :
                /\ worker'[w].session = t
                /\ worker'[w].kind = "metrics"
                /\ worker'[w].cancel = sess'[t].cancel["metrics"]
  <2>1. CASE t = s /\ k = "metrics"
    BY <1>4, <1>5, <2>1
  <2>2. CASE t # s \/ k # "metrics"
    <3>1. /\ sess[t].reading /\ sess[t].subbed["metrics"]
          /\ sess'[t].cancel["metrics"] = sess[t].cancel["metrics"]
      BY <1>1, <1>2, <1>9, <2>2 DEF Replaced, Kind
    <3>2. PICK w \in WorkersOf(t) :
             /\ worker[w].kind = "metrics"
             /\ worker[w].cancel = sess[t].cancel["metrics"]
      BY <3>1 DEF SessionInv, WorkersInv
    <3>3. w \in Worker /\ w # n /\ worker[w].session = t
      BY <1>3, <3>2, SessionAssumption DEF WorkersOf, Runs
    <3> QED
      BY <1>4, <3>1, <3>2, <3>3
  <2> QED
    BY <2>1, <2>2
<1> QED
  BY <1>7, <1>8, <1>9 DEF WorkersInv, WorkersOf

\* Every step keeps the workers and their channels together.
LEMMA WorkersStep ==
    ASSUME SessionInv, [WsNext]_allVars
    PROVE  WorkersInv'
<1>1. ASSUME SameChannels, worker' = worker
      PROVE  WorkersInv'
  <2>1. \A w \in Worker : Runs(w) => worker[w].session \in Session
    BY DEF Runs, SessionInv, ChannelsInv, WsTypeOK, WorkerState
  <2> QED
    BY <1>1, <2>1 DEF SameChannels, SessionInv, WorkersInv, Runs, WorkersOf
<1>2. WsTypeOK
  BY DEF SessionInv, ChannelsInv
<1> QED
  BY <1>1, <1>2, QuietStep, ConnectWorkers, ReadErrorWorkers, EndWorkers,
     SubscribeWorkers, UnsubscribeWorkers
  DEF WsNext, SessionStep, WorkerStep
-----------------------------------------------------------------------------
(* Theorems *)

\* Before the first connection there are no channels and no workers.
LEMMA SessionInitially ==
    ASSUME WsInit
    PROVE  SessionInv
BY SessionAssumption
DEF WsInit, NewSession, NewWorker, SessionInv, ChannelsInv, WorkersInv, WsTypeOK,
    SessionState, WorkerState, CloseIsSafe, Runs, WorkersOf, Kind

\* The invariant of the sessions holds in every behaviour.
THEOREM SessionInvariant == WsSpec => []SessionInv
<1>1. SessionInv /\ [WsNext]_allVars => SessionInv'
  BY ChannelsStep, WorkersStep DEF SessionInv
<1> QED
  BY SessionInitially, <1>1, PTL DEF WsSpec

\* Sessions, workers and channels hold values of their kinds.
THEOREM WsTypeCorrect == WsSpec => []WsTypeOK
<1>1. SessionInv => WsTypeOK
  BY DEF SessionInv, ChannelsInv
<1> QED
  BY SessionInvariant, <1>1, PTL

\* No sequence of messages and disconnects makes handleWS close a channel
\* twice, for any number of connections.
THEOREM CloseIsSafeAlways == WsSpec => []CloseIsSafe
<1>1. SessionInv => CloseIsSafe
  BY DEF SessionInv, ChannelsInv
<1> QED
  BY SessionInvariant, <1>1, PTL

\* handleWS never has two live workers of one kind for a page, nor one for a
\* subscription that was ended, and has one for the metrics while they are
\* subscribed to.
THEOREM OnlyNewestPushesAlways == WsSpec => []OnlyNewestPushes
<1>1. SessionInv => OnlyNewestPushes
  <2> SUFFICES ASSUME SessionInv, NEW s \in Session, NEW k \in Kind
               PROVE  LET live == {w \in WorkersOf(s) : worker[w].kind = k
                                            /\ worker[w].cancel \notin closed}
                      IN /\ Cardinality(live) <= 1
                         /\ live # {} => sess[s].reading /\ sess[s].subbed[k]
                         /\ k = "metrics" /\ sess[s].reading /\ sess[s].subbed[k]
                               => live # {}
    BY DEF OnlyNewestPushes
  <2> DEFINE live == {w \in WorkersOf(s) : worker[w].kind = k
                                            /\ worker[w].cancel \notin closed}
  <2>1. \A w \in live : /\ w \in Worker /\ Runs(w)
                        /\ worker[w].session = s /\ worker[w].kind = k
                        /\ worker[w].cancel \notin closed
    BY SessionAssumption DEF WorkersOf, Runs
  <2>2. \A w \in live : /\ worker[w].cancel = sess[s].cancel[k]
                        /\ sess[s].reading /\ sess[s].subbed[k]
    BY <2>1 DEF SessionInv, WorkersInv
  <2>3. \A v, w \in live : v = w
    BY <2>1, <2>2 DEF SessionInv, WorkersInv
  <2>4. ASSUME k = "metrics", sess[s].reading, sess[s].subbed[k]
        PROVE  live # {}
    BY <2>4 DEF SessionInv, WorkersInv, ChannelsInv, CloseIsSafe
  <2> HIDE DEF live
  <2>5. Cardinality(live) <= 1
    <3>1. CASE live = {}
      BY <3>1, FS_EmptySet
    <3>2. CASE live # {}
      <4>1. PICK w : w \in live
        BY <3>2
      <4>2. live = {w}
        BY <2>3, <4>1
      <4>3. Cardinality({w}) = 1
        BY FS_Singleton
      <4> QED
        BY <4>2, <4>3
    <3> QED
      BY <3>1, <3>2
  <2> QED
    BY <2>2, <2>4, <2>5 DEF live
<1> QED
  BY SessionInvariant, <1>1, PTL

-----------------------------------------------------------------------------
(* The events, with sessions that connect and disconnect *)

\* A session is a subscriber without a list of its own: what it does to the
\* events is to make its channel, to take from it and to give it up.
LEMMA SessionEvents ==
    ASSUME EvInv, NEW s \in Session, SessionStep(s)
    PROVE  EvInv'
<1>1. s \in Subscriber /\ s \notin Stream
  BY EventAssumption DEF Subscriber
<1>2. stream \in [Stream -> StreamState]
  BY DEF EvInv, Kinds
<1>3. CASE Connect(s)
  BY <1>1, <1>2, <1>3, ChannelReset DEF Connect
<1>4. CASE Write(s)
  <2>1. UNCHANGED <<events, builds, pusher, stream>>
    BY <1>4 DEF Write
  <2>2. CASE Take(s) /\ UNCHANGED <<evSubs, lossy>>
    BY <1>1, <2>1, <2>2, TakeStep
  <2>3. CASE UnsubscribeEvents(s)
    BY <1>1, <1>2, <2>1, <2>3, ChannelReset
  <2> QED
    BY <1>4, <2>2, <2>3 DEF Write
<1>5. CASE Disconnect(s) \/ Reset(s) \/ ReadError(s)
  BY <1>5, UnchangedEvents DEF Disconnect, Reset, ReadError
<1>6. CASE \E k \in Kind : Subscribe(s, k) \/ Unsubscribe(s, k)
  BY <1>6, UnchangedEvents DEF Subscribe, Unsubscribe
<1> QED
  BY <1>3, <1>4, <1>5, <1>6 DEF SessionStep

LEMMA SessionsKeepEvents == EvInv /\ [WsNext]_allVars => EvInv'
<1> SUFFICES ASSUME EvInv, [WsNext]_allVars PROVE EvInv'
  OBVIOUS
<1>1. CASE EvNext
  BY <1>1, NextEvInv
<1>2. ASSUME NEW s \in Session, SessionStep(s) PROVE EvInv'
  BY <1>2, SessionEvents
<1>3. ASSUME NEW w \in Worker, WorkerStep(w) PROVE EvInv'
  BY <1>3, UnchangedEvents DEF WorkerStep, LogDone, Stop
<1>4. CASE UNCHANGED allVars
  BY <1>4, UnchangedEvents DEF allVars
<1> QED
  BY <1>1, <1>2, <1>3, <1>4 DEF WsNext

\* The invariant of the events holds with any number of pages that connect,
\* disconnect and connect again between any two critical sections.
THEOREM SessionEventInvariant == WsSpec => []EvInv
<1>1. WsInit => EvInv
  BY InitEvInv DEF WsInit
<1> QED
  BY <1>1, SessionsKeepEvents, PTL DEF WsSpec

\* The channels of pages and of event streams bring the events in one order, none
\* twice, what a stream shows before is older but for events not yet sent then,
\* and a page that is told of a build report finds it; a page that connects
\* again starts from an empty channel (a page is not shown stored events by
\* handleWS).
THEOREM SessionsSeeOneOrder ==
    WsSpec => [](OneOrder /\ ListThenNews /\ AnnouncedIsStored)
<1>1. EvInv => OneOrder /\ ListThenNews /\ AnnouncedIsStored
  BY AllInOneOrder, AllListedThenNews, AllAnnounced
<1> QED
  BY SessionEventInvariant, <1>1, PTL
=============================================================================
