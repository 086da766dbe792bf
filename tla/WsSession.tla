------------------------------ MODULE WsSession ------------------------------
(***************************************************************************)
(* A session of the websocket: handleWS of internal/api/ws.go, composed    *)
(* with the events of EventStream.                                         *)
(*                                                                         *)
(* A session has a reader goroutine, a writer loop and one worker goroutine*)
(* per subscription to the log of a deployment or to the host metrics. The *)
(* reader cancels a worker by closing its cancel channel and puts a new    *)
(* channel in place; closing a channel twice would stop the process. The   *)
(* writer ends the session, and it notices that the client is gone only    *)
(* when sending an event fails. No write has a deadline and no ping is     *)
(* sent: after the client is gone any number of writes may succeed, into   *)
(* buffers, until the system gives the connection up. In between, the      *)
(* writer's select returns at once from the closed logCancel: that loop    *)
(* changes nothing and is not a step. Nor is a send of a worker, which     *)
(* ignores the error.                                                      *)
(***************************************************************************)
EXTENDS EventStream

CONSTANTS
    Worker,   \* goroutines started for subscriptions
    Chan      \* cancel channels; one nobody holds any more may be made again

ASSUME SessionAssumption == None \notin Session \cup Chan

VARIABLES
    sess,     \* the variables of handleWS, per connection
    worker,   \* the worker goroutines
    closed    \* the cancel channels that have been closed

wsVars == <<sess, worker, closed>>

allVars == <<evVars, wsVars>>
-----------------------------------------------------------------------------
Kind == {"log", "metrics"}

\* conn: the client of a "lost" connection is gone, and the system does not
\* know yet; on one that is "down" every write fails
SessionState == [conn : {"up", "lost", "down"}, reading : BOOLEAN,
                 writing : BOOLEAN, subbed : [Kind -> BOOLEAN],
                 cancel : [Kind -> Chan \cup {None}]]

NewSession == [conn |-> "down", reading |-> FALSE, writing |-> FALSE,
               subbed |-> [k \in Kind |-> FALSE],
               cancel |-> [k \in Kind |-> None]]

WorkerState == [session : Session \cup {None}, kind : Kind,
                cancel : Chan \cup {None}]

NewWorker == [session |-> None, kind |-> "log", cancel |-> None]

Runs(w) == worker[w].session # None
WorkersOf(s) == {w \in Worker : worker[w].session = s}

\* Channels that nobody has; make() returns one of them
Unused == {c \in Chan :
              /\ \A s \in Session, k \in Kind : sess[s].cancel[k] # c
              /\ \A w \in Worker : worker[w].cancel # c}

Made == CHOOSE c \in Unused : TRUE

WsInit ==
    /\ EvInit
    /\ sess = [s \in Session |-> NewSession]
    /\ worker = [w \in Worker |-> NewWorker]
    /\ closed = {}
-----------------------------------------------------------------------------
(* The handler and its writer loop *)

\* A page connects, for the first time or again: two channels are made, the
\* events are subscribed to and the reader is started
Connect(s) ==
    /\ ~ sess[s].reading /\ ~ sess[s].writing
    /\ WorkersOf(s) = {}
    /\ \E l, m \in Unused : l # m
    /\ LET l == Made
           m == CHOOSE c \in Unused : c # l
       IN sess' = [sess EXCEPT ![s] =
                     [NewSession EXCEPT !.conn = "up", !.reading = TRUE,
                                        !.writing = TRUE,
                                        !.cancel["log"] = l,
                                        !.cancel["metrics"] = m]]
    /\ closed' = closed \ Unused
    /\ SubscribeEvents(s)
    /\ UNCHANGED <<events, builds, pusher, stream, worker>>

Disconnect(s) ==
    /\ sess[s].conn = "up"
    /\ sess' = [sess EXCEPT ![s].conn = "lost"]
    /\ UNCHANGED <<evVars, worker, closed>>

\* The system gives the connection up: the other side refuses a write, or
\* neither writes nor keepalive probes are acknowledged for too long
Reset(s) ==
    /\ sess[s].conn = "lost"
    /\ sess' = [sess EXCEPT ![s].conn = "down"]
    /\ UNCHANGED <<evVars, worker, closed>>

\* mutant: the writer ignores the error of a send, as the workers do
WriteIgnoring(s) ==
    /\ sess[s].writing
    /\ Take(s)
    /\ UNCHANGED <<events, builds, evSubs, pusher, stream, lossy, wsVars>>

\* The writer sends the next event. If that fails it returns: the deferred
\* calls unsubscribe and close the connection.
Write(s) ==
    /\ sess[s].writing
    /\ \/ /\ sess[s].conn # "down"
          /\ Take(s)
          /\ UNCHANGED <<sess, evSubs, lossy>>
       \/ /\ sess[s].conn # "up"
          /\ evBuf[s] # <<>>
          /\ UnsubscribeEvents(s)
          /\ sess' = [sess EXCEPT ![s].writing = FALSE, ![s].conn = "down"]
    /\ UNCHANGED <<events, builds, pusher, stream, worker, closed>>
-----------------------------------------------------------------------------
(* The reader goroutine: each of its actions is under the session's mutex *)

\* mutant: only the log worker is cancelled
ReadErrorLogOnly(s) ==
    /\ sess[s].reading /\ sess[s].conn # "up"
    /\ closed' = closed \cup {sess[s].cancel["log"]}
    /\ sess' = [sess EXCEPT ![s].reading = FALSE]
    /\ UNCHANGED <<evVars, worker>>

\* ReadMessage fails: both channels are closed and the reader ends
ReadError(s) ==
    /\ sess[s].reading
    /\ sess[s].conn # "up"
    /\ closed' = closed \cup {sess[s].cancel[k] : k \in Kind}
    /\ sess' = [sess EXCEPT ![s].reading = FALSE]
    /\ UNCHANGED <<evVars, worker>>

\* mutant: a new channel is made only for a new subscription
RecancelKept(s, k, flag) ==
    /\ Unused # {}
    /\ sess' = [sess EXCEPT ![s].cancel[k] = IF flag THEN Made ELSE @,
                            ![s].subbed[k] = flag]
    /\ closed' = (closed \cup {sess[s].cancel[k]}) \ Unused

\* mutant: the channel is replaced and not closed
RecancelUnclosed(s, k, flag) ==
    /\ Unused # {}
    /\ sess' = [sess EXCEPT ![s].cancel[k] = Made, ![s].subbed[k] = flag]
    /\ closed' = closed \ Unused

\* mutant: cancel = nil after an unsubscription
RecancelNil(s, k, flag) ==
    /\ Unused # {}
    /\ sess' = [sess EXCEPT ![s].cancel[k] = IF flag THEN Made ELSE None,
                            ![s].subbed[k] = flag]
    /\ closed' = (closed \cup {sess[s].cancel[k]}) \ Unused

\* close(cancel); cancel = make(chan struct{})
Recancel(s, k, flag) ==
    /\ Unused # {}
    /\ sess' = [sess EXCEPT ![s].cancel[k] = Made, ![s].subbed[k] = flag]
    /\ closed' = (closed \cup {sess[s].cancel[k]}) \ Unused

\* go func: the new worker gets the channel that was just made
Start(s, k) ==
    /\ \E w \in Worker : ~ Runs(w)
    /\ LET w == CHOOSE v \in Worker : ~ Runs(v)
       IN worker' = [worker EXCEPT
                       ![w] = [session |-> s, kind |-> k, cancel |-> Made]]

\* subscribe_logs takes the place of the subscription before it, whatever its
\* deployment; subscribe_metrics does nothing while there is one
Subscribe(s, k) ==
    /\ sess[s].reading
    /\ k = "metrics" => ~ sess[s].subbed[k]
    /\ Recancel(s, k, TRUE)
    /\ Start(s, k)
    /\ UNCHANGED evVars

Unsubscribe(s, k) ==
    /\ sess[s].reading
    /\ sess[s].subbed[k]
    /\ Recancel(s, k, FALSE)
    /\ UNCHANGED <<evVars, worker>>
-----------------------------------------------------------------------------
(* The workers *)

\* The deployment ends: the worker sends log_done and returns
LogDone(w) ==
    /\ Runs(w)
    /\ worker[w].kind = "log"
    /\ worker' = [worker EXCEPT ![w] = NewWorker]
    /\ UNCHANGED <<evVars, sess, closed>>

\* The worker's select finds its cancel channel closed
Stop(w) ==
    /\ Runs(w)
    /\ worker[w].cancel \in closed
    /\ worker' = [worker EXCEPT ![w] = NewWorker]
    /\ UNCHANGED <<evVars, sess, closed>>
-----------------------------------------------------------------------------
SessionStep(s) ==
    \/ Connect(s) \/ Disconnect(s) \/ Reset(s) \/ Write(s) \/ ReadError(s)
    \/ \E k \in Kind : Subscribe(s, k) \/ Unsubscribe(s, k)

WorkerStep(w) == LogDone(w) \/ Stop(w)

WsNext ==
    \/ EvNext /\ UNCHANGED wsVars
    \/ \E s \in Session : SessionStep(s)
    \/ \E w \in Worker : WorkerStep(w)

WsSpec == WsInit /\ [][WsNext]_allVars

\* The system gives up a connection without a client at last (net/http turns
\* on keepalive), a write or a read on it returns then, and a select with two
\* ready cases does not take the same one for ever (Go picks at random)
WsFairness ==
    /\ \A s \in Session :
          WF_allVars(Reset(s)) /\ WF_allVars(Write(s)) /\ WF_allVars(ReadError(s))
    /\ \A w \in Worker : WF_allVars(Stop(w))

WsFairSpec == WsSpec /\ WsFairness
-----------------------------------------------------------------------------
(* Properties *)

WsTypeOK ==
    /\ sess \in [Session -> SessionState]
    /\ worker \in [Worker -> WorkerState]
    /\ closed \subseteq Chan

\* While the reader runs, the channels it may close are open and no other
\* session or kind of subscription shares them: no sequence of messages and
\* disconnects closes a channel twice, which would stop the process and cut
\* off every deployment in it.
CloseIsSafe ==
    \A s \in Session, k \in Kind :
        sess[s].reading =>
            /\ sess[s].cancel[k] \in Chan \ closed
            /\ \A t \in Session, j \in Kind :
                  sess[t].cancel[j] = sess[s].cancel[k] => t = s /\ j = k

\* Of all workers of a session, at most one per kind is not cancelled, and
\* none when its subscription was ended: a page is not sent the metrics twice
\* per tick, nor the log of a deployment it has turned away from. The metrics
\* are pushed as long as the flag says so.
OnlyNewestPushes ==
    \A s \in Session, k \in Kind :
        LET live == {w \in WorkersOf(s) :
                        worker[w].kind = k /\ worker[w].cancel \notin closed}
        IN /\ Cardinality(live) <= 1
           /\ live # {} => sess[s].reading /\ sess[s].subbed[k]
           /\ k = "metrics" /\ sess[s].reading /\ sess[s].subbed[k] => live # {}

\* The workers of a connection that is gone all end, the cancelled ones and
\* those of the last subscriptions.
WorkersEnd ==
    \A s \in Session : sess[s].conn # "up" ~> WorkersOf(s) = {}

\* Once the connection is known to be dead, one event is enough to end the
\* session and to unregister its channel, whatever pushers and workers do in
\* between. Nothing else ends it, and the events before may all disappear.
SessionEnds ==
    \A s \in Session :
        sess[s].conn = "down" /\ evBuf[s] # <<>>
            ~> ~ sess[s].writing /\ s \notin evSubs
=============================================================================
