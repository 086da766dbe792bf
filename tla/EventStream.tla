----------------------------- MODULE EventStream -----------------------------
(***************************************************************************)
(* Events and what announces itself by them: PushEvent, ListEvents,        *)
(* SubscribeEvents, UnsubscribeEvents and SaveJenkinsBuild of              *)
(* internal/store/store.go, handleEventsStream and                         *)
(* handleJenkinsStagesWebhook of internal/api/api.go.                      *)
(*                                                                         *)
(* Every handler, and the deploy engine, pushes events: PushEvent stores   *)
(* one under Store.mu and then offers it to the subscribers under          *)
(* Store.evSubsMu, so pushers overtake each other between the two. An      *)
(* event is its number in the order of storing and, for a report of        *)
(* Jenkins, the build and the number of the report it announces. Sessions  *)
(* of the websocket subscribe like streams do: module WsSession.           *)
(***************************************************************************)
EXTENDS Naturals, Sequences, FiniteSets, FiniteSetsExt

CONSTANTS
    Stream,      \* requests of handleEventsStream
    Session,     \* connections of handleWS
    Pusher,      \* goroutines that call PushEvent
    Build,       \* app and number of a Jenkins build
    None,        \* no build
    EvCap,       \* size of a subscriber's channel (64 in SubscribeEvents)
    MaxStored,   \* events kept (200 in PushEvent)
    MaxBuilds,   \* builds kept (100 in SaveJenkinsBuild)
    MaxEvents,   \* bound: events pushed
    MaxReports   \* bound: reports of Jenkins

ASSUME EventAssumption ==
    /\ Stream \cap Session = {}
    /\ None \notin Build
    /\ {EvCap, MaxStored, MaxBuilds} \subseteq Nat \ {0}
    /\ {MaxEvents, MaxReports} \subseteq Nat

VARIABLES
    events,   \* Store.d.Events
    builds,   \* Store.d.JenkinsBuilds
    evSubs,   \* Store.evSubs: who has a channel registered
    evBuf,    \* the channel of a subscriber
    pusher,   \* the goroutines that push
    stream,   \* the locals of the handlers of event streams
    got,      \* not in the code: what a subscriber took from its channel
    lossy     \* not in the code: an event was dropped, the channel was full

evVars == <<events, builds, evSubs, evBuf, pusher, stream, got, lossy>>
-----------------------------------------------------------------------------
Subscriber == Stream \cup Session

Report == [build : Build, report : 1..MaxReports]
NoReport == [build |-> None, report |-> 0]
Event == [n : 1..MaxEvents, about : Report \cup {NoReport}]

Idle == [pc |-> "idle", event |-> [n |-> 0, about |-> NoReport]]

NewStream == [pc |-> "idle", listed |-> <<>>, unsent |-> {}, seam |-> {}]

Numbers(s) == {s[i].n : i \in DOMAIN s}

\* Ids of events are times taken under the mutex; reports are numbered as
\* they are saved
Stored == Numbers(events)
LastEvent == Max({0} \cup Stored)
LastReport == Max({0} \cup {builds[i].report : i \in DOMAIN builds})

\* Events that are stored and not yet offered to the subscribers
Pending == {pusher[p].event.n : p \in {q \in Pusher : pusher[q].pc = "send"}}

\* mutant: the trim is off by one
NewestLoose(s, max) ==
    IF Len(s) > max + 1 THEN SubSeq(s, Len(s) - max, Len(s)) ELSE s

\* s[len(s)-max:]
Newest(s, max) ==
    IF Len(s) > max THEN SubSeq(s, Len(s) - max + 1, Len(s)) ELSE s

Full(c) == Len(evBuf[c]) >= EvCap

EvInit ==
    /\ events = <<>>
    /\ builds = <<>>
    /\ evSubs = {}
    /\ evBuf = [c \in Subscriber |-> <<>>]
    /\ pusher = [p \in Pusher |-> Idle]
    /\ stream = [c \in Stream |-> NewStream]
    /\ got = [c \in Subscriber |-> <<>>]
    /\ lossy = [c \in Subscriber |-> FALSE]
-----------------------------------------------------------------------------
(* Pushers *)

\* mutant: a report of a known build is appended as well
SavedTwice(r) == Newest(Append(builds, r), MaxBuilds)

\* SaveJenkinsBuild: the entry of the build is replaced where it is, or a
\* new one is appended and the oldest dropped
Saved(r) ==
    LET at == {i \in DOMAIN builds : builds[i].build = r.build}
    IN IF at = {} THEN Newest(Append(builds, r), MaxBuilds)
       ELSE [i \in DOMAIN builds |-> IF i \in at THEN r ELSE builds[i]]

\* handleJenkinsStagesWebhook, up to SaveJenkinsBuild
SaveBuild(p, k) ==
    /\ LastReport < MaxReports
    /\ LET r == [build |-> k, report |-> LastReport + 1]
       IN /\ pusher[p].pc = "idle"
          /\ builds' = Saved(r)
          /\ pusher' = [pusher EXCEPT ![p].pc = "saved", ![p].event.about = r]
    /\ UNCHANGED <<events, evSubs, evBuf, stream, got, lossy>>

\* PushEvent, first half: of a saved report, or of anything else
StoreEvent(p) ==
    /\ pusher[p].pc \in {"idle", "saved"}
    /\ LastEvent < MaxEvents
    /\ LET e == [pusher[p].event EXCEPT !.n = LastEvent + 1]
       IN /\ events' = Newest(Append(events, e), MaxStored)
          /\ pusher' = [pusher EXCEPT ![p] = [pc |-> "send", event |-> e]]
    /\ UNCHANGED <<builds, evSubs, evBuf, stream, got, lossy>>

Offered(cs, e) ==
    [c \in Subscriber |-> IF c \in cs /\ ~ Full(c) THEN Append(evBuf[c], e)
                          ELSE evBuf[c]]

Dropping(cs) == [c \in Subscriber |-> lossy[c] \/ (c \in cs /\ Full(c))]

\* mutant: the subscribers are served one at a time without the mutex
DeliverUnlocked(p) ==
    /\ pusher[p].pc = "send"
    /\ LET e == pusher[p].event
           has(c) == \E s \in {evBuf[c], got[c]} : \E i \in DOMAIN s : s[i] = e
           rest == {c \in evSubs : ~ has(c) /\ ~ lossy[c]}
       IN \/ /\ \E c \in rest : evBuf' = Offered({c}, e) /\ lossy' = Dropping({c})
             /\ UNCHANGED pusher
          \/ /\ rest = {}
             /\ pusher' = [pusher EXCEPT ![p] = Idle]
             /\ UNCHANGED <<evBuf, lossy>>
    /\ UNCHANGED <<events, builds, evSubs, stream, got>>

\* mutant: a full channel ends the loop over the subscribers
DeliverUntilFull(p) ==
    /\ pusher[p].pc = "send"
    /\ evBuf' = IF \E c \in evSubs : Full(c) THEN evBuf
                ELSE Offered(evSubs, pusher[p].event)
    /\ lossy' = Dropping(evSubs)
    /\ pusher' = [pusher EXCEPT ![p] = Idle]
    /\ UNCHANGED <<events, builds, evSubs, stream, got>>

\* PushEvent, second half: to every subscriber that has room
Deliver(p) ==
    /\ pusher[p].pc = "send"
    /\ evBuf' = Offered(evSubs, pusher[p].event)
    /\ lossy' = Dropping(evSubs)
    /\ pusher' = [pusher EXCEPT ![p] = Idle]
    /\ UNCHANGED <<events, builds, evSubs, stream, got>>
-----------------------------------------------------------------------------
(* Subscribers *)

\* SubscribeEvents makes a new channel
SubscribeEvents(c) ==
    /\ evSubs' = evSubs \cup {c}
    /\ evBuf' = [evBuf EXCEPT ![c] = <<>>]
    /\ got' = [got EXCEPT ![c] = <<>>]
    /\ lossy' = [lossy EXCEPT ![c] = FALSE]

\* ... which nobody can reach any more
UnsubscribeEvents(c) ==
    /\ evSubs' = evSubs \ {c}
    /\ evBuf' = [evBuf EXCEPT ![c] = <<>>]
    /\ got' = [got EXCEPT ![c] = <<>>]
    /\ lossy' = [lossy EXCEPT ![c] = FALSE]

\* A receive whose event is shown
Take(c) ==
    /\ evBuf[c] # <<>>
    /\ evBuf' = [evBuf EXCEPT ![c] = Tail(@)]
    /\ got' = [got EXCEPT ![c] = Append(@, Head(evBuf[c]))]

\* mutant: the subscription comes before the list
ListEventsSubscribed(c) ==
    \/ /\ stream[c].pc = "idle"
       /\ SubscribeEvents(c)
       /\ stream' = [stream EXCEPT ![c].pc = "listed"]
       /\ UNCHANGED <<events, builds, pusher>>
    \/ /\ stream[c].pc = "listed"
       /\ stream' = [stream EXCEPT ![c] = [pc |-> "live", listed |-> events,
                                           unsent |-> Pending, seam |-> {}]]
       /\ UNCHANGED <<events, builds, evSubs, evBuf, pusher, got, lossy>>

\* handleEventsStream: the client is shown the stored events first; unsent
\* remembers which events are still to come through the channels
ListEvents(c) ==
    /\ stream[c].pc = "idle"
    /\ stream' = [stream EXCEPT ![c] = [pc |-> "listed", listed |-> events,
                                        unsent |-> Pending, seam |-> {}]]
    /\ UNCHANGED <<events, builds, evSubs, evBuf, pusher, got, lossy>>

\* ... then the subscription; seam remembers what was stored and offered in
\* between, which this stream will not show
SubscribeStream(c) ==
    /\ stream[c].pc = "listed"
    /\ SubscribeEvents(c)
    /\ stream' = [stream EXCEPT ![c].pc = "live",
                     ![c].seam = Stored \ (Numbers(stream[c].listed) \cup Pending)]
    /\ UNCHANGED <<events, builds, pusher>>

ShowEvent(c) ==
    /\ stream[c].pc = "live"
    /\ Take(c)
    /\ UNCHANGED <<events, builds, evSubs, pusher, stream, lossy>>

\* The client goes: the deferred UnsubscribeEvents. Another may come.
LeaveStream(c) ==
    /\ stream[c].pc = "live"
    /\ UnsubscribeEvents(c)
    /\ stream' = [stream EXCEPT ![c] = NewStream]
    /\ UNCHANGED <<events, builds, pusher>>
-----------------------------------------------------------------------------
EvNext ==
    \/ \E p \in Pusher : StoreEvent(p) \/ Deliver(p)
    \/ \E p \in Pusher, k \in Build : SaveBuild(p, k)
    \/ \E c \in Stream : ListEvents(c) \/ SubscribeStream(c) \/ ShowEvent(c)
                         \/ LeaveStream(c)

EvSpec == EvInit /\ [][EvNext]_evVars
-----------------------------------------------------------------------------
(* Properties *)

EvTypeOK ==
    /\ events \in Seq(Event) /\ Len(events) <= MaxStored
    /\ builds \in Seq(Report) /\ Len(builds) <= MaxBuilds
    /\ evSubs \subseteq Subscriber
    /\ \A c \in Subscriber : /\ evBuf[c] \in Seq(Event)
                             /\ Len(evBuf[c]) <= EvCap
                             /\ got[c] \in Seq(Event)
                             /\ lossy[c] \in BOOLEAN
    /\ \A p \in Pusher : pusher[p].pc \in {"idle", "saved", "send"}
    /\ \A c \in Stream : stream[c].pc \in {"idle", "listed", "live"}

\* The channels bring the events to all subscribers in one order, although
\* pushers overtake each other between storing and sending, and none brings an
\* event twice. It is the order of sending, not that of the list of a stream.
OneOrder ==
    \A c, d \in Subscriber :
        \A i, j \in DOMAIN got[c] : \A k, l \in DOMAIN got[d] :
            got[c][i] = got[d][k] /\ got[c][j] = got[d][l] /\ i < j => k < l

\* What a stream shows in all, the stored events and then those of its channel:
\* the first are in the order of storing, and the others are newer than all of
\* them, except what was stored and not yet sent at the time of the list. Such
\* an event alone comes late, and a second time if it was among the stored ones.
ListThenNews ==
    \A c \in Stream :
        stream[c].pc = "live" =>
            /\ \A i, j \in DOMAIN stream[c].listed :
                  i < j => stream[c].listed[i].n < stream[c].listed[j].n
            /\ \A n \in Numbers(got[c]) \ stream[c].unsent :
                  \A m \in Numbers(stream[c].listed) : m < n

\* A live stream that lost nothing to a full channel shows every event the
\* store has, or will show it, except the ones that were stored and sent
\* between its list and its subscription.
SeamIsTheOnlyLoss ==
    \A c \in Stream :
        stream[c].pc = "live" /\ ~ lossy[c] =>
            Stored \subseteq Numbers(stream[c].listed) \cup stream[c].seam
                \cup Pending \cup Numbers(got[c]) \cup Numbers(evBuf[c])

\* Whoever is told of a report of Jenkins and asks for the builds (the page
\* does so on jenkins_update) finds one entry of that build with that report
\* or a later one, unless newer builds have filled the list.
AnnouncedIsStored ==
    \A c \in Subscriber : \A i \in DOMAIN got[c] :
        LET r == got[c][i].about
            at == {j \in DOMAIN builds : builds[j].build = r.build}
        IN r # NoReport =>
              \/ Cardinality(at) = 1 /\ \A j \in at : builds[j].report >= r.report
              \/ at = {} /\ Len(builds) = MaxBuilds
=============================================================================
