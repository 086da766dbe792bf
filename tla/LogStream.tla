------------------------------ MODULE LogStream ------------------------------
(***************************************************************************)
(* The log of one deployment and the streams that show it: AppendLog,      *)
(* Subscribe and the end of FinishDeployment of internal/store/store.go,   *)
(* handleStream of internal/api/api.go and the log pushers of              *)
(* internal/api/ws.go.                                                     *)
(*                                                                         *)
(* The record of a deployment is guarded by Store.mu, its channels by      *)
(* Store.subsMu, and every operation takes the two one after the other:    *)
(* what happens in between is the subject of this module. A line is its    *)
(* number; another Trigger for the app may replace the record at any time, *)
(* after which lines are sent but not stored.                              *)
(***************************************************************************)
EXTENDS Naturals, Sequences

CONSTANTS
    Reader,     \* requests of handleStream and log pushers of a websocket
    BufferCap,  \* size of a subscriber's channel (256 in Subscribe)
    MaxLines    \* bound: lines the deployment logs

ASSUME StreamAssumption ==
    /\ BufferCap \in Nat \ {0}
    /\ MaxLines \in Nat \ {0}

VARIABLES
    run,       \* where the goroutine of the deployment is in its log calls
    written,   \* number of lines it has begun to log
    last,      \* the deployment is the LastDeployment of its app
    recorded,  \* FinishDeployment has put it into the history
    logs,      \* the Logs of its record
    subs,      \* Store.subs of its id: the readers whose channel is registered
    chan,      \* the channel of a reader
    reader     \* the locals of a reader

vars == <<run, written, last, recorded, logs, subs, chan, reader>>
-----------------------------------------------------------------------------
\* Lines i to j of the deployment
Lines(i, j) == [k \in 1..(IF j < i THEN 0 ELSE j - i + 1) |-> i + k - 1]

\* The lines that have been offered to the registered channels
Sent == IF run = "send" THEN written - 1 ELSE written

Channel == [buf : Seq(1..MaxLines), closed : BOOLEAN]

\* copied and from are not in the code: how many lines Subscribe copied, and
\* how many had been sent when it registered the channel. lossy: a line
\* was dropped since because the channel was full.
ReaderState == [pc : {"idle", "copied", "attached", "done", "gone"},
                shown : Seq(1..MaxLines), copied : 0..MaxLines,
                from : 0..MaxLines, lossy : BOOLEAN]

NewReader == [pc |-> "idle", shown |-> <<>>, copied |-> 0, from |-> 0,
              lossy |-> FALSE]

Init ==
    /\ run = "log"
    /\ written = 0
    /\ last = TRUE
    /\ recorded = FALSE
    /\ logs = <<>>
    /\ subs = {}
    /\ chan = [r \in Reader |-> [buf |-> <<>>, closed |-> FALSE]]
    /\ reader = [r \in Reader |-> NewReader]
-----------------------------------------------------------------------------
(* The deployment *)

\* Another Trigger replaces the record, which is not in the history yet
Overtake ==
    /\ last
    /\ last' = FALSE
    /\ UNCHANGED <<run, written, recorded, logs, subs, chan, reader>>

\* mutant: only lines somebody looks at are stored
StoreLineWatched ==
    /\ run = "log" /\ written < MaxLines
    /\ written' = written + 1
    /\ logs' = IF last /\ subs # {} THEN Append(logs, written + 1) ELSE logs
    /\ run' = "send"
    /\ UNCHANGED <<last, recorded, subs, chan, reader>>

\* AppendLog, first half: under mu, if the id is that of the last deployment
StoreLine ==
    /\ run = "log"
    /\ written < MaxLines
    /\ written' = written + 1
    /\ logs' = IF last THEN Append(logs, written + 1) ELSE logs
    /\ run' = "send"
    /\ UNCHANGED <<last, recorded, subs, chan, reader>>

Full(r) == Len(chan[r].buf) >= BufferCap

\* mutant: the channels grow without limit
SendLineUnbounded ==
    /\ run = "send"
    /\ chan' = [r \in Reader |->
                  IF r \in subs
                  THEN [chan[r] EXCEPT !.buf = Append(@, written)] ELSE chan[r]]
    /\ run' = "log"
    /\ UNCHANGED <<written, last, recorded, logs, subs, reader>>

\* mutant: a plain send, which waits for room in the channel
SendLineBlocking ==
    /\ run = "send"
    /\ \A r \in subs : ~ Full(r)
    /\ chan' = [r \in Reader |->
                  IF r \in subs
                  THEN [chan[r] EXCEPT !.buf = Append(@, written)] ELSE chan[r]]
    /\ run' = "log"
    /\ UNCHANGED <<written, last, recorded, logs, subs, reader>>

\* AppendLog, second half: under subsMu, to every channel that has room
SendLine ==
    /\ run = "send"
    /\ chan' = [r \in Reader |->
                  IF r \in subs /\ ~ Full(r)
                  THEN [chan[r] EXCEPT !.buf = Append(@, written)] ELSE chan[r]]
    /\ reader' = [r \in Reader |->
                    [reader[r] EXCEPT !.lossy = @ \/ (r \in subs /\ Full(r))]]
    /\ run' = "log"
    /\ UNCHANGED <<written, last, recorded, logs, subs>>

\* FinishDeployment, first half: the record with its log enters the history
FinishRecord ==
    /\ run = "log"
    /\ written > 0
    /\ recorded' = last
    /\ run' = "close"
    /\ UNCHANGED <<written, last, logs, subs, chan, reader>>

ClosedAll == [r \in Reader |->
                IF r \in subs THEN [chan[r] EXCEPT !.closed = TRUE]
                ELSE chan[r]]

\* mutant: the channels may be closed before the record is written
CloseSubsEarly ==
    /\ run \in {"log", "close"}
    /\ run' = IF run = "log" THEN "log" ELSE "ended"
    /\ chan' = ClosedAll
    /\ subs' = {}
    /\ UNCHANGED <<written, last, recorded, logs, reader>>

\* mutant: an overtaken deployment returns before it closes its channels
CloseSubsLast ==
    /\ run = "close"
    /\ run' = "ended"
    /\ IF last THEN chan' = ClosedAll /\ subs' = {} ELSE UNCHANGED <<chan, subs>>
    /\ UNCHANGED <<written, last, recorded, logs, reader>>

\* FinishDeployment, second half: whether or not the id was the last one
CloseSubs ==
    /\ run = "close"
    /\ run' = "ended"
    /\ chan' = ClosedAll
    /\ subs' = {}
    /\ UNCHANGED <<written, last, recorded, logs, reader>>
-----------------------------------------------------------------------------
(* The readers *)

\* What Subscribe finds for the id: its last deployment, or its history
Existing == IF last \/ recorded THEN logs ELSE <<>>

\* mutant: the copy in the history is taken as well as that of the record
CopyTwice(r) ==
    /\ reader[r].pc = "idle"
    /\ reader' = [reader EXCEPT
          ![r] = [@ EXCEPT !.pc = "copied", !.copied = Len(Existing),
                           !.shown = IF last /\ recorded
                                     THEN Existing \o Existing ELSE Existing]]
    /\ UNCHANGED <<run, written, last, recorded, logs, subs, chan>>

\* Subscribe, first half, under mu; nothing of the copy changes before the
\* handler writes it to the client
CopyExisting(r) ==
    /\ reader[r].pc = "idle"
    /\ reader' = [reader EXCEPT
          ![r] = [@ EXCEPT !.pc = "copied", !.copied = Len(Existing),
                           !.shown = Existing]]
    /\ UNCHANGED <<run, written, last, recorded, logs, subs, chan>>

\* Subscribe, second half, under subsMu, whether or not the deployment ended
Register(r) ==
    /\ reader[r].pc = "copied"
    /\ reader' = [reader EXCEPT ![r] = [@ EXCEPT !.pc = "attached",
                                                 !.from = Sent]]
    /\ subs' = subs \cup {r}
    /\ UNCHANGED <<run, written, last, recorded, logs, chan>>

\* mutant: a closed channel is taken for the end while lines are left in it
ReceiveHasty(r) ==
    /\ reader[r].pc = "attached"
    /\ \/ /\ chan[r].closed
          /\ reader' = [reader EXCEPT ![r].pc = "done"]
          /\ UNCHANGED chan
       \/ /\ chan[r].buf # <<>>
          /\ reader' = [reader EXCEPT ![r].shown = Append(@, Head(chan[r].buf))]
          /\ chan' = [chan EXCEPT ![r].buf = Tail(@)]
    /\ UNCHANGED <<run, written, last, recorded, logs, subs>>

\* A receive: a line that is shown, or the end of a closed, empty channel
Receive(r) ==
    /\ reader[r].pc = "attached"
    /\ \/ /\ chan[r].buf # <<>>
          /\ reader' = [reader EXCEPT ![r].shown = Append(@, Head(chan[r].buf))]
          /\ chan' = [chan EXCEPT ![r].buf = Tail(@)]
       \/ /\ chan[r].buf = <<>>
          /\ chan[r].closed
          /\ reader' = [reader EXCEPT ![r].pc = "done"]
          /\ UNCHANGED chan
    /\ UNCHANGED <<run, written, last, recorded, logs, subs>>

\* The client goes, or the pusher is cancelled: nothing is unregistered
Leave(r) ==
    /\ reader[r].pc = "attached"
    /\ reader' = [reader EXCEPT ![r].pc = "gone"]
    /\ UNCHANGED <<run, written, last, recorded, logs, subs, chan>>
-----------------------------------------------------------------------------
RunStep == StoreLine \/ SendLine \/ FinishRecord \/ CloseSubs

ReaderStep(r) == CopyExisting(r) \/ Register(r) \/ Receive(r) \/ Leave(r)

Next == Overtake \/ RunStep \/ \E r \in Reader : ReaderStep(r)

\* The goroutine of the deployment and a connected reader are scheduled; a
\* client need never connect, and may stay or go
Fairness ==
    /\ WF_vars(RunStep)
    /\ \A r \in Reader : WF_vars(Receive(r))

Spec == Init /\ [][Next]_vars

FairSpec == Spec /\ Fairness
-----------------------------------------------------------------------------
(* Properties *)

\* The record, the channels and the readers hold values of their kinds, and
\* no channel holds more than its capacity.
TypeOK ==
    /\ run \in {"log", "send", "close", "ended"}
    /\ written \in 0..MaxLines
    /\ last \in BOOLEAN
    /\ recorded \in BOOLEAN
    /\ logs \in Seq(1..MaxLines)
    /\ subs \subseteq Reader
    /\ chan \in [Reader -> Channel]
    /\ reader \in [Reader -> ReaderState]
    /\ \A r \in Reader : Len(chan[r].buf) <= BufferCap

\* A reader that got the end of the stream, and for which no channel was
\* full, has been shown the whole log except what was sent between the two
\* halves of its Subscribe (all that was sent before them, if the record had
\* been replaced): nothing is missing after it registered, also when the
\* deployment was overtaken.
SeamIsTheOnlyGap ==
    \A r \in Reader :
        reader[r].pc = "done" /\ ~ reader[r].lossy =>
            reader[r].shown = Lines(1, reader[r].copied)
                                \o Lines(reader[r].from + 1, written)

\* Lines are shown in the order they were logged, and none twice, except the
\* last line of the copy when it was stored but not yet sent.
ShownInOrder ==
    \A r \in Reader :
        LET s == reader[r].shown
        IN \A i \in 1..(Len(s) - 1) :
              \/ s[i] < s[i + 1]
              \/ s[i] = s[i + 1] /\ i = reader[r].copied

\* A client that is told "done" and asks again (the page refreshes on
\* log_done) finds the final record with the whole log, unless another
\* trigger had replaced the record.
DoneIsRecorded ==
    \A r \in Reader :
        reader[r].pc = "done" /\ last => recorded /\ logs = Lines(1, written)

\* The deployment never waits for those who watch it: it ends although a
\* reader stops reading or has gone and left its channel registered.
RunNeverWaits == <>(run = "ended")

\* A stream whose channel is registered before the deployment closes its
\* channels is told the end, or its client has gone. (One registered later
\* stays open until its client goes.)
StreamEnds ==
    \A r \in Reader :
        r \in subs /\ run # "ended" ~> reader[r].pc \in {"done", "gone"}
=============================================================================
