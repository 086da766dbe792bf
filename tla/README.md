# Verification of godeploy

TLA+ models of godeploy, the TLC runs that check them and the TLAPS proofs
about them. godeploy is one Go process: it deploys signed build artifacts to
hosts over ssh, keeps a record of every application in one JSON file, and shows
and controls all of it through an HTTP API, two event streams, a websocket and
one page.

Contents: [parts of the system](#1-the-parts-of-the-system),
[what is modelled](#2-what-is-modelled), [runs](#3-runs),
[proofs](#4-proofs), [limits](#5-what-is-only-checked-and-what-is-left-out),
[plan](#6-plan).

## 1. The parts of the system

| Part | State | Operations | Talks to |
|---|---|---|---|
| deploy engine (`internal/deploy/deploy.go`) | one mutex per app; the locals of one `run` goroutine per deployment; the target host's files, backups and unit | `Trigger`; `run` with its stages fetch, verify, ssh, backup, upload, restart, health, and its branches `attemptRestore`, `restore`, `pruneBackups`, `recover` | store (records, log, events), Nexus, cosign, the hosts, notifier |
| application records (`internal/store/store.go`) | `Apps`: current and desired version, sync state, last deployment, history of 50 | `StartDeployment`, `FinishDeployment`, `SetSyncState`, `GetAppState` | engine, reconciler, API |
| reconciler (`internal/deploy/reconcile.go`) | one loop per auto app, with a copy of its settings | `Start`, `loop`, `reconcileOnce`, `fetchLatestVersion` | Nexus, store, engine |
| log streaming (`store.go`, `api.go` `handleStream`) | log of the last deployment, subscriber channels of 256 | `AppendLog`, `Subscribe`, the closing of channels in `FinishDeployment` | engine, browsers |
| events (`store.go`, `api.go` `handleEventsStream`) | the last 200 events, subscriber channels of 64 | `PushEvent`, `ListEvents`, `SubscribeEvents`, `UnsubscribeEvents` | engine, every handler |
| websocket session (`internal/api/ws.go`) | two cancel channels, two flags, the goroutines of log and metrics subscriptions | `handleWS`: its reader, its writer, its pushers | store, metrics |
| store file (`store.go`) | `state.json`, a temporary file | `Open`, `persistLocked` | every write of the store |
| app registry (`internal/registry`, handlers in `api.go`) | static apps of the configuration, dynamic apps of the store | create, update, delete, find, list | engine, reconciler |
| users and sessions (`internal/auth`) | users of the store, session cookies signed with a key | bootstrap, create, delete, login, logout | API |
| Jenkins builds (`store.go`, webhook in `api.go`) | the last 100 builds | `SaveJenkinsBuild` | dashboard |
| host metrics (`internal/api/metrics.go`) | the last CPU sample, in two globals | `GetSystemMetrics` | websocket, API |
| dashboard (`web/static/index.html`) | cards, open log view, socket with a reconnect timer | `connectWebSocket`, `handleWSMessage`, `triggerSync`, `doRollback` | API |
| configuration, notifier, process start | none that changes | `Load`, `Validate`; two HTTP posts; wiring | all |

How they interact. A request (`handleSync`, `handleRollback`,
`handleJenkinsWebhook`) or a reconciler loop calls `Engine.Trigger`, which
writes the record of the app *before* it starts the goroutine; the goroutine
waits for the app's mutex, works on the host, and ends in a deferred function
that finishes the record and then releases the mutex. Record and mutex are
therefore not taken together, and this is where most of the interesting
behaviour comes from: a record belongs to the newest trigger, the host to
whoever holds the mutex.

What is hard, and what makes each part correct:

- *engine*: any remote command may fail after it took effect, half way, or
  before; the process may stop anywhere. Correct: one deployment at a time on a
  host; SUCCESS only when the version is in place, running and healthy;
  ROLLED_BACK only when the file found before is back; no unsigned file on the
  host of an app with a key; the file that was found is not lost; every
  deployment ends and frees the mutex.
- *records*: a run that another trigger overtook finishes late. Correct: it
  does not write over the newer outcome; the history only grows by finished
  deployments, each once, and misses none but the overtaken ones; the current
  version moves only to what is installed.
- *reconciler*: reads a record, then writes and triggers, with nothing locked
  in between and deployments and restarts going on. Correct: it converges on the
  latest version and then stops; drift is shown.
- *log and event streaming*: what is stored and what is sent are guarded by two
  mutexes, taken one after the other by writers and readers alike, and buffers
  are bounded. Correct: nothing is lost but in the gap between copy and
  registration or because a buffer is full, and nothing else is lost with it;
  the channels bring events in one order; a deployment never waits for its readers; a stream
  ends when its deployment does.
- *websocket*: two goroutines share channel variables one of them replaces, and
  a lost connection is noticed late. Correct: no channel is closed twice
  (which would stop the process); one live worker per subscription; sessions
  and workers of a lost connection end.
- *store file*: writes may fail, the process may stop between them, and the
  next one may be unable to read the file. Correct: the file always decodes to a
  state that was once current, what was answered is in it, and only a start that
  cannot read it has anything else, an empty store.
- *registry and users*: authorization, check and write are three critical
  sections. Correct: nothing invalid is stored, answers hold, and there is
  always an administrator.

`PROJECT.json` lists every hazard at its line, with the properties that cover it.

## 2. What is modelled

| Module | Models |
|---|---|
| `AtomicDeploy` | abstract: what a deployment does to the host of an app, without stages |
| `DeployEngine` | `Trigger`, `run` and the record operations they call; refines `AtomicDeploy` |
| `Reconciler` | the polling loops, `SetSyncState` and restarts, composed with `DeployEngine` |
| `LogStream` | the log of a deployment, `AppendLog`, `Subscribe`, the end of a deployment and the streams that show it |
| `EventStream` | `PushEvent` and its subscribers, the Jenkins build list that announces itself by events |
| `WsSession` | `handleWS`: reader, writer and workers, composed with `EventStream` |
| `DurableStore` | abstract: a change is on disk at once, or not at all and with an error |
| `StoreFile` | `Open`, `persistLocked` and the mutex around each change; refines `DurableStore` |
| `Admin` | users, sessions and applications: bootstrap and handlers, composed with `StoreFile` |
| `MC...` | small instances for TLC |
| `..._proofs` | theorems and their proofs |

### DeployEngine

| Variable | Code |
|---|---|
| `apps[a]` | `Store.d.Apps[a]`: `CurrentVersion`, `DesiredVersion`, `SyncState`, `LastDeployment` (id, version, status), `History` |
| `runs[d]` | the goroutine of deployment `d`: where it is in `run`, its parameters, `finalStatus`, and the content of the file `backupPath` names; `prev` is not in the code, it remembers the binary found when the mutex was taken |
| `lock[a]` | the mutex `lockFor(a)` returns |
| `host[a]` | the target host: the file at `remoteBin` and the file its unit was started from |

Each action is one stage with its whole error path. A stage that runs a remote
command may fail in every way `Leftovers` lists: the command did not run, took
effect although an error was reported (timeout, lost connection), or, for scp
and systemctl, stopped half way (`Partial`, a stopped unit). What `run` does
then is the code's: a failed backup returns without restoring, a failed upload
or restart goes to `attemptRestore`, a failed health check goes to `restore` if
rollback is on, and so on. `Panic` is `recover` in the deferred function.
`Finish` and `Unlock` are separate, because other goroutines run in between.
`Crash` ends all goroutines and leaves the host in any state of `Leftovers`;
`main` resumes nothing, so the records stay as they were. That the next process
can read them is assumed here; `StoreFile` has the case that it cannot.

The ways a version is fetched, signed and judged healthy are constants
(`Signed`, `Healthy`); the switches of an app's configuration are sets of apps
(`HasKey`, `HasHealthCheck`, `AutoRollback`).

`AtomicDeploy` has one step, `Settle`, for everything a run does to the host:
SUCCESS leaves the new version, ROLLED_BACK what was there before, FAILED any
of: what was there, the new file, a part of it, nothing. It never leaves a
file of a third deployment. The refinement (`Atomic` in `DeployEngine`)
maps `installed` to the file found at the beginning while a run is
undecided, and to the real file after its `Finish`; `Queued` and `Begun` give the
abstract deployments that wait and the one that has the host.

### Reconciler

`poll[a]` holds where the loop of `a` is in `reconcileOnce`, the version it
fetched and its copy of `SelfHeal`; `latest[a]` is `latest.txt` in Nexus.
Fetch, read of the record, each write and the trigger are separate steps, so
deployments, requests, published versions and restarts come in between.
`ProcessRestart` is a crash followed by `Start` with settings that may differ.

### LogStream

| Variable | Code |
|---|---|
| `run`, `written` | where the goroutine of the deployment is between the halves of `AppendLog` and `FinishDeployment`; lines so far |
| `last`, `recorded`, `logs` | whether its record is `LastDeployment`, or in the history; its `Logs` |
| `subs`, `chan` | `Store.subs[id]` and the channels in it |
| `reader[r]` | the locals of a `handleStream` or of a log worker; `copied`, `from` and `lossy` are not in the code and say which lines it may have missed |

The halves of each operation (under `mu`, then under `subsMu`) are actions of
their own, so a reader registers, and another trigger replaces the record,
between any two of them. `Leave` unregisters nothing, as in the code: the
channel of a client that goes stays in the map until the deployment ends, and
that of a stream opened after the end for ever.

### EventStream

`events` and `builds` are the lists of the store, `evSubs` and `evBuf` the
registered channels, `pusher` the goroutines between the two halves of
`PushEvent`, `stream` the handlers of event streams. `handleEventsStream` writes
the stored events to its client, in their order (`listed`), and after that the
ones of its channel (`got`): what a stream shows is `listed` followed by `got`.
Not in the code are `got` of the other subscribers, `lossy` (whether one missed an
event), `unsent` (what was stored and not yet sent when the list was made) and
`seam` (what was stored and sent between list and subscription).
`handleJenkinsStagesWebhook` is `SaveBuild` followed by the push of the event
that announces the report; every other handler is a push of an event about
nothing. Events are numbered in the order of storing.

### WsSession

`sess[s]` holds the variables of `handleWS` for one connection: whether reader
and writer run, the flags and the cancel channels; `worker` the goroutines of
subscriptions; `closed` the closed channels. A connection is `lost` when the
client is gone and the system has not noticed. `handleWS` sets no deadline and
sends no ping, so any number of writes, of the writer and of workers, may still
succeed then and their events disappear. `Reset` is the system giving the
connection up (`down`), because a write was refused or nothing was acknowledged
for too long; from then on every write fails, and the first event ends the
session. A failing write may also be what reveals it. A channel that nobody refers to
is made again, which keeps the set `Chan` finite. `Connect` may come whenever
the session before has ended: that is the page's reconnection timer.

Between the end of the reader and the next event, the writer's `select`
returns at once from the closed `logCancel` and does nothing: a loop that uses a
processor and changes nothing, hence no step of the model. A second
`subscribe_logs` takes the place of the first, although the page
(`index.html:2041-2046`) subscribes once for every deployment it shows live, so
after a reconnection with several live deployments only the log of the last one
goes on. `OnlyNewestPushes` states what the code does.

### StoreFile and DurableStore

`mem` is `Store.d`, `file` and `tmp` are the two files, `op` is the operation
that holds `Store.mu`. An operation changes the memory, writes the temporary
file, renames it and releases the mutex; each of the two can fail, and the
process can stop before each. `Open` ignores every error of `os.ReadFile` and
of `json.Unmarshal`: a new process has what the file decodes to, or, if it cannot
read it, an empty store (`Readings`), and its first save replaces the file.
`DurableStore` says a change takes effect in memory and on disk in one step, or
in memory only with an error, and that a restart has the disk or nothing. The mapping
(`Durable`) shows the old data until the rename: no one else can see the new
ones earlier, because readers take the mutex too.

### Admin

| Variable | Code |
|---|---|
| `mem`, `file`, `tmp`, `op` | those of `StoreFile`; the data are one map from names of users and dynamic applications to roles and settings |
| `serving` | `main` has created the users of the configuration and listens |
| `req[p]` | the handler of a request: who asks for what, and how far it is |
| `tokens` | users with a session cookie, which lives through a restart if `GODEPLOY_SESSION_KEY` is set |
| `acked`, `overdue` | not in the code: the last answer about a name, withdrawn by a start that could not read it; whether a change came after what its handler relied on had ended |

A request authorizes itself (`Authorize`), checks its input (`Check`), changes
the store (`Apply`, then the steps of `StoreFile`), and records an event
(`PushEvent`, which writes the whole file once more). Other requests come
between any two of them. Static applications come first in `FindApp`; an update of one
is accepted and saved as an entry that `FindApp` never reaches. After a
failed write the change stays in memory, and the next write of anybody takes
it to the disk, as in the code.

## 3. Runs

The runs of the engine and the reconciler use one app: apps share no mutex,
record or host in the engine, and the proofs cover any number of apps. Three
deployment ids suffice, because an id no record or goroutine mentions is
used again: a history of two (`MaxHist`) fills up and drops its oldest entry, and
a run that was overtaken may finish late against a full one. `MaxLive` bounds the
unfinished deployments. Two overlapping deployments are the
smallest case in which one overtakes another.

| Run | Shows | Bounds |
|---|---|---|
| `deploy_faults` | type correctness; `HostExclusive`; `SuccessIsInstalled`; `RollbackRestoresPrevious`; `PreviousNotLost`, while a run works; `RecordedOnce`; `NewestIsRecorded`: of those that finish only the overtaken ones miss the history; `InstallsOnlySigned`; `CurrentVersionIsInstalled`; `HistoryAppendOnly`; `OutcomeIsFinal`; the refinement of `AtomicDeploy` | a good, an unhealthy and an unsigned version, two overlapping deployments, every fault and crashes, history of 2 |
| `deploy_ends` | every accepted deployment ends; a PENDING record has a live goroutine; as long as no deployments overlap, Synced means installed (`SyncedWhenSerial`) | fair scheduling, two overlapping deployments, one version and whatever was there before, every fault but a crash, history of 1 |
| `reconciler_converges` | the loop of a self-healing app reaches the latest version and stops, also after a restart; without self-healing the drift is shown | `MaxLive = 1`, two versions, one restart, requests and publications at any time |
| `log_stream` | `SeamIsTheOnlyGap`: a stream that ends has missed nothing but what fell between the halves of `Subscribe` or into a full buffer; `ShownInOrder`; `DoneIsRecorded`: who is told "done" finds the final record; `RunNeverWaits`; `StreamEnds` | two readers, three lines, buffers of two: one line more than fits |
| `event_stream` | `OneOrder` of all channels; `ListThenNews`: what a stream shows is the stored events, then newer ones, but for those not sent yet; `SeamIsTheOnlyLoss`; `AnnouncedIsStored`: who is told of a build report finds it, or a later one | two streams, two pushers, three events, buffers of one, three builds in a list of two |
| `ws_session` | `CloseIsSafe`: no channel is closed twice; `OnlyNewestPushes`; `WorkersEnd`; `SessionEnds`: once the connection is known to be dead one event ends the session | one page that subscribes, disconnects and connects again without limit, two workers, five channels, three events |
| `admin` | nothing invalid is stored; `AckedSurvives`: answers hold through crashes and failing writes; `AdminRemains`; the refinement of `DurableStore` | two users and two roles, a dynamic and a static application, two requests in flight, three in all, one restart, which may be unable to read the file, two failing writes |
| `overtaken_synced` (violated) | two overlapping triggers, no fault: Synced at a version the host does not run | two overlapping |
| `overtaken_history` (violated) | two overlapping triggers, no fault: a deployment ends and is not in the history | two overlapping |
| `rolled_back_stopped` (violated) | ROLLED_BACK although the unit was not restarted | |
| `self_heal_livelock` (violated) | a deployment slower than the poll interval: self-heals overtake each other for ever and nothing is recorded | two overlapping, no fault |
| `drift_unseen` (violated) | after a failed deployment of another version the next poll writes Synced over Degraded | no fault, no overlap |

The violated properties state what README.md of the repository says
(lines 4-5, 25-34); `PROJECT.json` quotes the lines under `findings`. Two more
disagreements have no run of their own. A rollback may name a deployment that
failed, although README.md:121 says "already-verified"; `handleRollback` does not
look at the status, so there is nothing to explore. And the page asks `handleWS`
for the log of every live deployment (`index.html:2041-2046`), while `ws.go:86-94`
cancels the subscription before with each new one: `OnlyNewestPushes` is the
precise statement of it, and holds. Each passing property also has a
mutant, a plausible bug in one definition, that breaks it.

What the passing runs rest on:

- `SyncedWhenSerial` speaks of behaviours without an overlap and
  `reconciler_converges` restricts overlap through `MaxLive`. `overtaken_synced`
  and the livelock show why: without it the properties fail in the code.
- `NewestIsRecorded` says nothing of an overtaken run; `overtaken_history` shows
  what becomes of it. `PreviousNotLost` says nothing of the time after a crash or a
  failed backup; what may be left on the host then is in `AtomicDeploy`.
- `reconciler_converges` has no failing deployment other than the one a
  restart cuts off: a version that never becomes healthy is triggered again at
  every tick, and no document promises otherwise.
- `Converges` and `DriftIsShown` speak of an app that is left alone from some
  time on; before that, requests, publications and the restart come in any order.
- `log_stream` and `event_stream` name the gaps of the code exactly
  (between copy and registration, and a full buffer) instead of denying them;
  what the properties say is that there are no others.
- `OneOrder` compares channels. A stream's list is in the order of storing, and
  pushers may send in another one, so two streams that connect at different times
  may show two events in different orders, and an event that was stored and not yet
  sent is shown in the list and again from the channel. `ListThenNews` says that
  those events are the only ones out of turn.
- `AckedSurvives` excepts the entries that a start did not get because it could not
  read `state.json`: the code takes the file for missing and overwrites it.
- `SessionEnds` starts when the system has given the connection up; before that any
  number of events may disappear and end nothing.
- `AdminRemains` excepts changes made after the role or the check they relied on
  had ended (`overdue`): two administrators may delete each other at the
  same time, and a creation that passed its check may write over one that came in
  between.

Fairness. `Stage` is weakly fair: downloads (5 minutes), remote commands
(2 minutes), cosign (30 seconds) and health probes end within timeouts, and no
stage waits for another goroutine. `Acquire` is strongly fair: others may take
the mutex in between, but a `sync.Mutex` gives it to a waiter that has waited
more than a millisecond. `Reconcile` is weakly fair: the ticker keeps firing and
the fetch has a timeout of 10 seconds. Nothing is assumed of requests,
publications, faults or crashes. In `LogStream` the deployment's own steps are
weakly fair (they wait for nothing but mutexes held for a moment) and so is a
reader's receive; `Overtake`, `Leave` and new readers are not. In `WsSession` the
writer, the failing read, the stop of a cancelled worker and `Reset` are weakly
fair: the system gives up a connection without a client (net/http turns on
keepalive), a write or read on it returns then, and a `select` with several ready
cases picks at random. Nothing makes events or messages arrive: `SessionEnds`
asks for events that are there. The liveness runs use no symmetry.

## 4. Proofs

Every safety property of the passing runs is a theorem, for every value of the
constants: type correctness, the invariants, the action properties, both
refinements, and `SyncedWhenSerial`. `PendingHasRunner` has the condition under
which its run checks it, that the process does not crash, as a hypothesis.

### The engine and its host

`DeployEngine_proofs`, for every set of apps, versions and ids, every
configuration and every set of faults:

| Theorem | Says |
|---|---|
| `HostInvariant` | `HostInv` is an invariant of `Spec` |
| `TypeCorrect`, `Exclusive`, `SuccessCorrect`, `RollbackCorrect`, `PreviousKept` | the invariants of `deploy_faults` of those names |
| `SignedOnly` | `InstallsOnlySigned`, an action property |
| `ImplementsAtomicDeploy` | the refinement of `AtomicDeploy` |

`HostInv` is `TypeOK`, `HostExclusive` and, for every deployment,
`StageFacts`: what its stage knows of its run and its host (in `restart` the
new version is in place, from `upload` to the restore the backup is what was
found, past `verify` the version is signed, and so on). The invariants
alone are not inductive: that SUCCESS means installed needs the facts of the
stages before. A step of deployment `d` changes the
host of its own app only, and `HostExclusive` says no other deployment is at a
stage with facts about that host: lemma `OwnStep` draws this conclusion once,
`LocalStep`, `BreakStep`, `GotoStep` and `BinaryStep` specialise it, and each
stage has a lemma that checks its own facts. `InstallsOnlySigned` follows from
`StageFiles`: a step puts in place only a file the run owns.

For the refinement, `Trigger` is a `Submit` of `AtomicDeploy`, `Acquire` a
`Begin`, `Finish` a `Settle`, `Unlock` a `Leave`, `Crash` a `Crash`; every other
stage is a stutter, because the mapping shows the file found at the beginning as
long as the run decides. That `Settle` allows what `Finish` reveals is what
`StageFacts` says of a run in `finish`.

### The records

`DeployRecords_proofs`, for any number of overlapping deployments and any limit
of the history:

| Theorem | Says |
|---|---|
| `RecordInvariant` | `RecordInv` is an invariant |
| `HistoryOnce` | `RecordedOnce` |
| `HistoryGrows`, `OutcomeKept`, `CurrentInstalled` | the action properties `HistoryAppendOnly`, `OutcomeIsFinal`, `CurrentVersionIsInstalled` |
| `PendingRunner` | `PendingHasRunner`, if the process does not crash: after a crash the record stays PENDING without a run, as in the code |
| `NewestRecorded` | `NewestIsRecorded` |
| `SyncedInstalled` | `SyncedWhenSerial`: in a behaviour without an overlap of two deployments of an app, with any faults and crashes |

`RecordedOnce` says of an entry of the history that its run has passed
`FinishDeployment`. To keep that, `RecordInv` says of the *last* deployment that
while it is PENDING its run has not, and is the run of this record. Only
`Trigger` and `Finish` write a record (`RecordSteps`). A `Trigger` has an id
that no record or run mentions. A `Finish` finds its record PENDING, or the
record is another's and nothing is written (`FinishFacts`). `TrimmedAppend` is
what the trimming computes for every limit and every history within it, and
`NewestIsRecorded` is inductive with that: the entry written last is the record
that was written, and a new record is PENDING. No theorem says that the history
is complete, because it is not (`overtaken_history`). `SerialInv` says, for one
deployment at a time, that the app is Progressing until the record is final, and
that Synced speaks of the file on the host; a step keeps it if there is no overlap
after it, which is how `SyncedInstalled` uses its hypothesis.

`Reconciler_proofs` takes both invariants through the reconciler:
`ReconcilerInvariant` (with the loops' `PollTypeOK`), `ReconciledSuccess`,
`ReconciledRecords`, `ReconciledOutcomes`, `ReconciledCurrent`.
`SetSyncState` touches no field the invariants speak of, and a loop triggers
only versions that were published. `SyncedIsInstalled` is not among them: the
run `drift_unseen` refutes it for the reconciler.

### The log of a deployment

`LogStream_proofs`, for any number of readers and lines and any buffer:

| Theorem | Says |
|---|---|
| `StreamInvariant` | `StreamInv` is an invariant |
| `StreamTypes`, `SeamOnly`, `InOrder`, `DoneRecorded` | `TypeOK`, `SeamIsTheOnlyGap`, `ShownInOrder`, `DoneIsRecorded` |

The invariant speaks of a reader's *flow*: what it was shown followed by what is
in its channel. While the reader has lost no line, its flow is the copied lines
followed by all that were sent since it registered. A receive moves the
boundary inside the flow and leaves it as it is; sending appends one line;
registering fixes where the second part begins. At the end of the stream the
channel is empty, so the flow is what was shown, which is `SeamIsTheOnlyGap`.
For `ShownInOrder` every flow, with or without lost lines, is `Ordered`. To append
a line to it one has to know that no line has run ahead of those sent, but for the
last one of the copy, which may have been stored and not sent yet (`Bounded`).

### The events

`EventStream_proofs`, for any number of streams, sessions and pushers and any
bounds:

| Theorem | Says |
|---|---|
| `EventInvariant` | `EvInv` is an invariant |
| `EventTypes`, `ChannelsInOneOrder`, `ListedThenNews`, `SeamLosesOnly`, `AnnouncedStored` | `EvTypeOK`, `OneOrder`, `ListThenNews`, `SeamIsTheOnlyLoss`, `AnnouncedIsStored` |

Two pushers may send in the other order than they stored, so a flow is not
rising, and `OneOrder` is not inductive: it says nothing of what is still in
the channels. `EvInv` says that any two flows *agree*, that is, contain no two
events in different orders, and that an event being sent is in no flow yet.
Sending appends it to all registered flows at once, so it comes last in each
(`AgreeAppend`). For `ListThenNews` the flow of a stream that has made its list
holds only events newer than the list, or `unsent` when it was made (`Listed`): what
is sent later was stored later or was on its way then. For `AnnouncedIsStored` every report in a flow or on its way is *held*: the list has it
or a later one of its build, or is full of other builds (`SavedBuilds`: what
`SaveJenkinsBuild` replaces, appends and trims).

`WsSession_proofs` carries `EvInv` over to sessions, which connect, disconnect and
connect again (`SessionsSeeOneOrder`: the three properties of events).

### The store, the users and the sessions

`StoreFile_proofs`, for any data and any number of goroutines:

| Theorem | Says |
|---|---|
| `StoreInvariant` | `StoreInv`: `state.json` is never torn, and the temporary file is complete when it is renamed |
| `StoreImplementsDurable` | the refinement of `DurableStore`: a step of the store is a `Save`, a `Restart` or a stutter; a restart has what is on disk, or nothing if it cannot read it |

`TmpIsComplete` is what the types lack: the rename puts in place what is in
memory only because nothing changes the memory between the write and the rename,
which holds because the operation keeps the mutex.

`Admin_proofs`, for any users, applications and requests, any configuration with
an administrator in it, and without the bounds of the run:

| Theorem | Says |
|---|---|
| `AdTypeCorrect` | `AdTypeOK`; among other things, no application that `App.Validate` refuses is stored |
| `AdImplementsDurable` | the refinement of `DurableStore` |
| `AckedSurvivesAlways`, `AdminRemainsAlways` | `AckedSurvives`, `AdminRemains` |

The invariant has three layers, each inductive given the ones before.
`TypesInv`: a request past its check is well-formed and validated, and the
mutex is held by the request whose change is under way. Every step of `Admin` is
one of the store or leaves it alone (`AdminStoreStep`), so the theorems about
`StoreFile` carry over. `DiskInv`: memory and disk agree on every name that was
answered and not lost to a start that could not read the file. This is stronger than `AckedSurvives`, and needed because every
operation writes *all* of the memory, so an entry is safe only if the memory has it
as well. `LeftInv`: there is an administrator in memory and on disk, or, before the
process serves, the bootstrap will still make one (`Seeded`). The disk is part of
it because a restart makes it the memory; if the restart reads nothing, the
bootstrap makes one again.

`WsSession_proofs`, besides, for any number of connections, workers and channels:
`WsTypeCorrect`, `CloseIsSafeAlways`, `OnlyNewestPushesAlways`. `CloseIsSafe` is
inductive with the types: a channel that is made is nobody's, so replacing one
touches no other session. For `OnlyNewestPushes` the invariant says that a worker
that is not cancelled holds the very channel its session holds for that kind
(`WorkersInv`); two such workers would then be one. Lemma `RecancelReplaces`
states once what a replacement does, the lemmas after it use that alone.

### What the proofs assume

`ConstantsAssumption`, `SentinelAssumption`, `ZeroAssumption` and
`PolicyAssumption`,
which say that the configuration speaks of registered apps and versions,
that the zero values are no ids, versions or statuses, and that bounds are
numbers (`MaxLive` is any number, so it restricts nothing); `StreamAssumption` and
`EventAssumption`, that a buffer and a list hold at least one entry, and that streams
and sessions are told apart; `StoreAssumption`,
that the values for a missing and a torn file are no data; `AdminAssumption`, that
users and applications are told apart and that the configuration has an
administrator, as the example in `RHEL_DEPLOYMENT.md` has; `SessionAssumption`, that the absence of a
session or channel is neither.

## 5. What is only checked, and what is left out

Only model-checked: the liveness properties `EveryRunEnds`, `Converges`,
`DriftIsShown`, `RunNeverWaits`, `StreamEnds`, `WorkersEnd` and `SessionEnds`,
because fairness and `ENABLED` are beyond the prover.

Assumed by the models:

- every deployment gets an id no record has (a nanosecond clock in the code);
- apps have remote paths, units and backup directories of their own;
- a backup's name is new (it has a resolution of a second, and a run that
  creates one holds the mutex for longer);
- in every module but `StoreFile` and `Admin`, a process that starts can read
  `state.json`;
- a file that was renamed stays: `persistLocked` does not sync, so a power
  failure may lose it, and the end of a process does not;
- in the engine, a write of the store succeeds (`StoreFile` has the failing ones);
- a remote command that was interrupted takes effect at once or never;
- the file that `scp` copies is not looked at by a unit until it is restarted.

Left out, and why:

- log lines, wording, times, users and URLs of deployments, which control nothing;
  the cryptography of cosign, passwords and cookies; parsing of requests;
- the configuration: `Load`, the defaults and `App.Validate` keep no state; the
  settings are constants of the modules. `Load` never calls `Config.Validate`, and
  the defaults `App.Validate` sets are lost because it works on a copy;
  `pruneBackups` has a default of its own;
- host metrics: numbers read from `/proc` and shown. The last CPU sample is
  shared without a lock, and the result is clamped to 0..100;
- the notifier: two HTTP posts with timeouts whose results nobody looks at;
- the dashboard: it only reads; its reconnection is `Connect` of `WsSession`;
- an empty `latest.txt` answered with status 200: `fetchLatestVersion` returns the
  empty text as a version without an error (`reconcile.go:93`), and the loop
  would deploy it; `Version` holds published versions only;
- handlers that only read. `GetAppState` shares the pointer to the last
  deployment with the encoder of a response, a data race on one record;
- which password `SSHPASS` holds when deployments of two apps overlap, and backup
  directories that several apps share (the engine's models have one app at a
  time on a host; a wrong password is a failing command);
- an interrupted remote command that takes effect after the next deployment began.

## 6. Plan

Done: every part of the table in section 1 that keeps state and decides
something, and a theorem for every safety property of the passing runs. Next:

1. Properties for the hazards that have none yet and need no new state: a rollback
   that leaves the service stopped, a version that fails at every tick.
2. Late effects of interrupted commands in `DeployEngine`.
