---------------------------- MODULE DeployEngine ----------------------------
(***************************************************************************)
(* The deploy engine of godeploy: Engine.Trigger and Engine.run of         *)
(* internal/deploy/deploy.go, with the application records of              *)
(* internal/store/store.go they write (StartDeployment, FinishDeployment)  *)
(* and the handlers of internal/api/api.go that call Trigger.              *)
(*                                                                         *)
(* Every accepted deployment is a goroutine of its own. It waits for the   *)
(* mutex of its app and then walks through fetch, verify, ssh, backup,     *)
(* upload, restart, health, with the restore and rollback branches. A step *)
(* that talks to the target host may fail and leave the host in any of the *)
(* states its command can leave behind; the process may also stop at any   *)
(* point and come back with the records it persisted.                      *)
(*                                                                         *)
(* Abstracted: log lines, events and notifications (they carry no control  *)
(* back into the engine), URLs, users and times; a version stands for the  *)
(* artifact that is downloaded for it. Apps are assumed to have targets of *)
(* their own: two apps configured with one remote path are not modelled.   *)
(***************************************************************************)
EXTENDS Naturals, Sequences, FiniteSets

CONSTANTS
    App,             \* names of registered apps
    Version,         \* published versions
    DepId,           \* deployment ids; an id no record mentions may be reused
    None,            \* the zero value: no version, no file, no holder
    Partial,         \* content of a file whose upload was cut short
    HasKey,          \* apps with cosign.publicKeyPath
    Signed,          \* versions whose signature cosign accepts
    HasHealthCheck,  \* apps with healthCheck.url
    Healthy,         \* versions that answer their health check
    AutoRollback,    \* apps with autoRollbackOnFailedHealth
    MayFail,         \* faults the environment may produce
    MaxHist,         \* length the history is trimmed to (50 in store.Open)
    MaxLive          \* bound: unfinished deployments per app

Fault == {"fetch", "verify", "ssh", "backup", "upload", "restart", "health",
          "restore", "rollback", "rerestart", "panic", "crash"}

ASSUME ConstantsAssumption ==
    /\ HasKey \subseteq App
    /\ HasHealthCheck \subseteq App
    /\ AutoRollback \subseteq App
    /\ Signed \subseteq Version
    /\ Healthy \subseteq Version
    /\ MayFail \subseteq Fault
    /\ MaxHist \in Nat \ {0}
    /\ MaxLive \in Nat

ASSUME SentinelAssumption ==
    /\ None \notin DepId \cup App \cup Version
    /\ Partial \notin Version \cup {None}

VARIABLES
    apps,   \* Store.d.Apps: the AppState of every app
    runs,   \* the locals of Engine.run, one record per deployment goroutine
    lock,   \* Engine.locks: which deployment holds the mutex of an app
    host    \* the target host of an app: its binary and what its unit runs

vars == <<apps, runs, lock, host>>
-----------------------------------------------------------------------------
Final == {"SUCCESS", "FAILED", "ROLLED_BACK"}
Status == Final \cup {"PENDING"}
SyncState == {"Synced", "OutOfSync", "Progressing", "Degraded"}
Reason == {"request", "rollback", "self-heal"}
Content == Version \cup {None, Partial}

\* The zero value of a status or a sync state is none of the named ones
ASSUME ZeroAssumption == None \notin Status \cup SyncState

\* Stages of run between Lock and FinishDeployment, the ones before and
\* those after the first command on the host
LocalStage == {"fetch", "verify", "ssh"}
HostStage == {"backup", "upload", "restart", "health",
              "restore", "rollback", "rerestart", "prune"}
Working == LocalStage \cup HostStage
Holding == Working \cup {"finish", "unlock"}
PC == Holding \cup {"idle", "queued"}

Deployment == [id : DepId, version : Version, status : Status]
NoDeployment == [id |-> None, version |-> None, status |-> None]

AppState == [currentVersion : Version \cup {None},
             desiredVersion : Version \cup {None},
             syncState : SyncState \cup {None},
             lastDeployment : Deployment \cup {NoDeployment},
             history : Seq(Deployment)]

NoAppState == [currentVersion |-> None, desiredVersion |-> None,
               syncState |-> None, lastDeployment |-> NoDeployment,
               history |-> <<>>]

\* prev is not in the code: the binary found when the mutex was taken.
\* backup is the content of the file backupPath names.
HostState == [binary : Content, running : Content]

Run == [pc : PC, app : App \cup {None}, version : Version \cup {None},
        reason : Reason \cup {None}, finalStatus : Final \cup {None},
        prev : Content, backup : Content]

Idle == [pc |-> "idle", app |-> None, version |-> None, reason |-> None,
         finalStatus |-> None, prev |-> None, backup |-> None]

Active(d) == runs[d].pc # "idle"
Live(a) == {d \in DepId : Active(d) /\ runs[d].app = a}

\* Ids are nanosecond timestamps: no record or goroutine has a new one yet
Fresh(d) ==
    /\ ~ Active(d)
    /\ \A a \in App :
          /\ apps[a].lastDeployment.id # d
          /\ \A i \in DOMAIN apps[a].history : apps[a].history[i].id # d
-----------------------------------------------------------------------------
(* The store's part: operators on one AppState *)

\* mutant: the record is created without its status
StartDeploymentNoStatus(as, d, v) ==
    [as EXCEPT !.syncState = "Progressing",
               !.desiredVersion = v,
               !.lastDeployment = [id |-> d, version |-> v, status |-> None]]

StartDeployment(as, d, v) ==
    [as EXCEPT !.syncState = "Progressing",
               !.desiredVersion = v,
               !.lastDeployment =
                    [id |-> d, version |-> v, status |-> "PENDING"]]

\* mutant: the trim keeps the wrong end
TrimmedNewest(h) ==
    IF Len(h) > MaxHist THEN SubSeq(h, 1, MaxHist) ELSE h

Trimmed(h) ==
    IF Len(h) > MaxHist THEN SubSeq(h, Len(h) - MaxHist + 1, Len(h)) ELSE h

\* mutant: the id of the last deployment is not compared
FinishDeploymentUnguarded(as, d, s) ==
    LET dep == [as.lastDeployment EXCEPT !.status = s]
    IN [as EXCEPT !.lastDeployment = dep,
                  !.currentVersion = IF s = "SUCCESS" THEN dep.version ELSE @,
                  !.syncState = IF s = "SUCCESS" THEN "Synced" ELSE "Degraded",
                  !.history = Trimmed(Append(@, dep))]

\* mutant: the history gets the record as it was before its status was set
FinishDeploymentTooEarly(as, d, s) ==
    IF as.lastDeployment.id # d THEN as
    ELSE LET dep == [as.lastDeployment EXCEPT !.status = s]
         IN [as EXCEPT
               !.lastDeployment = dep,
               !.currentVersion = IF s = "SUCCESS" THEN dep.version ELSE @,
               !.syncState = IF s = "SUCCESS" THEN "Synced" ELSE "Degraded",
               !.history = Trimmed(Append(@, as.lastDeployment))]

\* mutant: every end counts as synced
FinishDeploymentSynced(as, d, s) ==
    IF as.lastDeployment.id # d THEN as
    ELSE LET dep == [as.lastDeployment EXCEPT !.status = s]
         IN [as EXCEPT !.lastDeployment = dep,
                       !.syncState = "Synced",
                       !.history = Trimmed(Append(@, dep))]

\* Only the last deployment triggered is recorded: a run another Trigger
\* has overtaken finishes without a trace
FinishDeployment(as, d, s) ==
    IF as.lastDeployment.id # d THEN as
    ELSE LET dep == [as.lastDeployment EXCEPT !.status = s]
         IN [as EXCEPT
               !.lastDeployment = dep,
               !.currentVersion = IF s = "SUCCESS" THEN dep.version ELSE @,
               !.syncState = IF s = "SUCCESS" THEN "Synced" ELSE "Degraded",
               !.history = Trimmed(Append(@, dep))]
-----------------------------------------------------------------------------
(* Trigger and the handlers that call it *)

Trigger(a, v, why, d) ==
    /\ Fresh(d)
    /\ Cardinality(Live(a)) < MaxLive
    /\ apps' = [apps EXCEPT ![a] = StartDeployment(@, d, v)]
    /\ runs' = [runs EXCEPT ![d] =
                  [Idle EXCEPT !.pc = "queued", !.app = a,
                               !.version = v, !.reason = why]]
    /\ UNCHANGED <<lock, host>>

HandleSync(a, v, d) == Trigger(a, v, "request", d)

HandleJenkinsWebhook(a, v, d) == Trigger(a, v, "request", d)

\* Any entry of the history may be the target, whatever its status
HandleRollback(a, i, d) ==
    /\ i \in DOMAIN apps[a].history
    /\ Trigger(a, apps[a].history[i].version, "rollback", d)
-----------------------------------------------------------------------------
(* The stages of run *)

At(d, stage) == runs[d].pc = stage

Goto(d, stage) == runs' = [runs EXCEPT ![d].pc = stage]

Conclude(d, status, stage) ==
    runs' = [runs EXCEPT ![d].finalStatus = status, ![d].pc = stage]

SetBinary(a, c) == host' = [host EXCEPT ![a].binary = c]

\* The states of the host that the command of d's stage may leave behind
\* when it reports an error, runs into its timeout or loses its client
Leftovers(d) ==
    LET r == runs[d]
        h == host[r.app]
        binaries ==
            CASE r.pc = "backup" -> {h.binary, None}
              [] r.pc = "upload" -> {h.binary, Partial, r.version}
              [] r.pc \in {"restore", "rollback"} /\ r.backup # None ->
                    {h.binary, r.backup}
              [] OTHER -> {h.binary}
        processes ==
            IF r.pc \in {"restart", "rerestart"}
            THEN {h.running, h.binary, None} ELSE {h.running}
    IN [binary : binaries, running : processes]

\* A failing command of d, after which run goes on at stage
Breaks(d, stage) ==
    /\ \E h \in Leftovers(d) : host' = [host EXCEPT ![runs[d].app] = h]
    /\ Goto(d, stage)

\* mutant: the mutex is not waited for
AcquireUnchecked(d) ==
    /\ At(d, "queued")
    /\ lock' = [lock EXCEPT ![runs[d].app] = d]
    /\ runs' = [runs EXCEPT ![d].pc = "fetch", ![d].finalStatus = "FAILED",
                            ![d].prev = host[runs[d].app].binary]
    /\ UNCHANGED <<apps, host>>

\* lock.Lock(): a sync.Mutex serves its waiters in no particular order
Acquire(d) ==
    LET a == runs[d].app
    IN /\ At(d, "queued")
       /\ lock[a] = None
       /\ lock' = [lock EXCEPT ![a] = d]
       /\ runs' = [runs EXCEPT ![d].pc = "fetch",
                               ![d].finalStatus = "FAILED",
                               ![d].prev = host[a].binary]
       /\ UNCHANGED <<apps, host>>

\* mutant: a failed download returns before the deferred FinishDeployment
FetchUnrecorded(d) ==
    /\ At(d, "fetch")
    /\ Goto(d, "verify") \/ ("fetch" \in MayFail /\ Goto(d, "unlock"))
    /\ UNCHANGED <<apps, lock, host>>

Fetch(d) ==
    /\ At(d, "fetch")
    /\ \/ Goto(d, "verify")
       \/ "fetch" \in MayFail /\ Goto(d, "finish")
    /\ UNCHANGED <<apps, lock, host>>

\* mutant: a failed verification is only logged
VerifyIgnored(d) ==
    At(d, "verify") /\ Goto(d, "ssh") /\ UNCHANGED <<apps, lock, host>>

Verify(d) ==
    /\ At(d, "verify")
    /\ \/ /\ runs[d].app \in HasKey => runs[d].version \in Signed
          /\ Goto(d, "ssh")
       \/ /\ runs[d].app \in HasKey
          /\ runs[d].version \notin Signed \/ "verify" \in MayFail
          /\ Goto(d, "finish")
    /\ UNCHANGED <<apps, lock, host>>

PrepareSSH(d) ==
    /\ At(d, "ssh")
    /\ \/ Goto(d, "backup")
       \/ "ssh" \in MayFail /\ Goto(d, "finish")
    /\ UNCHANGED <<apps, lock, host>>

\* mutant: the result of the backup script is not looked at
BackupIgnored(d) ==
    /\ At(d, "backup")
    /\ \/ /\ SetBinary(runs[d].app, None)
          /\ runs' = [runs EXCEPT ![d].pc = "upload",
                                  ![d].backup = host[runs[d].app].binary]
       \/ "backup" \in MayFail /\ Breaks(d, "upload")
    /\ UNCHANGED <<apps, lock>>

\* The binary is moved away, if there is one. A failure is not restored.
Backup(d) ==
    /\ At(d, "backup")
    /\ \/ /\ SetBinary(runs[d].app, None)
          /\ runs' = [runs EXCEPT ![d].pc = "upload",
                                  ![d].backup = host[runs[d].app].binary]
       \/ "backup" \in MayFail /\ Breaks(d, "finish")
    /\ UNCHANGED <<apps, lock>>

Upload(d) ==
    /\ At(d, "upload")
    /\ \/ SetBinary(runs[d].app, runs[d].version) /\ Goto(d, "restart")
       \/ "upload" \in MayFail /\ Breaks(d, "restore")
    /\ UNCHANGED <<apps, lock>>

\* mutant: the result of the restart is not looked at
RestartIgnored(d) ==
    /\ At(d, "restart")
    /\ Breaks(d, "health")
    /\ UNCHANGED <<apps, lock>>

Restart(d) ==
    LET a == runs[d].app
    IN /\ At(d, "restart")
       /\ \/ /\ host' = [host EXCEPT ![a].running = host[a].binary]
             /\ IF a \in HasHealthCheck
                THEN Goto(d, "health") ELSE Conclude(d, "SUCCESS", "prune")
          \/ "restart" \in MayFail /\ Breaks(d, "restore")
       /\ UNCHANGED <<apps, lock>>

HealthCheck(d) ==
    LET a == runs[d].app
    IN /\ At(d, "health")
       /\ \/ /\ host[a].running \in Healthy
             /\ Conclude(d, "SUCCESS", "prune")
          \/ /\ host[a].running \notin Healthy \/ "health" \in MayFail
             /\ Goto(d, IF a \in AutoRollback THEN "rollback" ELSE "finish")
       /\ UNCHANGED <<apps, lock, host>>

\* The file at the backup path goes back in place of the binary
MoveBack(d, stage) ==
    /\ SetBinary(runs[d].app, runs[d].backup)
    /\ runs' = [runs EXCEPT ![d].pc = stage, ![d].backup = None]

\* attemptRestore: without a backup file there is nothing to do; the
\* service is not restarted
AttemptRestore(d) ==
    /\ At(d, "restore")
    /\ \/ runs[d].backup # None /\ MoveBack(d, "finish")
       \/ runs[d].backup = None /\ Goto(d, "finish") /\ UNCHANGED host
       \/ "restore" \in MayFail /\ Breaks(d, "finish")
    /\ UNCHANGED <<apps, lock>>

\* mutant: the result of the rollback's mv is not looked at
RollbackIgnored(d) ==
    /\ At(d, "rollback")
    /\ MoveBack(d, "rerestart") \/ Breaks(d, "rerestart")
    /\ UNCHANGED <<apps, lock>>

\* restore, the mv of the automatic rollback: without a backup it fails
Rollback(d) ==
    /\ At(d, "rollback")
    /\ \/ runs[d].backup # None /\ MoveBack(d, "rerestart")
       \/ /\ runs[d].backup = None \/ "rollback" \in MayFail
          /\ Breaks(d, "finish")
    /\ UNCHANGED <<apps, lock>>

\* The result of the restart after a rollback is not looked at
Rerestart(d) ==
    LET a == runs[d].app
    IN /\ At(d, "rerestart")
       /\ \/ host' = [host EXCEPT ![a].running = host[a].binary]
          \/ /\ "rerestart" \in MayFail
             /\ \E h \in Leftovers(d) : host' = [host EXCEPT ![a] = h]
       /\ Conclude(d, "ROLLED_BACK", "finish")
       /\ UNCHANGED <<apps, lock>>

\* pruneBackups deletes old backups only and its result is ignored
Prune(d) ==
    /\ At(d, "prune")
    /\ Goto(d, "finish")
    /\ UNCHANGED <<apps, lock, host>>

\* recover() in the deferred function
Panic(d) ==
    /\ "panic" \in MayFail
    /\ runs[d].pc \in Working
    /\ Conclude(d, "FAILED", "finish")
    /\ UNCHANGED <<apps, lock, host>>

Finish(d) ==
    LET r == runs[d]
    IN /\ At(d, "finish")
       /\ apps' = [apps EXCEPT ![r.app] =
                      FinishDeployment(@, d, r.finalStatus)]
       /\ Goto(d, "unlock")
       /\ UNCHANGED <<lock, host>>

\* mutant: run returns and keeps the mutex
UnlockForgotten(d) ==
    /\ At(d, "unlock")
    /\ runs' = [runs EXCEPT ![d] = Idle]
    /\ UNCHANGED <<apps, lock, host>>

Unlock(d) ==
    /\ At(d, "unlock")
    /\ lock' = [lock EXCEPT ![runs[d].app] = None]
    /\ runs' = [runs EXCEPT ![d] = Idle]
    /\ UNCHANGED <<apps, host>>

\* The process stops and comes back: main.go starts no run for a record
\* that is still PENDING. The command under way on a host is cut short. That
\* the records can be read again is assumed (StoreFile has the other case).
CrashedHost(a) ==
    IF lock[a] = None THEN {host[a]} ELSE Leftovers(lock[a])

Crash ==
    /\ "crash" \in MayFail
    /\ runs' = [d \in DepId |-> Idle]
    /\ lock' = [a \in App |-> None]
    /\ host' \in {h \in [App -> UNION {CrashedHost(a) : a \in App}] :
                     \A a \in App : h[a] \in CrashedHost(a)}
    /\ UNCHANGED apps
-----------------------------------------------------------------------------
Init ==
    /\ apps = [a \in App |-> NoAppState]
    /\ runs = [d \in DepId |-> Idle]
    /\ lock = [a \in App |-> None]
    /\ \E f \in [App -> Version \cup {None}] :
          host = [a \in App |-> [binary |-> f[a], running |-> f[a]]]

Accept(d) ==
    \E a \in App :
       \/ \E v \in Version : HandleSync(a, v, d) \/ HandleJenkinsWebhook(a, v, d)
       \/ \E i \in 1..MaxHist : HandleRollback(a, i, d)

Stage(d) ==
    \/ Fetch(d) \/ Verify(d) \/ PrepareSSH(d) \/ Backup(d) \/ Upload(d)
    \/ Restart(d) \/ HealthCheck(d) \/ AttemptRestore(d) \/ Rollback(d)
    \/ Rerestart(d) \/ Prune(d) \/ Panic(d) \/ Finish(d) \/ Unlock(d)

EngineStep == \E d \in DepId : Accept(d) \/ Acquire(d) \/ Stage(d)

Next == EngineStep \/ Crash

Spec == Init /\ [][Next]_vars

\* Every stage ends: downloads, commands and probes have timeouts. A mutex
\* waiter is not passed over for ever (sync.Mutex, starvation mode).
Fairness ==
    \A d \in DepId : WF_vars(Stage(d)) /\ SF_vars(Acquire(d))

FairSpec == Spec /\ Fairness
-----------------------------------------------------------------------------
(* Properties *)

\* The records of the store, the locals of run, the mutexes and the hosts hold
\* values of their kinds; in particular every deployment has a status.
TypeOK ==
    /\ apps \in [App -> AppState]
    /\ runs \in [DepId -> Run]
    /\ lock \in [App -> DepId \cup {None}]
    /\ host \in [App -> HostState]

\* A deployment is between Lock and Unlock exactly when it holds the mutex of
\* its app: two of them never work on one host, and no early return, panic or
\* crash leaves a mutex behind that nobody will release.
HostExclusive ==
    /\ \A d \in DepId : runs[d].pc \in Holding => lock[runs[d].app] = d
    /\ \A a \in App : lock[a] # None =>
          runs[lock[a]].app = a /\ runs[lock[a]].pc \in Holding

\* When a run is about to record SUCCESS, the host has its version in place,
\* the unit was started from it and, with a health check, it answered; no
\* failed command on the way is forgotten.
SuccessIsInstalled ==
    \A d \in DepId :
        runs[d].pc \in Holding /\ runs[d].finalStatus = "SUCCESS" =>
            LET a == runs[d].app
            IN /\ host[a].binary = runs[d].version
               /\ host[a].running = runs[d].version
               /\ a \in HasHealthCheck => runs[d].version \in Healthy

\* ROLLED_BACK is recorded only when the file found at the beginning, and not
\* a part of it or nothing, is in place again.
RollbackRestoresPrevious ==
    \A d \in DepId :
        runs[d].pc \in Holding /\ runs[d].finalStatus = "ROLLED_BACK" =>
            /\ runs[d].prev # None
            /\ host[runs[d].app].binary = runs[d].prev

\* While a run is at work the file it found is either in place or in its own
\* backup, until it restores it, finishes, or its backup step goes wrong. Of
\* the file after a crash or a failed backup this says nothing.
PreviousNotLost ==
    \A d \in DepId :
        runs[d].pc \in Working /\ runs[d].finalStatus = "FAILED" =>
            \/ host[runs[d].app].binary = runs[d].prev
            \/ runs[d].backup = runs[d].prev

\* A step that puts a complete file in place on the host of an app with a
\* public key puts a signed version there, or the file that was there before.
InstallsOnlySigned ==
    [][\A a \in HasKey :
          LET c == host'[a].binary
          IN c \in Version /\ c # host[a].binary =>
                \/ c \in Signed
                \/ lock[a] # None /\ runs[lock[a]].prev = c]_vars

\* The recorded current version moves only together with a finished run, to
\* what is in place and running on the host at that moment.
CurrentVersionIsInstalled ==
    [][\A a \in App :
          apps'[a].currentVersion # apps[a].currentVersion =>
             /\ host[a].binary = apps'[a].currentVersion
             /\ host[a].running = apps'[a].currentVersion
             /\ apps'[a].lastDeployment.status = "SUCCESS"]_vars

\* Without crashes a PENDING deployment has a goroutine that will conclude
\* it: the dashboard never waits for one that is gone.
PendingHasRunner ==
    \A a \in App :
        LET last == apps[a].lastDeployment
        IN last.status = "PENDING" =>
              /\ runs[last.id].pc \in PC \ {"idle", "unlock"}
              /\ runs[last.id].app = a
              /\ runs[last.id].version = last.version

\* A deployment is recorded once, with a final status, and not while its run
\* is still going on.
RecordedOnce ==
    \A a \in App :
        LET h == apps[a].history
        IN \A i \in DOMAIN h :
              /\ h[i].status \in Final
              /\ runs[h[i].id].pc \in {"idle", "unlock"}
              /\ \A j \in DOMAIN h : h[i].id = h[j].id => i = j

\* The history changes exactly when the last deployment gets its final
\* status: it grows by that deployment and loses only its oldest entry, and
\* only when it is full.
HistoryAppendOnly ==
    [][\A a \in App :
          LET h == apps[a].history
              g == apps'[a].history
              kept == IF Len(h) = MaxHist THEN Tail(h) ELSE h
              last == apps'[a].lastDeployment
          IN IF last.status \in Final /\ apps[a].lastDeployment # last
             THEN g = Append(kept, last) ELSE g = h]_vars

\* Once the last deployment has its final status it is not judged again: an
\* overtaken run that finishes late does not write over the newer one.
OutcomeIsFinal ==
    [][\A a \in App :
          LET last == apps[a].lastDeployment
              next == apps'[a].lastDeployment
          IN last.status \in Final /\ next # last => next.status = "PENDING"]_vars

\* Every accepted deployment, overtaken or not, comes to its end and leaves
\* the mutex to the next one.
EveryRunEnds ==
    \A d \in DepId : Active(d) ~> ~ Active(d)

\* When no deployment of the app is going on, Synced means that the current
\* version is the one in place on the host.
SyncedIsInstalled ==
    \A a \in App :
        Live(a) = {} /\ apps[a].syncState = "Synced" =>
            /\ host[a].binary = apps[a].currentVersion
            /\ host[a].running = apps[a].currentVersion

\* No deployment of an app is accepted while another one is going on.
OneAtATime ==
    \A a \in App : \A d, e \in Live(a) : d = e

\* As long as no deployment overlaps another one of its app, Synced is true of
\* the host whenever none is going on: an overlap (store.go:239) is the only
\* way from the engine's own failures, restores and rollbacks to a wrong one.
SyncedWhenSerial == []OneAtATime => []SyncedIsInstalled

\* README.md:27-28 promises a persistent history of the deployments with who,
\* when, which version and why: a run that has passed FinishDeployment would
\* be its last entry. store.go:239 drops the run that has been overtaken.
HistoryIsComplete ==
    \A d \in DepId :
        At(d, "unlock") =>
            LET h == apps[runs[d].app].history
            IN /\ h # <<>>
               /\ h[Len(h)] = [id |-> d, version |-> runs[d].version,
                               status |-> runs[d].finalStatus]

\* Overtaking is the only way to be dropped: the last deployment triggered,
\* once it has a final status, is the newest entry of the history as well,
\* and its run, when it has passed FinishDeployment, finds there the version
\* it installed and the outcome it came to, whatever older runs that finish
\* late, newer ones, the trimming and crashes do in between.
NewestIsRecorded ==
    /\ \A a \in App :
          LET last == apps[a].lastDeployment
              h == apps[a].history
          IN last.status \in Final => h # <<>> /\ h[Len(h)] = last
    /\ \A d \in DepId :
          LET last == apps[runs[d].app].lastDeployment
          IN At(d, "unlock") /\ last.id = d =>
                last = [id |-> d, version |-> runs[d].version,
                        status |-> runs[d].finalStatus]

\* When a run is about to record ROLLED_BACK, the unit runs the restored
\* file.
RolledBackIsRunning ==
    \A d \in DepId :
        At(d, "finish") /\ runs[d].finalStatus = "ROLLED_BACK" =>
            host[runs[d].app].running = runs[d].prev

-----------------------------------------------------------------------------
(* The inductive invariant: what each stage knows of its run r and of the
   host h it works on *)

StageFacts(r, h) ==
    /\ r.pc # "idle" => r.app \in App /\ r.version \in Version
    /\ r.pc \in Working \ {"prune"} => r.finalStatus = "FAILED"
    /\ r.pc = "prune" => r.finalStatus = "SUCCESS"
    /\ r.pc \in {"finish", "unlock"} => r.finalStatus \in Final
    /\ r.pc \in LocalStage \cup {"backup"} => h.binary = r.prev
    /\ r.pc \in {"upload", "restart", "health", "restore", "rollback"} =>
          r.backup = r.prev
    /\ r.pc \in {"restart", "health"} => h.binary = r.version
    /\ r.pc = "health" => h.running = r.version
    /\ r.pc \in Holding => h.binary \in {r.prev, r.version, None, Partial}
    /\ r.pc \in {"ssh"} \cup HostStage /\ r.app \in HasKey =>
          r.version \in Signed
    /\ r.pc = "rerestart" \/ (r.pc \in Holding /\ r.finalStatus = "ROLLED_BACK") =>
          h.binary = r.prev /\ r.prev # None
    /\ r.pc \in Holding /\ r.finalStatus = "SUCCESS" =>
          /\ h.binary = r.version
          /\ h.running = r.version
          /\ r.app \in HasHealthCheck => r.version \in Healthy

HostInv ==
    /\ TypeOK
    /\ HostExclusive
    /\ \A d \in DepId : StageFacts(runs[d], host[runs[d].app])

-----------------------------------------------------------------------------
(* The stages implement AtomicDeploy: a run takes effect when it finishes *)

Deciding(a) == lock[a] # None /\ runs[lock[a]].pc # "unlock"

\* The accepted deployments that have not begun
Queued ==
    [a \in App |->
        {[id |-> d, version |-> runs[d].version] :
            d \in {e \in DepId : At(e, "queued") /\ runs[e].app = a}}]

\* The deployment between Lock and Unlock, with its result once it is recorded
Begun ==
    [a \in App |->
        [id |-> lock[a],
         version |-> IF lock[a] = None THEN None ELSE runs[lock[a]].version,
         result |-> IF lock[a] = None \/ Deciding(a) THEN None
                    ELSE runs[lock[a]].finalStatus]]

\* The file in place, or the one that was when the deciding run began
Installed ==
    [a \in App |->
        IF Deciding(a) THEN runs[lock[a]].prev ELSE host[a].binary]

Atomic == INSTANCE AtomicDeploy WITH
    waiting <- Queued, active <- Begun, installed <- Installed

ImplementsAtomic == Atomic!Spec
=============================================================================
