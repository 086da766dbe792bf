----------------------------- MODULE Reconciler -----------------------------
(***************************************************************************)
(* The reconciler of internal/deploy/reconcile.go next to the deploy       *)
(* engine: one polling loop for every app in auto mode, which compares the *)
(* version Nexus calls the latest with the one the store calls current,    *)
(* writes the sync state and, if the app is self-healing, triggers a       *)
(* deployment. The fetch, the read of the record, each write and the       *)
(* trigger are steps of their own: nothing is locked from one to the next. *)
(***************************************************************************)
EXTENDS DeployEngine

CONSTANTS
    AutoApp,        \* apps in auto mode when the process starts
    MaxRestarts     \* bound: crashes and restarts of the process

ASSUME PolicyAssumption == AutoApp \subseteq App /\ MaxRestarts \in Nat

VARIABLES
    latest,     \* latest.txt of every app in Nexus
    poll,       \* one loop per app: its settings and reconcileOnce's locals
    restarts    \* restarts so far

rvars == <<apps, runs, lock, host, latest, poll, restarts>>
-----------------------------------------------------------------------------
PollPC == {"wait", "fetched", "synced", "drifted", "heal"}

\* The loop keeps the settings the app had when the process started
Waiting(heals) == [pc |-> "wait", latest |-> None, selfHeal |-> heals]

SetSyncState(a, s) ==
    /\ apps' = [apps EXCEPT ![a].syncState = s]
    /\ UNCHANGED <<runs, lock, host>>

PollGoto(a, stage) == poll' = [poll EXCEPT ![a].pc = stage]

NextTick(a) == poll' = [poll EXCEPT ![a] = Waiting(@.selfHeal)]

\* A build is published
Publish(a, v) ==
    /\ latest[a] # v
    /\ latest' = [latest EXCEPT ![a] = v]
    /\ UNCHANGED <<vars, poll, restarts>>

\* mutant: the error of the fetch is not looked at
FetchUnchecked(a) ==
    /\ poll[a].pc = "wait"
    /\ \E v \in {latest[a], None} :
          poll' = [poll EXCEPT ![a].pc = "fetched", ![a].latest = v]
    /\ UNCHANGED <<vars, latest, restarts>>

\* The ticker fires and latest.txt is fetched; a failed fetch changes nothing
FetchLatest(a) ==
    /\ poll[a].pc = "wait"
    /\ poll' = [poll EXCEPT ![a].pc = "fetched", ![a].latest = latest[a]]
    /\ UNCHANGED <<vars, latest, restarts>>

\* mutant: the version asked for last counts as the one that runs
ReadDesired(a) ==
    /\ poll[a].pc = "fetched"
    /\ PollGoto(a, IF apps[a].desiredVersion = poll[a].latest
                   THEN "synced" ELSE "drifted")
    /\ UNCHANGED <<vars, latest, restarts>>

ReadState(a) ==
    /\ poll[a].pc = "fetched"
    /\ PollGoto(a, IF apps[a].currentVersion = poll[a].latest
                   THEN "synced" ELSE "drifted")
    /\ UNCHANGED <<vars, latest, restarts>>

MarkSynced(a) ==
    /\ poll[a].pc = "synced"
    /\ SetSyncState(a, "Synced")
    /\ NextTick(a)
    /\ UNCHANGED <<latest, restarts>>

\* mutant: only a self-healing app is marked
MarkOnlyHealing(a) ==
    /\ poll[a].pc = "drifted"
    /\ IF poll[a].selfHeal
       THEN SetSyncState(a, "OutOfSync") /\ PollGoto(a, "heal")
       ELSE NextTick(a) /\ UNCHANGED vars
    /\ UNCHANGED <<latest, restarts>>

MarkOutOfSync(a) ==
    /\ poll[a].pc = "drifted"
    /\ SetSyncState(a, "OutOfSync")
    /\ IF poll[a].selfHeal THEN PollGoto(a, "heal") ELSE NextTick(a)
    /\ UNCHANGED <<latest, restarts>>

Heal(a, d) ==
    /\ poll[a].pc = "heal"
    /\ Trigger(a, poll[a].latest, "self-heal", d)
    /\ NextTick(a)
    /\ UNCHANGED <<latest, restarts>>

\* Start: the loops begin with the settings of the new process
StartLoops(heals) == poll' = [a \in AutoApp |-> Waiting(heals[a])]

ProcessRestart(heals) ==
    /\ restarts < MaxRestarts
    /\ restarts' = restarts + 1
    /\ Crash
    /\ StartLoops(heals)
    /\ UNCHANGED latest
-----------------------------------------------------------------------------
RInit ==
    /\ Init
    /\ latest \in [App -> Version]
    /\ \E heals \in [AutoApp -> BOOLEAN] : poll = [a \in AutoApp |-> Waiting(heals[a])]
    /\ restarts = 0

Reconcile(a) ==
    \/ FetchLatest(a) \/ ReadState(a) \/ MarkSynced(a) \/ MarkOutOfSync(a)
    \/ \E d \in DepId : Heal(a, d)

RNext ==
    \/ EngineStep /\ UNCHANGED <<latest, poll, restarts>>
    \/ \E a \in AutoApp : Reconcile(a)
    \/ \E a \in App, v \in Version : Publish(a, v)
    \/ \E heals \in [AutoApp -> BOOLEAN] : ProcessRestart(heals)

RSpec == RInit /\ [][RNext]_rvars

\* The ticker fires for ever and every fetch ends within its timeout
RFairness ==
    /\ \A d \in DepId :
          /\ WF_rvars(Stage(d) /\ UNCHANGED <<latest, poll, restarts>>)
          /\ SF_rvars(Acquire(d) /\ UNCHANGED <<latest, poll, restarts>>)
    /\ \A a \in AutoApp : WF_rvars(Reconcile(a))

RFairSpec == RSpec /\ RFairness
-----------------------------------------------------------------------------
(* Properties *)

\* The loops hold values of their kinds; past the fetch a loop holds a version
\* that was published, never the zero value of a fetch that failed.
PollTypeOK ==
    /\ latest \in [App -> Version]
    /\ poll \in [AutoApp -> [pc : PollPC, latest : Version \cup {None},
                          selfHeal : BOOLEAN]]
    /\ \A a \in AutoApp : poll[a].pc # "wait" => poll[a].latest \in Version
    /\ restarts \in 0..MaxRestarts

\* From some time on the latest version of a is v and only the reconciler,
\* if anyone, deploys a
Undisturbed(a, v) ==
    <>[](latest[a] = v /\ \A d \in Live(a) : runs[d].reason = "self-heal")

\* If a self-healing app is left undisturbed, its latest version ends up as
\* its current version, the app is Synced, also after a restart left it
\* PENDING, and the loop stops triggering deployments.
Converges ==
    \A a \in AutoApp, v \in Version :
        Undisturbed(a, v) /\ <>[]poll[a].selfHeal =>
            <>[](/\ apps[a].currentVersion = v
                 /\ apps[a].syncState = "Synced"
                 /\ Live(a) = {})

\* Under the same condition the loop at least comes to record the version.
CatchesUp ==
    \A a \in AutoApp, v \in Version :
        Undisturbed(a, v) /\ <>[]poll[a].selfHeal =>
            <>(apps[a].currentVersion = v)

\* An app that is polled but not self-healing and stays behind the latest
\* version, with no deployment going on, ends up shown as OutOfSync.
DriftIsShown ==
    \A a \in AutoApp, v \in Version :
        <>[](/\ latest[a] = v /\ apps[a].currentVersion # v
             /\ Live(a) = {} /\ ~ poll[a].selfHeal) =>
            <>[](apps[a].syncState = "OutOfSync")
=============================================================================
