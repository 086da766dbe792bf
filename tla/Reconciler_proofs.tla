-------------------------- MODULE Reconciler_proofs --------------------------
(***************************************************************************)
(* The reconciler next to the deploy engine keeps the engine's invariants: *)
(* its unlocked read of a record, its writes of the sync state, the        *)
(* deployments it triggers and a restart of the process add nothing the    *)
(* stages of run could stumble over, and nothing that a record would get   *)
(* wrong. The proofs reuse the step lemmas of the engine and of its        *)
(* records, and add one lemma for SetSyncState to each.                    *)
(***************************************************************************)
EXTENDS Reconciler, DeployRecords_proofs

RInv == HostInv /\ PollTypeOK

\* A write of the sync state touches no field that the stages rely on.
LEMMA SetSyncStateStep ==
    ASSUME HostInv, NEW a \in App, NEW s \in SyncState, SetSyncState(a, s)
    PROVE  HostInv'
<1>1. /\ apps' = [apps EXCEPT ![a].syncState = s]
      /\ UNCHANGED <<runs, lock, host>>
      BY DEF SetSyncState
<1>2. [apps[a] EXCEPT !.syncState = s] \in AppState
      BY DEF HostInv, TypeOK, AppState
<1>3. TypeOK'
      BY <1>1, <1>2 DEF HostInv, TypeOK
<1>4. HostExclusive' /\ \A d \in DepId : StageFacts(runs[d], host[runs[d].app])'
      BY <1>1 DEF HostInv, HostExclusive, StageFacts
<1>   QED BY <1>3, <1>4 DEF HostInv

\* A loop that has fetched something goes on with a published version.
LEMMA PollStep ==
    ASSUME PollTypeOK, NEW a \in AutoApp, NEW r,
           r \in [pc : PollPC, latest : Version \cup {None}, selfHeal : BOOLEAN],
           r.pc # "wait" => r.latest \in Version,
           poll' = [poll EXCEPT ![a] = r], UNCHANGED <<latest, restarts>>
    PROVE  PollTypeOK'
BY DEF PollTypeOK

LEMMA ReconcileStep ==
    ASSUME RInv, NEW a \in AutoApp, Reconcile(a) PROVE RInv'
<1> DEFINE p == poll[a]
<1>1. /\ a \in App
      /\ p \in [pc : PollPC, latest : Version \cup {None}, selfHeal : BOOLEAN]
      /\ p.pc # "wait" => p.latest \in Version
      /\ latest[a] \in Version
      BY PolicyAssumption DEF RInv, PollTypeOK
<1>2. CASE FetchLatest(a)
  <2> DEFINE r == [p EXCEPT !.pc = "fetched", !.latest = latest[a]]
  <2>1. poll' = [poll EXCEPT ![a] = r] /\ UNCHANGED <<latest, restarts>>
        BY <1>2, <1>1 DEF FetchLatest, RInv, PollTypeOK
  <2>2. /\ r \in [pc : PollPC, latest : Version \cup {None}, selfHeal : BOOLEAN]
        /\ r.latest \in Version
        BY <1>1 DEF PollPC
  <2>3. PollTypeOK'
        BY <2>1, <2>2, PollStep DEF RInv
  <2>   QED BY <1>2, <2>3, UnchangedStep DEF FetchLatest, RInv
<1>3. CASE ReadState(a)
  <2>1. PICK pc \in {"synced", "drifted"} :
            poll' = [poll EXCEPT ![a] = [p EXCEPT !.pc = pc]]
        BY <1>3, <1>1 DEF ReadState, PollGoto, RInv, PollTypeOK
  <2>2. p.pc = "fetched" /\ UNCHANGED <<vars, latest, restarts>>
        BY <1>3 DEF ReadState
  <2>3. PollTypeOK'
        BY <2>1, <2>2, <1>1, PollStep DEF RInv, PollPC
  <2>   QED BY <2>2, <2>3, UnchangedStep DEF RInv
<1>4. ASSUME NextTick(a), UNCHANGED <<latest, restarts>> PROVE PollTypeOK'
  <2>1. poll' = [poll EXCEPT ![a] = Waiting(p.selfHeal)]
        BY <1>4 DEF NextTick, RInv, PollTypeOK
  <2>2. /\ Waiting(p.selfHeal) \in
               [pc : PollPC, latest : Version \cup {None}, selfHeal : BOOLEAN]
        /\ Waiting(p.selfHeal).pc = "wait"
        BY <1>1 DEF Waiting, PollPC
  <2>   QED BY <1>4, <2>1, <2>2, PollStep DEF RInv
<1>5. CASE MarkSynced(a)
      BY <1>1, <1>4, <1>5, SetSyncStateStep DEF MarkSynced, RInv, SyncState
<1>6. CASE MarkOutOfSync(a)
  <2>1. HostInv'
        BY <1>1, <1>6, SetSyncStateStep DEF MarkOutOfSync, RInv, SyncState
  <2>2. p.pc = "drifted" /\ UNCHANGED <<latest, restarts>>
        BY <1>6 DEF MarkOutOfSync
  <2>3. CASE PollGoto(a, "heal")
    <3>1. poll' = [poll EXCEPT ![a] = [p EXCEPT !.pc = "heal"]]
          BY <2>3, <1>1 DEF PollGoto, RInv, PollTypeOK
    <3>   QED BY <3>1, <2>1, <2>2, <1>1, PollStep DEF RInv, PollPC
  <2>4. CASE NextTick(a)
        BY <2>1, <2>2, <2>4, <1>4 DEF RInv
  <2>   QED BY <1>6, <2>3, <2>4 DEF MarkOutOfSync
<1>7. ASSUME NEW d \in DepId, Heal(a, d) PROVE RInv'
  <2>1. p.pc = "heal" /\ p.latest \in Version
        BY <1>1, <1>7 DEF Heal
  <2>2. HostInv'
        BY <1>1, <1>7, <2>1, TriggerStep DEF Heal, RInv, Reason
  <2>   QED BY <1>4, <1>7, <2>2 DEF Heal, RInv
<1>   QED BY <1>2, <1>3, <1>5, <1>6, <1>7 DEF Reconcile

LEMMA ProcessRestartStep ==
    ASSUME RInv, NEW heals \in [AutoApp -> BOOLEAN], ProcessRestart(heals)
    PROVE  RInv'
<1>1. HostInv'
      BY CrashStep DEF ProcessRestart, RInv
<1>2. PollTypeOK'
      BY PolicyAssumption
      DEF ProcessRestart, StartLoops, Waiting, RInv, PollTypeOK, PollPC
<1>   QED BY <1>1, <1>2 DEF RInv

LEMMA InitRInv == RInit => RInv
BY InitHostInv, PolicyAssumption
DEF RInit, RInv, PollTypeOK, Waiting, PollPC

LEMMA NextRInv == RInv /\ [RNext]_rvars => RInv'
<1> SUFFICES ASSUME RInv, [RNext]_rvars PROVE RInv'
    OBVIOUS
<1>1. CASE EngineStep /\ UNCHANGED <<latest, poll, restarts>>
  <2>1. HostInv'
        BY <1>1, NextHostInv DEF Next, RInv
  <2>   QED BY <1>1, <2>1 DEF RInv, PollTypeOK
<1>2. ASSUME NEW a \in AutoApp, Reconcile(a) PROVE RInv'
      BY <1>2, ReconcileStep
<1>3. ASSUME NEW a \in App, NEW v \in Version, Publish(a, v) PROVE RInv'
  <2>1. HostInv'
        BY <1>3, UnchangedStep DEF Publish, RInv
  <2>   QED BY <1>3, <2>1 DEF Publish, RInv, PollTypeOK
<1>4. ASSUME NEW heals \in [AutoApp -> BOOLEAN], ProcessRestart(heals)
      PROVE  RInv'
      BY <1>4, ProcessRestartStep
<1>5. CASE UNCHANGED rvars
  <2>1. HostInv'
        BY <1>5, UnchangedStep DEF rvars, vars, RInv
  <2>   QED BY <1>5, <2>1 DEF rvars, RInv, PollTypeOK
<1>   QED BY <1>1, <1>2, <1>3, <1>4, <1>5 DEF RNext

-----------------------------------------------------------------------------
\* The loops hold published versions, and the engine's invariant survives
\* everything the reconciler does.
THEOREM ReconcilerInvariant == RSpec => [](HostInv /\ PollTypeOK)
<1>1. RInit => RInv
      BY InitRInv
<1>2. RInv /\ [RNext]_rvars => RInv'
      BY NextRInv
<1>3. RInv => HostInv /\ PollTypeOK
      BY DEF RInv
<1>   QED BY <1>1, <1>2, <1>3, PTL DEF RSpec

\* With the reconciler running, SUCCESS still means installed, running and
\* healthy, and one deployment at a time works on a host.
THEOREM ReconciledSuccess == RSpec => [](HostExclusive /\ SuccessIsInstalled)
<1>1. HostInv => HostExclusive /\ SuccessIsInstalled
      BY DEF HostInv, StageFacts, SuccessIsInstalled
<1>   QED BY <1>1, ReconcilerInvariant, PTL

-----------------------------------------------------------------------------
(* The records *)

\* A step of the reconciler is one of the engine, a deployment it triggers or
\* a write of a sync state.
LEMMA ReconcilerSteps ==
    ASSUME RInv, [RNext]_rvars
    PROVE  \/ [Next]_vars
           \/ \E d \in DepId : Triggers(d)
           \/ \E a \in App, s \in SyncState : SetSyncState(a, s)
<1>1. CASE EngineStep
      BY <1>1 DEF Next
<1>2. ASSUME NEW a \in AutoApp, Reconcile(a)
      PROVE  \/ [Next]_vars
             \/ \E d \in DepId : Triggers(d)
             \/ \E b \in App, s \in SyncState : SetSyncState(b, s)
  <2>1. a \in App
        BY PolicyAssumption
  <2>2. CASE FetchLatest(a) \/ ReadState(a)
        BY <2>2 DEF FetchLatest, ReadState
  <2>3. CASE MarkSynced(a) \/ MarkOutOfSync(a)
        BY <2>1, <2>3 DEF MarkSynced, MarkOutOfSync, SyncState
  <2>4. ASSUME NEW d \in DepId, Heal(a, d) PROVE Triggers(d)
        BY <2>1, <2>4 DEF Heal, Triggers, RInv, PollTypeOK, Reason
  <2>   QED BY <1>2, <2>2, <2>3, <2>4 DEF Reconcile
<1>3. ASSUME NEW a \in App, NEW v \in Version, Publish(a, v) PROVE [Next]_vars
      BY <1>3 DEF Publish
<1>4. ASSUME NEW heals \in [AutoApp -> BOOLEAN], ProcessRestart(heals)
      PROVE  [Next]_vars
      BY <1>4 DEF ProcessRestart, Next
<1>5. CASE UNCHANGED rvars
      BY <1>5 DEF rvars, vars
<1>   QED BY <1>1, <1>2, <1>3, <1>4, <1>5 DEF RNext

\* A write of the sync state touches no other field of a record.
LEMMA SyncedFields ==
    ASSUME HostInv, NEW a \in App, NEW s \in SyncState, SetSyncState(a, s),
           NEW b \in App
    PROVE  /\ apps'[b].history = apps[b].history
           /\ apps'[b].lastDeployment = apps[b].lastDeployment
           /\ apps'[b].currentVersion = apps[b].currentVersion
<1>1. apps' = [apps EXCEPT ![a].syncState = s]
      BY DEF SetSyncState
<1>2. apps[b] \in AppState
      BY RecordTypes
<1>   QED BY <1>1, <1>2 DEF HostInv, TypeOK, AppState

LEMMA SetSyncStateRecords ==
    ASSUME HostInv, RecordInv, NEW a \in App, NEW s \in SyncState, SetSyncState(a, s)
    PROVE  /\ RecordInv'
           /\ \A b \in App : GrowsByLast(b) /\ JudgedOnce(b) /\ CurrentInPlace(b)
<1>1. \A b \in App : /\ apps'[b].history = apps[b].history
                     /\ apps'[b].lastDeployment = apps[b].lastDeployment
                     /\ apps'[b].currentVersion = apps[b].currentVersion
      BY SyncedFields
<1>2. runs' = runs
      BY DEF SetSyncState
<1>3. RecordedOnce'
      BY <1>1, <1>2 DEF RecordInv, RecordedOnce
<1>4. \A b \in App : RecordFacts(b)'
      BY <1>1, <1>2 DEF RecordInv, RecordFacts
<1>5. \A b \in App : GrowsByLast(b) /\ JudgedOnce(b) /\ CurrentInPlace(b)
      BY <1>1 DEF GrowsByLast, JudgedOnce, CurrentInPlace
<1>   QED BY <1>3, <1>4, <1>5 DEF RecordInv

LEMMA ReconcilerRecords ==
    RInv /\ RecordInv /\ [RNext]_rvars =>
       /\ RecordInv'
       /\ \A a \in App : GrowsByLast(a) /\ JudgedOnce(a) /\ CurrentInPlace(a)
<1> SUFFICES ASSUME RInv, RecordInv, [RNext]_rvars
             PROVE  /\ RecordInv'
                    /\ \A a \in App :
                          GrowsByLast(a) /\ JudgedOnce(a) /\ CurrentInPlace(a)
    OBVIOUS
<1>1. HostInv
      BY DEF RInv
<1>2. CASE [Next]_vars
      BY <1>1, <1>2, NextRecordInv, RecordStep
<1>3. ASSUME NEW d \in DepId, Triggers(d)
      PROVE  /\ RecordInv'
             /\ \A a \in App : GrowsByLast(a) /\ JudgedOnce(a) /\ CurrentInPlace(a)
      BY <1>1, <1>3, TriggerRecords, TriggeredRecord
<1>4. ASSUME NEW a \in App, NEW s \in SyncState, SetSyncState(a, s)
      PROVE  /\ RecordInv'
             /\ \A b \in App : GrowsByLast(b) /\ JudgedOnce(b) /\ CurrentInPlace(b)
      BY <1>1, <1>4, SetSyncStateRecords
<1>   QED BY <1>2, <1>3, <1>4, ReconcilerSteps

\* The invariant of the records survives the reconciler: a deployment its loop
\* triggers over a running one, its late writes of the sync state and a restart
\* in the middle of anything.
THEOREM ReconciledRecords == RSpec => []RecordInv
<1>1. RInit => RecordInv
      BY InitRecordInv DEF RInit
<1>2. RInv /\ RecordInv /\ [RNext]_rvars => RecordInv'
      BY ReconcilerRecords
<1>3. RSpec => []RInv
      BY ReconcilerInvariant, PTL DEF RInv
<1>   QED BY <1>1, <1>2, <1>3, PTL DEF RSpec

\* With the reconciler running, too, a recorded outcome is replaced by nothing
\* but a newer deployment, although the loop writes to records it read before.
THEOREM ReconciledOutcomes == RSpec => OutcomeIsFinal
<1>1. RInv /\ RecordInv /\ [RNext]_rvars => \A a \in App : JudgedOnce(a)
      BY ReconcilerRecords
<1>2. RInv /\ RecordInv /\ [RNext]_rvars =>
         [\A a \in App :
             LET last == apps[a].lastDeployment
                 next == apps'[a].lastDeployment
             IN last.status \in Final /\ next # last => next.status = "PENDING"]_vars
      BY <1>1 DEF JudgedOnce
<1>3. RSpec => []RInv
      BY ReconcilerInvariant, PTL DEF RInv
<1>   QED BY <1>2, <1>3, ReconciledRecords, PTL DEF RSpec, OutcomeIsFinal

\* The loop compares the latest version with the current one, and that moves
\* only to what is in place and running, whatever the loop does in between.
THEOREM ReconciledCurrent == RSpec => CurrentVersionIsInstalled
<1>1. RInv /\ RecordInv /\ [RNext]_rvars => \A a \in App : CurrentInPlace(a)
      BY ReconcilerRecords
<1>2. RInv /\ RecordInv /\ [RNext]_rvars =>
         [\A a \in App :
             apps'[a].currentVersion # apps[a].currentVersion =>
                /\ host[a].binary = apps'[a].currentVersion
                /\ host[a].running = apps'[a].currentVersion
                /\ apps'[a].lastDeployment.status = "SUCCESS"]_vars
      BY <1>1 DEF CurrentInPlace
<1>3. RSpec => []RInv
      BY ReconcilerInvariant, PTL DEF RInv
<1>   QED BY <1>2, <1>3, ReconciledRecords, PTL
          DEF RSpec, CurrentVersionIsInstalled
=============================================================================
