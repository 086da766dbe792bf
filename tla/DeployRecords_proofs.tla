------------------------ MODULE DeployRecords_proofs ------------------------
(***************************************************************************)
(* Proofs about the records of DeployEngine, the last deployment, the      *)
(* current version and the history of every app, for every set of apps,    *)
(* versions and ids, any set of faults, any length of the history and any  *)
(* number of overlapping deployments.                                      *)
(***************************************************************************)
EXTENDS DeployEngine_proofs

\* the sets of stage names and of final statuses
USE DEF Final, PC, Holding, Working, LocalStage, HostStage

-----------------------------------------------------------------------------
(* The inductive invariant of the records *)

\* What the record of app a and the runs know of each other: the history is
\* not over its limit, a last deployment with a final status has passed
\* FinishDeployment, and one that is PENDING has not, and its run, unless a
\* crash took it, is the run of this record.
RecordFacts(a) ==
    LET last == apps[a].lastDeployment
    IN /\ Len(apps[a].history) <= MaxHist
       /\ last.status \in Final => runs[last.id].pc \in {"idle", "unlock"}
       /\ last.status = "PENDING" =>
             /\ runs[last.id].pc # "unlock"
             /\ runs[last.id].pc # "idle" =>
                   runs[last.id].app = a /\ runs[last.id].version = last.version

RecordInv ==
    /\ RecordedOnce
    /\ \A a \in App : RecordFacts(a)

-----------------------------------------------------------------------------
(* The history and its trimming *)

\* The history before the new entry is appended: without its oldest entry if
\* it is full.
Kept(h) == IF Len(h) = MaxHist THEN Tail(h) ELSE h

\* The entries that are kept are entries of the history, in their order.
LEMMA KeptEntries ==
    ASSUME NEW h \in Seq(Deployment), Len(h) <= MaxHist
    PROVE  /\ Kept(h) \in Seq(Deployment)
           /\ Len(Kept(h)) < MaxHist
           /\ \E k \in {0, 1} : /\ Len(h) = Len(Kept(h)) + k
                                /\ \A i \in 1..Len(Kept(h)) : Kept(h)[i] = h[i + k]
<1>1. CASE Len(h) = MaxHist
  <2>1. h # <<>>
        BY <1>1, ConstantsAssumption, EmptySeq
  <2>2. /\ Tail(h) \in Seq(Deployment)
        /\ Len(Tail(h)) = Len(h) - 1
        /\ \A i \in 1..Len(Tail(h)) : Tail(h)[i] = h[i + 1]
        BY <2>1, HeadTailProperties
  <2>3. Len(h) \in Nat /\ MaxHist \in Nat
        BY LenProperties, ConstantsAssumption
  <2>4. Kept(h) = Tail(h)
        BY <1>1 DEF Kept
  <2>5. /\ Len(h) = Len(Kept(h)) + 1
        /\ \A i \in 1..Len(Kept(h)) : Kept(h)[i] = h[i + 1]
        BY <2>2, <2>3, <2>4, LenProperties
  <2>   QED BY <1>1, <2>2, <2>3, <2>4, <2>5
<1>2. CASE Len(h) # MaxHist
  <2>1. Len(h) \in Nat /\ MaxHist \in Nat
        BY LenProperties, ConstantsAssumption
  <2>2. Kept(h) = h
        BY <1>2 DEF Kept
  <2>3. /\ Len(h) = Len(Kept(h)) + 0
        /\ \A i \in 1..Len(Kept(h)) : Kept(h)[i] = h[i + 0]
        BY <2>1, <2>2
  <2>4. Len(h) < MaxHist
        BY <1>2, <2>1
  <2>   QED BY <2>2, <2>3, <2>4
<1>   QED BY <1>1, <1>2

\* Appending to a history that is not over its limit and trimming it drops
\* the oldest entry when the history was full, and nothing otherwise.
LEMMA TrimmedAppend ==
    ASSUME NEW h \in Seq(Deployment), Len(h) <= MaxHist, NEW x \in Deployment
    PROVE  Trimmed(Append(h, x)) = Append(Kept(h), x)
<1> DEFINE g == Append(h, x)
<1>1. /\ g \in Seq(Deployment)
      /\ Len(g) = Len(h) + 1
      /\ \A i \in 1..Len(h) : g[i] = h[i]
      /\ g[Len(h) + 1] = x
      BY AppendProperties
<1>2. Len(h) \in Nat /\ MaxHist \in Nat \ {0}
      BY LenProperties, ConstantsAssumption
<1> HIDE DEF g
<1>3. CASE Len(h) = MaxHist
  <2> DEFINE s == SubSeq(g, Len(g) - MaxHist + 1, Len(g))
             t == Append(Tail(h), x)
  <2>1. Trimmed(g) = s
        BY <1>1, <1>2, <1>3 DEF Trimmed
  <2>2. h # <<>>
        BY <1>2, <1>3, EmptySeq
  <2>3. /\ Tail(h) \in Seq(Deployment)
        /\ Len(Tail(h)) = Len(h) - 1
        /\ \A i \in 1..Len(Tail(h)) : Tail(h)[i] = h[i + 1]
        BY <2>2, HeadTailProperties
  <2>4. /\ t \in Seq(Deployment)
        /\ Len(t) = Len(Tail(h)) + 1
        /\ \A i \in 1..Len(Tail(h)) : t[i] = Tail(h)[i]
        /\ t[Len(Tail(h)) + 1] = x
        BY <2>3, AppendProperties
  <2>5. 2 \in 1..Len(g) + 1 /\ Len(g) \in 1..Len(g)
        BY <1>1, <1>2
  <2>6. s = SubSeq(g, 2, Len(g))
        BY <1>1, <1>2, <1>3
  <2> HIDE DEF s, t
  <2>7. /\ s \in Seq(Deployment)
        /\ Len(s) = Len(g) - 1
        /\ \A i \in 1..Len(s) : s[i] = g[i + 1]
    <3>1. Len(g) \in Int /\ 2 \in Int /\ 2 <= Len(g)
          BY <1>1, <1>2, <1>3
    <3>2. \A i \in 2..Len(g) : g[i] \in Deployment
          BY <1>1, <3>1, ElementOfSeq
    <3>3. /\ SubSeq(g, 2, Len(g)) \in Seq(Deployment)
          /\ Len(SubSeq(g, 2, Len(g))) = IF 2 <= Len(g) THEN Len(g) - 2 + 1 ELSE 0
          /\ \A i \in 1..Len(g) - 2 + 1 : SubSeq(g, 2, Len(g))[i] = g[2 + i - 1]
          BY <3>1, <3>2, SubSeqProperties
    <3>4. /\ s \in Seq(Deployment)
          /\ Len(s) = Len(g) - 1
          BY <2>6, <3>1, <3>3
    <3>5. ASSUME NEW i \in 1..Len(s) PROVE s[i] = g[i + 1]
      <4>1. i \in 1..Len(g) - 2 + 1 /\ 2 + i - 1 = i + 1
            BY <3>1, <3>4
      <4>2. SubSeq(g, 2, Len(g))[i] = g[2 + i - 1]
            BY <3>3, <4>1
      <4>   QED BY <2>6, <4>1, <4>2
    <3>   QED BY <3>4, <3>5
  <2>8. ASSUME NEW i \in 1..Len(s) PROVE s[i] = t[i]
    <3>1. CASE i = Len(s)
          BY <1>1, <1>2, <1>3, <2>3, <2>4, <2>7, <3>1
    <3>2. CASE i # Len(s)
      <4>1. i \in 1..Len(Tail(h)) /\ i + 1 \in 1..Len(h)
            BY <1>1, <1>2, <1>3, <2>3, <2>7, <3>2
      <4>   QED BY <1>1, <2>3, <2>4, <2>7, <4>1
    <3>   QED BY <3>1, <3>2
  <2>9. Len(s) = Len(t)
        BY <1>1, <1>2, <2>3, <2>4, <2>7
  <2>10. s = t
        BY <2>4, <2>7, <2>8, <2>9, SeqEqual
  <2>   QED BY <1>3, <2>1, <2>10 DEF Kept, g, t
<1>4. CASE Len(h) # MaxHist
  <2>1. ~ (Len(g) > MaxHist)
        BY <1>1, <1>2, <1>4
  <2>2. Trimmed(g) = g
        BY <2>1 DEF Trimmed
  <2>   QED BY <1>4, <2>2 DEF Kept, g
<1>   QED BY <1>3, <1>4

-----------------------------------------------------------------------------
(* Which steps touch the records *)

\* Between two states in which the records are the same, a run stays as it
\* is, goes on towards FinishDeployment, or is gone: it has returned, or the
\* process has stopped.
Follows(d) ==
    \/ runs'[d] = runs[d]
    \/ /\ runs'[d].pc = "idle"
       /\ runs[d].pc = "unlock" \/ "crash" \in MayFail
    \/ /\ runs[d].pc \notin {"idle", "unlock"}
       /\ runs'[d].pc \notin {"idle", "unlock"}
       /\ runs'[d].app = runs[d].app
       /\ runs'[d].version = runs[d].version

\* Only Trigger and Finish change a record.
LEMMA RecordSteps ==
    ASSUME HostInv, [Next]_vars
    PROVE  \/ \E d \in DepId : Triggers(d) \/ Finish(d)
           \/ UNCHANGED apps /\ \A d \in DepId : Follows(d)
<1>1. ASSUME NEW d \in DepId, Acquire(d)
      PROVE  UNCHANGED apps /\ \A e \in DepId : Follows(e)
  <2>1. UNCHANGED apps /\ runs[d].pc = "queued"
        BY <1>1 DEF Acquire, At
  <2>2. \A e \in DepId : e # d => runs'[e] = runs[e]
        BY <1>1 DEF Acquire, HostInv, TypeOK
  <2>3. /\ runs'[d].pc = "fetch"
        /\ runs'[d].app = runs[d].app
        /\ runs'[d].version = runs[d].version
        BY <1>1 DEF Acquire, HostInv, TypeOK, Run
  <2>   QED BY <2>1, <2>2, <2>3 DEF Follows
<1>2. ASSUME NEW d \in DepId, Unlock(d)
      PROVE  UNCHANGED apps /\ \A e \in DepId : Follows(e)
  <2>1. /\ UNCHANGED apps
        /\ runs[d].pc = "unlock"
        /\ runs' = [runs EXCEPT ![d] = Idle]
        BY <1>2 DEF Unlock, At
  <2>2. Idle.pc = "idle"
        BY DEF Idle
  <2>   QED BY <2>1, <2>2 DEF Follows, HostInv, TypeOK
<1>3. ASSUME NEW d \in DepId, Stage(d), ~ Finish(d), ~ Unlock(d)
      PROVE  UNCHANGED apps /\ \A e \in DepId : Follows(e)
  <2>1. PICK r : GoesOn(d, r)
        BY <1>3, StageGoesOn
  <2>2. UNCHANGED apps
        BY <1>3, StageGoesOn
  <2>3. runs'[d] = r /\ \A e \in DepId : e # d => runs'[e] = runs[e]
        BY <2>1 DEF GoesOn, HostInv, TypeOK
  <2>   QED BY <2>1, <2>2, <2>3 DEF Follows, GoesOn
<1>4. CASE Crash
      BY <1>4 DEF Crash, Follows, Idle
<1>5. CASE UNCHANGED vars
      BY <1>5 DEF vars, Follows
<1>   QED BY <1>1, <1>2, <1>3, <1>4, <1>5, AcceptTriggers DEF Next, EngineStep

\* The entries of a history and the last deployment are deployments.
LEMMA RecordTypes ==
    ASSUME HostInv, NEW a \in App
    PROVE  /\ apps[a] \in AppState
           /\ apps[a].history \in Seq(Deployment)
           /\ Len(apps[a].history) \in Nat
           /\ DOMAIN apps[a].history = 1..Len(apps[a].history)
           /\ \A i \in DOMAIN apps[a].history : apps[a].history[i] \in Deployment
           /\ apps[a].lastDeployment \in Deployment \cup {NoDeployment}
           /\ apps[a].lastDeployment.status \in Status =>
                 apps[a].lastDeployment \in Deployment
<1>1. apps[a] \in AppState
      BY DEF HostInv, TypeOK
<1>2. /\ apps[a].history \in Seq(Deployment)
      /\ apps[a].lastDeployment \in Deployment \cup {NoDeployment}
      BY <1>1 DEF AppState
<1>3. NoDeployment.status \notin Status
      BY ZeroAssumption DEF NoDeployment
<1>   QED BY <1>1, <1>2, <1>3, LenProperties, ElementOfSeq

-----------------------------------------------------------------------------
(* The record invariant, step by step *)

LEMMA QuietStep ==
    ASSUME HostInv, RecordInv, UNCHANGED apps, \A d \in DepId : Follows(d)
    PROVE  RecordInv'
<1>1. ASSUME NEW d \in DepId, runs[d].pc \in {"idle", "unlock"}
      PROVE  runs'[d].pc \in {"idle", "unlock"}
      BY <1>1 DEF Follows
<1>2. RecordedOnce'
  <2> SUFFICES ASSUME NEW a \in App, NEW i \in DOMAIN apps[a].history
               PROVE  /\ apps[a].history[i].status \in Final
                      /\ runs'[apps[a].history[i].id].pc \in {"idle", "unlock"}
                      /\ \A j \in DOMAIN apps[a].history :
                            apps[a].history[i].id = apps[a].history[j].id => i = j
      BY DEF RecordedOnce
  <2>1. apps[a].history[i].id \in DepId
        BY RecordTypes DEF Deployment
  <2>   QED BY <1>1, <2>1 DEF RecordInv, RecordedOnce
<1>3. ASSUME NEW a \in App PROVE RecordFacts(a)'
  <2> DEFINE last == apps[a].lastDeployment
  <2>1. RecordFacts(a) /\ apps'[a] = apps[a]
        BY DEF RecordInv
  <2>2. last.status \in Status => last.id \in DepId
        BY RecordTypes DEF Deployment
  <2>3. last.status \in Final => runs'[last.id].pc \in {"idle", "unlock"}
        BY <1>1, <2>1, <2>2 DEF RecordFacts, Status
  <2>4. ASSUME last.status = "PENDING"
        PROVE  /\ runs'[last.id].pc # "unlock"
               /\ runs'[last.id].pc # "idle" =>
                     runs'[last.id].app = a /\ runs'[last.id].version = last.version
    <3>1. Follows(last.id) /\ runs[last.id].pc # "unlock"
          BY <2>1, <2>2, <2>4 DEF RecordFacts, Status
    <3>   QED BY <2>1, <2>4, <3>1 DEF Follows, RecordFacts
  <2>   QED BY <2>1, <2>3, <2>4 DEF RecordFacts
<1>   QED BY <1>2, <1>3 DEF RecordInv

\* A new deployment has an id of its own: no record's run changes.
LEMMA TriggerRecords ==
    ASSUME HostInv, RecordInv, NEW d \in DepId, Triggers(d)
    PROVE  RecordInv'
<1>1. PICK a \in App, v \in Version, why \in Reason : Trigger(a, v, why, d)
      BY DEF Triggers
<1>2. /\ Fresh(d)
      /\ apps' = [apps EXCEPT ![a] = StartDeployment(@, d, v)]
      BY <1>1 DEF Trigger
<1>3. /\ runs'[d].pc = "queued" /\ runs'[d].app = a /\ runs'[d].version = v
      /\ \A e \in DepId : e # d => runs'[e] = runs[e]
      BY <1>1 DEF Trigger, Idle, HostInv, TypeOK
<1>4. /\ \A b \in App : b # a => apps'[b] = apps[b]
      /\ apps'[a].history = apps[a].history
      /\ apps'[a].lastDeployment = [id |-> d, version |-> v, status |-> "PENDING"]
  <2>1. apps'[a] = StartDeployment(apps[a], d, v)
        BY <1>2 DEF HostInv, TypeOK
  <2>2. apps[a] \in AppState
        BY RecordTypes
  <2>   QED BY <1>2, <2>1, <2>2 DEF StartDeployment, AppState, HostInv, TypeOK
<1>5. \A b \in App : apps'[b].history = apps[b].history
      BY <1>4
<1>6. RecordedOnce'
  <2> SUFFICES ASSUME NEW b \in App, NEW i \in DOMAIN apps[b].history
               PROVE  /\ apps[b].history[i].status \in Final
                      /\ runs'[apps[b].history[i].id].pc \in {"idle", "unlock"}
                      /\ \A j \in DOMAIN apps[b].history :
                            apps[b].history[i].id = apps[b].history[j].id => i = j
      BY <1>5 DEF RecordedOnce
  <2>1. apps[b].history[i].id \in DepId \ {d}
        BY <1>2, RecordTypes DEF Deployment, Fresh
  <2>   QED BY <1>3, <2>1 DEF RecordInv, RecordedOnce
<1>7. ASSUME NEW b \in App PROVE RecordFacts(b)'
  <2> DEFINE last == apps[b].lastDeployment
  <2>1. RecordFacts(b)
        BY DEF RecordInv
  <2>2. CASE b = a
        BY <1>3, <1>4, <2>1, <2>2 DEF RecordFacts
  <2>3. CASE b # a
    <3>1. last.status \in Status => last.id \in DepId \ {d}
          BY <1>2, RecordTypes DEF Deployment, Fresh
    <3>2. last.status \in Status => runs'[last.id] = runs[last.id]
          BY <1>3, <3>1
    <3>   QED BY <1>4, <2>1, <2>3, <3>2 DEF RecordFacts, Status
  <2>   QED BY <2>2, <2>3
<1>   QED BY <1>6, <1>7 DEF RecordInv

\* FinishDeployment of run d, for the last deployment of its app: it was
\* PENDING, and it gets its final status and the last place in the history.
LEMMA FinishFacts ==
    ASSUME HostInv, RecordInv, NEW d \in DepId, Finish(d)
    PROVE  LET r == runs[d]
               as == apps[r.app]
               dep == [id |-> d, version |-> r.version, status |-> r.finalStatus]
           IN /\ r.pc = "finish" /\ r.app \in App /\ r.finalStatus \in Final
              /\ UNCHANGED <<lock, host>>
              /\ runs'[d].pc = "unlock"
              /\ runs'[d].app = r.app
              /\ runs'[d].version = r.version
              /\ runs'[d].finalStatus = r.finalStatus
              /\ \A e \in DepId : e # d => runs'[e] = runs[e]
              /\ \A b \in App : b # r.app => apps'[b] = apps[b]
              /\ as.lastDeployment.id # d => apps'[r.app] = as
              /\ as.lastDeployment.id = d =>
                    /\ dep \in Deployment
                    /\ as.lastDeployment.status = "PENDING"
                    /\ apps'[r.app].lastDeployment = dep
                    /\ apps'[r.app].history = Append(Kept(as.history), dep)
                    /\ apps'[r.app].currentVersion =
                          IF r.finalStatus = "SUCCESS" THEN r.version
                          ELSE as.currentVersion
                    /\ apps'[r.app].syncState =
                          IF r.finalStatus = "SUCCESS" THEN "Synced" ELSE "Degraded"
<1> DEFINE r == runs[d]
           a == r.app
           as == apps[a]
           last == as.lastDeployment
           dep == [id |-> d, version |-> r.version, status |-> r.finalStatus]
<1>1. r.pc = "finish" /\ UNCHANGED <<lock, host>> /\ Goto(d, "unlock")
      BY DEF Finish, At
<1>2. r \in Run /\ a \in App /\ r.version \in Version /\ r.finalStatus \in Final
      BY <1>1, OwnFacts DEF StageFacts
<1>3. /\ runs'[d].pc = "unlock"
      /\ runs'[d].app = a
      /\ runs'[d].version = r.version
      /\ runs'[d].finalStatus = r.finalStatus
      /\ \A e \in DepId : e # d => runs'[e] = runs[e]
      BY <1>1 DEF Goto, HostInv, TypeOK, Run
<1>4. /\ \A b \in App : b # a => apps'[b] = apps[b]
      /\ apps'[a] = FinishDeployment(as, d, r.finalStatus)
      BY <1>2 DEF Finish, HostInv, TypeOK
<1>5. CASE last.id # d
      BY <1>1, <1>2, <1>3, <1>4, <1>5 DEF FinishDeployment
<1>6. CASE last.id = d
  <2>1. last \in Deployment
    <3>1. last \in Deployment \cup {NoDeployment} /\ NoDeployment.id = None
          BY <1>2, RecordTypes DEF NoDeployment
    <3>   QED BY <1>6, <3>1, SentinelAssumption
  <2>2. last.status = "PENDING" /\ last.version = r.version
    <3>1. RecordFacts(a) /\ last.status \in Status
          BY <1>2, <2>1 DEF RecordInv, Deployment
    <3>2. last.status \notin Final
          BY <1>1, <1>6, <3>1 DEF RecordFacts
    <3>   QED BY <1>1, <1>6, <3>1, <3>2 DEF RecordFacts, Status
  <2>3. [last EXCEPT !.status = r.finalStatus] = dep
        BY <1>6, <2>1, <2>2 DEF Deployment
  <2>4. dep \in Deployment
        BY <1>2 DEF Deployment, Status
  <2>5. Trimmed(Append(as.history, dep)) = Append(Kept(as.history), dep)
    <3>1. as.history \in Seq(Deployment) /\ Len(as.history) <= MaxHist
          BY <1>2, RecordTypes DEF RecordInv, RecordFacts
    <3> HIDE DEF dep
    <3>   QED BY <2>4, <3>1, TrimmedAppend
  <2>6. as \in AppState
        BY <1>2, RecordTypes
  <2> DEFINE cv == IF r.finalStatus = "SUCCESS" THEN dep.version ELSE as.currentVersion
             ss == IF r.finalStatus = "SUCCESS" THEN "Synced" ELSE "Degraded"
             g == Append(Kept(as.history), dep)
  <2>7. apps'[a] = [as EXCEPT !.lastDeployment = dep, !.currentVersion = cv,
                              !.syncState = ss, !.history = g]
        BY <1>4, <1>6, <2>3, <2>5 DEF FinishDeployment
  <2>8. cv = IF r.finalStatus = "SUCCESS" THEN r.version ELSE as.currentVersion
        OBVIOUS
  <2> HIDE DEF dep, cv, g, ss
  <2>9. /\ apps'[a].lastDeployment = dep
        /\ apps'[a].currentVersion = cv
        /\ apps'[a].syncState = ss
        /\ apps'[a].history = g
        BY <2>6, <2>7 DEF AppState
  <2>   QED BY <1>1, <1>2, <1>3, <1>4, <1>6, <2>2, <2>4, <2>8, <2>9
            DEF dep, g, ss
<1>   QED BY <1>5, <1>6

\* What the history looks like after an entry: every entry is the new one or
\* an old one, and no id is there twice that was not before.
LEMMA AppendedEntries ==
    ASSUME NEW h \in Seq(Deployment), Len(h) <= MaxHist, NEW x \in Deployment,
           \A i \in DOMAIN h : h[i].id # x.id,
           \A i, j \in DOMAIN h : h[i].id = h[j].id => i = j
    PROVE  LET g == Append(Kept(h), x)
           IN /\ Len(g) <= MaxHist
              /\ \A i \in DOMAIN g : g[i] = x \/ \E j \in DOMAIN h : g[i] = h[j]
              /\ \A i, j \in DOMAIN g : g[i].id = g[j].id => i = j
<1> DEFINE k == Kept(h)
           g == Append(k, x)
<1>1. k \in Seq(Deployment) /\ Len(k) < MaxHist
      BY KeptEntries
<1>2. PICK n \in {0, 1} : /\ Len(h) = Len(k) + n
                          /\ \A i \in 1..Len(k) : k[i] = h[i + n]
      BY KeptEntries
<1>3. Len(k) \in Nat /\ MaxHist \in Nat /\ DOMAIN h = 1..Len(h)
      BY <1>1, LenProperties, ConstantsAssumption
<1> HIDE DEF k
<1>4. /\ g \in Seq(Deployment)
      /\ Len(g) = Len(k) + 1
      /\ \A i \in 1..Len(k) : g[i] = k[i]
      /\ g[Len(k) + 1] = x
      BY <1>1, AppendProperties
<1> HIDE DEF g
<1>5. DOMAIN g = 1..Len(k) + 1
      BY <1>4, LenProperties
<1>6. \A i \in 1..Len(k) : i + n \in DOMAIN h /\ g[i] = h[i + n]
      BY <1>2, <1>3, <1>4
<1>7. \A i \in DOMAIN g : i \in 1..Len(k) \/ i = Len(k) + 1
      BY <1>3, <1>5
<1>8. \A i \in DOMAIN g : g[i] = x \/ \E j \in DOMAIN h : g[i] = h[j]
      BY <1>4, <1>6, <1>7
<1>9. ASSUME NEW i \in DOMAIN g, NEW j \in DOMAIN g, g[i].id = g[j].id
      PROVE  i = j
  <2>1. CASE i \in 1..Len(k) /\ j \in 1..Len(k)
    <3>1. i + n = j + n
          BY <1>6, <1>9, <2>1
    <3>   QED BY <1>2, <1>3, <2>1, <3>1
  <2>2. CASE i \in 1..Len(k) /\ j = Len(k) + 1
        BY <1>4, <1>6, <1>9, <2>2
  <2>3. CASE i = Len(k) + 1 /\ j \in 1..Len(k)
        BY <1>4, <1>6, <1>9, <2>3
  <2>   QED BY <1>7, <2>1, <2>2, <2>3
<1>10. Len(g) <= MaxHist
      BY <1>1, <1>3, <1>4
<1>   QED BY <1>8, <1>9, <1>10 DEF g, k

LEMMA FinishRecords ==
    ASSUME HostInv, RecordInv, NEW d \in DepId, Finish(d)
    PROVE  RecordInv'
<1> DEFINE r == runs[d]
           a == r.app
           as == apps[a]
           dep == [id |-> d, version |-> r.version, status |-> r.finalStatus]
<1>1. /\ r.pc = "finish" /\ a \in App /\ r.finalStatus \in Final
      /\ runs'[d].pc = "unlock"
      /\ \A e \in DepId : e # d => runs'[e] = runs[e]
      BY FinishFacts
<1>2. \A b \in App : \A i \in DOMAIN apps[b].history :
         /\ apps[b].history[i].status \in Final
         /\ apps[b].history[i].id \in DepId \ {d}
         /\ runs[apps[b].history[i].id].pc \in {"idle", "unlock"}
         /\ runs'[apps[b].history[i].id].pc \in {"idle", "unlock"}
  <2> SUFFICES ASSUME NEW b \in App, NEW i \in DOMAIN apps[b].history
               PROVE  /\ apps[b].history[i].status \in Final
                      /\ apps[b].history[i].id \in DepId \ {d}
                      /\ runs[apps[b].history[i].id].pc \in {"idle", "unlock"}
                      /\ runs'[apps[b].history[i].id].pc \in {"idle", "unlock"}
      OBVIOUS
  <2>1. apps[b].history[i].id \in DepId
        BY RecordTypes DEF Deployment
  <2>2. /\ runs[apps[b].history[i].id].pc \in {"idle", "unlock"}
        /\ apps[b].history[i].status \in Final
        BY DEF RecordInv, RecordedOnce
  <2>   QED BY <1>1, <2>1, <2>2
<1>3. ASSUME NEW b \in App, apps'[b] = apps[b],
             b = a => apps[b].lastDeployment.id # d
      PROVE  RecordFacts(b)'
  <2> DEFINE last == apps[b].lastDeployment
  <2>1. RecordFacts(b)
        BY DEF RecordInv
  <2>2. last.status \in Status => last.id \in DepId
        BY RecordTypes DEF Deployment
  <2>3. last.status \in Status => last.id # d
        BY <1>1, <1>3, <2>1 DEF RecordFacts, Status
  <2>4. last.status \in Status => runs'[last.id] = runs[last.id]
        BY <1>1, <2>2, <2>3
  <2>   QED BY <1>3, <2>1, <2>4 DEF RecordFacts, Status
<1>4. CASE as.lastDeployment.id # d
  <2>1. \A b \in App : apps'[b] = apps[b]
        BY <1>1, <1>4, FinishFacts
  <2>2. RecordedOnce'
        BY <1>2, <2>1 DEF RecordInv, RecordedOnce
  <2>3. \A b \in App : RecordFacts(b)'
        BY <1>3, <1>4, <2>1
  <2>   QED BY <2>2, <2>3 DEF RecordInv
<1>5. CASE as.lastDeployment.id = d
  <2>1. /\ dep \in Deployment
        /\ apps'[a].lastDeployment = dep
        /\ apps'[a].history = Append(Kept(as.history), dep)
        /\ \A b \in App : b # a => apps'[b] = apps[b]
        BY <1>5, FinishFacts
  <2>2. as.history \in Seq(Deployment) /\ Len(as.history) <= MaxHist
        BY <1>1, RecordTypes DEF RecordInv, RecordFacts
  <2>3. /\ \A i \in DOMAIN as.history : as.history[i].id # dep.id
        /\ \A i, j \in DOMAIN as.history :
              as.history[i].id = as.history[j].id => i = j
        BY <1>1, <1>2 DEF RecordInv, RecordedOnce
  <2>4. dep.id = d /\ dep.status \in Final
        BY <1>1
  <2> HIDE DEF dep
  <2> DEFINE h == as.history
             g == Append(Kept(h), dep)
  <2>5. /\ Len(g) <= MaxHist
        /\ \A i \in DOMAIN g : g[i] = dep \/ \E j \in DOMAIN h : g[i] = h[j]
        /\ \A i, j \in DOMAIN g : g[i].id = g[j].id => i = j
    <3> HIDE DEF h
    <3>1. /\ h \in Seq(Deployment) /\ Len(h) <= MaxHist
          /\ \A i \in DOMAIN h : h[i].id # dep.id
          /\ \A i, j \in DOMAIN h : h[i].id = h[j].id => i = j
          BY <2>2, <2>3 DEF h
    <3>   QED BY <2>1, <3>1, AppendedEntries
  <2>6. apps'[a].history = g
        BY <2>1
  <2> HIDE DEF g
  <2>7. \A i \in DOMAIN g : g[i].status \in Final /\ runs'[g[i].id].pc \in {"idle", "unlock"}
        BY <1>1, <1>2, <2>4, <2>5
  <2>8. RecordedOnce'
    <3> SUFFICES ASSUME NEW b \in App, NEW i \in DOMAIN apps'[b].history
                 PROVE  /\ apps'[b].history[i].status \in Final
                        /\ runs'[apps'[b].history[i].id].pc \in {"idle", "unlock"}
                        /\ \A j \in DOMAIN apps'[b].history :
                              apps'[b].history[i].id = apps'[b].history[j].id => i = j
        BY DEF RecordedOnce
    <3>1. CASE b = a
          BY <2>5, <2>6, <2>7, <3>1
    <3>2. CASE b # a
          BY <1>2, <2>1, <3>2 DEF RecordInv, RecordedOnce
    <3>   QED BY <3>1, <3>2
  <2>9. ASSUME NEW b \in App, b = a PROVE RecordFacts(b)'
        BY <1>1, <2>1, <2>4, <2>5, <2>6, <2>9 DEF RecordFacts
  <2>10. ASSUME NEW b \in App, b # a PROVE RecordFacts(b)'
        BY <1>3, <2>1, <2>10
  <2>   QED BY <2>8, <2>9, <2>10 DEF RecordInv
<1>   QED BY <1>4, <1>5

LEMMA InitRecordInv == Init => RecordInv
<1> SUFFICES ASSUME Init PROVE RecordInv
    OBVIOUS
<1>1. NoDeployment.status \notin Status
      BY ZeroAssumption DEF NoDeployment
<1>2. \A a \in App : apps[a].history = <<>> /\ apps[a].lastDeployment = NoDeployment
      BY DEF Init, NoAppState
<1>3. Len(<<>>) = 0 /\ DOMAIN <<>> = {}
      OBVIOUS
<1>4. RecordedOnce
      BY <1>2, <1>3 DEF RecordedOnce
<1>5. \A a \in App : RecordFacts(a)
      BY <1>1, <1>2, <1>3, ConstantsAssumption DEF RecordFacts, Status
<1>   QED BY <1>4, <1>5 DEF RecordInv

LEMMA NextRecordInv == HostInv /\ RecordInv /\ [Next]_vars => RecordInv'
BY RecordSteps, QuietStep, TriggerRecords, FinishRecords

-----------------------------------------------------------------------------
(* What a step does to the record of one app *)

\* What a step of HistoryAppendOnly, of OutcomeIsFinal and of
\* CurrentVersionIsInstalled says of app a.
GrowsByLast(a) ==
    LET h == apps[a].history
        g == apps'[a].history
        kept == IF Len(h) = MaxHist THEN Tail(h) ELSE h
        last == apps'[a].lastDeployment
    IN IF last.status \in Final /\ apps[a].lastDeployment # last
       THEN g = Append(kept, last) ELSE g = h

JudgedOnce(a) ==
    LET last == apps[a].lastDeployment
        next == apps'[a].lastDeployment
    IN last.status \in Final /\ next # last => next.status = "PENDING"

CurrentInPlace(a) ==
    apps'[a].currentVersion # apps[a].currentVersion =>
       /\ host[a].binary = apps'[a].currentVersion
       /\ host[a].running = apps'[a].currentVersion
       /\ apps'[a].lastDeployment.status = "SUCCESS"

\* A step that leaves the record of a alone.
LEMMA SameRecord ==
    ASSUME NEW a \in App, apps'[a] = apps[a]
    PROVE  GrowsByLast(a) /\ JudgedOnce(a) /\ CurrentInPlace(a)
BY DEF GrowsByLast, JudgedOnce, CurrentInPlace

\* A new deployment is PENDING; the history and the current version stay.
LEMMA TriggeredRecord ==
    ASSUME HostInv, NEW d \in DepId, Triggers(d), NEW a \in App
    PROVE  GrowsByLast(a) /\ JudgedOnce(a) /\ CurrentInPlace(a)
<1>1. PICK b \in App, v \in Version, why \in Reason : Trigger(b, v, why, d)
      BY DEF Triggers
<1>2. CASE b # a
      BY <1>1, <1>2, SameRecord DEF Trigger, HostInv, TypeOK
<1>3. CASE b = a
  <2>1. apps'[a] = StartDeployment(apps[a], d, v) /\ apps[a] \in AppState
        BY <1>1, <1>3, RecordTypes DEF Trigger, HostInv, TypeOK
  <2>2. /\ apps'[a].history = apps[a].history
        /\ apps'[a].currentVersion = apps[a].currentVersion
        /\ apps'[a].lastDeployment.status = "PENDING"
        BY <2>1 DEF StartDeployment, AppState
  <2>   QED BY <2>2 DEF GrowsByLast, JudgedOnce, CurrentInPlace
<1>   QED BY <1>2, <1>3

LEMMA RecordStep ==
    ASSUME HostInv, RecordInv, [Next]_vars, NEW a \in App
    PROVE  GrowsByLast(a) /\ JudgedOnce(a) /\ CurrentInPlace(a)
<1>1. ASSUME NEW d \in DepId, Finish(d)
      PROVE  GrowsByLast(a) /\ JudgedOnce(a) /\ CurrentInPlace(a)
  <2> DEFINE r == runs[d]
             dep == [id |-> d, version |-> r.version, status |-> r.finalStatus]
  <2>1. CASE a # r.app
        BY <1>1, <2>1, FinishFacts, SameRecord
  <2>2. CASE a = r.app /\ apps[a].lastDeployment.id # d
        BY <1>1, <2>2, FinishFacts, SameRecord
  <2>3. CASE a = r.app /\ apps[a].lastDeployment.id = d
    <3>1. /\ r.pc = "finish" /\ r.finalStatus \in Final
          /\ apps[a].lastDeployment.status = "PENDING"
          /\ apps'[a].lastDeployment = dep
          /\ apps'[a].history = Append(Kept(apps[a].history), dep)
          /\ apps'[a].currentVersion =
                IF r.finalStatus = "SUCCESS" THEN r.version
                ELSE apps[a].currentVersion
          BY <1>1, <2>3, FinishFacts
    <3>2. dep.status = r.finalStatus /\ apps[a].lastDeployment # dep
          BY <3>1
    <3>3. StageFacts(r, host[a])
          BY <2>3, <3>1, OwnFacts
    <3>4. r.finalStatus = "SUCCESS" =>
             host[a].binary = r.version /\ host[a].running = r.version
          BY <3>1, <3>3 DEF StageFacts
    <3> HIDE DEF dep
    <3>5. GrowsByLast(a)
          BY <3>1, <3>2 DEF GrowsByLast, Kept
    <3>6. JudgedOnce(a)
          BY <3>1 DEF JudgedOnce
    <3>7. CurrentInPlace(a)
          BY <3>1, <3>2, <3>4 DEF CurrentInPlace
    <3>   QED BY <3>5, <3>6, <3>7
  <2>   QED BY <2>1, <2>2, <2>3
<1>2. CASE UNCHANGED apps
      BY <1>2, SameRecord
<1>   QED BY <1>1, <1>2, TriggeredRecord, RecordSteps

-----------------------------------------------------------------------------
(* Without crashes *)

\* A deployment that is PENDING has a run.
NoOrphan ==
    \A a \in App :
        apps[a].lastDeployment.status = "PENDING" =>
            runs[apps[a].lastDeployment.id].pc # "idle"

LEMMA NextNoOrphan ==
    ASSUME "crash" \notin MayFail, HostInv, RecordInv, NoOrphan, [Next]_vars
    PROVE  NoOrphan'
<1> SUFFICES ASSUME NEW a \in App, apps'[a].lastDeployment.status = "PENDING"
             PROVE  runs'[apps'[a].lastDeployment.id].pc # "idle"
    BY DEF NoOrphan
<1> DEFINE last == apps[a].lastDeployment
<1>1. ASSUME apps'[a] = apps[a]
      PROVE  /\ last.id \in DepId
             /\ runs[last.id].pc \notin {"idle", "unlock"}
  <2>1. last.status = "PENDING"
        BY <1>1
  <2>2. last.id \in DepId
        BY <2>1, RecordTypes DEF Deployment, Status
  <2>3. RecordFacts(a) /\ runs[last.id].pc # "idle"
        BY <2>1 DEF NoOrphan, RecordInv
  <2>   QED BY <2>1, <2>2, <2>3 DEF RecordFacts
<1>2. ASSUME NEW d \in DepId, Triggers(d)
      PROVE  runs'[apps'[a].lastDeployment.id].pc # "idle"
  <2>1. PICK b \in App, v \in Version, why \in Reason : Trigger(b, v, why, d)
        BY <1>2 DEF Triggers
  <2>2. /\ runs'[d].pc = "queued"
        /\ \A e \in DepId : e # d => runs'[e] = runs[e]
        BY <2>1 DEF Trigger, Idle, HostInv, TypeOK
  <2>3. CASE b # a
        BY <1>1, <2>1, <2>2, <2>3 DEF Trigger, HostInv, TypeOK
  <2>4. CASE b = a
    <3>1. apps'[a] = StartDeployment(apps[a], d, v) /\ apps[a] \in AppState
          BY <2>1, <2>4, RecordTypes DEF Trigger, HostInv, TypeOK
    <3>2. apps'[a].lastDeployment.id = d
          BY <3>1 DEF StartDeployment, AppState
    <3>   QED BY <2>2, <3>2
  <2>   QED BY <2>3, <2>4
<1>3. ASSUME NEW d \in DepId, Finish(d)
      PROVE  runs'[apps'[a].lastDeployment.id].pc # "idle"
  <2>1. /\ runs'[d].pc = "unlock"
        /\ \A e \in DepId : e # d => runs'[e] = runs[e]
        BY <1>3, FinishFacts
  <2>2. apps'[a] = apps[a] \/ apps'[a].lastDeployment.status \in Final
    <3> DEFINE dep == [id |-> d, version |-> runs[d].version,
                       status |-> runs[d].finalStatus]
    <3>1. dep.status = runs[d].finalStatus /\ runs[d].finalStatus \in Final
          BY <1>3, FinishFacts
    <3>2. apps'[a] = apps[a] \/ apps'[a].lastDeployment = dep
          BY <1>3, FinishFacts
    <3> HIDE DEF dep
    <3>   QED BY <3>1, <3>2
  <2>   QED BY <1>1, <2>1, <2>2
<1>4. CASE UNCHANGED apps /\ \A d \in DepId : Follows(d)
      BY <1>1, <1>4 DEF Follows
<1>   QED BY <1>2, <1>3, <1>4, RecordSteps

-----------------------------------------------------------------------------
(* The newest entry of the history *)

LEMMA InitNewest == Init => NewestIsRecorded
<1>1. NoDeployment.status \notin Final
      BY ZeroAssumption DEF NoDeployment, Status
<1>2. Idle.pc # "unlock"
      BY DEF Idle
<1>   QED BY <1>1, <1>2 DEF Init, NoAppState, NewestIsRecorded, At

\* What NewestIsRecorded says of an app and of a run.
NewestOf(a) ==
    LET last == apps[a].lastDeployment
        h == apps[a].history
    IN last.status \in Final => h # <<>> /\ h[Len(h)] = last

OwnOutcome(d) ==
    LET last == apps[runs[d].app].lastDeployment
    IN At(d, "unlock") /\ last.id = d =>
          last = [id |-> d, version |-> runs[d].version,
                  status |-> runs[d].finalStatus]

LEMMA NewestParts ==
    NewestIsRecorded <=> /\ \A a \in App : NewestOf(a)
                         /\ \A d \in DepId : OwnOutcome(d)
BY DEF NewestIsRecorded, NewestOf, OwnOutcome

LEMMA TriggerNewest ==
    ASSUME HostInv, NewestIsRecorded, NEW d \in DepId, Triggers(d)
    PROVE  NewestIsRecorded'
<1>1. PICK a \in App, v \in Version, why \in Reason : Trigger(a, v, why, d)
      BY DEF Triggers
<1>2. /\ runs'[d].pc = "queued"
      /\ \A e \in DepId : e # d => runs'[e] = runs[e]
      /\ \A b \in App : b # a => apps'[b] = apps[b]
      BY <1>1 DEF Trigger, Idle, HostInv, TypeOK
<1>3. /\ apps'[a].lastDeployment.id = d
      /\ apps'[a].lastDeployment.status = "PENDING"
  <2>1. apps'[a] = StartDeployment(apps[a], d, v) /\ apps[a] \in AppState
        BY <1>1, RecordTypes DEF Trigger, HostInv, TypeOK
  <2>   QED BY <2>1 DEF StartDeployment, AppState
<1>4. ASSUME NEW b \in App PROVE NewestOf(b)'
  <2>1. NewestOf(b)
        BY NewestParts
  <2>   QED BY <1>2, <1>3, <2>1 DEF NewestOf
<1>5. ASSUME NEW e \in DepId PROVE OwnOutcome(e)'
  <2>1. CASE e = d
        BY <1>2, <2>1 DEF OwnOutcome, At
  <2>2. CASE e # d /\ runs[e].pc = "unlock"
    <3>1. OwnOutcome(e) /\ runs'[e] = runs[e] /\ runs[e].app \in App
          BY <1>2, <2>2, NewestParts, OwnFacts
    <3>2. CASE runs[e].app = a
          BY <1>3, <2>2, <3>1, <3>2 DEF OwnOutcome
    <3>3. CASE runs[e].app # a
          BY <1>2, <3>1, <3>3 DEF OwnOutcome, At
    <3>   QED BY <3>2, <3>3
  <2>3. CASE e # d /\ runs[e].pc # "unlock"
        BY <1>2, <2>3 DEF OwnOutcome, At
  <2>   QED BY <2>1, <2>2, <2>3
<1>6. (\A b \in App : NewestOf(b))' /\ (\A e \in DepId : OwnOutcome(e))'
      BY <1>4, <1>5
<1>   QED BY <1>6 DEF NewestIsRecorded, NewestOf, OwnOutcome

\* FinishDeployment writes the outcome of its run, and the newest entry of the
\* history is what it has written.
LEMMA FinishNewest ==
    ASSUME HostInv, RecordInv, NewestIsRecorded, NEW d \in DepId, Finish(d)
    PROVE  NewestIsRecorded'
<1> DEFINE r == runs[d]
           a == r.app
           as == apps[a]
           dep == [id |-> d, version |-> r.version, status |-> r.finalStatus]
<1>1. /\ a \in App
      /\ runs'[d].app = a
      /\ runs'[d].version = r.version
      /\ runs'[d].finalStatus = r.finalStatus
      /\ \A e \in DepId : e # d => runs'[e] = runs[e]
      /\ \A b \in App : b # a => apps'[b] = apps[b]
      /\ as.lastDeployment.id # d => apps'[a] = as
      BY FinishFacts
<1>2. ASSUME as.lastDeployment.id = d
      PROVE  /\ apps'[a].lastDeployment = dep
             /\ apps'[a].history # <<>>
             /\ apps'[a].history[Len(apps'[a].history)] = dep
  <2> DEFINE k == Kept(as.history)
             g == apps'[a].history
  <2>1. /\ apps'[a].lastDeployment = dep
        /\ dep \in Deployment
        /\ g = Append(k, dep)
        BY <1>2, FinishFacts
  <2>2. k \in Seq(Deployment)
        BY <1>1, KeptEntries, RecordTypes DEF RecordInv, RecordFacts
  <2> HIDE DEF k, dep, g
  <2>3. /\ Len(Append(k, dep)) = Len(k) + 1
        /\ Append(k, dep)[Len(k) + 1] = dep
        /\ Append(k, dep) \in Seq(Deployment)
        BY <2>1, <2>2, AppendProperties
  <2>4. Len(k) \in Nat
        BY <2>2, LenProperties
  <2>5. Len(g) # 0 /\ g[Len(g)] = dep
        BY <2>1, <2>3, <2>4
  <2>6. g # <<>>
        BY <2>5, EmptySeq
  <2>   QED BY <2>1, <2>5, <2>6 DEF g
<1> HIDE DEF dep
<1>3. ASSUME NEW b \in App PROVE NewestOf(b)'
  <2>1. NewestOf(b)
        BY NewestParts
  <2>2. CASE b = a /\ as.lastDeployment.id = d
        BY <1>2, <2>2 DEF NewestOf
  <2>3. CASE ~ (b = a /\ as.lastDeployment.id = d)
    <3>1. apps'[b] = apps[b]
          BY <1>1, <2>3
    <3>   QED BY <2>1, <3>1 DEF NewestOf
  <2>   QED BY <2>2, <2>3
<1>4. ASSUME NEW e \in DepId PROVE OwnOutcome(e)'
  <2>1. CASE e = d
    <3>1. CASE as.lastDeployment.id = d
      <4>1. dep = [id |-> d, version |-> runs'[d].version, status |-> runs'[d].finalStatus]
            BY <1>1 DEF dep
      <4>   QED BY <1>1, <1>2, <2>1, <3>1, <4>1 DEF OwnOutcome
    <3>2. CASE as.lastDeployment.id # d
          BY <1>1, <2>1, <3>2 DEF OwnOutcome
    <3>   QED BY <3>1, <3>2
  <2>2. CASE e # d /\ runs[e].pc = "unlock"
    <3>1. OwnOutcome(e) /\ runs'[e] = runs[e] /\ runs[e].app \in App
          BY <1>1, <2>2, NewestParts, OwnFacts
    <3>2. CASE runs[e].app = a /\ as.lastDeployment.id = d
      <4>1. apps'[a].lastDeployment.id = d
            BY <1>2, <3>2 DEF dep
      <4>   QED BY <2>2, <3>1, <3>2, <4>1 DEF OwnOutcome
    <3>3. CASE ~ (runs[e].app = a /\ as.lastDeployment.id = d)
      <4>1. apps'[runs[e].app] = apps[runs[e].app]
            BY <1>1, <3>1, <3>3
      <4>   QED BY <3>1, <4>1 DEF OwnOutcome, At
    <3>   QED BY <3>2, <3>3
  <2>3. CASE e # d /\ runs[e].pc # "unlock"
        BY <1>1, <2>3 DEF OwnOutcome, At
  <2>   QED BY <2>1, <2>2, <2>3
<1>5. (\A b \in App : NewestOf(b))' /\ (\A e \in DepId : OwnOutcome(e))'
      BY <1>3, <1>4
<1>   QED BY <1>5 DEF NewestIsRecorded, NewestOf, OwnOutcome

LEMMA QuietNewest ==
    ASSUME NewestIsRecorded, UNCHANGED apps, \A d \in DepId : Follows(d)
    PROVE  NewestIsRecorded'
<1>1. ASSUME NEW e \in DepId PROVE OwnOutcome(e)'
  <2>1. OwnOutcome(e) /\ Follows(e)
        BY NewestParts
  <2>   QED BY <2>1 DEF OwnOutcome, Follows, At
<1>2. ASSUME NEW b \in App PROVE NewestOf(b)'
      BY NewestParts DEF NewestOf
<1>3. (\A b \in App : NewestOf(b))' /\ (\A e \in DepId : OwnOutcome(e))'
      BY <1>1, <1>2
<1>   QED BY <1>3 DEF NewestIsRecorded, NewestOf, OwnOutcome

LEMMA NextNewest ==
    HostInv /\ RecordInv /\ NewestIsRecorded /\ [Next]_vars => NewestIsRecorded'
BY RecordSteps, TriggerNewest, FinishNewest, QuietNewest

-----------------------------------------------------------------------------
(* One deployment of an app at a time *)

\* What the record of a says of the only deployment of a that is going on,
\* and of the host once it has ended.
SerialFacts(a) ==
    LET as == apps[a]
    IN /\ \A d, e \in Live(a) : d = e
       /\ \A d \in Live(a) :
             /\ as.lastDeployment.id = d
             /\ runs[d].pc # "unlock" => as.syncState = "Progressing"
       /\ as.syncState = "Synced" =>
             /\ host[a].binary = as.currentVersion
             /\ host[a].running = as.currentVersion

SerialInv == \A a \in App : SerialFacts(a)

\* The facts of an app whose record, host and runs do not change.
LEMMA SerialSame ==
    ASSUME HostInv, NEW a \in App, SerialFacts(a), apps'[a] = apps[a],
           Live(a)' \subseteq Live(a),
           \A d \in Live(a)' : runs'[d] = runs[d],
           apps[a].syncState = "Synced" =>
              host'[a].binary = host[a].binary /\ host'[a].running = host[a].running
    PROVE  SerialFacts(a)'
BY DEF SerialFacts

\* A run that goes on, from the queue or from a stage, leaves the record at
\* Progressing, whatever it does to its host.
LEMMA SerialGoesOn ==
    ASSUME HostInv, SerialInv, NEW d \in DepId,
           runs[d].pc \in PC \ {"idle", "unlock"},
           runs'[d].pc \in PC \ {"idle", "unlock"},
           runs'[d].app = runs[d].app,
           \A e \in DepId : e # d => runs'[e] = runs[e],
           \A b \in App : b # runs[d].app => host'[b] = host[b],
           UNCHANGED apps
    PROVE  SerialInv'
<1> SUFFICES ASSUME NEW a \in App PROVE SerialFacts(a)'
    BY DEF SerialInv
<1>1. SerialFacts(a)
      BY DEF SerialInv
<1>2. Live(a)' = Live(a)
      BY DEF Live, Active
<1>3. CASE a = runs[d].app
  <2>1. d \in Live(a)
        BY <1>3 DEF Live, Active
  <2>2. Live(a) = {d} /\ apps[a].syncState = "Progressing"
        BY <1>1, <2>1 DEF SerialFacts
  <2>   QED BY <1>1, <1>2, <2>2 DEF SerialFacts
<1>4. CASE a # runs[d].app
  <2>1. d \notin Live(a)
        BY <1>4 DEF Live
  <2>2. \A e \in Live(a) : e \in DepId
        BY DEF Live
  <2>   QED BY <1>1, <1>2, <1>4, <2>1, <2>2, SerialSame
<1>   QED BY <1>3, <1>4

LEMMA SerialTrigger ==
    ASSUME OneAtATime', HostInv, SerialInv, NEW d \in DepId, Triggers(d)
    PROVE  SerialInv'
<1>1. PICK a \in App, v \in Version, why \in Reason : Trigger(a, v, why, d)
      BY DEF Triggers
<1>2. /\ runs[d].pc = "idle" /\ UNCHANGED host
      /\ runs'[d].pc = "queued" /\ runs'[d].app = a
      /\ \A e \in DepId : e # d => runs'[e] = runs[e]
      /\ \A b \in App : b # a => apps'[b] = apps[b]
      BY <1>1 DEF Trigger, Fresh, Active, Idle, HostInv, TypeOK
<1>3. ASSUME NEW e \in Live(a) PROVE FALSE
  <2>1. e \in DepId /\ e # d
        BY <1>2 DEF Live, Active
  <2>2. e \in Live(a)' /\ d \in Live(a)'
        BY <1>2, <2>1 DEF Live, Active
  <2>   QED BY <2>1, <2>2 DEF OneAtATime
<1>4. Live(a)' = {d}
      BY <1>2, <1>3 DEF Live, Active
<1>5. apps'[a].lastDeployment.id = d /\ apps'[a].syncState = "Progressing"
  <2>1. apps'[a] = StartDeployment(apps[a], d, v) /\ apps[a] \in AppState
        BY <1>1, RecordTypes DEF Trigger, HostInv, TypeOK
  <2>   QED BY <2>1 DEF StartDeployment, AppState
<1>6. ASSUME NEW b \in App, b = a PROVE SerialFacts(b)'
      BY <1>2, <1>4, <1>5, <1>6 DEF SerialFacts
<1>7. ASSUME NEW b \in App, b # a PROVE SerialFacts(b)'
  <2>1. Live(b)' = Live(b) /\ d \notin Live(b) /\ \A e \in Live(b) : e \in DepId
        BY <1>2, <1>7 DEF Live, Active
  <2>   QED BY <1>2, <1>7, <2>1, SerialSame DEF SerialInv
<1>   QED BY <1>6, <1>7 DEF SerialInv

LEMMA SerialFinish ==
    ASSUME HostInv, RecordInv, SerialInv, NEW d \in DepId, Finish(d)
    PROVE  SerialInv'
<1> DEFINE r == runs[d]
           dep == [id |-> d, version |-> r.version, status |-> r.finalStatus]
<1>1. /\ r.pc = "finish" /\ r.app \in App /\ UNCHANGED host
      /\ runs'[d].pc = "unlock"
      /\ runs'[d].app = r.app
      /\ runs'[d].version = r.version
      /\ runs'[d].finalStatus = r.finalStatus
      /\ \A e \in DepId : e # d => runs'[e] = runs[e]
      /\ \A b \in App : b # r.app => apps'[b] = apps[b]
      BY FinishFacts
<1>2. ASSUME NEW b \in App PROVE Live(b)' = Live(b)
      BY <1>1 DEF Live, Active
<1>3. d \in Live(r.app)
      BY <1>1 DEF Live, Active
<1>4. Live(r.app) = {d} /\ apps[r.app].lastDeployment.id = d
      BY <1>1, <1>3 DEF SerialInv, SerialFacts
<1>5. /\ apps'[r.app].lastDeployment = dep
      /\ r.finalStatus = "SUCCESS" => apps'[r.app].currentVersion = r.version
      /\ apps'[r.app].syncState = "Synced" => r.finalStatus = "SUCCESS"
      BY <1>4, FinishFacts
<1>6. ASSUME NEW b \in App, b = r.app PROVE SerialFacts(b)'
  <2>1. r.finalStatus = "SUCCESS" =>
           host[b].binary = r.version /\ host[b].running = r.version
        BY <1>1, <1>6, OwnFacts DEF StageFacts
  <2>2. dep.id = d /\ Live(b)' = {d}
        BY <1>2, <1>4, <1>6
  <2>3. apps'[b].lastDeployment = dep
        BY <1>5, <1>6
  <2> HIDE DEF dep
  <2>   QED BY <1>1, <1>5, <1>6, <2>1, <2>2, <2>3 DEF SerialFacts
<1>7. ASSUME NEW b \in App, b # r.app PROVE SerialFacts(b)'
  <2>1. d \notin Live(b) /\ \A e \in Live(b) : e \in DepId
        BY <1>1, <1>7 DEF Live
  <2>   QED BY <1>1, <1>2, <1>7, <2>1, SerialSame DEF SerialInv
<1>   QED BY <1>6, <1>7 DEF SerialInv

LEMMA SerialUnlock ==
    ASSUME HostInv, SerialInv, NEW d \in DepId, Unlock(d) PROVE SerialInv'
<1> SUFFICES ASSUME NEW a \in App PROVE SerialFacts(a)'
    BY DEF SerialInv
<1>1. /\ UNCHANGED <<apps, host>>
      /\ runs'[d].pc = "idle"
      /\ \A e \in DepId : e # d => runs'[e] = runs[e]
      BY DEF Unlock, Idle, HostInv, TypeOK
<1>2. Live(a)' \subseteq Live(a) /\ \A e \in Live(a)' : runs'[e] = runs[e]
      BY <1>1 DEF Live, Active
<1>   QED BY <1>1, <1>2, SerialSame DEF SerialInv

\* A crash that cuts a deployment short leaves its record at Progressing.
LEMMA SerialCrash ==
    ASSUME HostInv, SerialInv, Crash PROVE SerialInv'
<1> SUFFICES ASSUME NEW a \in App PROVE SerialFacts(a)'
    BY DEF SerialInv
<1>1. UNCHANGED apps /\ host'[a] \in CrashedHost(a) /\ Live(a)' = {}
      BY DEF Crash, Live, Active, Idle
<1>2. SerialFacts(a)
      BY DEF SerialInv
<1>3. ASSUME apps[a].syncState = "Synced"
      PROVE  host'[a].binary = host[a].binary /\ host'[a].running = host[a].running
  <2>1. CASE lock[a] = None
        BY <1>1, <2>1 DEF CrashedHost
  <2>2. CASE lock[a] # None
    <3>1. /\ lock[a] \in DepId /\ runs[lock[a]].app = a
          /\ runs[lock[a]].pc \in Holding
          BY <2>2 DEF HostInv, HostExclusive, TypeOK
    <3>2. lock[a] \in Live(a)
          BY <3>1 DEF Live, Active
    <3>3. runs[lock[a]].pc = "unlock"
          BY <1>2, <1>3, <3>2 DEF SerialFacts
    <3>4. host'[a] \in Leftovers(lock[a])
          BY <1>1, <2>2 DEF CrashedHost
    <3>   QED BY <3>1, <3>3, <3>4 DEF Leftovers
  <2>   QED BY <2>1, <2>2
<1>   QED BY <1>1, <1>2, <1>3, SerialSame

LEMMA NextSerialInv ==
    ASSUME OneAtATime', HostInv, RecordInv, SerialInv, [Next]_vars
    PROVE  SerialInv'
<1>1. ASSUME NEW d \in DepId, Accept(d) PROVE SerialInv'
      BY <1>1, AcceptTriggers, SerialTrigger
<1>2. ASSUME NEW d \in DepId, Acquire(d) PROVE SerialInv'
  <2>1. /\ runs[d].pc = "queued" /\ UNCHANGED <<apps, host>>
        /\ runs'[d].pc = "fetch" /\ runs'[d].app = runs[d].app
        /\ \A e \in DepId : e # d => runs'[e] = runs[e]
        BY <1>2 DEF Acquire, At, HostInv, TypeOK, Run
  <2>   QED BY <2>1, SerialGoesOn
<1>3. ASSUME NEW d \in DepId, Stage(d), ~ Finish(d), ~ Unlock(d) PROVE SerialInv'
  <2>1. PICK r : GoesOn(d, r)
        BY <1>3, StageGoesOn
  <2>2. UNCHANGED apps
        BY <1>3, StageGoesOn
  <2>3. \A b \in App : b # runs[d].app => host'[b] = host[b]
        BY <1>3, StageFiles DEF HostInv, TypeOK
  <2>4. /\ runs[d].pc \in PC \ {"idle", "unlock"}
        /\ runs'[d].pc \in PC \ {"idle", "unlock"}
        /\ runs'[d].app = runs[d].app
        /\ \A e \in DepId : e # d => runs'[e] = runs[e]
        BY <2>1 DEF GoesOn, HostInv, TypeOK
  <2>   QED BY <2>2, <2>3, <2>4, SerialGoesOn
<1>4. ASSUME NEW d \in DepId, Finish(d) \/ Unlock(d) PROVE SerialInv'
      BY <1>4, SerialFinish, SerialUnlock
<1>5. CASE Crash
      BY <1>5, SerialCrash
<1>6. CASE UNCHANGED vars
      BY <1>6 DEF vars, SerialInv, SerialFacts, Live, Active
<1>   QED BY <1>1, <1>2, <1>3, <1>4, <1>5, <1>6 DEF Next, EngineStep

-----------------------------------------------------------------------------
(* Theorems *)

\* The invariant of the records holds in every behaviour.
THEOREM RecordInvariant == Spec => []RecordInv
<1>1. Init => RecordInv
      BY InitRecordInv
<1>2. HostInv /\ RecordInv /\ [Next]_vars => RecordInv'
      BY NextRecordInv
<1>   QED BY <1>1, <1>2, HostInvariant, PTL DEF Spec

\* However deployments overlap, fail or are cut off by a crash, a deployment
\* is in the history at most once, with a final status, and only after its
\* run has passed FinishDeployment.
THEOREM HistoryOnce == Spec => []RecordedOnce
<1>1. RecordInv => RecordedOnce
      BY DEF RecordInv
<1>   QED BY <1>1, RecordInvariant, PTL

\* FinishDeployment, and nothing else, moves a deployment into the history,
\* and the trimming drops the oldest entry of a full history and no other.
THEOREM HistoryGrows == Spec => HistoryAppendOnly
<1>1. HostInv /\ RecordInv /\ [Next]_vars => \A a \in App : GrowsByLast(a)
      BY RecordStep
<1>2. HostInv /\ RecordInv /\ [Next]_vars =>
         [\A a \in App :
             LET h == apps[a].history
                 g == apps'[a].history
                 kept == IF Len(h) = MaxHist THEN Tail(h) ELSE h
                 last == apps'[a].lastDeployment
             IN IF last.status \in Final /\ apps[a].lastDeployment # last
                THEN g = Append(kept, last) ELSE g = h]_vars
      BY <1>1 DEF GrowsByLast
<1>   QED BY <1>2, HostInvariant, RecordInvariant, PTL DEF Spec, HistoryAppendOnly

\* A recorded outcome is not rewritten: only a new deployment replaces it.
THEOREM OutcomeKept == Spec => OutcomeIsFinal
<1>1. HostInv /\ RecordInv /\ [Next]_vars => \A a \in App : JudgedOnce(a)
      BY RecordStep
<1>2. HostInv /\ RecordInv /\ [Next]_vars =>
         [\A a \in App :
             LET last == apps[a].lastDeployment
                 next == apps'[a].lastDeployment
             IN last.status \in Final /\ next # last => next.status = "PENDING"]_vars
      BY <1>1 DEF JudgedOnce
<1>   QED BY <1>2, HostInvariant, RecordInvariant, PTL DEF Spec, OutcomeIsFinal

\* FinishDeployment moves the current version only to what is in place and
\* running on the host.
THEOREM CurrentInstalled == Spec => CurrentVersionIsInstalled
<1>1. HostInv /\ RecordInv /\ [Next]_vars => \A a \in App : CurrentInPlace(a)
      BY RecordStep
<1>2. HostInv /\ RecordInv /\ [Next]_vars =>
         [\A a \in App :
             apps'[a].currentVersion # apps[a].currentVersion =>
                /\ host[a].binary = apps'[a].currentVersion
                /\ host[a].running = apps'[a].currentVersion
                /\ apps'[a].lastDeployment.status = "SUCCESS"]_vars
      BY <1>1 DEF CurrentInPlace
<1>   QED BY <1>2, HostInvariant, RecordInvariant, PTL
          DEF Spec, CurrentVersionIsInstalled

\* If the process does not crash, a PENDING deployment has its run: nothing
\* but its own FinishDeployment or a newer Trigger ends that state.
THEOREM PendingRunner ==
    ASSUME "crash" \notin MayFail PROVE Spec => []PendingHasRunner
<1>1. Init => NoOrphan
  <2>1. NoDeployment.status # "PENDING"
        BY ZeroAssumption DEF NoDeployment, Status
  <2>   QED BY <2>1 DEF Init, NoAppState, NoOrphan
<1>2. HostInv /\ RecordInv /\ NoOrphan /\ [Next]_vars => NoOrphan'
      BY NextNoOrphan
<1>3. HostInv /\ RecordInv /\ NoOrphan => PendingHasRunner
  <2> SUFFICES ASSUME HostInv, RecordInv, NoOrphan, NEW a \in App,
                      apps[a].lastDeployment.status = "PENDING"
               PROVE  LET last == apps[a].lastDeployment
                      IN /\ runs[last.id].pc \in PC \ {"idle", "unlock"}
                         /\ runs[last.id].app = a
                         /\ runs[last.id].version = last.version
      BY DEF PendingHasRunner
  <2>1. apps[a].lastDeployment.id \in DepId
        BY RecordTypes DEF Deployment, Status
  <2>2. runs[apps[a].lastDeployment.id].pc \in PC
        BY <2>1 DEF HostInv, TypeOK, Run
  <2>3. RecordFacts(a)
        BY DEF RecordInv
  <2>   QED BY <2>2, <2>3 DEF NoOrphan, RecordFacts
<1>   QED BY <1>1, <1>2, <1>3, HostInvariant, RecordInvariant, PTL DEF Spec

\* Of the deployments that come to their end only the overtaken ones miss the
\* history: what the record shows as the final outcome of the last deployment
\* is what its run came to, and it is the newest entry of the history.
THEOREM NewestRecorded == Spec => []NewestIsRecorded
<1>   QED BY InitNewest, NextNewest, HostInvariant, RecordInvariant, PTL DEF Spec

\* In a behaviour in which no deployment overlaps another one of its app,
\* Synced is true of the host when none is going on, after any fault and any
\* crash. With overlapping ones it is not: see the run overtaken_synced.
THEOREM SyncedInstalled == Spec => SyncedWhenSerial
<1>1. Init => SerialInv
  <2> SUFFICES ASSUME Init, NEW a \in App PROVE SerialFacts(a)
      BY DEF SerialInv
  <2>1. Live(a) = {}
        BY DEF Init, Live, Active, Idle
  <2>2. apps[a].syncState # "Synced"
        BY ZeroAssumption DEF Init, NoAppState, SyncState
  <2>   QED BY <2>1, <2>2 DEF SerialFacts
<1>2. OneAtATime' /\ HostInv /\ RecordInv /\ SerialInv /\ [Next]_vars => SerialInv'
      BY NextSerialInv
<1>3. SerialInv => SyncedIsInstalled
      BY DEF SerialInv, SerialFacts, SyncedIsInstalled
<1>   QED BY <1>1, <1>2, <1>3, HostInvariant, RecordInvariant, PTL
          DEF Spec, SyncedWhenSerial
=============================================================================
