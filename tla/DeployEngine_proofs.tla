------------------------- MODULE DeployEngine_proofs -------------------------
(***************************************************************************)
(* Proofs about DeployEngine, for every set of apps, versions and ids, any *)
(* set of faults, any length of the history and any number of overlapping  *)
(* deployments.                                                            *)
(***************************************************************************)
EXTENDS DeployEngine, SequenceTheorems, TLAPS

\* the sets of stage names and of final statuses
USE DEF Final, PC, Holding, Working, LocalStage, HostStage

-----------------------------------------------------------------------------
(* What the operators of the store return *)

\* Trimming keeps a history a history.
LEMMA TrimmedType ==
    ASSUME NEW h \in Seq(Deployment)
    PROVE  Trimmed(h) \in Seq(Deployment)
<1>1. CASE Len(h) > MaxHist
  <2>1. /\ Len(h) - MaxHist + 1 \in 1..Len(h) + 1
        /\ Len(h) \in Len(h) - MaxHist..Len(h)
        BY <1>1, LenProperties, ConstantsAssumption
  <2>2. SubSeq(h, Len(h) - MaxHist + 1, Len(h)) \in Seq(Deployment)
        BY <2>1, SubSeqProperties
  <2>   QED BY <1>1, <2>2 DEF Trimmed
<1>2. CASE ~ (Len(h) > MaxHist)
      BY <1>2 DEF Trimmed
<1>   QED BY <1>1, <1>2

\* StartDeployment and FinishDeployment turn an AppState into an AppState.
LEMMA StartType ==
    ASSUME NEW as \in AppState, NEW d \in DepId, NEW v \in Version
    PROVE  StartDeployment(as, d, v) \in AppState
BY DEF StartDeployment, AppState, SyncState, Deployment, Status

LEMMA FinishType ==
    ASSUME NEW as \in AppState, NEW d \in DepId, NEW s \in Final
    PROVE  FinishDeployment(as, d, s) \in AppState
<1>1. CASE as.lastDeployment.id # d
      BY <1>1 DEF FinishDeployment
<1>2. CASE as.lastDeployment.id = d
  <2> DEFINE dep == [as.lastDeployment EXCEPT !.status = s]
  <2>1. as.lastDeployment \in Deployment
    <3>1. as.lastDeployment \in Deployment \cup {NoDeployment}
          BY DEF AppState
    <3>2. NoDeployment.id = None
          BY DEF NoDeployment
    <3>3. None \notin DepId
          BY SentinelAssumption
    <3>   QED BY <1>2, <3>1, <3>2, <3>3
  <2>2. dep \in Deployment /\ dep.version \in Version
        BY <2>1 DEF Deployment, Status
  <2>3. as.history \in Seq(Deployment) /\ Append(as.history, dep) \in Seq(Deployment)
        BY <2>2, AppendProperties DEF AppState
  <2>4. Trimmed(Append(as.history, dep)) \in Seq(Deployment)
        BY <2>3, TrimmedType
  <2> HIDE DEF dep
  <2>   QED BY <1>2, <2>2, <2>4 DEF FinishDeployment, AppState, SyncState, dep
<1>   QED BY <1>1, <1>2

-----------------------------------------------------------------------------
(* A stage changes its own run and its own host only *)

\* If the holder d of the mutex of a replaces its run by r and the host of a
\* by h, and the facts hold of r and h, the invariant holds afterwards: the
\* other runs that have started work on other hosts.
LEMMA OwnStep ==
    ASSUME HostInv,
           NEW d \in DepId, runs[d].pc \in Holding,
           NEW r \in Run, NEW h \in HostState,
           r.app = runs[d].app, r.pc \in Holding, StageFacts(r, h),
           runs' = [runs EXCEPT ![d] = r],
           host' = [host EXCEPT ![runs[d].app] = h],
           lock' = lock,
           apps' \in [App -> AppState]
    PROVE  HostInv'
<1> DEFINE a == runs[d].app
<1>1. a \in App /\ lock[a] = d
      BY DEF HostInv, HostExclusive, StageFacts
<1>2. runs'[d] = r /\ \A e \in DepId \ {d} : runs'[e] = runs[e]
      BY DEF HostInv, TypeOK
<1>3. host'[a] = h /\ \A b \in App \ {a} : host'[b] = host[b]
      BY <1>1 DEF HostInv, TypeOK
<1>4. TypeOK'
      BY <1>1 DEF HostInv, TypeOK
<1>5. HostExclusive'
      BY <1>1, <1>2 DEF HostInv, HostExclusive
<1>6. ASSUME NEW e \in DepId PROVE StageFacts(runs[e], host[runs[e].app])'
  <2>1. CASE e = d
        BY <2>1, <1>2, <1>3
  <2>2. CASE e # d /\ runs[e].pc \in Holding
    <3>1. runs[e].app \in App \ {a}
          BY <2>2, <1>1 DEF HostInv, HostExclusive, StageFacts
    <3>   QED BY <2>2, <3>1, <1>2, <1>3 DEF HostInv
  <2>3. CASE e # d /\ runs[e].pc \notin Holding
        BY <2>3, <1>2 DEF HostInv, StageFacts
  <2>   QED BY <2>1, <2>2, <2>3
<1>   QED BY <1>4, <1>5, <1>6 DEF HostInv

\* What a run at work knows of its own record and host.
LEMMA OwnFacts ==
    ASSUME HostInv, NEW d \in DepId, runs[d].pc # "idle"
    PROVE  /\ runs[d] \in Run
           /\ runs[d].app \in App
           /\ runs[d].version \in Version
           /\ host[runs[d].app] \in HostState
           /\ StageFacts(runs[d], host[runs[d].app])
BY DEF HostInv, TypeOK, StageFacts

\* A stage that goes on at pc s with the result f and leaves the host alone.
LEMMA LocalStep ==
    ASSUME HostInv,
           NEW d \in DepId, runs[d].pc \in Holding,
           NEW s \in Holding, NEW f \in Final,
           StageFacts([runs[d] EXCEPT !.pc = s, !.finalStatus = f],
                      host[runs[d].app]),
           runs' = [runs EXCEPT ![d].finalStatus = f, ![d].pc = s],
           UNCHANGED <<lock, host>>,
           apps' \in [App -> AppState]
    PROVE  HostInv'
<1> DEFINE r == [runs[d] EXCEPT !.pc = s, !.finalStatus = f]
<1>1. runs[d] \in Run /\ runs[d].app \in App /\ host[runs[d].app] \in HostState
      BY OwnFacts
<1>2. s \in PC /\ f \in Final \cup {None}
      OBVIOUS
<1>3. r \in Run /\ r.app = runs[d].app /\ r.pc = s
  <2>1. r = [[runs[d] EXCEPT !.finalStatus = f] EXCEPT !.pc = s]
        BY <1>1 DEF Run
  <2>2. [runs[d] EXCEPT !.finalStatus = f] \in Run
        BY <1>1, <1>2 DEF Run
  <2>3. r \in Run
        BY <1>2, <2>1, <2>2 DEF Run
  <2>4. r.app = runs[d].app
        BY <1>1 DEF Run
  <2>5. r.pc = s
        BY <1>1 DEF Run
  <2>   QED BY <2>3, <2>4, <2>5
<1>4. runs' = [runs EXCEPT ![d] = r]
      BY DEF HostInv, TypeOK
<1>5. host' = [host EXCEPT ![runs[d].app] = host[runs[d].app]]
      BY <1>1 DEF HostInv, TypeOK
<1>6. StageFacts(r, host[runs[d].app])
      OBVIOUS
<1>7. lock' = lock /\ r.pc \in Holding
      BY <1>3
<1> HIDE DEF r
<1>   QED BY <1>1, <1>3, <1>4, <1>5, <1>6, <1>7, OwnStep

\* A command that fails leaves the host in a state of its kind.
LEMMA LeftoversType ==
    ASSUME HostInv, NEW d \in DepId, runs[d].pc # "idle", NEW h \in Leftovers(d)
    PROVE  h \in HostState
<1>1. /\ runs[d] \in Run
      /\ runs[d].version \in Version
      /\ host[runs[d].app] \in HostState
      BY OwnFacts
<1>2. runs[d].backup \in Content /\ runs[d].version \in Content
      BY <1>1 DEF Run, Content
<1>3. host[runs[d].app].binary \in Content /\ host[runs[d].app].running \in Content
      BY <1>1 DEF HostState
<1>4. None \in Content /\ Partial \in Content
      BY DEF Content
<1>   QED BY <1>2, <1>3, <1>4 DEF Leftovers, HostState

\* A failing command of d: the facts of the next stage follow from those of
\* every host it may leave behind.
LEMMA BreakStep ==
    ASSUME HostInv,
           NEW d \in DepId, runs[d].pc \in Holding, NEW s \in Holding,
           \A h \in Leftovers(d) : StageFacts([runs[d] EXCEPT !.pc = s], h),
           Breaks(d, s), UNCHANGED <<apps, lock>>
    PROVE  HostInv'
<1> DEFINE r == [runs[d] EXCEPT !.pc = s]
<1>1. runs[d] \in Run
      BY OwnFacts
<1>2. r \in Run /\ r.app = runs[d].app /\ r.pc = s
      BY <1>1 DEF Run
<1>3. runs' = [runs EXCEPT ![d] = r]
      BY DEF HostInv, TypeOK, Breaks, Goto
<1>4. PICK h \in Leftovers(d) : host' = [host EXCEPT ![runs[d].app] = h]
      BY DEF Breaks
<1>5. h \in HostState /\ apps' \in [App -> AppState]
      BY LeftoversType DEF HostInv, TypeOK
<1>   QED BY <1>2, <1>3, <1>4, <1>5, OwnStep

\* A stage that goes on at pc s and leaves result and host alone.
LEMMA GotoStep ==
    ASSUME HostInv,
           NEW d \in DepId, runs[d].pc \in Holding, NEW s \in Holding,
           StageFacts([runs[d] EXCEPT !.pc = s], host[runs[d].app]),
           Goto(d, s), UNCHANGED <<lock, host>>,
           apps' \in [App -> AppState]
    PROVE  HostInv'
<1> DEFINE r == [runs[d] EXCEPT !.pc = s]
<1>1. runs[d] \in Run /\ runs[d].app \in App /\ host[runs[d].app] \in HostState
      BY OwnFacts
<1>2. r \in Run /\ r.app = runs[d].app /\ r.pc \in Holding
      BY <1>1 DEF Run
<1>3. runs' = [runs EXCEPT ![d] = r]
      BY DEF HostInv, TypeOK, Goto
<1>4. host' = [host EXCEPT ![runs[d].app] = host[runs[d].app]]
      BY <1>1 DEF HostInv, TypeOK
<1>5. StageFacts(r, host[runs[d].app]) /\ lock' = lock
      OBVIOUS
<1> HIDE DEF r
<1>   QED BY <1>1, <1>2, <1>3, <1>4, <1>5, OwnStep

-----------------------------------------------------------------------------
(* The stages, one lemma each *)

LEMMA FetchStep ==
    ASSUME HostInv, NEW d \in DepId, Fetch(d) PROVE HostInv'
<1>1. /\ runs[d].pc = "fetch" /\ UNCHANGED <<lock, host>>
      /\ Goto(d, "verify") \/ Goto(d, "finish")
      /\ apps' \in [App -> AppState]
      BY DEF Fetch, At, HostInv, TypeOK
<1>2. runs[d] \in Run /\ StageFacts(runs[d], host[runs[d].app])
      BY <1>1, OwnFacts
<1>3. \A s \in {"verify", "finish"} :
         StageFacts([runs[d] EXCEPT !.pc = s], host[runs[d].app])
      BY <1>1, <1>2 DEF StageFacts, Run
<1>   QED BY <1>1, <1>3, GotoStep

LEMMA VerifyStep ==
    ASSUME HostInv, NEW d \in DepId, Verify(d) PROVE HostInv'
<1>1. /\ runs[d].pc = "verify" /\ UNCHANGED <<lock, host>>
      /\ apps' \in [App -> AppState]
      BY DEF Verify, At, HostInv, TypeOK
<1>2. runs[d] \in Run /\ StageFacts(runs[d], host[runs[d].app])
      BY <1>1, OwnFacts
<1>3. CASE /\ runs[d].app \in HasKey => runs[d].version \in Signed
           /\ Goto(d, "ssh")
  <2>1. StageFacts([runs[d] EXCEPT !.pc = "ssh"], host[runs[d].app])
        BY <1>1, <1>2, <1>3 DEF StageFacts, Run
  <2>   QED BY <1>1, <1>3, <2>1, GotoStep
<1>4. CASE Goto(d, "finish")
  <2>1. StageFacts([runs[d] EXCEPT !.pc = "finish"], host[runs[d].app])
        BY <1>1, <1>2 DEF StageFacts, Run
  <2>   QED BY <1>1, <1>4, <2>1, GotoStep
<1>   QED BY <1>3, <1>4 DEF Verify

LEMMA PrepareSSHStep ==
    ASSUME HostInv, NEW d \in DepId, PrepareSSH(d) PROVE HostInv'
<1>1. /\ runs[d].pc = "ssh" /\ UNCHANGED <<lock, host>>
      /\ Goto(d, "backup") \/ Goto(d, "finish")
      /\ apps' \in [App -> AppState]
      BY DEF PrepareSSH, At, HostInv, TypeOK
<1>2. runs[d] \in Run /\ StageFacts(runs[d], host[runs[d].app])
      BY <1>1, OwnFacts
<1>3. \A s \in {"backup", "finish"} :
         StageFacts([runs[d] EXCEPT !.pc = s], host[runs[d].app])
      BY <1>1, <1>2 DEF StageFacts, Run
<1>   QED BY <1>1, <1>3, GotoStep

\* The new binary of a host and the new record of the run that set it.
LEMMA BinaryStep ==
    ASSUME HostInv,
           NEW d \in DepId, runs[d].pc \in Holding,
           NEW c \in Content, NEW r \in Run,
           r.app = runs[d].app, r.pc \in Holding,
           StageFacts(r, [host[runs[d].app] EXCEPT !.binary = c]),
           runs' = [runs EXCEPT ![d] = r],
           SetBinary(runs[d].app, c), UNCHANGED <<apps, lock>>
    PROVE  HostInv'
<1> DEFINE h == [host[runs[d].app] EXCEPT !.binary = c]
<1>1. runs[d].app \in App /\ host[runs[d].app] \in HostState
      BY OwnFacts
<1>2. h \in HostState
      BY <1>1 DEF HostState
<1>3. host' = [host EXCEPT ![runs[d].app] = h]
      BY <1>1 DEF HostInv, TypeOK, SetBinary
<1>4. StageFacts(r, h) /\ lock' = lock /\ apps' \in [App -> AppState]
      BY DEF HostInv, TypeOK
<1> HIDE DEF h
<1>   QED BY <1>2, <1>3, <1>4, OwnStep

LEMMA BackupStep ==
    ASSUME HostInv, NEW d \in DepId, Backup(d) PROVE HostInv'
<1> DEFINE h == host[runs[d].app]
<1>1. runs[d].pc = "backup" /\ UNCHANGED <<apps, lock>>
      BY DEF Backup, At
<1>2. /\ runs[d] \in Run /\ h \in HostState /\ StageFacts(runs[d], h)
      /\ runs[d].pc \in Holding
      BY <1>1, OwnFacts
<1>3. CASE /\ SetBinary(runs[d].app, None)
           /\ runs' = [runs EXCEPT ![d].pc = "upload", ![d].backup = h.binary]
  <2> DEFINE r == [runs[d] EXCEPT !.pc = "upload", !.backup = h.binary]
  <2>1. h.binary \in Content /\ None \in Content
        BY <1>2 DEF HostState, Content
  <2>2. r \in Run /\ r.app = runs[d].app /\ r.pc \in Holding
        BY <1>2, <2>1 DEF Run
  <2>3. StageFacts(r, [h EXCEPT !.binary = None])
        BY <1>1, <1>2 DEF StageFacts, Run, HostState
  <2>4. runs' = [runs EXCEPT ![d] = r]
        BY <1>3 DEF HostInv, TypeOK
  <2> HIDE DEF r
  <2>   QED BY <1>1, <1>2, <1>3, <2>1, <2>2, <2>3, <2>4, BinaryStep
<1>4. CASE Breaks(d, "finish")
  <2>1. \A g \in Leftovers(d) : StageFacts([runs[d] EXCEPT !.pc = "finish"], g)
        BY <1>1, <1>2 DEF Leftovers, StageFacts, Run, HostState
  <2>   QED BY <1>1, <1>2, <1>4, <2>1, BreakStep
<1>   QED BY <1>3, <1>4 DEF Backup

LEMMA UploadStep ==
    ASSUME HostInv, NEW d \in DepId, Upload(d) PROVE HostInv'
<1> DEFINE h == host[runs[d].app]
<1>1. runs[d].pc = "upload" /\ UNCHANGED <<apps, lock>>
      BY DEF Upload, At
<1>2. /\ runs[d] \in Run /\ h \in HostState /\ StageFacts(runs[d], h)
      /\ runs[d].pc \in Holding /\ runs[d].version \in Version
      BY <1>1, OwnFacts
<1>3. CASE SetBinary(runs[d].app, runs[d].version) /\ Goto(d, "restart")
  <2> DEFINE r == [runs[d] EXCEPT !.pc = "restart"]
  <2>1. runs[d].version \in Content
        BY <1>2 DEF Content
  <2>2. r \in Run /\ r.app = runs[d].app /\ r.pc \in Holding
        BY <1>2 DEF Run
  <2>3. StageFacts(r, [h EXCEPT !.binary = runs[d].version])
        BY <1>1, <1>2 DEF StageFacts, Run, HostState
  <2>4. runs' = [runs EXCEPT ![d] = r]
        BY <1>3 DEF HostInv, TypeOK, Goto
  <2> HIDE DEF r
  <2>   QED BY <1>1, <1>2, <1>3, <2>1, <2>2, <2>3, <2>4, BinaryStep
<1>4. CASE Breaks(d, "restore")
  <2>1. \A g \in Leftovers(d) : StageFacts([runs[d] EXCEPT !.pc = "restore"], g)
        BY <1>1, <1>2 DEF Leftovers, StageFacts, Run, HostState
  <2>   QED BY <1>1, <1>2, <1>4, <2>1, BreakStep
<1>   QED BY <1>3, <1>4 DEF Upload

LEMMA RestartStep ==
    ASSUME HostInv, NEW d \in DepId, Restart(d) PROVE HostInv'
<1> DEFINE a == runs[d].app
           h == host[a]
           g == [h EXCEPT !.running = h.binary]
<1>1. runs[d].pc = "restart" /\ UNCHANGED <<apps, lock>>
      BY DEF Restart, At
<1>2. /\ runs[d] \in Run /\ h \in HostState /\ StageFacts(runs[d], h)
      /\ runs[d].pc \in Holding /\ a \in App
      BY <1>1, OwnFacts
<1>3. CASE /\ host' = [host EXCEPT ![a].running = h.binary]
           /\ IF a \in HasHealthCheck
              THEN Goto(d, "health") ELSE Conclude(d, "SUCCESS", "prune")
  <2>1. host' = [host EXCEPT ![a] = g] /\ g \in HostState
        BY <1>2, <1>3 DEF HostInv, TypeOK, HostState
  <2>2. CASE a \in HasHealthCheck /\ Goto(d, "health")
    <3> DEFINE r == [runs[d] EXCEPT !.pc = "health"]
    <3>1. r \in Run /\ r.app = a /\ r.pc \in Holding
          BY <1>2 DEF Run
    <3>2. StageFacts(r, g)
          BY <1>1, <1>2 DEF StageFacts, Run, HostState
    <3>3. runs' = [runs EXCEPT ![d] = r]
          BY <2>2 DEF HostInv, TypeOK, Goto
    <3> HIDE DEF r, g
    <3>   QED BY <1>1, <1>2, <2>1, <3>1, <3>2, <3>3, OwnStep DEF HostInv, TypeOK
  <2>3. CASE a \notin HasHealthCheck /\ Conclude(d, "SUCCESS", "prune")
    <3> DEFINE r == [runs[d] EXCEPT !.finalStatus = "SUCCESS", !.pc = "prune"]
    <3>1. r \in Run /\ r.app = a /\ r.pc \in Holding
          BY <1>2 DEF Run
    <3>2. StageFacts(r, g)
          BY <1>1, <1>2, <2>3 DEF StageFacts, Run, HostState
    <3>3. runs' = [runs EXCEPT ![d] = r]
          BY <2>3 DEF HostInv, TypeOK, Conclude
    <3> HIDE DEF r, g
    <3>   QED BY <1>1, <1>2, <2>1, <3>1, <3>2, <3>3, OwnStep DEF HostInv, TypeOK
  <2>   QED BY <1>3, <2>2, <2>3
<1>4. CASE Breaks(d, "restore")
  <2>1. \A x \in Leftovers(d) : StageFacts([runs[d] EXCEPT !.pc = "restore"], x)
        BY <1>1, <1>2 DEF Leftovers, StageFacts, Run, HostState
  <2>   QED BY <1>1, <1>2, <1>4, <2>1, BreakStep
<1>   QED BY <1>3, <1>4 DEF Restart

LEMMA HealthCheckStep ==
    ASSUME HostInv, NEW d \in DepId, HealthCheck(d) PROVE HostInv'
<1> DEFINE a == runs[d].app
           h == host[a]
<1>1. /\ runs[d].pc = "health" /\ UNCHANGED <<lock, host>>
      /\ apps' \in [App -> AppState]
      BY DEF HealthCheck, At, HostInv, TypeOK
<1>2. runs[d] \in Run /\ StageFacts(runs[d], h) /\ runs[d].pc \in Holding
      BY <1>1, OwnFacts
<1>3. CASE h.running \in Healthy /\ Conclude(d, "SUCCESS", "prune")
  <2>1. StageFacts([runs[d] EXCEPT !.pc = "prune", !.finalStatus = "SUCCESS"], h)
        BY <1>1, <1>2, <1>3 DEF StageFacts, Run
  <2>2. runs' = [runs EXCEPT ![d].finalStatus = "SUCCESS", ![d].pc = "prune"]
        BY <1>3 DEF Conclude
  <2>3. "prune" \in Holding /\ "SUCCESS" \in Final
        OBVIOUS
  <2>   QED BY <1>1, <1>2, <2>1, <2>2, <2>3, LocalStep
<1>4. CASE Goto(d, IF a \in AutoRollback THEN "rollback" ELSE "finish")
  <2>1. \A s \in {"rollback", "finish"} : StageFacts([runs[d] EXCEPT !.pc = s], h)
        BY <1>1, <1>2 DEF StageFacts, Run
  <2>2. Goto(d, "rollback") \/ Goto(d, "finish")
        BY <1>4
  <2>   QED BY <1>1, <1>2, <2>1, <2>2, GotoStep
<1>   QED BY <1>3, <1>4 DEF HealthCheck

\* The file in the backup is the one the run found.
LEMMA MoveBackStep ==
    ASSUME HostInv, NEW d \in DepId,
           runs[d].pc \in {"restore", "rollback"}, runs[d].backup # None,
           NEW s \in {"finish", "rerestart"},
           MoveBack(d, s), UNCHANGED <<apps, lock>>
    PROVE  HostInv'
<1> DEFINE h == host[runs[d].app]
           r == [runs[d] EXCEPT !.pc = s, !.backup = None]
<1>1. /\ runs[d] \in Run /\ h \in HostState /\ StageFacts(runs[d], h)
      /\ runs[d].pc \in Holding
      BY OwnFacts
<1>2. runs[d].backup \in Content /\ None \in Content
      BY <1>1 DEF Run, Content
<1>3. r \in Run /\ r.app = runs[d].app /\ r.pc \in Holding
      BY <1>1, <1>2 DEF Run
<1>4. StageFacts(r, [h EXCEPT !.binary = runs[d].backup])
      BY <1>1 DEF StageFacts, Run, HostState
<1>5. runs' = [runs EXCEPT ![d] = r]
      BY DEF HostInv, TypeOK, MoveBack
<1>6. SetBinary(runs[d].app, runs[d].backup)
      BY DEF MoveBack
<1> HIDE DEF r
<1>   QED BY <1>1, <1>2, <1>3, <1>4, <1>5, <1>6, BinaryStep

LEMMA AttemptRestoreStep ==
    ASSUME HostInv, NEW d \in DepId, AttemptRestore(d) PROVE HostInv'
<1> DEFINE h == host[runs[d].app]
<1>1. runs[d].pc = "restore" /\ UNCHANGED <<apps, lock>>
      BY DEF AttemptRestore, At
<1>2. runs[d] \in Run /\ StageFacts(runs[d], h) /\ runs[d].pc \in Holding
      BY <1>1, OwnFacts
<1>3. CASE runs[d].backup # None /\ MoveBack(d, "finish")
      BY <1>1, <1>3, MoveBackStep
<1>4. CASE Goto(d, "finish") /\ UNCHANGED host
  <2>1. StageFacts([runs[d] EXCEPT !.pc = "finish"], h)
        BY <1>1, <1>2 DEF StageFacts, Run
  <2>2. apps' \in [App -> AppState] /\ UNCHANGED <<lock, host>> /\ "finish" \in Holding
        BY <1>1, <1>4 DEF HostInv, TypeOK
  <2>   QED BY <1>2, <1>4, <2>1, <2>2, GotoStep
<1>5. CASE Breaks(d, "finish")
  <2>1. \A x \in Leftovers(d) : StageFacts([runs[d] EXCEPT !.pc = "finish"], x)
        BY <1>1, <1>2 DEF Leftovers, StageFacts, Run, HostState
  <2>   QED BY <1>1, <1>2, <1>5, <2>1, BreakStep
<1>   QED BY <1>3, <1>4, <1>5 DEF AttemptRestore

LEMMA RollbackStep ==
    ASSUME HostInv, NEW d \in DepId, Rollback(d) PROVE HostInv'
<1> DEFINE h == host[runs[d].app]
<1>1. runs[d].pc = "rollback" /\ UNCHANGED <<apps, lock>>
      BY DEF Rollback, At
<1>2. runs[d] \in Run /\ StageFacts(runs[d], h) /\ runs[d].pc \in Holding
      BY <1>1, OwnFacts
<1>3. CASE runs[d].backup # None /\ MoveBack(d, "rerestart")
      BY <1>1, <1>3, MoveBackStep
<1>4. CASE Breaks(d, "finish")
  <2>1. \A x \in Leftovers(d) : StageFacts([runs[d] EXCEPT !.pc = "finish"], x)
        BY <1>1, <1>2 DEF Leftovers, StageFacts, Run, HostState
  <2>   QED BY <1>1, <1>2, <1>4, <2>1, BreakStep
<1>   QED BY <1>3, <1>4 DEF Rollback

LEMMA RerestartStep ==
    ASSUME HostInv, NEW d \in DepId, Rerestart(d) PROVE HostInv'
<1> DEFINE a == runs[d].app
           h == host[a]
           r == [runs[d] EXCEPT !.finalStatus = "ROLLED_BACK", !.pc = "finish"]
<1>1. runs[d].pc = "rerestart" /\ UNCHANGED <<apps, lock>>
      BY DEF Rerestart, At
<1>2. /\ runs[d] \in Run /\ h \in HostState /\ StageFacts(runs[d], h)
      /\ runs[d].pc \in Holding /\ a \in App
      BY <1>1, OwnFacts
<1>3. PICK g \in HostState : g.binary = h.binary /\ host' = [host EXCEPT ![a] = g]
  <2>1. CASE host' = [host EXCEPT ![a].running = h.binary]
    <3>1. host' = [host EXCEPT ![a] = [h EXCEPT !.running = h.binary]]
          BY <1>2, <2>1 DEF HostInv, TypeOK
    <3>   QED BY <1>2, <3>1 DEF HostState
  <2>2. CASE \E g \in Leftovers(d) : host' = [host EXCEPT ![a] = g]
    <3>1. \A g \in Leftovers(d) : g.binary = h.binary /\ g \in HostState
          BY <1>1, LeftoversType DEF Leftovers
    <3>   QED BY <2>2, <3>1
  <2>   QED BY <2>1, <2>2 DEF Rerestart
<1>4. r \in Run /\ r.app = a /\ r.pc \in Holding
      BY <1>2 DEF Run
<1>5. StageFacts(r, g)
      BY <1>1, <1>2, <1>3 DEF StageFacts, Run
<1>6. runs' = [runs EXCEPT ![d] = r]
      BY DEF HostInv, TypeOK, Rerestart, Conclude
<1> HIDE DEF r
<1>   QED BY <1>1, <1>2, <1>3, <1>4, <1>5, <1>6, OwnStep DEF HostInv, TypeOK

LEMMA PruneStep ==
    ASSUME HostInv, NEW d \in DepId, Prune(d) PROVE HostInv'
<1>1. /\ runs[d].pc = "prune" /\ UNCHANGED <<lock, host>> /\ Goto(d, "finish")
      /\ apps' \in [App -> AppState]
      BY DEF Prune, At, HostInv, TypeOK
<1>2. runs[d] \in Run /\ StageFacts(runs[d], host[runs[d].app])
      BY <1>1, OwnFacts
<1>3. StageFacts([runs[d] EXCEPT !.pc = "finish"], host[runs[d].app])
      BY <1>1, <1>2 DEF StageFacts, Run
<1>   QED BY <1>1, <1>3, GotoStep

LEMMA PanicStep ==
    ASSUME HostInv, NEW d \in DepId, Panic(d) PROVE HostInv'
<1>1. /\ runs[d].pc \in Working /\ UNCHANGED <<lock, host>>
      /\ runs' = [runs EXCEPT ![d].finalStatus = "FAILED", ![d].pc = "finish"]
      /\ apps' \in [App -> AppState]
      BY DEF Panic, Conclude, HostInv, TypeOK
<1>2. runs[d] \in Run /\ StageFacts(runs[d], host[runs[d].app])
      BY <1>1, OwnFacts
<1>3. StageFacts([runs[d] EXCEPT !.pc = "finish", !.finalStatus = "FAILED"],
                 host[runs[d].app])
      BY <1>1, <1>2 DEF StageFacts, Run
<1>4. "finish" \in Holding /\ "FAILED" \in Final /\ runs[d].pc \in Holding
      BY <1>1
<1>   QED BY <1>1, <1>3, <1>4, LocalStep

LEMMA FinishStep ==
    ASSUME HostInv, NEW d \in DepId, Finish(d) PROVE HostInv'
<1> DEFINE r == runs[d]
<1>1. r.pc = "finish" /\ UNCHANGED <<lock, host>> /\ Goto(d, "unlock")
      BY DEF Finish, At
<1>2. r \in Run /\ r.app \in App /\ StageFacts(r, host[r.app])
      BY <1>1, OwnFacts
<1>3. apps[r.app] \in AppState /\ r.finalStatus \in Final
      BY <1>1, <1>2 DEF HostInv, TypeOK, StageFacts
<1>4. FinishDeployment(apps[r.app], d, r.finalStatus) \in AppState
      BY <1>3, FinishType
<1>5. apps' \in [App -> AppState]
      BY <1>2, <1>4 DEF HostInv, TypeOK, Finish
<1>6. StageFacts([r EXCEPT !.pc = "unlock"], host[r.app])
      BY <1>1, <1>2 DEF StageFacts, Run
<1>   QED BY <1>1, <1>5, <1>6, GotoStep

LEMMA StageStep ==
    ASSUME HostInv, NEW d \in DepId, Stage(d), ~ Unlock(d) PROVE HostInv'
BY FetchStep, VerifyStep, PrepareSSHStep, BackupStep, UploadStep, RestartStep,
   HealthCheckStep, AttemptRestoreStep, RollbackStep, RerestartStep, PruneStep,
   PanicStep, FinishStep DEF Stage

-----------------------------------------------------------------------------
(* Taking and leaving the mutex, new deployments, crashes *)

LEMMA UnlockStep ==
    ASSUME HostInv, NEW d \in DepId, Unlock(d) PROVE HostInv'
<1> DEFINE a == runs[d].app
<1>1. /\ runs[d].pc = "unlock" /\ UNCHANGED <<apps, host>>
      /\ lock' = [lock EXCEPT ![a] = None]
      /\ runs' = [runs EXCEPT ![d] = Idle]
      BY DEF Unlock, At
<1>2. a \in App /\ lock[a] = d
      BY <1>1, OwnFacts DEF HostInv, HostExclusive
<1>3. Idle \in Run /\ Idle.pc = "idle"
      BY DEF Idle, Run, Content
<1>4. TypeOK'
      BY <1>1, <1>3 DEF HostInv, TypeOK
<1>5. runs'[d] = Idle /\ \A e \in DepId \ {d} : runs'[e] = runs[e]
      BY <1>1 DEF HostInv, TypeOK
<1>6. lock'[a] = None /\ \A b \in App \ {a} : lock'[b] = lock[b]
      BY <1>1, <1>2 DEF HostInv, TypeOK
<1>7. HostExclusive'
  <2>1. ASSUME NEW e \in DepId, runs'[e].pc \in Holding
        PROVE  lock'[runs'[e].app] = e
    <3>1. e # d /\ runs'[e] = runs[e]
          BY <2>1, <1>3, <1>5
    <3>2. runs[e].app \in App /\ lock[runs[e].app] = e
          BY <2>1, <3>1, OwnFacts DEF HostInv, HostExclusive
    <3>   QED BY <3>1, <3>2, <1>2, <1>6
  <2>2. ASSUME NEW b \in App, lock'[b] # None
        PROVE  runs'[lock'[b]].app = b /\ runs'[lock'[b]].pc \in Holding
    <3>1. b # a /\ lock'[b] = lock[b]
          BY <2>2, <1>6
    <3>2. /\ lock[b] \in DepId
          /\ runs[lock[b]].app = b /\ runs[lock[b]].pc \in Holding
          BY <2>2, <3>1 DEF HostInv, HostExclusive, TypeOK
    <3>   QED BY <3>1, <3>2, <1>5
  <2>   QED BY <2>1, <2>2 DEF HostExclusive
<1>8. \A e \in DepId : StageFacts(runs[e], host[runs[e].app])'
  <2>1. \A h : StageFacts(Idle, h)
        BY DEF StageFacts, Idle
  <2>   QED BY <2>1, <1>1, <1>5 DEF HostInv
<1>   QED BY <1>4, <1>7, <1>8 DEF HostInv

LEMMA AcquireStep ==
    ASSUME HostInv, NEW d \in DepId, Acquire(d) PROVE HostInv'
<1> DEFINE a == runs[d].app
           r == [runs[d] EXCEPT !.pc = "fetch", !.finalStatus = "FAILED",
                                !.prev = host[a].binary]
<1>1. /\ runs[d].pc = "queued" /\ lock[a] = None /\ UNCHANGED <<apps, host>>
      /\ lock' = [lock EXCEPT ![a] = d]
      BY DEF Acquire, At
<1>2. /\ runs[d] \in Run /\ a \in App /\ host[a] \in HostState
      /\ StageFacts(runs[d], host[a])
      BY <1>1, OwnFacts
<1>3. host[a].binary \in Content
      BY <1>2 DEF HostState
<1>4. r \in Run /\ r.app = a /\ r.pc = "fetch"
      BY <1>2, <1>3 DEF Run
<1>5. StageFacts(r, host[a])
      BY <1>1, <1>2 DEF StageFacts, Run
<1>6. runs' = [runs EXCEPT ![d] = r]
      BY DEF HostInv, TypeOK, Acquire
<1> HIDE DEF r
<1>7. runs'[d] = r /\ \A e \in DepId \ {d} : runs'[e] = runs[e]
      BY <1>6 DEF HostInv, TypeOK
<1>8. lock'[a] = d /\ \A b \in App \ {a} : lock'[b] = lock[b]
      BY <1>1, <1>2 DEF HostInv, TypeOK
<1>9. TypeOK'
      BY <1>1, <1>4, <1>6 DEF HostInv, TypeOK
<1>10. HostExclusive'
  <2>1. ASSUME NEW e \in DepId, runs'[e].pc \in Holding
        PROVE  lock'[runs'[e].app] = e
    <3>1. CASE e = d
          BY <3>1, <1>4, <1>7, <1>8
    <3>2. CASE e # d
      <4>1. runs'[e] = runs[e] /\ runs[e].app \in App /\ lock[runs[e].app] = e
            BY <2>1, <3>2, <1>7, OwnFacts DEF HostInv, HostExclusive
      <4>2. runs[e].app # a
            BY <4>1, <1>1, SentinelAssumption
      <4>   QED BY <4>1, <4>2, <1>8
    <3>   QED BY <3>1, <3>2
  <2>2. ASSUME NEW b \in App, lock'[b] # None
        PROVE  runs'[lock'[b]].app = b /\ runs'[lock'[b]].pc \in Holding
    <3>1. CASE b = a
          BY <3>1, <1>4, <1>7, <1>8
    <3>2. CASE b # a
      <4>1. /\ lock'[b] = lock[b] /\ lock[b] \in DepId
            /\ runs[lock[b]].app = b /\ runs[lock[b]].pc \in Holding
            BY <2>2, <3>2, <1>8 DEF HostInv, HostExclusive, TypeOK
      <4>   QED BY <4>1, <3>2, <1>7
    <3>   QED BY <3>1, <3>2
  <2>   QED BY <2>1, <2>2 DEF HostExclusive
<1>11. \A e \in DepId : StageFacts(runs[e], host[runs[e].app])'
      BY <1>1, <1>4, <1>5, <1>7 DEF HostInv
<1>   QED BY <1>9, <1>10, <1>11 DEF HostInv

LEMMA TriggerStep ==
    ASSUME HostInv, NEW d \in DepId, NEW a \in App, NEW v \in Version,
           NEW why \in Reason, Trigger(a, v, why, d)
    PROVE  HostInv'
<1> DEFINE r == [Idle EXCEPT !.pc = "queued", !.app = a,
                             !.version = v, !.reason = why]
<1>1. /\ runs[d].pc = "idle" /\ UNCHANGED <<lock, host>>
      /\ runs' = [runs EXCEPT ![d] = r]
      /\ apps' = [apps EXCEPT ![a] = StartDeployment(@, d, v)]
      BY DEF Trigger, Fresh, Active
<1>2. r \in Run /\ r.pc = "queued" /\ r.app = a /\ r.version = v
      BY DEF Idle, Run, Content, Reason
<1>3. \A h : StageFacts(r, h)
      BY <1>2 DEF StageFacts
<1> HIDE DEF r
<1>4. StartDeployment(apps[a], d, v) \in AppState
      BY StartType DEF HostInv, TypeOK
<1>5. TypeOK'
      BY <1>1, <1>2, <1>4 DEF HostInv, TypeOK
<1>6. runs'[d] = r /\ \A e \in DepId \ {d} : runs'[e] = runs[e]
      BY <1>1 DEF HostInv, TypeOK
<1>7. HostExclusive'
      BY <1>1, <1>2, <1>6 DEF HostInv, HostExclusive, TypeOK
<1>8. \A e \in DepId : StageFacts(runs[e], host[runs[e].app])'
      BY <1>1, <1>3, <1>6 DEF HostInv
<1>   QED BY <1>5, <1>7, <1>8 DEF HostInv

\* Every accepted request is a Trigger with a published version: the entry of
\* the history that a rollback names is a deployment.
Triggers(d) == \E a \in App, v \in Version, why \in Reason : Trigger(a, v, why, d)

LEMMA AcceptTriggers ==
    ASSUME HostInv, NEW d \in DepId, Accept(d) PROVE Triggers(d)
<1>1. ASSUME NEW a \in App, NEW v \in Version,
             HandleSync(a, v, d) \/ HandleJenkinsWebhook(a, v, d)
      PROVE  Triggers(d)
      BY <1>1 DEF HandleSync, HandleJenkinsWebhook, Reason, Triggers
<1>2. ASSUME NEW a \in App, NEW i \in 1..MaxHist, HandleRollback(a, i, d)
      PROVE  Triggers(d)
  <2>1. apps[a].history \in Seq(Deployment) /\ i \in DOMAIN apps[a].history
        BY <1>2 DEF HandleRollback, HostInv, TypeOK, AppState
  <2>2. apps[a].history[i] \in Deployment
        BY <2>1, ElementOfSeq, LenProperties
  <2>3. apps[a].history[i].version \in Version
        BY <2>2 DEF Deployment
  <2>   QED BY <1>2, <2>3 DEF HandleRollback, Reason, Triggers
<1>   QED BY <1>1, <1>2 DEF Accept

LEMMA AcceptStep ==
    ASSUME HostInv, NEW d \in DepId, Accept(d) PROVE HostInv'
BY AcceptTriggers, TriggerStep DEF Triggers

LEMMA CrashStep ==
    ASSUME HostInv, Crash PROVE HostInv'
<1>1. /\ runs' = [d \in DepId |-> Idle]
      /\ lock' = [a \in App |-> None]
      /\ UNCHANGED apps
      BY DEF Crash
<1>2. Idle \in Run /\ Idle.pc = "idle"
      BY DEF Idle, Run, Content
<1>3. host' \in [App -> HostState]
  <2>1. ASSUME NEW a \in App PROVE CrashedHost(a) \subseteq HostState
    <3>1. CASE lock[a] = None
          BY <3>1 DEF CrashedHost, HostInv, TypeOK
    <3>2. CASE lock[a] # None
      <4>1. lock[a] \in DepId /\ runs[lock[a]].pc # "idle"
            BY <3>2 DEF HostInv, TypeOK, HostExclusive
      <4>   QED BY <3>2, <4>1, LeftoversType DEF CrashedHost
    <3>   QED BY <3>1, <3>2
  <2>2. \E F : host' \in [App -> F] /\ \A a \in App : host'[a] \in CrashedHost(a)
        BY DEF Crash
  <2>   QED BY <2>1, <2>2
<1>4. TypeOK'
      BY <1>1, <1>2, <1>3 DEF HostInv, TypeOK
<1>5. HostExclusive'
      BY <1>1, <1>2 DEF HostExclusive
<1>6. \A d \in DepId : StageFacts(runs[d], host[runs[d].app])'
      BY <1>1 DEF StageFacts, Idle
<1>   QED BY <1>4, <1>5, <1>6 DEF HostInv

LEMMA InitHostInv == Init => HostInv
<1> SUFFICES ASSUME Init PROVE HostInv
    OBVIOUS
<1>1. Idle \in Run /\ Idle.pc = "idle" /\ \A h : StageFacts(Idle, h)
      BY DEF Idle, Run, Content, StageFacts
<1>2. NoAppState \in AppState
  <2>1. <<>> \in Seq(Deployment)
        BY EmptySeq
  <2>   QED BY <2>1 DEF NoAppState, AppState
<1>3. host \in [App -> HostState]
      BY DEF Init, HostState, Content
<1>4. TypeOK
      BY <1>1, <1>2, <1>3 DEF TypeOK, Init
<1>5. HostExclusive
      BY <1>1 DEF HostExclusive, Init
<1>6. \A d \in DepId : StageFacts(runs[d], host[runs[d].app])
      BY <1>1 DEF Init
<1>   QED BY <1>4, <1>5, <1>6 DEF HostInv

LEMMA UnchangedStep == HostInv /\ UNCHANGED vars => HostInv'
BY DEF vars, HostInv, TypeOK, HostExclusive

LEMMA NextHostInv == HostInv /\ [Next]_vars => HostInv'
<1> SUFFICES ASSUME HostInv, [Next]_vars PROVE HostInv'
    OBVIOUS
<1>1. ASSUME NEW d \in DepId, Accept(d) PROVE HostInv'
      BY <1>1, AcceptStep
<1>2. ASSUME NEW d \in DepId, Acquire(d) PROVE HostInv'
      BY <1>2, AcquireStep
<1>3. ASSUME NEW d \in DepId, Stage(d) PROVE HostInv'
      BY <1>3, StageStep, UnlockStep
<1>4. CASE Crash
      BY <1>4, CrashStep
<1>5. CASE UNCHANGED vars
      BY <1>5, UnchangedStep
<1>   QED BY <1>1, <1>2, <1>3, <1>4, <1>5 DEF Next, EngineStep

-----------------------------------------------------------------------------
(* Which file a step may put in place *)

\* The files the command of d may leave behind.
OwnFile(d, c) ==
    \/ c = host[runs[d].app].binary
    \/ runs[d].pc \in HostStage /\ c \in {None, Partial, runs[d].version, runs[d].prev}

LEMMA LeftoverFiles ==
    ASSUME HostInv, NEW d \in DepId, runs[d].pc # "idle", NEW h \in Leftovers(d)
    PROVE  OwnFile(d, h.binary)
<1>1. StageFacts(runs[d], host[runs[d].app])
      BY OwnFacts
<1>2. CASE runs[d].pc \in {"backup", "upload", "restore", "rollback"}
      BY <1>1, <1>2 DEF Leftovers, OwnFile, StageFacts, HostStage
<1>3. CASE runs[d].pc \notin {"backup", "upload", "restore", "rollback"}
      BY <1>3 DEF Leftovers, OwnFile
<1>   QED BY <1>2, <1>3

\* A stage writes at most to the host of its own app, and only its own files.
LEMMA StageFiles ==
    ASSUME HostInv, NEW d \in DepId, Stage(d), host' # host
    PROVE  \E g : host' = [host EXCEPT ![runs[d].app] = g] /\ OwnFile(d, g.binary)
<1> DEFINE a == runs[d].app
           r == runs[d]
<1>1. ASSUME r.pc # "idle" PROVE host[a] \in HostState /\ StageFacts(r, host[a])
      BY <1>1, OwnFacts
<1>2. ASSUME NEW c, SetBinary(a, c), r.pc # "idle", OwnFile(d, c)
      PROVE  \E g : host' = [host EXCEPT ![a] = g] /\ OwnFile(d, g.binary)
  <2>1. host' = [host EXCEPT ![a] = [host[a] EXCEPT !.binary = c]]
        BY <1>2, OwnFacts DEF SetBinary, HostInv, TypeOK
  <2>2. [host[a] EXCEPT !.binary = c].binary = c
        BY <1>1, <1>2 DEF HostState
  <2>   QED BY <2>1, <2>2, <1>2
<1>3. ASSUME NEW g \in Leftovers(d), r.pc # "idle", host' = [host EXCEPT ![a] = g]
      PROVE  \E x : host' = [host EXCEPT ![a] = x] /\ OwnFile(d, x.binary)
      BY <1>3, LeftoverFiles
<1>4. ASSUME host' = [host EXCEPT ![a].running = host[a].binary], r.pc # "idle"
      PROVE  \E g : host' = [host EXCEPT ![a] = g] /\ OwnFile(d, g.binary)
  <2>1. host' = [host EXCEPT ![a] = [host[a] EXCEPT !.running = host[a].binary]]
        BY <1>4, OwnFacts DEF HostInv, TypeOK
  <2>2. [host[a] EXCEPT !.running = host[a].binary].binary = host[a].binary
        BY <1>1, <1>4 DEF HostState
  <2>   QED BY <2>1, <2>2 DEF OwnFile
<1>5. CASE Backup(d)
  <2>1. r.pc = "backup" /\ OwnFile(d, None)
        BY <1>5 DEF Backup, At, OwnFile, HostStage
  <2>   QED BY <1>2, <1>3, <1>5, <2>1 DEF Backup, Breaks
<1>6. CASE Upload(d)
  <2>1. r.pc = "upload" /\ OwnFile(d, r.version)
        BY <1>6 DEF Upload, At, OwnFile, HostStage
  <2>   QED BY <1>2, <1>3, <1>6, <2>1 DEF Upload, Breaks
<1>7. CASE Restart(d)
  <2>1. r.pc = "restart"
        BY <1>7 DEF Restart, At
  <2>   QED BY <1>3, <1>4, <1>7, <2>1 DEF Restart, Breaks
<1>8. CASE AttemptRestore(d) \/ Rollback(d)
  <2>1. r.pc \in {"restore", "rollback"}
        BY <1>8 DEF AttemptRestore, Rollback, At
  <2>2. OwnFile(d, r.backup)
        BY <1>1, <2>1 DEF StageFacts, OwnFile, HostStage
  <2>   QED BY <1>2, <1>3, <1>8, <2>1, <2>2
            DEF AttemptRestore, Rollback, MoveBack, Breaks
<1>9. CASE Rerestart(d)
  <2>1. r.pc = "rerestart"
        BY <1>9 DEF Rerestart, At
  <2>   QED BY <1>3, <1>4, <1>9, <2>1 DEF Rerestart
<1>   QED BY <1>5, <1>6, <1>7, <1>8, <1>9
          DEF Stage, Fetch, Verify, PrepareSSH, HealthCheck, Prune, Panic,
              Finish, Unlock

\* What a step of InstallsOnlySigned says of one app.
SignedOrFound(a) ==
    LET c == host'[a].binary
    IN c \in Version /\ c # host[a].binary =>
          \/ c \in Signed
          \/ lock[a] # None /\ runs[lock[a]].prev = c

\* A run that has reached the host of an app with a key holds a signed version.
LEMMA OwnFileSigned ==
    ASSUME HostInv, NEW a \in HasKey, NEW d \in DepId,
           runs[d].pc \in Holding, runs[d].app = a, OwnFile(d, host'[a].binary)
    PROVE  SignedOrFound(a)
<1>1. lock[a] = d /\ d # None
      BY SentinelAssumption DEF HostInv, HostExclusive
<1>2. StageFacts(runs[d], host[a])
      BY OwnFacts DEF HostInv
<1>3. runs[d].pc \in HostStage => runs[d].version \in Signed
      BY <1>2 DEF StageFacts
<1>   QED BY <1>1, <1>3, SentinelAssumption DEF OwnFile, SignedOrFound

LEMMA SignedStep ==
    ASSUME HostInv, [Next]_vars, NEW a \in HasKey PROVE SignedOrFound(a)
<1>1. a \in App
      BY ConstantsAssumption
<1>2. ASSUME NEW d \in DepId, Stage(d) PROVE SignedOrFound(a)
  <2>1. CASE host' = host
        BY <2>1 DEF SignedOrFound
  <2>2. CASE host' # host
    <3>1. PICK g : /\ host' = [host EXCEPT ![runs[d].app] = g]
                   /\ OwnFile(d, g.binary)
          BY <1>2, <2>2, StageFiles
    <3>2. CASE a # runs[d].app
          BY <3>1, <3>2, <1>1 DEF SignedOrFound, HostInv, TypeOK
    <3>3. CASE a = runs[d].app
      <4>1. host'[a] = g
            BY <3>1, <3>3, <1>1 DEF HostInv, TypeOK
      <4>2. CASE runs[d].pc \in Holding
            BY <3>1, <3>3, <4>1, <4>2, OwnFileSigned
      <4>3. CASE runs[d].pc \notin Holding
            BY <3>1, <3>3, <4>1, <4>3
            DEF OwnFile, SignedOrFound, Holding, Working
      <4>   QED BY <4>2, <4>3
    <3>   QED BY <3>2, <3>3
  <2>   QED BY <2>1, <2>2
<1>3. CASE Crash
  <2>1. host'[a] \in CrashedHost(a)
        BY <1>1, <1>3 DEF Crash
  <2>2. CASE lock[a] = None
        BY <2>1, <2>2 DEF CrashedHost, SignedOrFound
  <2>3. CASE lock[a] # None
    <3>1. /\ lock[a] \in DepId /\ runs[lock[a]].app = a
          /\ runs[lock[a]].pc \in Holding
          BY <1>1, <2>3 DEF HostInv, TypeOK, HostExclusive
    <3>2. runs[lock[a]].pc # "idle"
          BY <3>1 DEF Holding, Working, LocalStage, HostStage
    <3>3. OwnFile(lock[a], host'[a].binary)
          BY <2>1, <2>3, <3>1, <3>2, LeftoverFiles DEF CrashedHost
    <3>   QED BY <3>1, <3>3, OwnFileSigned
  <2>   QED BY <2>2, <2>3
<1>4. CASE host' = host
      BY <1>4 DEF SignedOrFound
<1>5. ASSUME NEW d \in DepId, Accept(d) \/ Acquire(d) PROVE host' = host
      BY <1>5 DEF Accept, HandleSync, HandleJenkinsWebhook, HandleRollback,
                  Trigger, Acquire
<1>   QED BY <1>2, <1>3, <1>4, <1>5 DEF Next, EngineStep, vars

-----------------------------------------------------------------------------
(* What a stage before FinishDeployment does to its own run *)

\* Run d goes on with record r: it keeps its app, its version and what it
\* found, and it still has to pass FinishDeployment.
GoesOn(d, r) ==
    /\ runs' = [runs EXCEPT ![d] = r]
    /\ r \in Run
    /\ r.app = runs[d].app
    /\ r.version = runs[d].version
    /\ r.prev = runs[d].prev
    /\ runs[d].pc \in Working
    /\ r.pc \in Holding \ {"unlock"}

LEMMA GotoGoesOn ==
    ASSUME HostInv, NEW d \in DepId, runs[d].pc \in Working,
           NEW s \in Holding \ {"unlock"}, Goto(d, s)
    PROVE  \E r : GoesOn(d, r)
<1> DEFINE r == [runs[d] EXCEPT !.pc = s]
<1>1. runs[d] \in Run
      BY DEF HostInv, TypeOK
<1>2. runs' = [runs EXCEPT ![d] = r]
      BY DEF HostInv, TypeOK, Goto
<1>3. /\ r \in Run /\ r.app = runs[d].app /\ r.version = runs[d].version
      /\ r.prev = runs[d].prev /\ r.pc = s
      BY <1>1 DEF Run
<1> HIDE DEF r
<1>   QED BY <1>2, <1>3 DEF GoesOn

LEMMA ConcludeGoesOn ==
    ASSUME HostInv, NEW d \in DepId, runs[d].pc \in Working,
           NEW f \in Final, NEW s \in Holding \ {"unlock"}, Conclude(d, f, s)
    PROVE  \E r : GoesOn(d, r)
<1> DEFINE r == [runs[d] EXCEPT !.finalStatus = f, !.pc = s]
<1>1. runs[d] \in Run
      BY DEF HostInv, TypeOK
<1>2. runs' = [runs EXCEPT ![d] = r]
      BY DEF HostInv, TypeOK, Conclude
<1>3. r \in Run
  <2>1. r = [[runs[d] EXCEPT !.finalStatus = f] EXCEPT !.pc = s]
        BY <1>1 DEF Run
  <2>2. [runs[d] EXCEPT !.finalStatus = f] \in Run
        BY <1>1 DEF Run
  <2>3. s \in PC
        OBVIOUS
  <2>   QED BY <2>1, <2>2, <2>3 DEF Run
<1>4. /\ r.app = runs[d].app /\ r.version = runs[d].version
      /\ r.prev = runs[d].prev /\ r.pc = s
      BY <1>1 DEF Run
<1> HIDE DEF r
<1>   QED BY <1>2, <1>3, <1>4 DEF GoesOn

\* Backup and the two mvs that undo it also change the content of the backup.
LEMMA BackupGoesOn ==
    ASSUME HostInv, NEW d \in DepId, runs[d].pc \in Working,
           NEW c \in Content, NEW s \in Holding \ {"unlock"},
           runs' = [runs EXCEPT ![d].pc = s, ![d].backup = c]
    PROVE  \E r : GoesOn(d, r)
<1> DEFINE r == [runs[d] EXCEPT !.pc = s, !.backup = c]
<1>1. runs[d] \in Run
      BY DEF HostInv, TypeOK
<1>2. runs' = [runs EXCEPT ![d] = r]
      BY DEF HostInv, TypeOK
<1>3. r \in Run
  <2>1. [runs[d] EXCEPT !.pc = s] \in Run
        BY <1>1 DEF Run
  <2>   QED BY <1>1, <2>1 DEF Run
<1>4. /\ r.app = runs[d].app /\ r.version = runs[d].version
      /\ r.prev = runs[d].prev /\ r.pc = s
      BY <1>1 DEF Run
<1> HIDE DEF r
<1>   QED BY <1>2, <1>3, <1>4 DEF GoesOn

\* Every stage but the last two leaves the records and the mutexes alone.
LEMMA StageGoesOn ==
    ASSUME HostInv, NEW d \in DepId, Stage(d), ~ Finish(d), ~ Unlock(d)
    PROVE  (\E r : GoesOn(d, r)) /\ UNCHANGED <<apps, lock>>
<1>1. ASSUME runs[d].pc \in Working
      PROVE  runs[d].backup \in Content /\ host[runs[d].app].binary \in Content
  <2>1. runs[d] \in Run /\ host[runs[d].app] \in HostState
        BY <1>1, OwnFacts
  <2>   QED BY <2>1 DEF Run, HostState
<1>2. None \in Content
      BY DEF Content
<1>3. CASE Fetch(d) \/ Verify(d) \/ PrepareSSH(d) \/ Prune(d)
      BY <1>3, GotoGoesOn DEF Fetch, Verify, PrepareSSH, Prune, At
<1>4. CASE Backup(d)
      BY <1>1, <1>4, GotoGoesOn, BackupGoesOn DEF Backup, Breaks, At
<1>5. CASE Upload(d)
      BY <1>5, GotoGoesOn DEF Upload, Breaks, At
<1>6. CASE Restart(d)
      BY <1>6, GotoGoesOn, ConcludeGoesOn DEF Restart, Breaks, At
<1>7. CASE HealthCheck(d)
      BY <1>7, GotoGoesOn, ConcludeGoesOn DEF HealthCheck, At
<1>8. CASE AttemptRestore(d) \/ Rollback(d)
      BY <1>2, <1>8, GotoGoesOn, BackupGoesOn
         DEF AttemptRestore, Rollback, MoveBack, Breaks, At
<1>9. CASE Rerestart(d) \/ Panic(d)
      BY <1>9, ConcludeGoesOn DEF Rerestart, Panic, At
<1>   QED BY <1>3, <1>4, <1>5, <1>6, <1>7, <1>8, <1>9 DEF Stage

-----------------------------------------------------------------------------
(* The stages implement AtomicDeploy, step by step *)

\* What one app looks like to AtomicDeploy.
WaitingOn(a) ==
    {[id |-> d, version |-> runs[d].version] :
        d \in {e \in DepId : At(e, "queued") /\ runs[e].app = a}}

BegunOn(a) ==
    [id |-> lock[a],
     version |-> IF lock[a] = None THEN None ELSE runs[lock[a]].version,
     result |-> IF lock[a] = None \/ Deciding(a) THEN None
                ELSE runs[lock[a]].finalStatus]

InstalledOn(a) == IF Deciding(a) THEN runs[lock[a]].prev ELSE host[a].binary

LEMMA Mapping ==
    /\ Queued = [a \in App |-> WaitingOn(a)]
    /\ Begun = [a \in App |-> BegunOn(a)]
    /\ Installed = [a \in App |-> InstalledOn(a)]
    /\ Queued' = [a \in App |-> WaitingOn(a)']
    /\ Begun' = [a \in App |-> BegunOn(a)']
    /\ Installed' = [a \in App |-> InstalledOn(a)']
BY DEF Queued, WaitingOn, Begun, BegunOn, Installed, InstalledOn

\* The deployment of an app with a free mutex, with a run that has not passed
\* FinishDeployment, and with one that has.
LEMMA FreeApp ==
    ASSUME NEW a \in App, lock[a] = None
    PROVE  BegunOn(a) = Atomic!Nobody /\ InstalledOn(a) = host[a].binary
BY DEF BegunOn, InstalledOn, Deciding, Atomic!Nobody

LEMMA DecidingApp ==
    ASSUME NEW a \in App, NEW d \in DepId, lock[a] = d, runs[d].pc # "unlock"
    PROVE  /\ BegunOn(a) = [id |-> d, version |-> runs[d].version, result |-> None]
           /\ InstalledOn(a) = runs[d].prev
BY SentinelAssumption DEF BegunOn, InstalledOn, Deciding

LEMMA DecidedApp ==
    ASSUME NEW a \in App, NEW d \in DepId, lock[a] = d, runs[d].pc = "unlock"
    PROVE  /\ BegunOn(a) = [id |-> d, version |-> runs[d].version,
                            result |-> runs[d].finalStatus]
           /\ InstalledOn(a) = host[a].binary
BY SentinelAssumption DEF BegunOn, InstalledOn, Deciding

\* An app with another mutex holder does not see what d does.
LEMMA OtherApp ==
    ASSUME HostInv, NEW a \in App, NEW d \in DepId, runs[d].app # a,
           \A e \in DepId : e # d => runs'[e] = runs[e],
           lock'[a] = lock[a], host'[a] = host[a],
           runs'[d].app # a \/ runs'[d].pc = "idle",
           lock[a] # d
    PROVE  /\ WaitingOn(a)' = WaitingOn(a)
           /\ BegunOn(a)' = BegunOn(a)
           /\ InstalledOn(a)' = InstalledOn(a)
<1>1. \A e \in DepId : (runs'[e].pc = "queued" /\ runs'[e].app = a) <=>
                       (runs[e].pc = "queued" /\ runs[e].app = a)
      OBVIOUS
<1>2. \A e \in DepId : runs[e].pc = "queued" /\ runs[e].app = a =>
                          runs'[e].version = runs[e].version
      OBVIOUS
<1>3. WaitingOn(a)' = WaitingOn(a)
      BY <1>1, <1>2 DEF WaitingOn, At
<1>4. lock[a] # None => lock[a] \in DepId /\ runs'[lock[a]] = runs[lock[a]]
      BY DEF HostInv, TypeOK
<1>5. BegunOn(a)' = BegunOn(a) /\ InstalledOn(a)' = InstalledOn(a)
      BY <1>4 DEF BegunOn, InstalledOn, Deciding
<1>   QED BY <1>3, <1>5

\* Lock: the deployment leaves the waiting ones and begins.
LEMMA AcquireBegins ==
    ASSUME HostInv, NEW d \in DepId, Acquire(d)
    PROVE  \E a \in App, q \in Atomic!Request : Atomic!Begin(a, q)
<1> DEFINE r == runs[d]
           a == r.app
           q == [id |-> d, version |-> r.version]
<1>1. /\ r.pc = "queued" /\ lock[a] = None /\ UNCHANGED host
      /\ runs'[d].pc = "fetch" /\ runs'[d].app = a
      /\ runs'[d].version = r.version /\ runs'[d].prev = host[a].binary
      /\ \A e \in DepId : e # d => runs'[e] = runs[e]
      BY DEF Acquire, At, HostInv, TypeOK, Run
<1>2. a \in App /\ r.version \in Version
      BY <1>1, OwnFacts
<1>3. lock'[a] = d /\ \A b \in App : b # a => lock'[b] = lock[b]
      BY <1>2 DEF Acquire, HostInv, TypeOK
<1>4. \A b \in App : lock[b] # d
      BY <1>1, SentinelAssumption DEF HostInv, HostExclusive
<1>5. \A b \in App : b # a => /\ WaitingOn(b)' = WaitingOn(b)
                              /\ BegunOn(b)' = BegunOn(b)
                              /\ InstalledOn(b)' = InstalledOn(b)
      BY <1>1, <1>3, <1>4, OtherApp
<1>6. ASSUME NEW b \in App, b = a
      PROVE  /\ BegunOn(b) = Atomic!Nobody
             /\ BegunOn(b)' = [id |-> d, version |-> r.version, result |-> None]
             /\ InstalledOn(b)' = InstalledOn(b)
  <2>1. lock'[b] = d /\ runs'[d].pc # "unlock"
        BY <1>1, <1>3, <1>6
  <2>2. BegunOn(b) = Atomic!Nobody /\ InstalledOn(b) = host[b].binary
        BY <1>1, <1>6, FreeApp
  <2>3. /\ BegunOn(b)' = [id |-> d, version |-> runs'[d].version, result |-> None]
        /\ InstalledOn(b)' = runs'[d].prev
        BY <2>1, SentinelAssumption DEF BegunOn, InstalledOn, Deciding
  <2>   QED BY <1>1, <1>6, <2>2, <2>3
<1>7. ASSUME NEW b \in App, b = a
      PROVE  q \in WaitingOn(b) /\ WaitingOn(b)' = WaitingOn(b) \ {q}
  <2>1. q \in WaitingOn(b)
        BY <1>1, <1>7 DEF WaitingOn, At
  <2>2. \A e \in DepId : (runs'[e].pc = "queued" /\ runs'[e].app = b) <=>
                         (e # d /\ runs[e].pc = "queued" /\ runs[e].app = b)
        BY <1>1, <1>7
  <2>3. \A e \in DepId : e # d => [id |-> e, version |-> runs[e].version] # q
        OBVIOUS
  <2>4. WaitingOn(b)' = WaitingOn(b) \ {q}
    <3>1. ASSUME NEW x PROVE x \in WaitingOn(b)' <=> x \in WaitingOn(b) \ {q}
      <4> HIDE DEF q
      <4>1. x \in WaitingOn(b)' <=>
               \E e \in DepId : /\ e # d /\ runs[e].pc = "queued" /\ runs[e].app = b
                                /\ x = [id |-> e, version |-> runs[e].version]
            BY <1>1, <2>2 DEF WaitingOn, At
      <4>2. x \in WaitingOn(b) <=>
               \E e \in DepId : /\ runs[e].pc = "queued" /\ runs[e].app = b
                                /\ x = [id |-> e, version |-> runs[e].version]
            BY DEF WaitingOn, At
      <4>3. [id |-> d, version |-> runs[d].version] = q
            BY DEF q
      <4>   QED BY <2>3, <4>1, <4>2, <4>3
    <3>   QED BY <3>1
  <2>   QED BY <2>1, <2>4
<1>8. q \in Atomic!Request
      BY <1>2 DEF Atomic!Request
<1>9. /\ Begun[a] = Atomic!Nobody
      /\ q \in Queued[a]
      /\ Begun' = [Begun EXCEPT ![a] = [id |-> q.id, version |-> q.version,
                                        result |-> None]]
      /\ Queued' = [Queued EXCEPT ![a] = @ \ {q}]
      /\ UNCHANGED Installed
  <2>1. q.id = d /\ q.version = r.version
        OBVIOUS
  <2> HIDE DEF q, a
  <2>   QED BY <1>2, <1>5, <1>6, <1>7, <2>1, Mapping
<1>10. Atomic!Begin(a, q)
      BY <1>9 DEF Atomic!Begin
<1>   QED BY <1>2, <1>8, <1>10

\* Trigger: a new deployment waits.
LEMMA TriggerSubmits ==
    ASSUME HostInv, NEW d \in DepId, NEW a \in App, NEW v \in Version,
           NEW why \in Reason, Trigger(a, v, why, d)
    PROVE  \E q \in Atomic!Request : Atomic!Submit(a, q)
<1> DEFINE q == [id |-> d, version |-> v]
<1>1. /\ runs[d].pc = "idle" /\ UNCHANGED <<lock, host>>
      /\ runs'[d].pc = "queued" /\ runs'[d].app = a /\ runs'[d].version = v
      /\ \A e \in DepId : e # d => runs'[e] = runs[e]
      BY DEF Trigger, Fresh, Active, Idle, HostInv, TypeOK
<1>2. \A b \in App : lock[b] # d
      BY <1>1, SentinelAssumption DEF HostInv, HostExclusive
<1>3. \A b \in App : lock[b] # None => runs'[lock[b]] = runs[lock[b]]
      BY <1>1, <1>2 DEF HostInv, TypeOK
<1>4. \A b \in App : BegunOn(b)' = BegunOn(b) /\ InstalledOn(b)' = InstalledOn(b)
      BY <1>1, <1>3 DEF BegunOn, InstalledOn, Deciding
<1>5. ASSUME NEW b \in App, b # a PROVE WaitingOn(b)' = WaitingOn(b)
  <2>1. \A e \in DepId : (runs'[e].pc = "queued" /\ runs'[e].app = b) <=>
                         (runs[e].pc = "queued" /\ runs[e].app = b)
        BY <1>1, <1>5
  <2>2. \A e \in DepId : runs[e].pc = "queued" => runs'[e] = runs[e]
        BY <1>1
  <2>   QED BY <2>1, <2>2 DEF WaitingOn, At
<1>6. WaitingOn(a)' = WaitingOn(a) \cup {q}
  <2>1. ASSUME NEW x PROVE x \in WaitingOn(a)' <=> x \in WaitingOn(a) \cup {q}
    <3> HIDE DEF q
    <3>1. x \in WaitingOn(a)' <=>
             \E e \in DepId : /\ runs'[e].pc = "queued" /\ runs'[e].app = a
                              /\ x = [id |-> e, version |-> runs'[e].version]
          BY DEF WaitingOn, At
    <3>2. x \in WaitingOn(a) <=>
             \E e \in DepId : /\ runs[e].pc = "queued" /\ runs[e].app = a
                              /\ x = [id |-> e, version |-> runs[e].version]
          BY DEF WaitingOn, At
    <3>3. [id |-> d, version |-> runs'[d].version] = q
          BY <1>1 DEF q
    <3>   QED BY <1>1, <3>1, <3>2, <3>3
  <2>   QED BY <2>1
<1>7. \A b \in App : BegunOn(b).id # d /\ \A p \in WaitingOn(b) : p.id # d
      BY <1>1, <1>2 DEF BegunOn, WaitingOn, At
<1>8. q \in Atomic!Request /\ q.id = d
      BY DEF Atomic!Request
<1> HIDE DEF q
<1>9. /\ \A b \in App : Begun[b].id # q.id /\ \A p \in Queued[b] : p.id # q.id
      /\ Queued' = [Queued EXCEPT ![a] = @ \cup {q}]
      /\ UNCHANGED <<Begun, Installed>>
      BY <1>4, <1>5, <1>6, <1>7, <1>8, Mapping
<1>   QED BY <1>8, <1>9 DEF Atomic!Submit

\* The stages before FinishDeployment show nothing.
LEMMA StageStutters ==
    ASSUME HostInv, NEW d \in DepId, Stage(d), ~ Finish(d), ~ Unlock(d)
    PROVE  UNCHANGED <<Queued, Begun, Installed>>
<1>1. PICK r : GoesOn(d, r)
      BY StageGoesOn
<1>2. UNCHANGED lock
      BY StageGoesOn
<1>3. /\ runs[d].pc \in Working
      /\ runs'[d].pc \in Holding \ {"unlock"}
      /\ runs'[d].app = runs[d].app
      /\ runs'[d].version = runs[d].version
      /\ runs'[d].prev = runs[d].prev
      /\ \A e \in DepId : e # d => runs'[e] = runs[e]
      BY <1>1 DEF GoesOn, HostInv, TypeOK
<1>4. runs[d].app \in App /\ lock[runs[d].app] = d
      BY <1>3, OwnFacts DEF HostInv, HostExclusive
<1>5. \A b \in App : b # runs[d].app => host'[b] = host[b] /\ lock[b] # d
      BY <1>4, StageFiles, SentinelAssumption
         DEF HostInv, HostExclusive, TypeOK
<1>6. ASSUME NEW b \in App, b # runs[d].app
      PROVE  /\ WaitingOn(b)' = WaitingOn(b)
             /\ BegunOn(b)' = BegunOn(b)
             /\ InstalledOn(b)' = InstalledOn(b)
      BY <1>2, <1>3, <1>5, <1>6, OtherApp
<1>7. ASSUME NEW b \in App, b = runs[d].app
      PROVE  /\ WaitingOn(b)' = WaitingOn(b)
             /\ BegunOn(b)' = BegunOn(b)
             /\ InstalledOn(b)' = InstalledOn(b)
  <2>1. lock[b] = d /\ lock'[b] = d /\ d # None
        BY <1>2, <1>4, <1>7, SentinelAssumption
  <2>2. BegunOn(b)' = BegunOn(b) /\ InstalledOn(b)' = InstalledOn(b)
        BY <1>3, <2>1 DEF BegunOn, InstalledOn, Deciding
  <2>3. \A e \in DepId : runs'[e].pc = "queued" <=> runs[e].pc = "queued"
        BY <1>3
  <2>4. \A e \in DepId : runs[e].pc = "queued" => runs'[e] = runs[e]
        BY <1>3
  <2>5. WaitingOn(b)' = WaitingOn(b)
        BY <2>3, <2>4 DEF WaitingOn, At
  <2>   QED BY <2>2, <2>5
<1>   QED BY <1>6, <1>7, Mapping

\* FinishDeployment: the deployment takes effect, with what it leaves behind.
LEMMA FinishSettles ==
    ASSUME HostInv, NEW d \in DepId, Finish(d)
    PROVE  \E a \in App, f \in Atomic!Result : Atomic!Settle(a, f)
<1> DEFINE r == runs[d]
           a == r.app
           f == r.finalStatus
           w == [id |-> d, version |-> r.version, result |-> None]
<1>1. /\ r.pc = "finish" /\ UNCHANGED <<lock, host>>
      /\ runs'[d].pc = "unlock" /\ runs'[d].app = a
      /\ runs'[d].version = r.version /\ runs'[d].finalStatus = f
      /\ \A e \in DepId : e # d => runs'[e] = runs[e]
      BY DEF Finish, At, Goto, HostInv, TypeOK, Run
<1>2. /\ a \in App /\ lock[a] = d /\ d # None /\ f \in Final
      /\ StageFacts(r, host[a])
      BY <1>1, OwnFacts, SentinelAssumption DEF HostInv, HostExclusive, StageFacts
<1>3. \A b \in App : b # a => lock[b] # d
      BY <1>2 DEF HostInv, HostExclusive
<1>4. ASSUME NEW b \in App, b # a
      PROVE  /\ WaitingOn(b)' = WaitingOn(b)
             /\ BegunOn(b)' = BegunOn(b)
             /\ InstalledOn(b)' = InstalledOn(b)
      BY <1>1, <1>3, <1>4, OtherApp
<1>5. ASSUME NEW b \in App, b = a
      PROVE  /\ WaitingOn(b)' = WaitingOn(b)
             /\ BegunOn(b) = w
             /\ BegunOn(b)' = [w EXCEPT !.result = f]
             /\ InstalledOn(b) = r.prev
             /\ InstalledOn(b)' = host[b].binary
  <2>1. BegunOn(b) = w /\ InstalledOn(b) = r.prev
        BY <1>1, <1>2, <1>5, DecidingApp
  <2>2. /\ BegunOn(b)' = [id |-> d, version |-> r.version, result |-> f]
        /\ InstalledOn(b)' = host[b].binary
        BY <1>1, <1>2, <1>5 DEF BegunOn, InstalledOn, Deciding
  <2>3. \A e \in DepId : runs'[e].pc = "queued" <=> runs[e].pc = "queued"
        BY <1>1
  <2>4. \A e \in DepId : runs[e].pc = "queued" => runs'[e] = runs[e]
        BY <1>1
  <2>5. WaitingOn(b)' = WaitingOn(b)
        BY <2>3, <2>4 DEF WaitingOn, At
  <2>   QED BY <2>1, <2>2, <2>5
<1>6. /\ w # Atomic!Nobody /\ w.result = None /\ w.version = r.version
      BY <1>2 DEF Atomic!Nobody
<1>7. Installed[a] = r.prev /\ Begun[a] = w
      BY <1>2, <1>5, Mapping
<1>8. host[a].binary \in Atomic!Left(a, w, f)
  <2>1. CASE f = "SUCCESS"
        BY <1>1, <1>2, <1>6, <2>1 DEF Atomic!Left, StageFacts
  <2>2. CASE f = "ROLLED_BACK"
        BY <1>1, <1>2, <1>7, <2>2 DEF Atomic!Left, StageFacts
  <2>3. CASE f = "FAILED"
    <3>1. host[a].binary \in {r.prev, r.version, None, Partial}
          BY <1>1, <1>2 DEF StageFacts
    <3>   QED BY <1>6, <1>7, <2>3, <3>1 DEF Atomic!Left
  <2>   QED BY <1>2, <2>1, <2>2, <2>3
<1>9. f \in Atomic!Result
      BY <1>2 DEF Atomic!Result
<1> HIDE DEF w, f, a
<1>10. /\ Begun' = [Begun EXCEPT ![a].result = f]
       /\ Installed' = [Installed EXCEPT ![a] = host[a].binary]
       /\ UNCHANGED Queued
      BY <1>2, <1>4, <1>5, <1>7, Mapping
<1>11. Atomic!Settle(a, f)
      BY <1>6, <1>7, <1>8, <1>10 DEF Atomic!Settle
<1>   QED BY <1>2, <1>9, <1>11

\* Unlock: the deployment leaves, and what it left in place stays.
LEMMA UnlockLeaves ==
    ASSUME HostInv, NEW d \in DepId, Unlock(d)
    PROVE  \E a \in App : Atomic!Leave(a)
<1> DEFINE r == runs[d]
           a == r.app
           w == [id |-> d, version |-> r.version, result |-> r.finalStatus]
<1>1. /\ r.pc = "unlock" /\ UNCHANGED host
      /\ runs'[d].pc = "idle"
      /\ \A e \in DepId : e # d => runs'[e] = runs[e]
      BY DEF Unlock, At, Idle, HostInv, TypeOK
<1>2. a \in App /\ lock[a] = d /\ r.finalStatus \in Final
      BY <1>1, OwnFacts DEF HostInv, HostExclusive, StageFacts
<1>3. lock'[a] = None /\ \A b \in App : b # a => lock'[b] = lock[b] /\ lock[b] # d
      BY <1>2, SentinelAssumption DEF Unlock, HostInv, HostExclusive, TypeOK
<1>4. ASSUME NEW b \in App, b # a
      PROVE  /\ WaitingOn(b)' = WaitingOn(b)
             /\ BegunOn(b)' = BegunOn(b)
             /\ InstalledOn(b)' = InstalledOn(b)
      BY <1>1, <1>3, <1>4, OtherApp
<1>5. ASSUME NEW b \in App, b = a
      PROVE  /\ WaitingOn(b)' = WaitingOn(b)
             /\ BegunOn(b) = w
             /\ BegunOn(b)' = Atomic!Nobody
             /\ InstalledOn(b)' = InstalledOn(b)
  <2>1. BegunOn(b) = w /\ InstalledOn(b) = host[b].binary
        BY <1>1, <1>2, <1>5, DecidedApp
  <2>2. lock'[b] = None
        BY <1>3, <1>5
  <2>3. BegunOn(b)' = Atomic!Nobody /\ InstalledOn(b)' = host[b].binary
        BY <1>1, <2>2 DEF BegunOn, InstalledOn, Deciding, Atomic!Nobody
  <2>4. \A e \in DepId : runs'[e].pc = "queued" <=> runs[e].pc = "queued"
        BY <1>1
  <2>5. \A e \in DepId : runs[e].pc = "queued" => runs'[e] = runs[e]
        BY <1>1
  <2>6. WaitingOn(b)' = WaitingOn(b)
        BY <2>4, <2>5 DEF WaitingOn, At
  <2>   QED BY <2>1, <2>3, <2>6
<1>6. w.result \in Atomic!Result
      BY <1>2 DEF Atomic!Result
<1> HIDE DEF w, a
<1>7. /\ Begun[a] = w
      /\ Begun' = [Begun EXCEPT ![a] = Atomic!Nobody]
      /\ UNCHANGED <<Queued, Installed>>
      BY <1>2, <1>4, <1>5, Mapping
<1>   QED BY <1>2, <1>6, <1>7 DEF Atomic!Leave

\* A crash ends every deployment: one that was deciding leaves what a failed
\* one may leave, and the file of every other app stays.
LEMMA CrashCrashes ==
    ASSUME HostInv, Crash PROVE Atomic!Crash
<1>1. /\ runs' = [d \in DepId |-> Idle]
      /\ lock' = [a \in App |-> None]
      /\ \A a \in App : host'[a] \in CrashedHost(a)
      BY DEF Crash
<1>2. \A a \in App : WaitingOn(a)' = {}
      BY <1>1 DEF WaitingOn, At, Idle
<1>3. \A a \in App : BegunOn(a)' = Atomic!Nobody /\ InstalledOn(a)' = host'[a].binary
      BY <1>1 DEF BegunOn, InstalledOn, Deciding, Atomic!Nobody
<1>4. \A a \in App : host'[a].binary \in Version \cup {None, Partial}
  <2>1. HostInv'
        BY CrashStep
  <2>   QED BY <2>1 DEF HostInv, TypeOK, HostState, Content
<1>5. ASSUME NEW a \in App
      PROVE  host'[a].binary \in IF Atomic!Undecided(a)
                                 THEN Atomic!Left(a, Begun[a], "FAILED")
                                 ELSE {Installed[a]}
  <2>1. Begun[a] = BegunOn(a) /\ Installed[a] = InstalledOn(a)
        BY Mapping
  <2>2. CASE lock[a] = None
    <3>1. ~ Atomic!Undecided(a) /\ Installed[a] = host[a].binary
          BY <2>1, <2>2, FreeApp DEF Atomic!Undecided
    <3>2. host'[a] = host[a]
          BY <1>1, <2>2 DEF CrashedHost
    <3>   QED BY <3>1, <3>2
  <2>3. CASE lock[a] # None
    <3> DEFINE d == lock[a]
               r == runs[d]
    <3>1. d \in DepId /\ r.app = a /\ r.pc \in Holding
          BY <2>3 DEF HostInv, HostExclusive, TypeOK
    <3>2. StageFacts(r, host[a])
          BY <3>1, OwnFacts
    <3>3. host'[a] \in Leftovers(d)
          BY <1>1, <2>3 DEF CrashedHost
    <3>4. CASE r.pc = "unlock"
      <4>1. /\ Begun[a] = [id |-> d, version |-> r.version, result |-> r.finalStatus]
            /\ Installed[a] = host[a].binary
            BY <2>1, <3>1, <3>4, DecidedApp
      <4>2. r.finalStatus # None
            BY <3>2, <3>4, ZeroAssumption DEF StageFacts, Status
      <4>3. ~ Atomic!Undecided(a)
            BY <4>1, <4>2 DEF Atomic!Undecided
      <4>4. host'[a].binary = host[a].binary
            BY <3>1, <3>3, <3>4 DEF Leftovers
      <4>   QED BY <4>1, <4>3, <4>4
    <3>5. CASE r.pc # "unlock"
      <4>1. /\ Begun[a] = [id |-> d, version |-> r.version, result |-> None]
            /\ Installed[a] = r.prev
            BY <2>1, <3>1, <3>5, DecidingApp
      <4>2. OwnFile(d, host'[a].binary)
            BY <3>1, <3>3, LeftoverFiles
      <4>3. host'[a].binary \in {r.prev, r.version, None, Partial}
            BY <3>1, <3>2, <4>2 DEF OwnFile, StageFacts
      <4>4. Begun[a].version = r.version /\ Begun[a].result = None
            BY <4>1
      <4>5. Atomic!Undecided(a)
            BY <2>3, <4>1, <4>4 DEF Atomic!Undecided, Atomic!Nobody
      <4>6. host'[a].binary \in Atomic!Left(a, Begun[a], "FAILED")
            BY <4>1, <4>3, <4>4 DEF Atomic!Left
      <4>   QED BY <4>5, <4>6
    <3>   QED BY <3>4, <3>5
  <2>   QED BY <2>2, <2>3
<1>6. /\ Queued' = [a \in App |-> {}]
      /\ Begun' = [a \in App |-> Atomic!Nobody]
      /\ Installed' \in [App -> Version \cup {None, Partial}]
      BY <1>2, <1>3, <1>4, Mapping
<1>7. \A a \in App : Installed'[a] = host'[a].binary
      BY <1>3, Mapping
<1>   QED BY <1>5, <1>6, <1>7 DEF Atomic!Crash

\* Every step of the engine is a step of AtomicDeploy, or none of its own.
LEMMA StepImplements ==
    ASSUME HostInv, [Next]_vars
    PROVE  Atomic!Next \/ UNCHANGED <<Queued, Begun, Installed>>
<1>1. ASSUME NEW d \in DepId, Accept(d) PROVE Atomic!Next
      BY <1>1, AcceptTriggers, TriggerSubmits DEF Triggers, Atomic!Next
<1>2. ASSUME NEW d \in DepId, Acquire(d) PROVE Atomic!Next
      BY <1>2, AcquireBegins DEF Atomic!Next
<1>3. ASSUME NEW d \in DepId, Stage(d), ~ Finish(d), ~ Unlock(d)
      PROVE  UNCHANGED <<Queued, Begun, Installed>>
      BY <1>3, StageStutters
<1>4. ASSUME NEW d \in DepId, Finish(d) PROVE Atomic!Next
      BY <1>4, FinishSettles DEF Atomic!Next
<1>5. ASSUME NEW d \in DepId, Unlock(d) PROVE Atomic!Next
      BY <1>5, UnlockLeaves DEF Atomic!Next
<1>6. CASE Crash
      BY <1>6, CrashCrashes DEF Atomic!Next
<1>7. CASE UNCHANGED vars
      BY <1>7 DEF vars, Queued, Begun, Installed, Deciding, At
<1>   QED BY <1>1, <1>2, <1>3, <1>4, <1>5, <1>6, <1>7 DEF Next, EngineStep

LEMMA InitImplements ==
    ASSUME Init PROVE Atomic!Init
<1>1. \A a \in App : WaitingOn(a) = {}
      BY DEF Init, WaitingOn, At, Idle
<1>2. \A a \in App : BegunOn(a) = Atomic!Nobody /\ InstalledOn(a) = host[a].binary
      BY FreeApp DEF Init
<1>3. \A a \in App : host[a].binary \in Version \cup {None}
      BY DEF Init
<1>   QED BY <1>1, <1>2, <1>3, Mapping DEF Atomic!Init

-----------------------------------------------------------------------------
(* Theorems *)

\* The inductive invariant holds in every behaviour.
THEOREM HostInvariant == Spec => []HostInv
<1>1. Init => HostInv
      BY InitHostInv
<1>2. HostInv /\ [Next]_vars => HostInv'
      BY NextHostInv
<1>   QED BY <1>1, <1>2, PTL DEF Spec

\* Records, locals, mutexes and hosts keep their kinds.
THEOREM TypeCorrect == Spec => []TypeOK
<1>1. HostInv => TypeOK
      BY DEF HostInv
<1>   QED BY <1>1, HostInvariant, PTL

\* Whatever fails, and however the process crashes, the deployments between
\* Lock and Unlock are exactly the holders of the mutexes.
THEOREM Exclusive == Spec => []HostExclusive
<1>1. HostInv => HostExclusive
      BY DEF HostInv
<1>   QED BY <1>1, HostInvariant, PTL

\* SUCCESS is about to be recorded only with the version in place, running
\* and, with a health check, healthy.
THEOREM SuccessCorrect == Spec => []SuccessIsInstalled
<1>1. HostInv => SuccessIsInstalled
      BY DEF HostInv, StageFacts, SuccessIsInstalled
<1>   QED BY <1>1, HostInvariant, PTL

\* ROLLED_BACK is about to be recorded only with the file found before.
THEOREM RollbackCorrect == Spec => []RollbackRestoresPrevious
<1>1. HostInv => RollbackRestoresPrevious
      BY DEF HostInv, StageFacts, RollbackRestoresPrevious
<1>   QED BY <1>1, HostInvariant, PTL

\* The file found before is in place or in the run's backup while it works.
THEOREM PreviousKept == Spec => []PreviousNotLost
<1>1. HostInv => PreviousNotLost
      BY DEF HostInv, StageFacts, PreviousNotLost
<1>   QED BY <1>1, HostInvariant, PTL

\* No step, failed step or crash puts an unsigned version in place on the host
\* of an app with a public key, except the file that was there before.
THEOREM SignedOnly == Spec => InstallsOnlySigned
<1>1. HostInv /\ [Next]_vars => \A a \in HasKey : SignedOrFound(a)
      BY SignedStep
<1>2. HostInv /\ [Next]_vars =>
         [\A a \in HasKey :
             LET c == host'[a].binary
             IN c \in Version /\ c # host[a].binary =>
                   \/ c \in Signed
                   \/ lock[a] # None /\ runs[lock[a]].prev = c]_vars
      BY <1>1 DEF SignedOrFound
<1>   QED BY <1>2, HostInvariant, PTL DEF Spec, InstallsOnlySigned

\* Whatever a deployment does on its way, and wherever a crash cuts it, it
\* takes effect in one step when it finishes, alone on its host, and leaves
\* only what its result allows.
THEOREM ImplementsAtomicDeploy == Spec => ImplementsAtomic
<1>1. Init => Atomic!Init
      BY InitImplements
<1>2. HostInv /\ [Next]_vars => [Atomic!Next]_(Atomic!vars)
      BY StepImplements DEF Atomic!vars
<1>   QED BY <1>1, <1>2, HostInvariant, PTL DEF Spec, ImplementsAtomic, Atomic!Spec
=============================================================================
