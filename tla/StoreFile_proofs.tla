-------------------------- MODULE StoreFile_proofs --------------------------
(***************************************************************************)
(* Theorems about StoreFile, for any number of goroutines and any data:    *)
(* the invariant StoreInv, and that the file implements DurableStore.      *)
(***************************************************************************)
EXTENDS StoreFile, TLAPS

\* A file that is not torn decodes to data.
LEMMA DecodedData ==
    ASSUME NEW f \in Data \cup {NoFile, Torn}
    PROVE  /\ Decoded(f) \in Data
           /\ f \in Data => Decoded(f) = f
BY StoreAssumption DEF Decoded

\* The steps of a change keep the mutex, the files and the temporary file in
\* order, whoever calls the store (Open, persistLocked and the operations).
LEMMA ChangeInv ==
    ASSUME StoreInv, NEW p \in Proc, NEW d \in Data, Change(p, d)
    PROVE  StoreInv'
BY StoreAssumption DEF StoreInv, StoreTypeOK, TmpIsComplete, Operation, Change, Unlocked

LEMMA WriteTmpInv ==
    ASSUME StoreInv, WriteTmp
    PROVE  StoreInv'
BY StoreAssumption
DEF StoreInv, StoreTypeOK, TmpIsComplete, Operation, WriteTmp, Fails

LEMMA RenameInv ==
    ASSUME StoreInv, Rename
    PROVE  StoreInv'
BY StoreAssumption
DEF StoreInv, StoreTypeOK, TmpIsComplete, Operation, Rename, Fails

\* Neither step of persistLocked releases the mutex or touches the data.
LEMMA PersistKeepsMutex ==
    ASSUME op \in Operation, WriteTmp \/ Rename
    PROVE  op'.by = op.by /\ mem' = mem
<1>1. CASE WriteTmp
  BY <1>1 DEF Operation, WriteTmp, Fails
<1>2. CASE Rename
  BY <1>2 DEF Operation, Rename, Fails
<1> QED
  BY <1>1, <1>2

LEMMA ReturnInv ==
    ASSUME StoreInv, NEW p \in Proc, Return(p)
    PROVE  StoreInv'
BY StoreAssumption DEF StoreInv, StoreTypeOK, TmpIsComplete, Operation, Return

LEMMA ReopenInv ==
    ASSUME StoreInv, Reopen
    PROVE  StoreInv'
BY StoreAssumption, DecodedData
DEF StoreInv, StoreTypeOK, TmpIsComplete, Operation, Reopen, NoOperation, Readings

LEMMA StoreInitInv ==
    ASSUME StoreInit
    PROVE  StoreInv
BY StoreAssumption
DEF StoreInv, StoreTypeOK, TmpIsComplete, Operation, StoreInit, NoOperation

\* Every step of the store preserves the invariant.
LEMMA StoreNextInv ==
    ASSUME StoreInv, [StoreNext]_storeVars
    PROVE  StoreInv'
<1>1. CASE \E p \in Proc, d \in Data : Change(p, d)
  BY <1>1, ChangeInv
<1>2. CASE \E p \in Proc : Return(p)
  BY <1>2, ReturnInv
<1>3. CASE WriteTmp
  BY <1>3, WriteTmpInv
<1>4. CASE Rename
  BY <1>4, RenameInv
<1>5. CASE Reopen
  BY <1>5, ReopenInv
<1>6. CASE UNCHANGED storeVars
  BY <1>6 DEF storeVars, StoreInv, StoreTypeOK, TmpIsComplete
<1> QED
  BY <1>1, <1>2, <1>3, <1>4, <1>5, <1>6 DEF StoreNext

\* state.json is never torn and the temporary file is complete when it is
\* renamed: what persistLocked is written for.
THEOREM StoreInvariant == StoreSpec => []StoreInv
<1>1. StoreInit => StoreInv
  BY StoreInitInv
<1>2. StoreInv /\ [StoreNext]_storeVars => StoreInv'
  BY StoreNextInv
<1> QED
  BY <1>1, <1>2, PTL DEF StoreSpec

\* A step of the store is a save, a restart or no step of DurableStore.
LEMMA StoreStepDurable ==
    ASSUME StoreInv, StoreInv', [StoreNext]_storeVars
    PROVE  [Durable!Next]_(Durable!vars)
<1> USE DEF Durable!vars
<1>1. CASE \E p \in Proc, d \in Data : Change(p, d)
  BY <1>1 DEF StoreInv, StoreTypeOK, Operation, Change, Unlocked
<1>2. CASE \E p \in Proc : Return(p)
  BY <1>2 DEF StoreInv, StoreTypeOK, Operation, Return
<1>3. CASE WriteTmp
  <2>1. CASE op' = [op EXCEPT !.stage = "rename"]
    BY <1>3, <2>1 DEF StoreInv, StoreTypeOK, Operation, WriteTmp
  <2>2. CASE Fails
    <3>1. Durable!Save(mem)
      BY <1>3, <2>2 DEF StoreInv, StoreTypeOK, Operation, WriteTmp, Fails, Durable!Save
    <3> QED
      BY <3>1 DEF Durable!Next, StoreInv, StoreTypeOK
  <2> QED
    BY <1>3, <2>1, <2>2 DEF WriteTmp
<1>4. CASE Rename
  <2>1. file' = mem => Decoded(file') = mem
    BY DecodedData DEF StoreInv, StoreTypeOK
  <2>2. Durable!Save(mem)
    BY <1>4, <2>1
    DEF StoreInv, StoreTypeOK, TmpIsComplete, Operation, Rename, Fails, Durable!Save
  <2> QED
    BY <2>2 DEF Durable!Next, StoreInv, StoreTypeOK
<1>5. CASE Reopen
  <2>1. Durable!Restart
    BY <1>5 DEF Reopen, NoOperation, Readings, Durable!Restart
  <2> QED
    BY <2>1 DEF Durable!Next
<1>6. CASE UNCHANGED storeVars
  BY <1>6 DEF storeVars
<1> QED
  BY <1>1, <1>2, <1>3, <1>4, <1>5, <1>6 DEF StoreNext

\* The write to a temporary file and the rename make every operation of the
\* store atomic: on disk it happens entirely, or not at all and with an error.
\* Only a start that cannot read state.json has anything but what is on disk,
\* and then it has nothing (Open ignores the error).
THEOREM StoreImplementsDurable == StoreSpec => ImplementsDurable
<1>1. StoreInit => Durable!Init
  BY StoreAssumption DEF StoreInit, NoOperation, Decoded, Durable!Init
<1>2. StoreInv /\ StoreInv' /\ [StoreNext]_storeVars => [Durable!Next]_(Durable!vars)
  BY StoreStepDurable
<1> QED
  BY <1>1, <1>2, StoreInvariant, PTL DEF StoreSpec, ImplementsDurable, Durable!Spec
=============================================================================
