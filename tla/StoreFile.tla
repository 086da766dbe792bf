------------------------------ MODULE StoreFile ------------------------------
(***************************************************************************)
(* state.json: Open and persistLocked of internal/store/store.go, and the  *)
(* pattern of every operation of the store that changes something. It      *)
(* takes Store.mu, changes the data in memory, writes all of it to a       *)
(* temporary file, renames that file over state.json and releases the      *)
(* mutex. A write or a rename may fail, and the process may stop, between  *)
(* any two of these steps. The data are one value; the modules that use    *)
(* this one say what is in it.                                             *)
(*                                                                         *)
(* A process that opens the store may be unable to read state.json: it     *)
(* starts with the data of a new store, as if there were no file, and its  *)
(* first change replaces the file. Otherwise the file system keeps what    *)
(* was written and renamed when the process stops; a power failure, which  *)
(* may lose it (nothing is synced), is not modelled.                       *)
(***************************************************************************)
CONSTANTS
    Proc,     \* goroutines that call the store
    Data,     \* values of Store.d
    Empty,    \* the data of a new store
    None,     \* no goroutine
    NoFile,   \* a file that does not exist
    Torn      \* a file that was not written to its end

ASSUME StoreAssumption ==
    /\ Empty \in Data
    /\ None \notin Proc
    /\ NoFile \notin Data
    /\ Torn \notin Data \cup {NoFile}

VARIABLES
    mem,    \* Store.d
    file,   \* state.json
    tmp,    \* state.json.tmp
    op      \* who holds Store.mu for a change, and how far it is

storeVars == <<mem, file, tmp, op>>
-----------------------------------------------------------------------------
\* old is not in the code: the data before the change under way
Operation == [by : Proc \cup {None}, stage : {"none", "write", "rename", "return"},
              old : Data, result : {"none", "ok", "error"}]

NoOperation == [by |-> None, stage |-> "none", old |-> Empty, result |-> "none"]

\* Readers take mu as well: they see the data of no unfinished operation
Unlocked == op.by = None

\* json.Unmarshal refuses a file that is not well-formed before it decodes
\* anything, and Open ignores the error
Decoded(f) == IF f \in Data THEN f ELSE Empty

\* Open ignores every error of os.ReadFile, not only that there is no file
Readings(f) == {Decoded(f), Empty}

StoreInit ==
    /\ mem = Empty
    /\ file = NoFile
    /\ tmp = NoFile
    /\ op = NoOperation

\* p takes mu and changes the data to d, which may be what they were
Change(p, d) ==
    /\ Unlocked
    /\ mem' = d
    /\ op' = [op EXCEPT !.by = p, !.stage = "write", !.old = mem]
    /\ UNCHANGED <<file, tmp>>

Fails == op' = [op EXCEPT !.stage = "return", !.result = "error"]

\* mutant: state.json is written in place
WriteInPlace ==
    /\ op.stage = "write"
    /\ \/ file' = mem /\ op' = [op EXCEPT !.stage = "return", !.result = "ok"]
       \/ file' = Torn /\ Fails
    /\ UNCHANGED <<mem, tmp>>

\* os.WriteFile truncates the temporary file and writes it
WriteTmp ==
    /\ op.stage = "write"
    /\ \/ tmp' = mem /\ op' = [op EXCEPT !.stage = "rename"]
       \/ tmp' = Torn /\ Fails
    /\ UNCHANGED <<mem, file>>

\* mutant: the result of the rename is dropped
RenameUnchecked ==
    /\ op.stage = "rename"
    /\ \/ file' = tmp /\ tmp' = NoFile
       \/ UNCHANGED <<file, tmp>>
    /\ op' = [op EXCEPT !.stage = "return", !.result = "ok"]
    /\ UNCHANGED mem

\* os.Rename replaces state.json or fails
Rename ==
    /\ op.stage = "rename"
    /\ \/ /\ file' = tmp
          /\ tmp' = NoFile
          /\ op' = [op EXCEPT !.stage = "return", !.result = "ok"]
       \/ Fails /\ UNCHANGED <<file, tmp>>
    /\ UNCHANGED mem

\* The deferred Unlock of the operation of p
Return(p) ==
    /\ op.by = p
    /\ op.stage = "return"
    /\ op' = [op EXCEPT !.by = None, !.stage = "none", !.old = Empty]
    /\ UNCHANGED <<mem, file, tmp>>

\* The process stops, and another one opens the store
Reopen ==
    /\ mem' \in Readings(file)
    /\ tmp' = IF op.stage = "write" THEN Torn ELSE tmp
    /\ op' = NoOperation
    /\ UNCHANGED file
-----------------------------------------------------------------------------
StoreNext ==
    \/ \E p \in Proc : (\E d \in Data : Change(p, d)) \/ Return(p)
    \/ WriteTmp \/ Rename \/ Reopen

StoreSpec == StoreInit /\ [][StoreNext]_storeVars
-----------------------------------------------------------------------------
(* Properties *)

\* Each file is well-formed, absent or, if it is the temporary one, torn; the
\* mutex is held exactly while an operation is under way.
StoreTypeOK ==
    /\ mem \in Data
    /\ file \in Data \cup {NoFile}
    /\ tmp \in Data \cup {NoFile, Torn}
    /\ op \in Operation
    /\ op.by = None <=> op.stage = "none"

\* Before the rename the temporary file holds all of the data.
TmpIsComplete == op.stage = "rename" => tmp = mem

StoreInv == StoreTypeOK /\ TmpIsComplete

\* An operation takes effect, in memory and on disk together, at its rename
\* or at the step that fails
Durable == INSTANCE DurableStore WITH
    mem <- IF op.stage \in {"write", "rename"} THEN op.old ELSE mem,
    disk <- Decoded(file),
    answer <- op.result

ImplementsDurable == Durable!Spec
=============================================================================
