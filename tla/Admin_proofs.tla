---------------------------- MODULE Admin_proofs ----------------------------
(***************************************************************************)
(* Theorems about Admin, for any users, applications and requests in       *)
(* flight, and without its bounds: what was answered survives, and an      *)
(* administrator remains. The invariants are proved in three layers, each  *)
(* from the ones before: types, what is on disk, who is left.              *)
(***************************************************************************)
EXTENDS Admin, StoreFile_proofs

-----------------------------------------------------------------------------
(* Definitions *)

\* A request names what its kind is about, and by an administrator of then
WellFormed(r) ==
    /\ r.kind = "createUser" => r.target \in User /\ r.value \in Role
    /\ r.kind = "deleteUser" => r.target \in User /\ r.value = None
    /\ r.kind \in {"createApp", "updateApp"} => r.target \in App /\ r.value \in Setting
    /\ r.kind = "deleteApp" => r.target \in App /\ r.value = None
    /\ r.kind \in Kind /\ r.by \in User

\* A request that passed its check has settings that App.Validate accepts
Validated(r) == r.kind \in {"createApp", "updateApp"} => r.value \in Valid

\* What a request is and which one holds the mutex, after every step.
RequestsInv ==
    /\ req \in [Request -> AdRequest]
    /\ \A p \in Request :
          /\ op.by = p <=> req[p].pc \in {"changing", "pushing"}
          /\ req[p].pc \in {"authorized", "checked", "changing"} => WellFormed(req[p])
          /\ req[p].pc \in {"checked", "changing"} => Validated(req[p])
    /\ ~serving => \A p \in Request : req[p].pc = "idle"
    /\ op.by = Main => ~serving

TypesInv == StoreInv /\ AdTypeOK /\ RequestsInv

\* What is on disk, while a change is under way and when none is
DiskInv ==
    /\ acked \in [Name -> Role \cup Setting \cup {None, Unknown}]
    /\ \A x \in Name : acked[x] # Unknown =>
          mem[x] = acked[x] /\ Decoded(file)[x] = acked[x]
    /\ \A p \in Request : req[p].pc = "changing" => mem[req[p].target] = req[p].value
    /\ op.stage = "return" /\ op.result = "ok" => mem = Decoded(file)
    /\ ~serving /\ Unlocked => mem \in Readings(file)

\* Before the process serves there may be no administrator yet, and then every
\* user of the configuration is as the configuration says, or will be made so
Seeded(d) ==
    \/ Administrators(d) # {}
    \/ \A u \in DOMAIN Bootstrap : d[u] \in {None, Bootstrap[u]}

LeftInv ==
    /\ AdminRemains
    /\ ~overdue => Seeded(mem) /\ Seeded(Decoded(file))
-----------------------------------------------------------------------------
(* Types *)

\* The data a request makes are data.
LEMMA AppliedData ==
    ASSUME NEW d \in Data, NEW x \in Name, NEW v \in Role \cup Setting \cup {None}
    PROVE  [d EXCEPT ![x] = v] \in Data
BY AdminAssumption

\* Every step of Admin is a step of the store, or leaves it alone.
LEMMA AdminStoreStep ==
    ASSUME TypesInv, [AdNext]_adminVars
    PROVE  [StoreNext]_storeVars
<1> USE AdminAssumption DEF storeVars
<1>0. mem \in Data
  BY DEF TypesInv, StoreInv, StoreTypeOK
<1>1. ASSUME NEW u \in User, BootstrapUser(u)
      PROVE  StoreNext
  <2>1. [mem EXCEPT ![u] = Bootstrap[u]] \in Data
    BY <1>0, <1>1, AppliedData DEF BootstrapUser, Name
  <2> QED
    BY <1>1, <2>1 DEF BootstrapUser, StoreNext
<1>2. ASSUME NEW p \in Request, Apply(p)
      PROVE  StoreNext
  <2>1. [mem EXCEPT ![req[p].target] = req[p].value] \in Data
    BY <1>0, <1>2, AppliedData DEF Apply, TypesInv, RequestsInv, WellFormed, Kind, Name
  <2> QED
    BY <1>2, <2>1 DEF Apply, StoreNext
<1>3. ASSUME NEW p \in Request, PushEvent(p)
      PROVE  StoreNext
  BY <1>0, <1>3 DEF PushEvent, StoreNext
<1>4. ASSUME Bootstrapped \/ \E p \in Request : Changed(p) \/ Answer(p)
      PROVE  StoreNext
  BY <1>4 DEF Bootstrapped, Changed, Answer, StoreNext
<1>5. ASSUME Restart \/ Persist
      PROVE  StoreNext
  BY <1>5 DEF Restart, Persist, StoreNext
<1>6. ASSUME NEW p \in Request,
             \/ \E u \in User : Login(p, u) \/ \E r \in Requests : Authorize(p, u, r)
             \/ Check(p) \/ NotFound(p)
      PROVE  UNCHANGED storeVars
  BY <1>6 DEF Login, Authorize, Check, NotFound
<1>7. ASSUME Serve \/ UNCHANGED adminVars
      PROVE  UNCHANGED storeVars
  BY <1>7 DEF Serve, adminVars
<1> QED
  BY <1>1, <1>2, <1>3, <1>4, <1>5, <1>6, <1>7 DEF AdNext

\* The types of the first state.
LEMMA TypesInitially ==
    ASSUME AdInit
    PROVE  TypesInv
<1>1. StoreInv
  BY StoreInitInv DEF AdInit
<1>2. mem = Empty /\ Decoded(file) = Empty
  BY StoreAssumption DEF AdInit, StoreInit, Decoded
<1>3. req \in [Request -> AdRequest] /\ \A p \in Request : req[p].pc = "idle"
  BY DEF AdInit, NoRequest, AdRequest
<1>4. op.by = None
  BY DEF AdInit, StoreInit, NoOperation
<1> QED
  BY <1>1, <1>2, <1>3, <1>4, AdminAssumption, StoreAssumption
  DEF AdInit, TypesInv, RequestsInv, AdTypeOK, StoreInv, Name

\* The entries of the data have the types of their names.
Typed(d) ==
    /\ \A u \in User : d[u] \in Role \cup {None}
    /\ \A a \in App : d[a] \in Valid \cup {None}

\* The entries stay typed when a well-formed, validated request is applied,
\* a user is bootstrapped, or the data are written or read back.
LEMMA TypedStep ==
    ASSUME TypesInv, AdNext
    PROVE  Typed(mem') /\ Typed(Decoded(file'))
<1> USE AdminAssumption, StoreAssumption DEF Name
<1>0. /\ mem \in [Name -> Role \cup Setting \cup {None}]
      /\ Typed(mem) /\ Typed(Decoded(file))
      /\ Typed(Empty)
      /\ file \in Data \cup {NoFile}
      /\ op.stage = "rename" => tmp = mem
  BY DEF TypesInv, AdTypeOK, Typed, StoreInv, StoreTypeOK, TmpIsComplete
<1>1. ASSUME NEW u \in User, BootstrapUser(u)
      PROVE  Typed(mem') /\ file' = file
  BY <1>0, <1>1 DEF BootstrapUser, Change, Typed
<1>2. ASSUME NEW p \in Request, Apply(p)
      PROVE  Typed(mem') /\ file' = file
  BY <1>0, <1>2 DEF Apply, Change, Typed, TypesInv, RequestsInv, WellFormed, Validated, Kind
<1>3. ASSUME Persist
      PROVE  mem' = mem /\ file' \in {file, mem}
  BY <1>0, <1>3 DEF Persist, WriteTmp, Rename, Fails
<1>4. ASSUME Restart
      PROVE  mem' \in {Decoded(file), Empty} /\ file' = file
  BY <1>4 DEF Restart, Reopen, Readings
<1>5. ASSUME \/ Bootstrapped \/ Serve
             \/ \E p \in Request : \/ Check(p) \/ NotFound(p) \/ Changed(p)
                                   \/ PushEvent(p) \/ Answer(p)
                                   \/ \E u \in User : Login(p, u) \/ \E r \in Requests : Authorize(p, u, r)
      PROVE  mem' = mem /\ file' = file
  BY <1>5 DEF Bootstrapped, Serve, Check, NotFound, Changed, PushEvent, Answer,
              Login, Authorize, storeVars, Return, Change
<1>6. Decoded(mem) = mem
  BY <1>0 DEF Decoded
<1> QED
  BY <1>0, <1>1, <1>2, <1>3, <1>4, <1>5, <1>6 DEF AdNext

\* Each action keeps the requests well-formed, and the mutex with its request.
LEMMA RequestsStep ==
    ASSUME TypesInv, AdNext
    PROVE  RequestsInv'
<1> USE AdminAssumption, StoreAssumption
<1>0. RequestsInv /\ op \in Operation
  BY DEF TypesInv, AdTypeOK, RequestsInv, StoreInv, StoreTypeOK
<1> USE DEF RequestsInv, AdRequest, Operation
<1>1. ASSUME NEW u \in User, BootstrapUser(u)
      PROVE  RequestsInv'
  BY <1>0, <1>1 DEF BootstrapUser, Change, Unlocked
<1>2. CASE Bootstrapped
  BY <1>0, <1>2 DEF Bootstrapped, Return
<1>3. CASE Serve
  BY <1>0, <1>3 DEF Serve, storeVars, Unlocked
<1>4. CASE Restart
  BY <1>0, <1>4 DEF Restart, Reopen, NoOperation, NoRequest
<1>5. CASE Persist
  <2>0. WriteTmp \/ Rename
    BY <1>5 DEF Persist
  <2>1. op'.by = op.by
    BY <1>0, <2>0, PersistKeepsMutex
  <2>2. req' = req /\ serving' = serving
    BY <1>5 DEF Persist
  <2> QED
    BY <1>0, <2>1, <2>2
<1>6. ASSUME NEW p \in Request, NEW u \in User, Login(p, u)
      PROVE  RequestsInv'
  BY <1>0, <1>6 DEF Login, storeVars, Unlocked
<1>7. ASSUME NEW p \in Request, NEW u \in User, NEW r \in Requests, Authorize(p, u, r)
      PROVE  RequestsInv'
  <2>1. /\ r.kind \in Kind /\ r.target \in Name
        /\ r.value \in Role \cup Setting \cup {None}
        /\ WellFormed([pc |-> "authorized", kind |-> r.kind, by |-> u,
                       target |-> r.target, value |-> r.value])
    BY DEF Requests, WellFormed, Kind, Name
  <2> QED
    BY <1>0, <1>7, <2>1 DEF Authorize, storeVars, Unlocked
<1>8. ASSUME NEW p \in Request, Check(p)
      PROVE  RequestsInv'
  <2>1. CASE Accepts(req[p])
    BY <1>0, <1>8, <2>1 DEF Check, storeVars, Unlocked, Accepts, ValidateApp, Validate,
                              Validated, WellFormed
  <2>2. CASE ~Accepts(req[p])
    BY <1>0, <1>8, <2>2 DEF Check, storeVars, Unlocked, NoRequest
  <2> QED
    BY <2>1, <2>2
<1>9. ASSUME NEW p \in Request, Apply(p)
      PROVE  RequestsInv'
  BY <1>0, <1>9 DEF Apply, Change, Unlocked, WellFormed, Validated
<1>10. ASSUME NEW p \in Request, NotFound(p)
      PROVE  RequestsInv'
  BY <1>0, <1>10 DEF NotFound, storeVars, Unlocked, NoRequest
<1>11. ASSUME NEW p \in Request, Changed(p)
      PROVE  RequestsInv'
  BY <1>0, <1>11 DEF Changed, Return, NoRequest
<1>12. ASSUME NEW p \in Request, PushEvent(p)
      PROVE  RequestsInv'
  BY <1>0, <1>12 DEF PushEvent, Change, Unlocked
<1>13. ASSUME NEW p \in Request, Answer(p)
      PROVE  RequestsInv'
  BY <1>0, <1>13 DEF Answer, Return, NoRequest
<1> QED
  BY <1>1, <1>2, <1>3, <1>4, <1>5, <1>6, <1>7, <1>8, <1>9, <1>10, <1>11, <1>12, <1>13
  DEF AdNext

LEMMA TypesStep ==
    ASSUME TypesInv, [AdNext]_adminVars
    PROVE  TypesInv'
<1>1. StoreInv'
  BY AdminStoreStep, StoreNextInv DEF TypesInv
<1>2. CASE AdNext
  <2>1. RequestsInv'
    BY <1>2, RequestsStep
  <2>2. Typed(mem') /\ Typed(Decoded(file'))
    BY <1>2, TypedStep
  <2>3. serving' \in {serving, TRUE, FALSE}
    BY <1>2 DEF AdNext, BootstrapUser, Bootstrapped, Serve, Restart, Persist, Login,
                Authenticate, Authorize, Check, Apply, NotFound, Changed, PushEvent, Answer
  <2>4. tokens' \subseteq tokens \cup User
    BY <1>2 DEF AdNext, BootstrapUser, Bootstrapped, Serve, Restart, Persist, Login,
                Authenticate, Authorize, Check, Apply, NotFound, Changed, PushEvent, Answer
  <2>5. overdue' \in BOOLEAN
    <3>1. CASE \E p \in Request : Apply(p)
      BY <3>1, Zenon DEF Apply
    <3>2. CASE ~ \E p \in Request : Apply(p)
      <4>1. overdue' = overdue
        BY <1>2, <3>2 DEF AdNext, BootstrapUser, Bootstrapped, Serve, Restart, Persist, Login,
                          Authorize, Check, NotFound, Changed, PushEvent, Answer
      <4> QED
        BY <4>1 DEF TypesInv, AdTypeOK
    <3> QED
      BY <3>1, <3>2
  <2>6. serving' \in BOOLEAN /\ tokens' \subseteq User
    BY <2>3, <2>4 DEF TypesInv, AdTypeOK
  <2> QED
    BY <1>1, <2>1, <2>2, <2>5, <2>6 DEF TypesInv, RequestsInv, AdTypeOK, StoreInv, Typed
<1>3. CASE UNCHANGED adminVars
  BY <1>1, <1>3 DEF adminVars, storeVars, TypesInv, RequestsInv, AdTypeOK, StoreInv, StoreTypeOK
<1> QED
  BY <1>2, <1>3

LEMMA TypesInvariant == AdSpec => []TypesInv
<1>1. AdInit => TypesInv
  BY TypesInitially
<1>2. TypesInv /\ [AdNext]_adminVars => TypesInv'
  BY TypesStep
<1> QED
  BY <1>1, <1>2, PTL DEF AdSpec

\* The store never holds an application that App.Validate refuses, or a user
\* without a role, and Store.mu is held by the request under way: the handlers,
\* their checks and the bootstrap see to it for any number of requests.
THEOREM AdTypeCorrect == AdSpec => []AdTypeOK
BY TypesInvariant, PTL DEF TypesInv

\* The requests and the bootstrap use the store as StoreFile says, so that each
\* of their changes is atomic.
THEOREM AdImplementsDurable == AdSpec => ImplementsDurable
<1>1. AdInit => StoreInit
  BY DEF AdInit
<1>2. TypesInv /\ [AdNext]_adminVars => [StoreNext]_storeVars
  BY AdminStoreStep
<1>3. AdSpec => StoreSpec
  BY <1>1, <1>2, TypesInvariant, PTL DEF AdSpec, StoreSpec
<1> QED
  BY <1>3, StoreImplementsDurable

-----------------------------------------------------------------------------
(* Disk *)

LEMMA DiskInitially ==
    ASSUME AdInit
    PROVE  DiskInv
BY AdminAssumption, StoreAssumption
DEF AdInit, StoreInit, NoOperation, NoRequest, DiskInv, Decoded, Readings, Name

\* Each action keeps what was answered on disk: the data reach the disk all at
\* once, at the rename, and a change of an entry withdraws its answer first.
LEMMA DiskStep ==
    ASSUME TypesInv, DiskInv, AdNext
    PROVE  DiskInv'
<1> USE AdminAssumption, StoreAssumption
<1>0. /\ op \in Operation
      /\ op.by = None <=> op.stage = "none"
      /\ mem \in [Name -> Role \cup Setting \cup {None}]
      /\ mem \in Data /\ Decoded(mem) = mem
      /\ op.stage = "rename" => tmp = mem
      /\ req \in [Request -> AdRequest]
      /\ \A p \in Request : op.by = p <=> req[p].pc \in {"changing", "pushing"}
      /\ op.by = Main => ~serving
      /\ ~serving => \A p \in Request : req[p].pc = "idle"
  BY DEF TypesInv, StoreInv, StoreTypeOK, TmpIsComplete, RequestsInv, Decoded
<1>q. ASSUME UNCHANGED <<mem, file, op, acked>>, serving' = TRUE,
             req' \in [Request -> AdRequest],
             \A p \in Request : req'[p].pc = "changing" => req'[p] = req[p]
      PROVE  DiskInv'
  BY <1>q DEF DiskInv, Decoded, Readings, Unlocked
<1>r. RequestsInv'
  BY RequestsStep
<1>1. ASSUME NEW u \in User, BootstrapUser(u)
      PROVE  DiskInv'
  <2>1. mem' = [mem EXCEPT ![u] = Bootstrap[u]] /\ UNCHANGED <<file, serving, req>>
    BY <1>1 DEF BootstrapUser, Change
  <2>2. op'.stage = "write" /\ op'.by = Main
    BY <1>0, <1>1 DEF BootstrapUser, Change, Operation
  <2>3. acked' = [acked EXCEPT ![u] = Unknown] /\ ~serving
    BY <1>1 DEF BootstrapUser
  <2> QED
    BY <1>0, <2>1, <2>2, <2>3 DEF DiskInv, Decoded, Readings, Unlocked, Name
<1>2. CASE Bootstrapped
  <2>1. op'.stage = "none" /\ UNCHANGED <<mem, file, serving, req, acked>>
    BY <1>0, <1>2 DEF Bootstrapped, Return, Operation
  <2>2. op.stage = "return" /\ op.result = "ok"
    BY <1>2 DEF Bootstrapped, Return
  <2> QED
    BY <2>1, <2>2 DEF DiskInv, Decoded, Readings
<1>3. CASE Serve
  BY <1>0, <1>3, <1>q DEF Serve, storeVars
<1>4. CASE Restart
  <2>1. /\ mem' \in Readings(file) /\ file' = file
        /\ op'.stage = "none" /\ ~serving'
        /\ acked' = [x \in Name |-> IF mem'[x] = Decoded(file)[x] THEN acked[x] ELSE Unknown]
    BY <1>4 DEF Restart, Reopen, NoOperation
  <2>2. \A p \in Request : req'[p].pc = "idle"
    BY <1>4 DEF Restart, NoRequest
  <2>3. Decoded(file') = Decoded(file) /\ Readings(file') = Readings(file)
    BY <2>1 DEF Decoded, Readings
  <2>4. \A x \in Name : acked'[x] # Unknown =>
          mem'[x] = acked'[x] /\ Decoded(file)[x] = acked'[x]
    BY <2>1 DEF DiskInv
  <2>5. acked' \in [Name -> Role \cup Setting \cup {None, Unknown}]
    BY <2>1 DEF DiskInv
  <2> QED
    BY <2>1, <2>2, <2>3, <2>4, <2>5 DEF DiskInv
<1>5. CASE Persist
  <2>0. UNCHANGED <<serving, req, acked>> /\ (WriteTmp \/ Rename)
    BY <1>5 DEF Persist
  <2>1. mem' = mem /\ op'.by = op.by /\ op.by # None
    BY <1>0, <2>0, PersistKeepsMutex DEF WriteTmp, Rename
  <2>2. CASE op'.stage = "return" /\ op'.result = "ok"
    <3>1. file' = mem
      BY <1>0, <2>0, <2>2 DEF WriteTmp, Rename, Fails, Operation
    <3> QED
      BY <1>0, <2>0, <2>1, <3>1 DEF DiskInv, Decoded, Readings, Unlocked
  <2>3. CASE ~(op'.stage = "return" /\ op'.result = "ok")
    <3>1. file' = file
      BY <1>0, <2>0, <2>3 DEF WriteTmp, Rename, Operation
    <3> QED
      BY <1>0, <2>0, <2>1, <2>3, <3>1 DEF DiskInv, Decoded, Readings, Unlocked
  <2> QED
    BY <2>2, <2>3
<1>6. ASSUME NEW p \in Request, NEW u \in User, Login(p, u)
      PROVE  DiskInv'
  <2>1. \A o \in Request : req'[o].pc = "changing" => req'[o] = req[o]
    BY <1>0, <1>6 DEF Login, AdRequest
  <2> QED
    BY <1>6, <1>q, <1>r, <2>1 DEF Login, storeVars, TypesInv, AdTypeOK, RequestsInv
<1>7. ASSUME NEW p \in Request, NEW u \in User, NEW r \in Requests, Authorize(p, u, r)
      PROVE  DiskInv'
  <2>1. \A o \in Request : req'[o].pc = "changing" => req'[o] = req[o]
    BY <1>0, <1>7 DEF Authorize, AdRequest
  <2> QED
    BY <1>7, <1>q, <1>r, <2>1 DEF Authorize, storeVars, TypesInv, AdTypeOK, RequestsInv
<1>8. ASSUME NEW p \in Request, Check(p)
      PROVE  DiskInv'
  <2>1. \A o \in Request : req'[o].pc = "changing" => req'[o] = req[o]
    BY <1>0, <1>8 DEF Check, AdRequest, NoRequest
  <2>2. serving' = TRUE
    BY <1>0, <1>8 DEF Check, TypesInv, AdTypeOK
  <2> QED
    BY <1>8, <1>q, <1>r, <2>1, <2>2 DEF Check, storeVars, RequestsInv
<1>9. ASSUME NEW p \in Request, NotFound(p)
      PROVE  DiskInv'
  <2>1. \A o \in Request : req'[o].pc = "changing" => req'[o] = req[o]
    BY <1>0, <1>9 DEF NotFound, AdRequest, NoRequest
  <2>2. serving' = TRUE
    BY <1>0, <1>9 DEF NotFound, TypesInv, AdTypeOK
  <2> QED
    BY <1>9, <1>q, <1>r, <2>1, <2>2 DEF NotFound, storeVars, RequestsInv
<1>10. ASSUME NEW p \in Request, Apply(p)
      PROVE  DiskInv'
  <2>0. req[p].target \in Name /\ req[p].value \in Role \cup Setting \cup {None}
    BY <1>0, <1>10 DEF Apply, TypesInv, RequestsInv, WellFormed, Kind, Name
  <2>1. /\ mem' = [mem EXCEPT ![req[p].target] = req[p].value]
        /\ acked' = [acked EXCEPT ![req[p].target] = Unknown]
        /\ req' = [req EXCEPT ![p].pc = "changing"]
        /\ UNCHANGED <<file, serving>>
    BY <1>10 DEF Apply, Change
  <2>2. op'.stage = "write" /\ op'.by = p
    BY <1>0, <1>10 DEF Apply, Change, Operation
  <2>3. \A o \in Request : req[o].pc # "changing"
    BY <1>0, <1>10 DEF Apply, Change, Unlocked
  <2>4. \A o \in Request : req'[o].pc = "changing" => mem'[req'[o].target] = req'[o].value
    BY <1>0, <2>0, <2>1, <2>3 DEF AdRequest
  <2>5. \A x \in Name : acked'[x] # Unknown => mem'[x] = acked'[x] /\ Decoded(file')[x] = acked'[x]
    BY <1>0, <2>0, <2>1 DEF DiskInv, Decoded, Readings
  <2> QED
    BY <1>0, <2>0, <2>1, <2>2, <2>4, <2>5 DEF DiskInv, Unlocked
<1>11. ASSUME NEW p \in Request, Changed(p)
      PROVE  DiskInv'
  <2>0. req[p].target \in Name /\ req[p].value \in Role \cup Setting \cup {None}
    BY <1>0, <1>11 DEF Changed, TypesInv, RequestsInv, WellFormed, Kind, Name
  <2>1. /\ op'.stage = "none" /\ UNCHANGED <<mem, file, serving>>
        /\ serving /\ op.stage = "return"
    BY <1>0, <1>11 DEF Changed, Return, Operation
  <2>2. \A o \in Request : req'[o].pc = "changing" => req'[o] = req[o]
    BY <1>0, <1>11 DEF Changed, AdRequest, NoRequest
  <2>3. CASE op.result = "ok"
    <3>1. /\ acked' = [acked EXCEPT ![req[p].target] = req[p].value]
          /\ mem[req[p].target] = req[p].value /\ mem = Decoded(file)
      BY <1>11, <2>1, <2>3 DEF Changed, DiskInv
    <3> QED
      BY <1>0, <2>0, <2>1, <2>2, <3>1 DEF DiskInv, Decoded, Readings
  <2>4. CASE op.result # "ok"
    <3>1. acked' = acked
      BY <1>11, <2>4 DEF Changed
    <3> QED
      BY <1>0, <2>1, <2>2, <3>1 DEF DiskInv, Decoded, Readings
  <2> QED
    BY <2>3, <2>4
<1>12. ASSUME NEW p \in Request, PushEvent(p)
      PROVE  DiskInv'
  <2>1. /\ UNCHANGED <<mem, file, serving, acked>> /\ serving
        /\ req' = [req EXCEPT ![p].pc = "pushing"]
    BY <1>0, <1>12 DEF PushEvent, Change
  <2>2. op'.stage = "write"
    BY <1>0, <1>12 DEF PushEvent, Change, Operation
  <2>3. \A o \in Request : req'[o].pc = "changing" => req'[o] = req[o]
    BY <1>0, <2>1 DEF AdRequest
  <2> QED
    BY <2>1, <2>2, <2>3 DEF DiskInv, Decoded, Readings
<1>13. ASSUME NEW p \in Request, Answer(p)
      PROVE  DiskInv'
  <2>1. /\ UNCHANGED <<mem, file, serving, acked>> /\ serving
        /\ op'.stage = "none"
    BY <1>0, <1>13 DEF Answer, Return, Operation
  <2>2. \A o \in Request : req'[o].pc = "changing" => req'[o] = req[o]
    BY <1>0, <1>13 DEF Answer, AdRequest, NoRequest
  <2> QED
    BY <2>1, <2>2 DEF DiskInv, Decoded, Readings
<1> QED
  BY <1>1, <1>2, <1>3, <1>4, <1>5, <1>6, <1>7, <1>8, <1>9, <1>10, <1>11, <1>12, <1>13
  DEF AdNext

LEMMA DiskInvariant == AdSpec => []DiskInv
<1>1. AdInit => DiskInv
  BY DiskInitially
<1>2. TypesInv /\ DiskInv /\ [AdNext]_adminVars => DiskInv'
  <2>1. TypesInv /\ DiskInv /\ AdNext => DiskInv'
    BY DiskStep
  <2>2. DiskInv /\ UNCHANGED adminVars => DiskInv'
    BY DEF adminVars, storeVars, DiskInv, Decoded, Readings, Unlocked
  <2> QED
    BY <2>1, <2>2
<1> QED
  BY <1>1, <1>2, TypesInvariant, PTL DEF AdSpec

\* An answer that a user or an application was created, changed or deleted
\* holds on disk until the next change of it, through crashes and through
\* writes and renames that fail: SaveUser, SaveDynamicApp and the two deletes.
\* A start that cannot read state.json ends it for the entries it has not got.
THEOREM AckedSurvivesAlways == AdSpec => []AckedSurvives
<1>1. DiskInv => AckedSurvives
  BY DEF DiskInv, AckedSurvives
<1> QED
  BY <1>1, DiskInvariant, PTL

-----------------------------------------------------------------------------
(* Administrators *)

LEMMA LeftInitially ==
    ASSUME AdInit
    PROVE  LeftInv
BY AdminAssumption, StoreAssumption
DEF AdInit, StoreInit, LeftInv, AdminRemains, Seeded, Decoded, Name

\* A request that is made for an administrator, and whose check holds, leaves
\* that administrator in place.
LEMMA ApplyLeaves ==
    ASSUME TypesInv, NEW p \in Request, Apply(p), ~overdue'
    PROVE  Administrators(mem') # {} /\ ~overdue
<1> USE AdminAssumption
<1> DEFINE r == req[p]
<1>1. ~overdue /\ r.by \in Administrators(mem) /\ Accepts(r)
  BY DEF Apply
<1>2. mem' = [mem EXCEPT ![r.target] = r.value]
  BY DEF Apply, Change
<1>3. r.target # r.by
  <2>1. CASE r.kind \in {"createUser", "deleteUser"}
    BY <1>1, <2>1 DEF Accepts, Administrators
  <2>2. CASE r.kind \in {"createApp", "updateApp", "deleteApp"}
    BY <2>2 DEF Apply, TypesInv, RequestsInv, WellFormed
  <2> QED
    BY <2>1, <2>2 DEF Apply, TypesInv, RequestsInv, WellFormed, Kind
<1>4. mem \in [Name -> Role \cup Setting \cup {None}]
  BY DEF TypesInv, StoreInv, StoreTypeOK
<1>5. mem'[r.by] = "admin"
  BY <1>1, <1>2, <1>3, <1>4 DEF Administrators, Name
<1> QED
  BY <1>1, <1>5 DEF Administrators

LEMMA LeftStep ==
    ASSUME TypesInv, DiskInv, LeftInv, AdNext
    PROVE  LeftInv'
<1> USE AdminAssumption, StoreAssumption
<1>0. /\ mem \in [Name -> Role \cup Setting \cup {None}]
      /\ mem \in Data /\ Decoded(mem) = mem
      /\ op.stage = "rename" => tmp = mem
  BY DEF TypesInv, StoreInv, StoreTypeOK, TmpIsComplete, Decoded
<1>1. ASSUME NEW u \in User, BootstrapUser(u)
      PROVE  LeftInv'
  <2>1. /\ mem' = [mem EXCEPT ![u] = Bootstrap[u]] /\ mem[u] = None
        /\ UNCHANGED <<file, serving, overdue>> /\ ~serving
    BY <1>1 DEF BootstrapUser, Change
  <2>2. Seeded(mem) => Seeded(mem')
    <3>1. CASE \A v \in DOMAIN Bootstrap : mem[v] \in {None, Bootstrap[v]}
      BY <1>0, <2>1, <3>1 DEF Seeded, Name
    <3>2. ASSUME NEW v \in Administrators(mem)
          PROVE  v \in Administrators(mem')
      BY <1>0, <2>1, <3>2 DEF Administrators, Name
    <3> QED
      BY <3>1, <3>2 DEF Seeded
  <2> QED
    BY <2>1, <2>2 DEF LeftInv, AdminRemains, Decoded
<1>2. CASE Serve
  <2>0. /\ UNCHANGED <<mem, file, overdue>> /\ mem \in Readings(file)
        /\ \A u \in DOMAIN Bootstrap : mem[u] # None
    BY <1>2 DEF Serve, storeVars, DiskInv
  <2>1. mem = Decoded(file)
    BY <2>0 DEF Readings, Name
  <2>2. Seeded(mem) => Administrators(mem) # {}
    BY <2>0 DEF Seeded, Administrators
  <2> QED
    BY <2>0, <2>1, <2>2 DEF LeftInv, AdminRemains, Decoded
<1>3. CASE Restart
  <2>1. mem' \in {Decoded(file), Empty} /\ UNCHANGED <<file, overdue>> /\ ~serving'
    BY <1>3 DEF Restart, Reopen, Readings
  <2>2. Seeded(Empty)
    BY DEF Seeded, Name
  <2> QED
    BY <2>1, <2>2 DEF LeftInv, AdminRemains, Decoded
<1>4. CASE Persist
  <2>0. UNCHANGED <<serving, overdue>> /\ (WriteTmp \/ Rename)
    BY <1>4 DEF Persist
  <2>1. mem' = mem /\ file' \in {file, mem}
    BY <1>0, <2>0 DEF WriteTmp, Rename
  <2> QED
    BY <1>0, <2>0, <2>1 DEF LeftInv, AdminRemains, Decoded
<1>5. ASSUME NEW p \in Request, Apply(p)
      PROVE  LeftInv'
  <2>1. UNCHANGED <<file, serving>>
    BY <1>5 DEF Apply, Change
  <2>2. ~overdue' => Administrators(mem') # {} /\ ~overdue
    BY <1>5, ApplyLeaves
  <2> QED
    BY <2>1, <2>2 DEF LeftInv, AdminRemains, Seeded, Decoded
<1>6. ASSUME \/ Bootstrapped
             \/ \E p \in Request : \/ Check(p) \/ NotFound(p) \/ Changed(p)
                                   \/ PushEvent(p) \/ Answer(p)
                                   \/ \E u \in User : Login(p, u) \/ \E r \in Requests : Authorize(p, u, r)
      PROVE  LeftInv'
  <2>1. UNCHANGED <<mem, file, serving, overdue>>
    BY <1>6 DEF Bootstrapped, Check, NotFound, Changed, PushEvent, Answer, Login,
                Authorize, storeVars, Return, Change
  <2> QED
    BY <2>1 DEF LeftInv, AdminRemains, Decoded
<1> QED
  BY <1>1, <1>2, <1>3, <1>4, <1>5, <1>6 DEF AdNext

\* While the service runs it has an administrator, in memory and on disk, and
\* so after a crash, as long as no change was made after what its handler relied
\* on had ended: the own-account check of handleUserSubroutes is enough then.
THEOREM AdminRemainsAlways == AdSpec => []AdminRemains
<1>1. AdInit => LeftInv
  BY LeftInitially
<1>2. TypesInv /\ DiskInv /\ LeftInv /\ [AdNext]_adminVars => LeftInv'
  <2>1. TypesInv /\ DiskInv /\ LeftInv /\ AdNext => LeftInv'
    BY LeftStep
  <2>2. LeftInv /\ UNCHANGED adminVars => LeftInv'
    BY DEF adminVars, storeVars, LeftInv, AdminRemains, Decoded
  <2> QED
    BY <2>1, <2>2
<1>3. LeftInv => AdminRemains
  BY DEF LeftInv
<1> QED
  BY <1>1, <1>2, <1>3, TypesInvariant, DiskInvariant, PTL DEF AdSpec
=============================================================================
