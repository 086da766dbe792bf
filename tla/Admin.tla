-------------------------------- MODULE Admin --------------------------------
(***************************************************************************)
(* Users, sessions and applications: the handlers of internal/api/api.go   *)
(* that change them (handleLogin, handleCreateApp, handleUpdateApp,        *)
(* handleDeleteApp, handleUsers, handleUserSubroutes), the checks of       *)
(* internal/auth/auth.go and internal/registry/registry.go they make, and  *)
(* the bootstrap of users at the start, on top of StoreFile.               *)
(*                                                                         *)
(* A request reads the store to authorize itself, reads it again to check  *)
(* its input, and changes it in a third critical section; other requests,  *)
(* and a restart, come in between. Users and applications are entries of   *)
(* one map from names to values: the role of a user, the settings of an    *)
(* application. Passwords, hashes and signatures are left out: a token     *)
(* is the name of the user it was issued to.                               *)
(***************************************************************************)
EXTENDS StoreFile, Naturals

CONSTANTS
    User,        \* user names
    App,         \* names of applications
    Role,        \* roles of users; the role "admin" may change things
    Setting,     \* settings of applications
    Valid,       \* settings that App.Validate accepts
    Static,      \* applications of the configuration file
    Bootstrap,   \* bootstrapUsers of the configuration: names with their roles
    FixedKey,    \* GODEPLOY_SESSION_KEY is set: tokens outlive the process
    Request,     \* requests in flight
    Main,        \* the goroutine of main
    Unknown,     \* no answer that says what an entry is
    MaxRestarts, \* bound: restarts of the process
    MaxFaults,   \* bound: writes and renames that fail
    MaxRequests  \* bound: requests to change something

Name == User \cup App

ASSUME AdminAssumption ==
    /\ User \cap App = {}
    /\ None \notin Role \cup Setting \cup User
    /\ "admin" \in Role
    /\ Valid \subseteq Setting
    /\ Static \subseteq App
    /\ DOMAIN Bootstrap \subseteq User
    /\ \A u \in DOMAIN Bootstrap : Bootstrap[u] \in Role
    /\ \E u \in DOMAIN Bootstrap : Bootstrap[u] = "admin"
    /\ FixedKey \in BOOLEAN
    /\ Proc = Request \cup {Main}
    /\ Main \notin Request
    /\ Data = [Name -> Role \cup Setting \cup {None}]
    /\ Empty = [x \in Name |-> None]
    /\ Unknown \notin Role \cup Setting \cup {None}

VARIABLES
    serving,    \* main reached ListenAndServe
    req,        \* the request each handler works on
    tokens,     \* users with a session token
    \* The rest is not in the code: what properties look back at
    acked,      \* what the last answer about a name said it is
    overdue,    \* a change was made after what allowed it had ended
    restarts, faults, requests    \* counters of the bounds

adminVars == <<storeVars, serving, req, tokens, acked, overdue, restarts, faults, requests>>
-----------------------------------------------------------------------------
Kind == {"createUser", "deleteUser", "createApp", "updateApp", "deleteApp"}

NoRequest == [pc |-> "idle", kind |-> "none", by |-> None,
              target |-> None, value |-> None]

Requests == [kind : {"createUser"}, target : User, value : Role]
       \cup [kind : {"createApp", "updateApp"}, target : App, value : Setting]
       \cup [kind : {"deleteUser"}, target : User, value : {None}]
       \cup [kind : {"deleteApp"}, target : App, value : {None}]

Administrators(d) == {u \in User : d[u] = "admin"}

AdInit ==
    /\ StoreInit
    /\ serving = FALSE
    /\ req = [p \in Request |-> NoRequest]
    /\ tokens = {}
    /\ acked = [x \in Name |-> Unknown]
    /\ overdue = FALSE
    /\ restarts = 0
    /\ faults = 0
    /\ requests = 0

-----------------------------------------------------------------------------
(* main: the users of the configuration that the store does not have *)

BootstrapUser(u) ==
    /\ ~serving
    /\ u \in DOMAIN Bootstrap
    /\ mem[u] = None
    /\ Change(Main, [mem EXCEPT ![u] = Bootstrap[u]])
    /\ acked' = [acked EXCEPT ![u] = Unknown]
    /\ UNCHANGED <<serving, req, tokens, overdue, restarts, faults, requests>>

\* A save that fails ends main, and with it the process
Bootstrapped ==
    /\ Return(Main)
    /\ op.result = "ok"
    /\ UNCHANGED <<serving, req, tokens, acked, overdue, restarts, faults, requests>>

Serve ==
    /\ ~serving
    /\ Unlocked
    /\ \A u \in DOMAIN Bootstrap : mem[u] # None
    /\ serving' = TRUE
    /\ UNCHANGED <<storeVars, req, tokens, acked, overdue, restarts, faults, requests>>

\* The process stops, at any point, and another one starts. Without
\* GODEPLOY_SESSION_KEY the new one signs with a key of its own. If it cannot
\* read state.json it begins without users and applications; the answers about
\* the entries it does not have are withdrawn here.
Restart ==
    /\ restarts < MaxRestarts
    /\ Reopen
    /\ serving' = FALSE
    /\ req' = [p \in Request |-> NoRequest]
    /\ tokens' = IF FixedKey THEN tokens ELSE {}
    /\ acked' = [x \in Name |-> IF mem'[x] = Decoded(file)[x] THEN acked[x] ELSE Unknown]
    /\ restarts' = restarts + 1
    /\ UNCHANGED <<overdue, faults, requests>>
-----------------------------------------------------------------------------
(* Sessions *)

\* A user of the store who gives the right password gets a token
Authenticate(u) == mem[u] # None /\ tokens' = tokens \cup {u}

\* The token names a user, and the store has one of that name, who may have
\* been deleted and created again since
UserFromRequest(u) == u \in tokens /\ mem[u] # None

\* handleLogin: either way an event is recorded. Nothing takes a token back
\* (handleLogout asks the browser to forget it, and records an event as well);
\* one that has expired is one not used again.
Login(p, u) ==
    /\ serving
    /\ Unlocked
    /\ req[p].pc = "idle"
    /\ Authenticate(u) \/ UNCHANGED tokens
    /\ req' = [req EXCEPT ![p].pc = "event"]
    /\ UNCHANGED <<storeVars, serving, acked, overdue, restarts, faults, requests>>
-----------------------------------------------------------------------------
(* A request that changes a user or an application *)

\* withAuth and requireAdmin: the user of the token, as the store has it now
Authorize(p, u, r) ==
    /\ requests < MaxRequests
    /\ serving
    /\ Unlocked
    /\ req[p].pc = "idle"
    /\ UserFromRequest(u)
    /\ u \in Administrators(mem)
    /\ req' = [req EXCEPT ![p] = [pc |-> "authorized", kind |-> r.kind, by |-> u,
                                  target |-> r.target, value |-> r.value]]
    /\ requests' = requests + 1
    /\ UNCHANGED <<storeVars, serving, tokens, acked, overdue, restarts, faults>>

\* App.Validate
Validate(v) == v \in Valid

ValidateApp(a, v) == Validate(v) /\ a \notin Static /\ mem[a] = None

\* An application of the configuration file comes first
FindApp(a) == a \in Static \/ mem[a] # None

\* mutant: the account of the administrator is not excepted
AcceptsOwn(r) ==
    /\ r.kind = "createUser" => mem[r.target] = None
    /\ r.kind = "createApp" => ValidateApp(r.target, r.value)
    /\ r.kind = "updateApp" => FindApp(r.target) /\ Validate(r.value)
    /\ r.kind = "deleteApp" => mem[r.target] # None

\* mutant: an update is not validated
AcceptsUnchecked(r) ==
    /\ r.kind = "createUser" => mem[r.target] = None
    /\ r.kind = "deleteUser" => r.target # r.by
    /\ r.kind = "createApp" => ValidateApp(r.target, r.value)
    /\ r.kind = "updateApp" => FindApp(r.target)
    /\ r.kind = "deleteApp" => mem[r.target] # None

\* What each handler asks of the configuration and of the store. The update of
\* an application of the configuration file is accepted, and then saved as an
\* entry that FindApp never gets to.
Accepts(r) ==
    /\ r.kind = "createUser" => mem[r.target] = None
    /\ r.kind = "deleteUser" => r.target # r.by
    /\ r.kind = "createApp" => ValidateApp(r.target, r.value)
    /\ r.kind = "updateApp" => FindApp(r.target) /\ Validate(r.value)
    /\ r.kind = "deleteApp" => mem[r.target] # None

Check(p) ==
    /\ req[p].pc = "authorized"
    /\ Unlocked
    /\ req' = [req EXCEPT ![p] = IF Accepts(req[p])
                                 THEN [req[p] EXCEPT !.pc = "checked"]
                                 ELSE NoRequest]
    /\ UNCHANGED <<storeVars, serving, tokens, acked, overdue, restarts, faults, requests>>

\* SaveUser, SaveDynamicApp, DeleteDynamicApp, and DeleteUser, which alone
\* looks whether the entry is still there
Apply(p) ==
    LET r == req[p] IN
    /\ r.pc = "checked"
    /\ r.kind = "deleteUser" => mem[r.target] # None
    /\ Change(p, [mem EXCEPT ![r.target] = r.value])
    /\ req' = [req EXCEPT ![p].pc = "changing"]
    /\ acked' = [acked EXCEPT ![r.target] = Unknown]
    /\ overdue' = (overdue \/ r.by \notin Administrators(mem) \/ ~Accepts(r))
    /\ UNCHANGED <<serving, tokens, restarts, faults, requests>>

NotFound(p) ==
    /\ req[p].pc = "checked"
    /\ req[p].kind = "deleteUser"
    /\ Unlocked
    /\ mem[req[p].target] = None
    /\ req' = [req EXCEPT ![p] = NoRequest]
    /\ UNCHANGED <<storeVars, serving, tokens, acked, overdue, restarts, faults, requests>>

\* The store returns. After an error the change stays in memory; the request
\* is answered, and no event is recorded.
Changed(p) ==
    /\ req[p].pc = "changing"
    /\ Return(p)
    /\ IF op.result = "ok"
       THEN /\ acked' = [acked EXCEPT ![req[p].target] = req[p].value]
            /\ req' = [req EXCEPT ![p] = [NoRequest EXCEPT !.pc = "event"]]
       ELSE /\ req' = [req EXCEPT ![p] = NoRequest]
            /\ UNCHANGED acked
    /\ UNCHANGED <<serving, tokens, overdue, restarts, faults, requests>>

\* PushEvent, here only because it writes all of the data, those of an earlier
\* change that failed included; its result is dropped
PushEvent(p) ==
    /\ req[p].pc = "event"
    /\ Change(p, mem)
    /\ req' = [req EXCEPT ![p].pc = "pushing"]
    /\ UNCHANGED <<serving, tokens, acked, overdue, restarts, faults, requests>>

Answer(p) ==
    /\ req[p].pc = "pushing"
    /\ Return(p)
    /\ req' = [req EXCEPT ![p] = NoRequest]
    /\ UNCHANGED <<serving, tokens, acked, overdue, restarts, faults, requests>>
-----------------------------------------------------------------------------
Persist ==
    /\ WriteTmp \/ Rename
    /\ faults' = IF op'.result = "error" /\ op'.stage = "return" THEN faults + 1 ELSE faults
    /\ faults' <= MaxFaults
    /\ UNCHANGED <<serving, req, tokens, acked, overdue, restarts, requests>>

AdNext ==
    \/ \E u \in User : BootstrapUser(u)
    \/ Bootstrapped \/ Serve \/ Restart \/ Persist
    \/ \E p \in Request :
          \/ \E u \in User : Login(p, u) \/ \E r \in Requests : Authorize(p, u, r)
          \/ Check(p) \/ Apply(p) \/ NotFound(p) \/ Changed(p)
          \/ PushEvent(p) \/ Answer(p)

AdSpec == AdInit /\ [][AdNext]_adminVars
-----------------------------------------------------------------------------
(* Properties *)

AdRequest == [pc : {"idle", "authorized", "checked", "changing", "event", "pushing"},
              kind : Kind \cup {"none"}, by : User \cup {None},
              target : Name \cup {None}, value : Role \cup Setting \cup {None}]

\* Users have roles, and no application that App.Validate refuses gets into
\* the store, in memory or on disk; the mutex is held for the request whose
\* change is under way, and for main only before it serves.
AdTypeOK ==
    /\ StoreTypeOK
    /\ serving \in BOOLEAN /\ overdue \in BOOLEAN
    /\ req \in [Request -> AdRequest]
    /\ tokens \subseteq User
    /\ \A d \in {mem, Decoded(file)} :
          /\ \A u \in User : d[u] \in Role \cup {None}
          /\ \A a \in App : d[a] \in Valid \cup {None}
    /\ \A p \in Request : op.by = p <=> req[p].pc \in {"changing", "pushing"}
    /\ op.by = Main => ~serving

\* What a request was answered survives a crash: the entry is on disk as the
\* answer said, until a later request or the bootstrap changes it again,
\* whatever the changes of other entries that failed in between. The one
\* exception is a process that cannot read state.json when it starts: it does
\* not have the entry, and its first save drops it from the file.
AckedSurvives ==
    \A x \in Name : acked[x] # Unknown => Decoded(file)[x] = acked[x]

\* While the service runs there is an administrator, in memory and after a
\* crash, unless a handler made a change after someone else's change had ended
\* what it relied on: the role of its user, or the answer of its check. A start
\* that loses all users is no exception: the bootstrap makes them again.
AdminRemains ==
    serving /\ ~overdue => /\ Administrators(mem) # {}
                           /\ Administrators(Decoded(file)) # {}
=============================================================================
