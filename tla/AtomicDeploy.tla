---------------------------- MODULE AtomicDeploy ----------------------------
(***************************************************************************)
(* What the deploy engine promises for the host of an app, without the     *)
(* stages: deployments of one app take effect one at a time, in any order, *)
(* and each of them in one step. A successful one leaves its own version   *)
(* in place, a rolled back one leaves what it found, a failed one leaves   *)
(* what it found, its own version, a part of it or nothing, and never the  *)
(* file of a third deployment. A crash ends every deployment; one that was *)
(* under way ends as a failed one does.                                    *)
(***************************************************************************)
CONSTANTS App, Version, DepId, None, Partial

VARIABLES
    waiting,    \* accepted deployments of an app that have not begun
    active,     \* the deployment that has the host of an app
    installed   \* the file in place when no deployment is deciding

vars == <<waiting, active, installed>>

Request == [id : DepId, version : Version]
Result == {"SUCCESS", "FAILED", "ROLLED_BACK"}

Nobody == [id |-> None, version |-> None, result |-> None]

\* What deployment w of app a may leave in place when it ends with result s
Left(a, w, s) ==
    CASE s = "SUCCESS" -> {w.version}
      [] s = "ROLLED_BACK" -> {installed[a]}
      [] OTHER -> {installed[a], w.version, None, Partial}

Init ==
    /\ waiting = [a \in App |-> {}]
    /\ active = [a \in App |-> Nobody]
    /\ installed \in [App -> Version \cup {None}]

Submit(a, r) ==
    /\ \A b \in App : active[b].id # r.id /\ \A q \in waiting[b] : q.id # r.id
    /\ waiting' = [waiting EXCEPT ![a] = @ \cup {r}]
    /\ UNCHANGED <<active, installed>>

Begin(a, r) ==
    /\ active[a] = Nobody
    /\ r \in waiting[a]
    /\ active' = [active EXCEPT ![a] = [id |-> r.id, version |-> r.version,
                                        result |-> None]]
    /\ waiting' = [waiting EXCEPT ![a] = @ \ {r}]
    /\ UNCHANGED installed

Settle(a, s) ==
    /\ active[a] # Nobody
    /\ active[a].result = None
    /\ active' = [active EXCEPT ![a].result = s]
    /\ \E c \in Left(a, active[a], s) :
          installed' = [installed EXCEPT ![a] = c]
    /\ UNCHANGED waiting

Leave(a) ==
    /\ active[a].result \in Result
    /\ active' = [active EXCEPT ![a] = Nobody]
    /\ UNCHANGED <<waiting, installed>>

Undecided(a) == active[a] # Nobody /\ active[a].result = None

Crash ==
    /\ waiting' = [a \in App |-> {}]
    /\ active' = [a \in App |-> Nobody]
    /\ installed' \in [App -> Version \cup {None, Partial}]
    /\ \A a \in App :
          installed'[a] \in IF Undecided(a) THEN Left(a, active[a], "FAILED")
                            ELSE {installed[a]}

Next ==
    \/ \E a \in App :
          \/ \E r \in Request : Submit(a, r) \/ Begin(a, r)
          \/ \E s \in Result : Settle(a, s)
          \/ Leave(a)
    \/ Crash

Spec == Init /\ [][Next]_vars
=============================================================================
