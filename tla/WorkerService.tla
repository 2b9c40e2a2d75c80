---------------------------- MODULE WorkerService ----------------------------
(***************************************************************************)
(* What the worker manager of kunkka-core promises to the rest of the      *)
(* core, with no process, connection, registration or identifier: one app  *)
(* is served at a time; a worker is called only once it is ready; while an *)
(* app is served nobody else's worker is lost, unless it is the very       *)
(* worker that comes forward for the app served; and a core that ends      *)
(* leaves no worker ready.                                                 *)
(***************************************************************************)
CONSTANTS
    Apps,
    None

VARIABLES
    ready,      \* the apps with a worker to call
    stage,      \* "free", "starting", "calling" or "down"
    app         \* the app served

serviceVars == <<ready, stage, app>>

ServiceTypeOK ==
    /\ ready \subseteq Apps
    /\ stage \in {"free", "starting", "calling", "down"}
    /\ app \in Apps \cup {None}

ServiceInit ==
    /\ ready = {}
    /\ stage = "free"
    /\ app = None

-----------------------------------------------------------------------------
\* A worker serves one app: it may leave one for another.
Moves(former, a) == ready' = (ready \ former) \cup {a}

Former == {{}} \cup {{b} : b \in ready}

\* A worker comes forward on its own.
Join(a, former) ==
    /\ stage = "free"
    /\ former \in Former
    /\ Moves(former, a)
    /\ UNCHANGED <<stage, app>>

\* Workers out of use go.
Retire(S) ==
    /\ stage = "free"
    /\ S # {}
    /\ S \subseteq ready
    /\ ready' = ready \ S
    /\ UNCHANGED <<stage, app>>

\* A request for an app: its worker is called, or started first.
Begin(a) ==
    /\ stage = "free"
    /\ stage' = IF a \in ready THEN "calling" ELSE "starting"
    /\ app' = a
    /\ UNCHANGED ready

Started(former) ==
    /\ stage = "starting"
    /\ former \in Former
    /\ Moves(former, app)
    /\ stage' = "calling"
    /\ UNCHANGED app

Release ==
    /\ stage' = "free"
    /\ app' = None

StartFailed ==
    /\ stage = "starting"
    /\ Release
    /\ UNCHANGED ready

CallDone ==
    /\ stage = "calling"
    /\ Release
    /\ UNCHANGED ready

CallFailed ==
    /\ stage = "calling"
    /\ Release
    /\ ready' = ready \ {app}

End ==
    /\ stage' = "down"
    /\ app' = None
    /\ ready' = {}

Restart ==
    /\ stage = "down"
    /\ stage' = "free"
    /\ UNCHANGED <<ready, app>>

ServiceNext ==
    \/ \E a \in Apps : Begin(a) \/ \E former \in Former : Join(a, former)
    \/ \E S \in SUBSET ready : Retire(S)
    \/ \E former \in Former : Started(former)
    \/ StartFailed
    \/ CallDone
    \/ CallFailed
    \/ stage = "free" /\ End
    \/ Restart

ServiceSpec == ServiceInit /\ [][ServiceNext]_serviceVars
=============================================================================
