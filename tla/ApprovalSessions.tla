--------------------------- MODULE ApprovalSessions ---------------------------
(***************************************************************************)
(* The approvals of ShellCapability inside the event loop of the core      *)
(* (runtime.rs).                                                           *)
(*                                                                         *)
(* The loop either serves one connection or chooses between accepting the  *)
(* next one and its timers.  The timer that sweeps the approvals is polled *)
(* in the loop only: while a connection is served, time passes, records    *)
(* grow stale, and nobody sweeps them but the requests that come by.       *)
(***************************************************************************)
EXTENDS ShellCapability

VARIABLE served    \* "nobody": the loop chooses; "accepted": a connection whose
                   \* first frame is awaited; "frontend": a frontend session

sessionVars == <<vars, served>>

SessionInit == Init /\ served = "nobody"

\* accept_one; the first frame may be long in coming.
AcceptConnection ==
    /\ served = "nobody"
    /\ served' = "accepted"
    /\ UNCHANGED vars

\* A frontend asks for something; it may be a dispatch or a change of theme,
\* which bear on no approval.  It then keeps its connection.
ServeFrontend ==
    /\ served \in {"accepted", "frontend"}
    /\ served' = "frontend"
    /\ \/ ListApprovals
       \/ \E id \in ApprovalId : ApprovePending(id) \/ RejectPending(id)
       \/ UNCHANGED vars

\* One request is all a worker's connection carries.
ServeShell ==
    /\ served = "accepted"
    /\ served' = "nobody"
    /\ \E app \in Apps, command \in Commands :
          \/ RunAllowed(app, command)
          \/ AskApproval(app, command)
          \/ \E id \in ApprovalId : RunWithApproval(app, command, id)

\* The connection ends: the peer leaves, or it was a registration or a request
\* for another capability.
EndConnection ==
    /\ served # "nobody"
    /\ served' = "nobody"
    /\ UNCHANGED vars

\* approval_reap_interval.tick(), which only the loop waits for.
ReapInLoop ==
    /\ served = "nobody"
    /\ Reap
    /\ UNCHANGED served

TimeGoesOn == TimePasses /\ UNCHANGED served

SessionNext ==
    \/ AcceptConnection
    \/ ServeFrontend
    \/ ServeShell
    \/ EndConnection
    \/ ReapInLoop
    \/ TimeGoesOn

\* Time does not stop; and a timer that is due is taken at last if the loop
\* comes round to its select! again and again, since that picks one of the
\* branches that are ready at random.  Nothing is assumed of those who connect:
\* they may stay for ever, and there may always be a next one.
SessionSpec ==
    /\ SessionInit /\ [][SessionNext]_sessionVars
    /\ WF_sessionVars(TimeGoesOn)
    /\ SF_sessionVars(ReapInLoop)

-----------------------------------------------------------------------------
\* One connection is served and never ends (runtime.rs:176 and 249-284 wait for
\* its frames without a timeout).
HeldForEver == <>[](served # "nobody")

\* Every request for consent is settled: it does not stay undecided in the
\* store for ever, even when no frontend ever looks at it, and whoever else
\* keeps the core busy; unless one connection holds the core for ever, whose
\* frontend the sweep then waits for (runtime.rs:145-157, approval.rs:162-174).
SettledUnlessHeld ==
    \/ HeldForEver
    \/ \A id \in ApprovalId :
          entries[id].state \in {"Pending", "Expired"}
              ~> entries[id].state \in {"Approved", "Absent"}
=============================================================================
