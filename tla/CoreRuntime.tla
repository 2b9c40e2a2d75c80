----------------------------- MODULE CoreRuntime -----------------------------
(***************************************************************************)
(* The event loop of kunkka-core (runtime.rs) between its clients, the     *)
(* audit of frontend dispatch (permissions.rs, database.rs) and the worker *)
(* service.                                                                *)
(*                                                                         *)
(* A client is a frontend, or the connection a worker opens to call a      *)
(* capability; each connects once.  The core serves one connection at a    *)
(* time, and does nothing for the others until the one served hangs up.    *)
(* What a frame holds is decided when it is read.  Of the requests of a    *)
(* connection only the last one read is kept, with its audit record, its   *)
(* call and its reply: they bear on nothing after it.                      *)
(*                                                                         *)
(* An operator named ...Variant is the operator after it with one mistake; *)
(* no action uses it.  It shows that a property tells the two apart.       *)
(***************************************************************************)
EXTENDS WorkerService, Naturals, Sequences

CONSTANTS
    Frontends,
    Callers,       \* connections of workers that call a capability
    Owner,         \* whose: Callers -> Apps
    Blocking,      \* callers whose worker does nothing else until it has its answer
    Methods,
    Allowed,       \* Apps with a manifest -> allowed_methods
    MaxFrames      \* Clients -> bound on its frames; 1 for a caller

Clients == Frontends \cup Callers

ASSUME RuntimeAssumption ==
    /\ Owner \in [Callers -> Apps]
    /\ Blocking \subseteq Callers
    /\ DOMAIN Allowed \subseteq Apps
    /\ \A a \in DOMAIN Allowed : Allowed[a] \subseteq Methods
    /\ MaxFrames \in [Clients -> Nat]
    /\ \A c \in Callers : MaxFrames[c] = 1
    /\ Frontends \cap Callers = {}
    /\ None \notin Clients

\* The answer to a request, by its code.
Reply == {"done", "invalid_request", "core_error", "app_not_found", "permission_denied",
          "result", "worker_error"}

ASSUME NoneAssumption == None \notin Reply

VARIABLES
    phase,         \* "loop", "first", "session", "working", "replying", "down"
    serving,       \* the connection served
    backlog,       \* connections nobody accepted yet
    conn,          \* the life of a connection, at the core's end
    gone,          \* has the client hung up?
    sent,          \* frames the client has sent
    taken,         \* frames of it the core has read
    request,       \* the last frame read
    audit,         \* the row of frontend_dispatch_audit written for it
    called,        \* was it handed to a worker?
    reply,         \* the answer made for it
    answered       \* answers written to the client

connVars == <<backlog, conn, gone, sent>>
frameVars == <<taken, request, audit, called, reply, answered>>
vars == <<serviceVars, phase, serving, connVars, frameVars>>

Control == [kind |-> "control", app |-> None, method |-> None]
Garbage == [kind |-> "garbage", app |-> None, method |-> None]
Incomplete == [kind |-> "incomplete", app |-> None, method |-> None]
Capability == [kind |-> "capability", app |-> None, method |-> None]
Dispatch == [kind: {"dispatch"}, app: Apps, method: Methods]

Request == Dispatch \cup {Control, Garbage, Incomplete, Capability}

Row == [app: Apps, method: Methods, reason: {"allowed", "app_not_found", "permission_denied"}]

TypeOK ==
    /\ ServiceTypeOK
    /\ phase \in {"loop", "first", "session", "working", "replying", "down"}
    /\ serving \in Clients \cup {None}
    /\ backlog \in Seq(Clients)
    /\ conn \in [Clients -> {"none", "queued", "candidate", "held", "closed"}]
    /\ gone \in [Clients -> BOOLEAN]
    /\ sent \in [Clients -> Nat]
    /\ taken \in [Clients -> Nat]
    /\ request \in [Clients -> Request \cup {None}]
    /\ audit \in [Clients -> Row \cup {None}]
    /\ called \in [Clients -> BOOLEAN]
    /\ reply \in [Clients -> Reply \cup {None}]
    /\ answered \in [Clients -> Nat]

Init ==
    /\ ServiceInit
    /\ phase = "loop"
    /\ serving = None
    /\ backlog = <<>>
    /\ conn = [c \in Clients |-> "none"]
    /\ gone = [c \in Clients |-> FALSE]
    /\ sent = [c \in Clients |-> 0]
    /\ taken = [c \in Clients |-> 0]
    /\ request = [c \in Clients |-> None]
    /\ audit = [c \in Clients |-> None]
    /\ called = [c \in Clients |-> FALSE]
    /\ reply = [c \in Clients |-> None]
    /\ answered = [c \in Clients |-> 0]

-----------------------------------------------------------------------------
(* The clients. *)

Connect(c) ==
    /\ phase # "down"
    /\ conn[c] = "none"
    /\ conn' = [conn EXCEPT ![c] = "queued"]
    /\ backlog' = Append(backlog, c)
    /\ UNCHANGED <<serviceVars, phase, serving, gone, sent, frameVars>>

\* call_capability sends one frame; a frontend need not wait for an answer
\* before it sends the next.
Send(c) ==
    /\ conn[c] \in {"queued", "candidate", "held"}
    /\ ~gone[c]
    /\ sent[c] < MaxFrames[c]
    /\ sent' = [sent EXCEPT ![c] = @ + 1]
    /\ UNCHANGED <<serviceVars, phase, serving, backlog, conn, gone, frameVars>>

HangUp(c) ==
    /\ conn[c] \in {"queued", "candidate", "held"}
    /\ ~gone[c]
    /\ gone' = [gone EXCEPT ![c] = TRUE]
    /\ UNCHANGED <<serviceVars, phase, serving, backlog, conn, sent, frameVars>>

-----------------------------------------------------------------------------
(* The event loop. *)

Close(S) == conn' = [c \in Clients |-> IF c \in S THEN "closed" ELSE conn[c]]

Candidates == {c \in Clients : conn[c] = "candidate"}

Leave ==
    /\ phase' = "loop"
    /\ serving' = None

\* An error that leaves run_connection ends run, and the core with it.
EndCore ==
    /\ End
    /\ phase' = "down"
    /\ serving' = None
    /\ backlog' = <<>>
    /\ Close({c \in Clients : conn[c] # "none"})
    /\ UNCHANGED <<gone, sent>>

Accept ==
    /\ phase = "loop"
    /\ backlog # <<>>
    /\ phase' = "first"
    /\ serving' = Head(backlog)
    /\ backlog' = Tail(backlog)
    /\ conn' = [conn EXCEPT ![Head(backlog)] = "held"]
    /\ UNCHANGED <<serviceVars, gone, sent, frameVars>>

\* recv_frame returns None.
SeeHangUp ==
    /\ phase \in {"first", "session"}
    /\ gone[serving]
    /\ taken[serving] = sent[serving]
    /\ Leave
    /\ Close({serving})
    /\ UNCHANGED <<serviceVars, backlog, gone, sent, frameVars>>

\* A frame cut short, or a client that left an answer unread: recv_frame is an
\* error.
ReadFails ==
    /\ phase \in {"first", "session"}
    /\ gone[serving]
    /\ EndCore
    /\ UNCHANGED frameVars

\* The idle timer, in the loop and in a frontend session.
ReapIdleWorkers ==
    /\ phase \in {"loop", "session"}
    /\ \E S \in SUBSET ready : Retire(S)
    /\ UNCHANGED <<phase, serving, connVars, frameVars>>

\* A worker registers by itself; if it has gone before it is accepted, the
\* core ends.
WorkerJoins ==
    /\ phase = "loop"
    /\ \E a \in Apps, former \in Former : Join(a, former)
    /\ UNCHANGED <<phase, serving, connVars, frameVars>>

WorkerJoinFails ==
    /\ phase = "loop"
    /\ EndCore
    /\ UNCHANGED frameVars

StartCore ==
    /\ phase = "down"
    /\ Restart
    /\ Leave
    /\ UNCHANGED <<connVars, frameVars>>

-----------------------------------------------------------------------------
(* One frame of the connection served. *)

\* The frame is read; what is known of the one before it is of no use.
Take(c, r, row, call) ==
    /\ phase \in {"first", "session"}
    /\ c = serving
    /\ taken[c] < sent[c]
    /\ taken' = [taken EXCEPT ![c] = @ + 1]
    /\ request' = [request EXCEPT ![c] = r]
    /\ audit' = [audit EXCEPT ![c] = row]
    /\ called' = [called EXCEPT ![c] = call]

\* The response is made, and then written.
Respond(c, answer) ==
    /\ reply' = [reply EXCEPT ![c] = answer]
    /\ phase' = "replying"
    /\ UNCHANGED serving

\* One request is all a capability connection carries.
SendReply ==
    /\ phase = "replying"
    /\ ~gone[serving]
    /\ answered' = [answered EXCEPT ![serving] = @ + 1]
    /\ IF serving \in Callers
       THEN Leave /\ Close({serving})
       ELSE phase' = "session" /\ UNCHANGED <<serving, conn>>
    /\ UNCHANGED <<serviceVars, backlog, gone, sent, taken, request, audit, called, reply>>

\* The write fails once the client is gone.
SendReplyFails ==
    /\ phase = "replying"
    /\ gone[serving]
    /\ EndCore
    /\ UNCHANGED frameVars

\* handle_control_frame; what it does to the approvals is ShellCapability's.
HandleControl(c) ==
    /\ c \in Frontends
    /\ Take(c, Control, None, FALSE)
    /\ Respond(c, "done")
    /\ UNCHANGED <<serviceVars, connVars, answered>>

\* No schema, an unknown one, no request, or a payload that does not decode.
HandleGarbage(c) ==
    /\ Take(c, Garbage, None, FALSE)
    /\ reply' = [reply EXCEPT ![c] = None]
    /\ EndCore
    /\ UNCHANGED answered

\* handle_capability_connection
HandleCapability(c) ==
    /\ c \in Callers
    /\ Take(c, Capability, None, FALSE)
    /\ Respond(c, "done")
    /\ UNCHANGED <<serviceVars, connVars, answered>>

-----------------------------------------------------------------------------
(* handle_frontend_dispatch_request *)

HandleIncomplete(c) ==
    /\ c \in Frontends
    /\ Take(c, Incomplete, None, FALSE)
    /\ Respond(c, "invalid_request")
    /\ UNCHANGED <<serviceVars, connVars, answered>>

\* decide_frontend_dispatch, for an app with a manifest or without.
Decision(r) ==
    IF r.app \notin DOMAIN Allowed THEN "app_not_found"
    ELSE IF r.method \in Allowed[r.app] THEN "allowed" ELSE "permission_denied"

\* record_frontend_dispatch_audit
RowFor(r) == [app |-> r.app, method |-> r.method, reason |-> Decision(r)]

AuditFails(c, r) ==
    /\ c \in Frontends
    /\ Take(c, r, None, FALSE)
    /\ Respond(c, "core_error")
    /\ UNCHANGED <<serviceVars, connVars, answered>>

RefuseVariant(c, r) ==
    /\ c \in Frontends
    /\ Decision(r) # "allowed"
    /\ Take(c, r, IF r.app \in DOMAIN Allowed THEN RowFor(r) ELSE None, FALSE)
    /\ Respond(c, Decision(r))
    /\ UNCHANGED <<serviceVars, connVars, answered>>

Refuse(c, r) ==
    /\ c \in Frontends
    /\ Decision(r) # "allowed"
    /\ Take(c, r, RowFor(r), FALSE)
    /\ Respond(c, Decision(r))
    /\ UNCHANGED <<serviceVars, connVars, answered>>

BeginDispatchVariant(c, r) ==
    /\ c \in Frontends
    /\ Decision(r) = "allowed"
    /\ Take(c, r, IF r.app \in ready THEN None ELSE RowFor(r), r.app \in ready)
    /\ Begin(r.app)
    /\ phase' = "working"
    /\ reply' = [reply EXCEPT ![c] = None]
    /\ UNCHANGED <<serving, connVars, answered>>

BeginDispatch(c, r) ==
    /\ c \in Frontends
    /\ Decision(r) = "allowed"
    /\ Take(c, r, RowFor(r), r.app \in ready)
    /\ Begin(r.app)
    /\ phase' = "working"
    /\ reply' = [reply EXCEPT ![c] = None]
    /\ UNCHANGED <<serving, connVars, answered>>

\* While a worker is being started every connection is taken for its own; the
\* others are closed, when they say something else or at the end.
AcceptCandidate ==
    /\ stage = "starting"
    /\ backlog # <<>>
    /\ backlog' = Tail(backlog)
    /\ conn' = [conn EXCEPT ![Head(backlog)] = "candidate"]
    /\ UNCHANGED <<serviceVars, phase, serving, gone, sent, frameVars>>

DismissCandidate(c) ==
    /\ stage = "starting"
    /\ c \in Candidates
    /\ sent[c] > 0 \/ gone[c]
    /\ Close({c})
    /\ UNCHANGED <<serviceVars, phase, serving, backlog, gone, sent, frameVars>>

WorkerStartedVariant ==
    /\ \E former \in Former : Started(former)
    /\ called' = [called EXCEPT ![serving] = TRUE]
    /\ UNCHANGED <<phase, serving, connVars, taken, request, audit, reply, answered>>

WorkerStarted ==
    /\ \E former \in Former : Started(former)
    /\ called' = [called EXCEPT ![serving] = TRUE]
    /\ Close(Candidates)
    /\ UNCHANGED <<phase, serving, backlog, gone, sent, taken, request, audit, reply, answered>>


WorkerStartFails ==
    /\ StartFailed
    /\ Respond(serving, "worker_error")
    /\ Close(Candidates)
    /\ UNCHANGED <<backlog, gone, sent, taken, request, audit, called, answered>>

\* The worker that is called waits for a capability it asked for.
Waits(a) ==
    \E c \in Blocking :
        Owner[c] = a /\ sent[c] > answered[c] /\ ~gone[c] /\ conn[c] # "closed"

\* Its answer is a result or an error of the app.
WorkerAnswers ==
    /\ ~Waits(app)
    /\ CallDone
    /\ Respond(serving, "result")
    /\ UNCHANGED <<connVars, taken, request, audit, called, answered>>

WorkerFails ==
    /\ CallFailed
    /\ Respond(serving, "worker_error")
    /\ UNCHANGED <<connVars, taken, request, audit, called, answered>>

-----------------------------------------------------------------------------
Client(c) == Connect(c) \/ Send(c) \/ HangUp(c)

HandleFrame(c) ==
    \/ HandleControl(c)
    \/ HandleGarbage(c)
    \/ HandleCapability(c)
    \/ HandleIncomplete(c)
    \/ \E r \in Dispatch : AuditFails(c, r) \/ Refuse(c, r) \/ BeginDispatch(c, r)

Core ==
    \/ Accept
    \/ SeeHangUp
    \/ ReadFails
    \/ \E c \in Clients : HandleFrame(c)
    \/ SendReply
    \/ SendReplyFails
    \/ AcceptCandidate
    \/ \E c \in Clients : DismissCandidate(c)

Worker ==
    \/ WorkerJoins
    \/ WorkerJoinFails
    \/ WorkerStarted
    \/ WorkerFails

Next ==
    \/ \E c \in Clients : Client(c)
    \/ Core
    \/ Worker
    \/ WorkerStartFails
    \/ WorkerAnswers
    \/ ReapIdleWorkers
    \/ StartCore

Spec == Init /\ [][Next]_vars

\* The core's task is scheduled, a start times out, and a worker that waits for
\* nothing answers.  Nothing is assumed of the clients: one that is served may
\* say nothing more and keep its connection.
Fairness ==
    /\ WF_vars(Core)
    /\ WF_vars(WorkerStartFails)
    /\ WF_vars(WorkerAnswers)

FairSpec == Spec /\ Fairness

-----------------------------------------------------------------------------
(* Safety *)

\* The request in hand may be served, and the audit says so.
Admitted(c) ==
    /\ request[c] \in Dispatch
    /\ Decision(request[c]) = "allowed"
    /\ audit[c] = [app |-> request[c].app, method |-> request[c].method,
                   reason |-> "allowed"]

\* No worker is called but for a request whose app has a manifest that allows
\* the method, and whose admission was written to the audit before the worker
\* was started or called; a restart of the core in between changes nothing
\* (runtime.rs:599-619, and the audit design: a failed audit forbids the call).
CallsAreAudited == \A c \in Clients : called[c] => Admitted(c)

\* What a frontend is told agrees with the audit and with what was done: a
\* result comes from a worker; a refusal bears the reason written down and
\* nobody was called; and when the audit could not be written nothing was
\* done (runtime.rs:580-638).
RepliesMatchTheAudit ==
    \A c \in Frontends :
        LET told == reply[c]
        IN  /\ told = "result" => called[c]
            /\ told = "worker_error" => audit[c] \in Row /\ audit[c].reason = "allowed"
            /\ told \in {"app_not_found", "permission_denied"} =>
                  audit[c] \in Row /\ audit[c].reason = told /\ ~called[c]
            /\ told \in {"done", "invalid_request", "core_error"} =>
                  audit[c] = None /\ ~called[c]

\* The worker service is at work exactly while the core waits for it, for the
\* app of the request in hand, and never on behalf of a capability call.
WorkIsForTheServed ==
    /\ stage \in {"starting", "calling"} <=> phase = "working"
    /\ phase = "working" => /\ serving \in Frontends
                            /\ Admitted(serving)
                            /\ request[serving].app = app
                            /\ called[serving] <=> stage = "calling"
                            /\ reply[serving] = None

\* A request of the client waits for its answer.
InHand(c) == c = serving /\ phase \in {"replying", "working"}

\* The backlog holds the connections nobody accepted, once each.
BacklogOK ==
    /\ \A i \in DOMAIN backlog : conn[backlog[i]] = "queued"
    /\ \A i, j \in DOMAIN backlog : backlog[i] = backlog[j] => i = j

\* One connection is held at a time, the one served; candidates exist only
\* during a start; and a request is taken up only when the one before it was
\* answered.
ConnectionsOK ==
    /\ \A c \in Clients : conn[c] = "held" <=> c = serving
    /\ serving # None <=> phase \in {"first", "session", "replying", "working"}
    /\ Candidates # {} => stage = "starting"
    /\ phase = "down" <=> stage = "down"
    /\ \A c \in Clients :
          /\ taken[c] <= sent[c]
          /\ \/ conn[c] = "closed"
             \/ taken[c] = answered[c] + (IF InHand(c) THEN 1 ELSE 0)

IInv ==
    /\ TypeOK
    /\ CallsAreAudited
    /\ RepliesMatchTheAudit
    /\ WorkIsForTheServed
    /\ BacklogOK
    /\ ConnectionsOK

\* docs/superpowers/specs/2026-06-15-frontend-dispatch-design.md:220: a frame
\* the core cannot make sense of closes the connection it came by.
BadFrameClosesItsConnection ==
    [][\A c \in Clients :
          request'[c] = Garbage /\ taken'[c] # taken[c] => phase' # "down"]_vars

-----------------------------------------------------------------------------
(* Liveness *)

\* The core waits for a frame of client d, and for nobody else.
Attends(d) == serving = d /\ phase \in {"first", "session"}

Settled(c) == sent[c] = answered[c] \/ conn[c] = "closed"

\* A client that has sent a request is answered or finds its connection
\* closed: it does not wait for ever, behind whomever it queues and whatever
\* is being started or called (docs/superpowers/specs/
\* 2026-06-17-capability-layer-design.md:45-54 for capability calls); unless
\* another client keeps its own connection for ever and says nothing more,
\* since the core serves one at a time until it ends (runtime.rs:249-284).
RequestsAreSettled ==
    \A c \in Clients :
        \/ \E d \in Clients \ {c} : <>[]Attends(d)
        \/ sent[c] > answered[c] ~> Settled(c)
=============================================================================
