---------------------------- MODULE WorkerManager ----------------------------
(***************************************************************************)
(* Starting, registering, calling and reaping worker processes             *)
(* (kunkka-core, worker_dispatch.rs), with the processes at the other end  *)
(* of the socket.                                                          *)
(*                                                                         *)
(* The core is one task: phase says which await it is suspended in.  While *)
(* it waits for a registration or for an answer it does nothing else, but  *)
(* processes connect, register, answer and die at any time.  A process     *)
(* opens at most one connection, so a connection bears its name.           *)
(*                                                                         *)
(* Timeouts are steps that may come at any time: the startup timeout, and  *)
(* the moment at which an idle timeout has elapsed for a worker (idle).    *)
(* What a request carries is its identifier: the answer to request i is i. *)
(***************************************************************************)
EXTENDS WorkerRegistry, Naturals, Sequences

CONSTANTS
    Manifested,    \* apps with a manifest: the core can start their worker
    Procs,         \* worker processes
    MaxRequests,   \* bound on the dispatches in one life of the core
    MaxInbox       \* bound on the frames a worker sends ahead

ASSUME ManagerAssumption ==
    /\ Manifested \subseteq Apps
    /\ None \notin Procs
    /\ MaxRequests \in Nat
    /\ MaxInbox \in Nat

VARIABLES
    active,           \* BTreeMap<AppId, ActiveWorker>
    next_request_id,
    phase,            \* where the core is suspended
    serving,          \* the app of the dispatch in progress
    peer,             \* the connection being read, or the child being started
    awaited,          \* the request whose answer the core awaits
    proc,             \* the life of a process
    spawned,          \* the app the core started the process for
    conn,             \* the life of its connection, at the core's end
    backlog,          \* connections nobody accepted yet
    hello,            \* the registration frame a process has sent
    inbox,            \* frames from the worker the core has not read
    due,              \* requests the worker has not answered
    delivered         \* last request a caller got an answer to, and which answer

managerVars == <<active, next_request_id, phase, serving, peer, awaited, delivered>>
procVars == <<proc, spawned>>
ipcVars == <<conn, backlog, hello, inbox, due>>
vars == <<registryVars, managerVars, procVars, ipcVars>>

RequestId == 1..MaxRequests
OtherFrame == 0        \* a frame that is no answer at all
Frames == RequestId \cup {OtherFrame}

Phases == {"idle", "reading", "starting", "dispatching", "awaiting", "down"}

ActiveWorker == [worker_id: WorkerIds, connection: Procs,
                 child: Procs \cup {None}, idle: BOOLEAN]
NoActive == [worker_id |-> None, connection |-> None, child |-> None, idle |-> FALSE]

Registration == [worker_id: WorkerIds, app: Apps]

TypeOK ==
    /\ RegistryTypeOK
    /\ active \in [Apps -> ActiveWorker \cup {NoActive}]
    /\ next_request_id \in 1..(MaxRequests + 1)
    /\ phase \in Phases
    /\ serving \in Apps \cup {None}
    /\ peer \in Procs \cup {None}
    /\ awaited \in RequestId \cup {None}
    /\ proc \in [Procs -> {"unused", "running", "ended"}]
    /\ spawned \in [Procs -> Apps \cup {None}]
    /\ conn \in [Procs -> {"none", "queued", "candidate", "held", "closed"}]
    /\ backlog \in Seq(Procs)
    /\ hello \in [Procs -> Registration \cup {None}]
    /\ inbox \in [Procs -> Seq(Frames)]
    /\ due \in [Procs -> SUBSET RequestId]
    /\ delivered \in [request: RequestId, answer: Frames] \cup {None}

Init ==
    /\ RegistryInit
    /\ active = [a \in Apps |-> NoActive]
    /\ next_request_id = 1
    /\ phase = "idle"
    /\ serving = None
    /\ peer = None
    /\ awaited = None
    /\ proc = [p \in Procs |-> "unused"]
    /\ spawned = [p \in Procs |-> None]
    /\ conn = [p \in Procs |-> "none"]
    /\ backlog = <<>>
    /\ hello = [p \in Procs |-> None]
    /\ inbox = [p \in Procs |-> <<>>]
    /\ due = [p \in Procs |-> {}]
    /\ delivered = None

IsActive(app) == active[app] # NoActive

\* What ActiveWorker::drop and terminate act on, for the apps of a set.
Children(S) == {active[a].child : a \in S} \ {None}
Connections(S) == {active[a].connection : a \in S} \ {None}

Candidates == {p \in Procs : conn[p] = "candidate"}

Kill(ps) ==
    /\ proc' = [p \in Procs |-> IF p \in ps THEN "ended" ELSE proc[p]]
    /\ UNCHANGED spawned

\* The core keeps some connections and drops others, with all that was under
\* way on the ones it drops.
Settle(kept, dropped) ==
    /\ conn' = [p \in Procs |-> IF p \in dropped THEN "closed"
                                ELSE IF p \in kept THEN "held" ELSE conn[p]]
    /\ hello' = [p \in Procs |-> IF p \in kept \cup dropped THEN None ELSE hello[p]]
    /\ inbox' = [p \in Procs |-> IF p \in dropped THEN <<>> ELSE inbox[p]]
    /\ due' = [p \in Procs |-> IF p \in dropped THEN {} ELSE due[p]]

Close(ps) == Settle({}, ps)

\* Where the event loop, or the handler of a frontend connection, listens.
BecomeIdle ==
    /\ phase' = "idle"
    /\ serving' = None
    /\ peer' = None
    /\ awaited' = None

-----------------------------------------------------------------------------
(* insert_active_worker.  The registration of a worker that served another *)
(* app takes it from there; the candidates that were not chosen are gone.  *)
(*                                                                         *)
(* An operator named ...Variant is the operator after it with one mistake; *)
(* no action uses it.  It shows that a property tells the two apart.       *)

OustedVariant(worker, app) == {app}

Ousted(worker, app) == {app} \cup ({workers[worker]} \ {None})

InsertActiveWorker(worker, app, p, child) ==
    LET out == Ousted(worker, app)
    IN  /\ Register(worker, app)
        /\ active' = [a \in Apps |->
                         CASE a = app -> [worker_id |-> worker, connection |-> p,
                                          child |-> child, idle |-> FALSE]
                           [] a # app /\ a \in out -> NoActive
                           [] OTHER -> active[a]]
        /\ Kill(Children(out))
        /\ Settle({p}, Connections(out) \cup (Candidates \ {p}))

\* A call that failed, or a worker idle for too long: entry, process and
\* connection go together.
RemoveWithoutTerminateVariant(S) ==
    /\ active' = [a \in Apps |-> IF a \in S THEN NoActive ELSE active[a]]
    /\ UNCHANGED procVars
    /\ Close(Connections(S))
    /\ RemoveByAppId(S)

RemoveActive(S) ==
    /\ active' = [a \in Apps |-> IF a \in S THEN NoActive ELSE active[a]]
    /\ Kill(Children(S))
    /\ Close(Connections(S))
    /\ RemoveByAppId(S)

-----------------------------------------------------------------------------
(* The processes at the other end. *)

\* A worker the core did not start.
Appear(p) ==
    /\ proc[p] = "unused"
    /\ proc' = [proc EXCEPT ![p] = "running"]
    /\ UNCHANGED <<spawned, registryVars, managerVars, ipcVars>>

Connect(p) ==
    /\ phase # "down"
    /\ proc[p] = "running"
    /\ conn[p] = "none"
    /\ conn' = [conn EXCEPT ![p] = "queued"]
    /\ backlog' = Append(backlog, p)
    /\ UNCHANGED <<hello, inbox, due, registryVars, managerVars, procVars>>

\* WorkerClient::register; a process the core started knows no other name
\* than its app's.
SendRegistration(p, worker, app) ==
    /\ proc[p] = "running"
    /\ conn[p] \in {"queued", "candidate"}
    /\ hello[p] = None
    /\ spawned[p] # None => worker = spawned[p] /\ app = spawned[p]
    /\ hello' = [hello EXCEPT ![p] = [worker_id |-> worker, app |-> app]]
    /\ UNCHANGED <<conn, backlog, inbox, due, registryVars, managerVars, procVars>>

Answer(p, i) ==
    /\ proc[p] = "running"
    /\ i \in due[p]
    /\ Len(inbox[p]) < MaxInbox
    /\ inbox' = [inbox EXCEPT ![p] = Append(@, i)]
    /\ due' = [due EXCEPT ![p] = @ \ {i}]
    /\ UNCHANGED <<conn, backlog, hello, registryVars, managerVars, procVars>>

\* A worker may answer again, or send what is no answer.
SendStray(p, f) ==
    /\ proc[p] = "running"
    /\ conn[p] = "held"
    /\ f < next_request_id
    /\ Len(inbox[p]) < MaxInbox
    /\ inbox' = [inbox EXCEPT ![p] = Append(@, f)]
    /\ UNCHANGED <<conn, backlog, hello, due, registryVars, managerVars, procVars>>

Die(p) ==
    /\ proc[p] = "running"
    /\ proc' = [proc EXCEPT ![p] = "ended"]
    /\ UNCHANGED <<spawned, registryVars, managerVars, ipcVars>>

\* The name of a process that is gone, and that the core has no handle on,
\* stands for another one.
Recycle(p) ==
    /\ proc[p] = "ended"
    /\ conn[p] \in {"none", "closed"}
    /\ p \notin Children(Apps) \cup {peer}
    /\ proc' = [proc EXCEPT ![p] = "unused"]
    /\ spawned' = [spawned EXCEPT ![p] = None]
    /\ conn' = [conn EXCEPT ![p] = "none"]
    /\ UNCHANGED <<backlog, hello, inbox, due, registryVars, managerVars>>

-----------------------------------------------------------------------------
(* The event loop takes a connection from outside a start: it reads one    *)
(* frame and handles a registration that brings no child.                  *)

Accept ==
    /\ phase = "idle"
    /\ backlog # <<>>
    /\ phase' = "reading"
    /\ peer' = Head(backlog)
    /\ backlog' = Tail(backlog)
    /\ conn' = [conn EXCEPT ![Head(backlog)] = "candidate"]
    /\ UNCHANGED <<active, next_request_id, serving, awaited, delivered,
                   hello, inbox, due, registryVars, procVars>>

\* The process hung up before it said anything.
ReadEof ==
    /\ phase = "reading"
    /\ hello[peer] = None
    /\ proc[peer] = "ended"
    /\ BecomeIdle
    /\ Close({peer})
    /\ UNCHANGED <<active, next_request_id, delivered, backlog, registryVars, procVars>>

\* The acceptance is sent before the worker is entered.
RegisterOutside ==
    /\ phase = "reading"
    /\ hello[peer] # None
    /\ proc[peer] = "running"
    /\ InsertActiveWorker(hello[peer].worker_id, hello[peer].app, peer, None)
    /\ BecomeIdle
    /\ UNCHANGED <<next_request_id, delivered, backlog>>

\* An error leaves run, and with the core go its workers and every connection
\* (CoreRuntime::run, drop).
EndCore ==
    /\ phase' = "down"
    /\ peer' = None
    /\ active' = [a \in Apps |-> NoActive]
    /\ Kill(Children(Apps))
    /\ Close({p \in Procs : conn[p] # "none"})
    /\ backlog' = <<>>
    /\ RemoveByAppId(Apps)
    /\ UNCHANGED <<next_request_id, serving, awaited, delivered>>

\* The acceptance cannot be sent.
RegisterOutsideFails ==
    /\ phase = "reading"
    /\ hello[peer] # None
    /\ proc[peer] = "ended"
    /\ EndCore

\* A frontend's connection fails (CoreRuntime says when).
FrontendFails ==
    /\ phase = "idle"
    /\ EndCore

\* Someone starts the core again.
StartCore ==
    /\ phase = "down"
    /\ BecomeIdle
    /\ next_request_id' = 1
    /\ delivered' = None
    /\ UNCHANGED <<active, registryVars, procVars, ipcVars>>

-----------------------------------------------------------------------------
(* dispatch_with_start.  A request for an app that is neither active nor   *)
(* has a manifest, and a spawn that fails, change nothing.                 *)

DispatchWarm(app) ==
    /\ phase = "idle"
    /\ next_request_id <= MaxRequests
    /\ IsActive(app)
    /\ phase' = "dispatching"
    /\ serving' = app
    /\ UNCHANGED <<active, next_request_id, peer, awaited, delivered,
                   registryVars, procVars, ipcVars>>

SpawnWorker(app, p) ==
    /\ phase = "idle"
    /\ next_request_id <= MaxRequests
    /\ ~IsActive(app)
    /\ app \in Manifested
    /\ proc[p] = "unused"
    /\ proc' = [proc EXCEPT ![p] = "running"]
    /\ spawned' = [spawned EXCEPT ![p] = app]
    /\ phase' = "starting"
    /\ serving' = app
    /\ peer' = p
    /\ UNCHANGED <<active, next_request_id, awaited, delivered, registryVars, ipcVars>>

\* start_and_wait_for_registration: every connection is accepted and asked
\* for a frame.
AcceptCandidate ==
    /\ phase = "starting"
    /\ backlog # <<>>
    /\ backlog' = Tail(backlog)
    /\ conn' = [conn EXCEPT ![Head(backlog)] = "candidate"]
    /\ UNCHANGED <<hello, inbox, due, registryVars, managerVars, procVars>>

Expected == [worker_id |-> serving, app |-> serving]

\* A candidate that hung up, or sent anything but the registration awaited.
DismissCandidate(p) ==
    /\ phase = "starting"
    /\ p \in Candidates
    /\ \/ hello[p] \notin {None, Expected}
       \/ hello[p] = None /\ proc[p] = "ended"
    /\ Close({p})
    /\ UNCHANGED <<backlog, registryVars, managerVars, procVars>>

\* The first registration that fits wins, whoever sent it, and is paired with
\* the child the core has started.
RegisterStarted(p) ==
    /\ phase = "starting"
    /\ p \in Candidates
    /\ hello[p] = Expected
    /\ proc[p] = "running"
    /\ InsertActiveWorker(serving, serving, p, peer)
    /\ phase' = "dispatching"
    /\ peer' = None
    /\ UNCHANGED <<next_request_id, serving, awaited, delivered, backlog>>

AbandonWithoutKillVariant ==
    /\ UNCHANGED procVars
    /\ Close(Candidates)
    /\ BecomeIdle
    /\ UNCHANGED <<active, next_request_id, delivered, backlog, registryVars>>

AbandonStart ==
    /\ Kill({peer})
    /\ Close(Candidates)
    /\ BecomeIdle
    /\ UNCHANGED <<active, next_request_id, delivered, backlog, registryVars>>

\* It wins, but has died since: its acceptance cannot be sent.
RegisterStartedFails(p) ==
    /\ phase = "starting"
    /\ p \in Candidates
    /\ hello[p] = Expected
    /\ proc[p] = "ended"
    /\ AbandonStart

StartTimeout ==
    /\ phase = "starting"
    /\ AbandonStart

-----------------------------------------------------------------------------
(* dispatch: one request, one frame back, no timeout. *)

FailDispatch ==
    /\ RemoveActive({serving})
    /\ BecomeIdle

SendDispatch ==
    /\ phase = "dispatching"
    /\ IsActive(serving)
    /\ proc[active[serving].connection] = "running"
    /\ next_request_id' = next_request_id + 1
    /\ due' = [due EXCEPT ![active[serving].connection] = @ \cup {next_request_id}]
    /\ phase' = "awaiting"
    /\ awaited' = next_request_id
    /\ UNCHANGED <<active, serving, peer, delivered, conn, backlog, hello, inbox,
                   registryVars, procVars>>

SendDispatchFails ==
    /\ phase = "dispatching"
    /\ IsActive(serving)
    /\ proc[active[serving].connection] = "ended"
    /\ next_request_id' = next_request_id + 1
    /\ FailDispatch
    /\ UNCHANGED <<delivered, backlog>>

\* Is the next frame the answer to the request in progress?
AnyAnswerVariant(frame) == frame # OtherFrame

IsAnswer(frame) == frame = awaited

ReceiveAnswer ==
    /\ phase = "awaiting"
    /\ LET p == active[serving].connection
       IN  /\ inbox[p] # <<>>
           /\ IsAnswer(Head(inbox[p]))
           /\ delivered' = [request |-> awaited, answer |-> Head(inbox[p])]
           /\ inbox' = [inbox EXCEPT ![p] = Tail(@)]
    /\ active' = [active EXCEPT ![serving].idle = FALSE]
    /\ BecomeIdle
    /\ UNCHANGED <<next_request_id, conn, backlog, hello, due, registryVars, procVars>>

\* Another frame, or the end of the connection.
ReceiveFailsVariant ==
    /\ phase = "awaiting"
    /\ LET p == active[serving].connection
       IN  inbox[p] # <<>> /\ ~IsAnswer(Head(inbox[p]))
    /\ FailDispatch
    /\ UNCHANGED <<next_request_id, delivered, backlog>>

ReceiveFails ==
    /\ phase = "awaiting"
    /\ LET p == active[serving].connection
       IN  \/ inbox[p] # <<>> /\ ~IsAnswer(Head(inbox[p]))
           \/ inbox[p] = <<>> /\ proc[p] = "ended"
    /\ FailDispatch
    /\ UNCHANGED <<next_request_id, delivered, backlog>>

-----------------------------------------------------------------------------
(* Idle workers. *)

\* last_used_at lies more than idle_timeout back.
Elapse(app) ==
    /\ IsActive(app)
    /\ ~active[app].idle
    /\ active' = [active EXCEPT ![app].idle = TRUE]
    /\ UNCHANGED <<next_request_id, phase, serving, peer, awaited, delivered,
                   registryVars, procVars, ipcVars>>

ExpiredAllVariant == {a \in Apps : IsActive(a)}


Expired == {a \in Apps : active[a].idle}

ReapAnyTimeVariant ==
    /\ Expired # {}
    /\ RemoveActive(Expired)
    /\ UNCHANGED <<next_request_id, phase, serving, peer, awaited, delivered, backlog>>

ReapIdleWorkers ==
    /\ phase = "idle"
    /\ Expired # {}
    /\ RemoveActive(Expired)
    /\ UNCHANGED <<next_request_id, phase, serving, peer, awaited, delivered, backlog>>

-----------------------------------------------------------------------------
Process(p) ==
    \/ Appear(p)
    \/ Connect(p)
    \/ \E worker \in WorkerIds, app \in Apps : SendRegistration(p, worker, app)
    \/ \E i \in RequestId : Answer(p, i)
    \/ \E f \in Frames : SendStray(p, f)
    \/ Die(p)
    \/ Recycle(p)

Core ==
    \/ Accept
    \/ ReadEof
    \/ RegisterOutside
    \/ RegisterOutsideFails
    \/ AcceptCandidate
    \/ \E p \in Procs : DismissCandidate(p) \/ RegisterStarted(p) \/ RegisterStartedFails(p)
    \/ StartTimeout
    \/ SendDispatch
    \/ SendDispatchFails
    \/ ReceiveAnswer
    \/ ReceiveFails

Next ==
    \/ \E p \in Procs : Process(p)
    \/ Core
    \/ FrontendFails
    \/ StartCore
    \/ \E app \in Apps :
          \/ DispatchWarm(app)
          \/ \E p \in Procs : SpawnWorker(app, p)
          \/ Elapse(app)
    \/ ReapIdleWorkers

Spec == Init /\ [][Next]_vars

\* The core's task is scheduled and its timeout fires; a worker built on the SDK registers once it
\* is connected and answers what it was sent; and the reap timer, one branch
\* of a select that picks among ready branches at random, is not passed over
\* for ever.
Fairness ==
    /\ WF_vars(Core)
    /\ WF_vars(StartTimeout)
    /\ SF_vars(ReapIdleWorkers)
    /\ \A p \in Procs :
          /\ WF_vars(\E worker \in WorkerIds, app \in Apps :
                        SendRegistration(p, worker, app))
          /\ WF_vars(\E i \in RequestId : Answer(p, i))

-----------------------------------------------------------------------------
(* Safety *)

\* The map of active workers and the registry are two views of one thing,
\* kept by hand in step (worker_dispatch.rs:92-97, 201-234, 370-375): an app
\* has an active worker exactly if the registry knows one, and the same one.
ActiveMatchesRegistry ==
    /\ RegistryConsistent
    /\ \A a \in Apps : active[a].worker_id = app_workers[a]

\* No worker process outlives the core's interest in it: one that the core
\* started and that runs is the child of its app's active worker or of the
\* start in progress (worker_dispatch.rs:175-188, 322-327, 435-448).
NoOrphanChild ==
    \A p \in Procs :
        spawned[p] # None /\ proc[p] = "running" =>
            \/ active[spawned[p]].child = p
            \/ phase = "starting" /\ peer = p /\ serving = spawned[p]

\* The core never runs two processes of its own for one app (the design's
\* one active worker per AppId), however starts, timeouts, replacements and
\* workers from outside interleave.
OneChildPerApp ==
    \A p, q \in Procs :
        /\ spawned[p] # None /\ spawned[p] = spawned[q]
        /\ proc[p] = "running" /\ proc[q] = "running"
        => p = q

\* A caller gets the answer to its own request, also when a worker answers
\* twice or late (worker_dispatch.rs:479-484).
AnswersTheRequest == delivered # None => delivered.answer = delivered.request

\* A connection the core holds on to belongs to exactly one active worker.
ConnectionsOwned ==
    /\ \A p \in Procs : conn[p] = "held" <=> \E a \in Apps : active[a].connection = p
    /\ \A a, b \in Apps :
          active[a].connection = active[b].connection /\ IsActive(a) => a = b

\* The app an await is about: a start is for an app without a worker, and a
\* call in progress has the worker it is sent to, and a name for it.
PhaseOK ==
    /\ phase = "reading" => peer \in Procs /\ conn[peer] = "candidate"
    /\ phase = "starting" => /\ serving \in Apps /\ ~IsActive(serving)
                             /\ peer \in Procs /\ spawned[peer] = serving
    /\ phase \in {"dispatching", "awaiting"} => serving \in Apps /\ IsActive(serving)
    /\ phase \in {"starting", "dispatching"} => next_request_id <= MaxRequests
    /\ phase = "awaiting" => awaited \in RequestId

\* An entry's child was started for its app; a process that does not exist
\* yet has no past; the backlog holds the connections that are queued, once.
ProcessesOK ==
    /\ \A a \in Apps : active[a].child # None => spawned[active[a].child] = a
    /\ \A p \in Procs : proc[p] = "unused" => spawned[p] = None /\ conn[p] = "none"
    /\ \A i \in DOMAIN backlog : conn[backlog[i]] = "queued"
    /\ \A i, j \in DOMAIN backlog : backlog[i] = backlog[j] => i = j

\* The inductive invariant.
IInv ==
    /\ TypeOK
    /\ ActiveMatchesRegistry
    /\ NoOrphanChild
    /\ AnswersTheRequest
    /\ ConnectionsOwned
    /\ PhaseOK
    /\ ProcessesOK

\* An app keeps its active worker unless it was idle, its own call failed,
\* the worker itself went over to another app, or the core ended: what
\* happens to one app's worker is nothing to another's.
LossHasACause ==
    [][\A a \in Apps :
          IsActive(a) /\ ~IsActive(a)' =>
              \/ active[a].idle
              \/ serving = a
              \/ \E b \in Apps : active'[b].worker_id = active[a].worker_id
              \/ phase' = "down"]_vars

\* The design of replacement (docs/superpowers/specs/
\* 2026-06-12-worker-dispatch-design.md:266-273): the core terminates the old
\* child and stores the new worker.  So the worker just stored is alive.
ReplacementSparesTheNew ==
    [][\A a \in Apps :
          IsActive(a)' /\ active'[a].connection # active[a].connection =>
              proc'[active'[a].connection] = "running"]_vars

-----------------------------------------------------------------------------
(* Liveness *)

\* Whatever the core waits for, it gets back to its loop: no start and no
\* call holds it for ever as long as workers answer.
TheLoopResumes == []<>(phase \in {"idle", "down"})


-----------------------------------------------------------------------------
(* What the manager promises to the rest of the core. *)

StageOf == CASE phase \in {"idle", "reading"} -> "free"
             [] phase \in {"dispatching", "awaiting"} -> "calling"
             [] OTHER -> phase

Service == INSTANCE WorkerService
               WITH ready <- {a \in Apps : IsActive(a)},
                    stage <- StageOf,
                    app <- IF phase \in {"starting", "dispatching", "awaiting"}
                           THEN serving ELSE None

\* The manager implements the service.
ImplementsService == Service!ServiceSpec
=============================================================================
