----------------------------- MODULE MCLiveness -----------------------------
(* The event loop over its worker service, and the worker manager that      *)
(* implements the service, each on an instance small enough for liveness.   *)
(* A behaviour moves one of them and leaves the other where it started.     *)
EXTENDS MCCoreRuntime

CONSTANTS notes, todo, p1, p2

VARIABLES
    part,
    workers, app_workers, active, next_request_id, peer, awaited, proc, spawned, hello,
    inbox, due, delivered,
    workerPhase, workerServing, workerConn, workerBacklog

Manager == INSTANCE WorkerManager
               WITH Apps <- {notes}, WorkerIds <- {notes, todo}, Manifested <- {notes},
                    Procs <- {p1, p2}, MaxRequests <- 2, MaxInbox <- 1,
                    phase <- workerPhase, serving <- workerServing,
                    conn <- workerConn, backlog <- workerBacklog

managerState ==
    <<workers, app_workers, active, next_request_id, peer, awaited, proc, spawned, hello,
      inbox, due, delivered, workerPhase, workerServing, workerConn, workerBacklog>>

LivenessInit ==
    /\ part \in {"core", "workers"}
    /\ Init
    /\ Manager!Init

LivenessNext ==
    \/ /\ part = "core" /\ Next
       /\ UNCHANGED <<part, managerState>>
    \/ /\ part = "workers" /\ Manager!Next
       /\ UNCHANGED <<part, vars>>

\* Nothing that is fair is enabled in the initial state of either part, so
\* that the part left there owes no step.
LivenessSpec ==
    /\ LivenessInit
    /\ [][LivenessNext]_<<part, vars, managerState>>
    /\ Fairness
    /\ Manager!Fairness

TheLoopResumes == Manager!TheLoopResumes
=============================================================================
