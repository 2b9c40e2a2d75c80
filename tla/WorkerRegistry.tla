---------------------------- MODULE WorkerRegistry ----------------------------
(***************************************************************************)
(* The two indexes of registered workers (kunkka-core,                     *)
(* worker_registry.rs): by worker identifier and by app identifier.  The   *)
(* capabilities a worker announces are carried along by the code and read  *)
(* by nothing here; a registered worker is the app it registered for.      *)
(***************************************************************************)
CONSTANTS
    Apps,          \* AppId
    WorkerIds,     \* WorkerId; a worker the core starts bears the name of its app
    None           \* the None of an Option

ASSUME RegistryAssumption ==
    /\ Apps \subseteq WorkerIds
    /\ None \notin WorkerIds

VARIABLES
    workers,       \* BTreeMap<WorkerId, RegisteredWorker>
    app_workers    \* BTreeMap<AppId, WorkerId>

registryVars == <<workers, app_workers>>

RegistryTypeOK ==
    /\ workers \in [WorkerIds -> Apps \cup {None}]
    /\ app_workers \in [Apps -> WorkerIds \cup {None}]

RegistryInit ==
    /\ workers = [w \in WorkerIds |-> None]
    /\ app_workers = [a \in Apps |-> None]

-----------------------------------------------------------------------------
\* register without the removal of the worker's entry under its former app.
RegisterVariant(worker, app) ==
    /\ app_workers' = [app_workers EXCEPT ![app] = worker]
    /\ workers' = [w \in WorkerIds |->
                      CASE w = worker -> app
                        [] w # worker /\ w = app_workers[app] -> None
                        [] OTHER -> workers[w]]

\* register: a worker that changes its app leaves the old one, and the
\* worker it replaces is forgotten.
Register(worker, app) ==
    /\ app_workers' =
          [a \in Apps |->
              CASE a = app -> worker
                [] a # app /\ a = workers[worker] /\ app_workers[a] = worker -> None
                [] OTHER -> app_workers[a]]
    /\ workers' =
          [w \in WorkerIds |->
              CASE w = worker -> app
                [] w # worker /\ w = app_workers[app] -> None
                [] OTHER -> workers[w]]

\* remove_by_app_id, for each app of a set.
RemoveByAppId(S) ==
    /\ app_workers' = [a \in Apps |-> IF a \in S THEN None ELSE app_workers[a]]
    /\ workers' = [w \in WorkerIds |->
                      IF \E a \in S : app_workers[a] = w THEN None ELSE workers[w]]

-----------------------------------------------------------------------------
\* The indexes are each other's inverse: a lookup by app and a lookup by
\* worker never disagree.
RegistryConsistent ==
    \A a \in Apps, w \in WorkerIds : app_workers[a] = w <=> workers[w] = a
=============================================================================
